-------------------------- MODULE HistoryLogProofs --------------------------
(***************************************************************************)
(* What the append-only files keep, for any number of processes, appends   *)
(* and failures, any number of rows per append and any buffer that holds   *)
(* the header.                                                             *)
(***************************************************************************)
EXTENDS HistoryLog, FiniteSetTheorems, SequenceTheorems, NaturalsInduction, TLAPS

Line  == {Header} \cup (Nat \X Nat)
Piece == Line \X {1, 2}

TypeInv ==
    /\ format \in Format
    /\ exists \in BOOLEAN /\ file \in Seq(Piece)
    /\ pc \in [Writers -> {"idle", "tested", "open"}]
    /\ missing \in [Writers -> BOOLEAN] /\ out \in [Writers -> Seq(Piece)]
    /\ runs \in Nat /\ run \in [Writers -> Nat]
    /\ appended \in Seq(Nat \X Nat)
    /\ failures \in Nat /\ torn \in Nat /\ overlapped \in BOOLEAN

BusyInv == ~overlapped => \A v, w \in Writers : pc[v] # "idle" /\ pc[w] # "idle" => v = w

NobodyWrites == \A w \in Writers : pc[w] # "open"
OneWrite     == Buffer >= 2 * (RowsPerRun + 1)

\* An append that fits the buffer is in it as a whole until it is closed.
BufferInv == OneWrite => \A w \in Writers : pc[w] = "open" => out[w] = Text(run[w], missing[w])

Started(f) == Len(f) >= 2 /\ f[1] = <<Header, 1>> /\ f[2] = <<Header, 2>>

\* What HeaderOnTop asks of the past for the header to be first.
Untorn == IF HeaderTest = "exists" THEN failures = 0 /\ ~overlapped ELSE torn = 0

\* While the file is empty, whoever has it in hand will write the header first.
HeaderInv ==
    /\ failures = 0 => torn = 0
    /\ Untorn =>
          /\ file = <<>> \/ Started(file)
          /\ file = <<>> =>
                /\ \A w \in Writers : pc[w] # "idle" => missing[w]
                /\ \A w \in Writers : pc[w] = "open" => out[w] = Text(run[w], TRUE)
                /\ HeaderTest = "exists" /\ exists => ~NobodyWrites

\* One process at a time: the file, with what is still in its buffer, is the
\* header and the rows.
AloneInv ==
    failures = 0 /\ ~overlapped =>
        /\ NobodyWrites => /\ file = IF appended = <<>> THEN <<>> ELSE Lines(<<Header>> \o appended)
                           /\ exists = (appended # <<>>)
        /\ \A w \in Writers :
              /\ pc[w] = "open" => exists /\ file \o out[w] = Lines(<<Header>> \o (appended \o RowsOf(run[w])))
              /\ pc[w] = "tested" => missing[w] = (appended = <<>>)

\* The rows among some lines, the first of which is a header, are R.
RowsAmong(L, R) ==
    \/ L = <<>> /\ R = <<>>
    \/ /\ L # <<>> /\ L[1] = Header
       /\ \E place \in [1..Len(R) -> 2..Len(L)] :
             /\ \A j, k \in 1..Len(R) : j < k => place[j] < place[k]
             /\ \A i \in 2..Len(L) : L[i] # Header <=> \E k \in 1..Len(R) : place[k] = i
             /\ \A k \in 1..Len(R) : L[place[k]] = R[k]

LinesOf(f) == [k \in 1..(Len(f) \div 2) |-> f[2 * k][1]]

\* Several processes, one write per append: whole lines, the rows in order.
SharedInv ==
    failures = 0 /\ OneWrite /\ HeaderTest # "exists" =>
        file = Lines(LinesOf(file)) /\ RowsAmong(LinesOf(file), appended)

\* A second half follows its first half.
Paired(f)     == \A i \in DOMAIN f : f[i][2] = 2 => i > 1 /\ f[i - 1] = <<f[i][1], 1>>
TornPieces(f) == {i \in DOMAIN f : f[i][2] = 1 /\ ~(i < Len(f) /\ f[i + 1][2] = 2)}

\* No append breaks another's line apart, and the torn ones are counted.
LossInv ==
    OneWrite =>
        /\ Paired(file)
        /\ Cardinality(TornPieces(file)) <= torn
        /\ \A k \in DOMAIN appended : \E i \in DOMAIN file : file[i] = <<appended[k], 2>>

LogInv == TypeInv /\ BusyInv /\ BufferInv /\ HeaderInv /\ AloneInv /\ SharedInv /\ LossInv

-----------------------------------------------------------------------------
(* Texts: sequences of lines as sequences of pieces                         *)

LEMMA HalfOf ==
    ASSUME NEW n \in Nat, NEW k \in 1..(2 * n)
    PROVE  /\ (k + 1) \div 2 \in 1..n
           /\ k = 2 * ((k + 1) \div 2) - 1 \/ k = 2 * ((k + 1) \div 2)
           /\ k = 2 * ((k + 1) \div 2) - 1 => 2 - (k % 2) = 1
           /\ k = 2 * ((k + 1) \div 2) => 2 - (k % 2) = 2
OBVIOUS

LEMMA LinesAt ==
    ASSUME NEW L \in Seq(Line)
    PROVE  /\ Lines(L) \in Seq(Piece) /\ Len(Lines(L)) = 2 * Len(L)
           /\ \A k \in 1..Len(L) : Lines(L)[2 * k - 1] = <<L[k], 1>> /\ Lines(L)[2 * k] = <<L[k], 2>>
           /\ \A i \in 1..(2 * Len(L)) : \E k \in 1..Len(L) : i = 2 * k - 1 \/ i = 2 * k
<1>1. Len(L) \in Nat
  OBVIOUS
<1>2. \A i \in 1..(2 * Len(L)) : <<L[(i + 1) \div 2], 2 - (i % 2)>> \in Piece
  <2> TAKE i \in 1..(2 * Len(L))
  <2>1. (i + 1) \div 2 \in 1..Len(L) /\ 2 - (i % 2) \in {1, 2}
    BY <1>1, HalfOf
  <2>2. L[(i + 1) \div 2] \in Line
    BY <2>1
  <2> QED BY <2>1, <2>2 DEF Piece
<1>3. Lines(L) \in [1..(2 * Len(L)) -> Piece] /\ Lines(L) \in Seq(Piece) /\ Len(Lines(L)) = 2 * Len(L)
  BY <1>1, <1>2 DEF Lines
<1>4. ASSUME NEW k \in 1..Len(L)
      PROVE  Lines(L)[2 * k - 1] = <<L[k], 1>> /\ Lines(L)[2 * k] = <<L[k], 2>>
  <2>1. 2 * k - 1 \in 1..(2 * Len(L)) /\ 2 * k \in 1..(2 * Len(L))
    BY <1>1
  <2>2. /\ ((2 * k - 1) + 1) \div 2 = k /\ 2 - ((2 * k - 1) % 2) = 1
        /\ (2 * k + 1) \div 2 = k /\ 2 - ((2 * k) % 2) = 2
    BY <1>1
  <2> QED BY <2>1, <2>2 DEF Lines
<1>5. \A i \in 1..(2 * Len(L)) : \E k \in 1..Len(L) : i = 2 * k - 1 \/ i = 2 * k
  BY <1>1, HalfOf
<1> QED BY <1>3, <1>4, <1>5

LEMMA LinesConcat ==
    ASSUME NEW a \in Seq(Line), NEW b \in Seq(Line)
    PROVE  a \o b \in Seq(Line) /\ Lines(a \o b) = Lines(a) \o Lines(b)
<1>1. /\ a \o b \in Seq(Line) /\ Len(a \o b) = Len(a) + Len(b)
      /\ \A i \in 1..(Len(a) + Len(b)) : (a \o b)[i] = IF i <= Len(a) THEN a[i] ELSE b[i - Len(a)]
  BY ConcatProperties
<1>2. /\ Lines(a) \o Lines(b) \in Seq(Piece) /\ Len(Lines(a) \o Lines(b)) = 2 * Len(a) + 2 * Len(b)
      /\ \A i \in 1..(2 * Len(a) + 2 * Len(b)) :
            (Lines(a) \o Lines(b))[i] = IF i <= 2 * Len(a) THEN Lines(a)[i] ELSE Lines(b)[i - 2 * Len(a)]
  <2>1. Lines(a) \in Seq(Piece) /\ Lines(b) \in Seq(Piece) /\ Len(Lines(a)) = 2 * Len(a) /\ Len(Lines(b)) = 2 * Len(b)
    BY LinesAt
  <2> DEFINE s == Lines(a)
             t == Lines(b)
             m == 2 * Len(a)
             n == 2 * Len(b)
  <2>2. s \in Seq(Piece) /\ t \in Seq(Piece) /\ Len(s) = m /\ Len(t) = n
    BY <2>1
  <2> HIDE DEF s, t, m, n
  <2>3. /\ s \o t \in Seq(Piece) /\ Len(s \o t) = m + n
        /\ \A i \in 1..(m + n) : (s \o t)[i] = IF i <= m THEN s[i] ELSE t[i - m]
    BY <2>2, ConcatProperties
  <2> QED BY <2>3 DEF s, t, m, n
<1>3. Len(a) \in Nat /\ Len(b) \in Nat
  OBVIOUS
<1>4. /\ Lines(a \o b) \in Seq(Piece) /\ Len(Lines(a \o b)) = 2 * Len(a) + 2 * Len(b)
      /\ \A k \in 1..(Len(a) + Len(b)) : /\ Lines(a \o b)[2 * k - 1] = <<(a \o b)[k], 1>>
                                         /\ Lines(a \o b)[2 * k] = <<(a \o b)[k], 2>>
      /\ \A i \in 1..(2 * Len(a) + 2 * Len(b)) : \E k \in 1..(Len(a) + Len(b)) : i = 2 * k - 1 \/ i = 2 * k
  <2> DEFINE c == a \o b
             n == Len(a) + Len(b)
  <2>1. c \in Seq(Line) /\ Len(c) = n /\ n \in Nat /\ 2 * n = 2 * Len(a) + 2 * Len(b)
    BY <1>1, <1>3
  <2> HIDE DEF c, n
  <2>2. /\ Lines(c) \in Seq(Piece) /\ Len(Lines(c)) = 2 * n
        /\ \A k \in 1..n : Lines(c)[2 * k - 1] = <<c[k], 1>> /\ Lines(c)[2 * k] = <<c[k], 2>>
        /\ \A i \in 1..(2 * n) : \E k \in 1..n : i = 2 * k - 1 \/ i = 2 * k
    BY <2>1, LinesAt
  <2> QED BY <2>1, <2>2 DEF c, n
<1>5. ASSUME NEW i \in 1..(2 * Len(a) + 2 * Len(b))
      PROVE  Lines(a \o b)[i] = (Lines(a) \o Lines(b))[i]
  <2>1. PICK k \in 1..(Len(a) + Len(b)) : i = 2 * k - 1 \/ i = 2 * k
    BY <1>4
  <2>2. Lines(a \o b)[i] = <<(a \o b)[k], IF i = 2 * k THEN 2 ELSE 1>>
    BY <1>3, <1>4, <2>1
  <2>3. CASE k <= Len(a)
    <3>1. i <= 2 * Len(a) /\ k \in 1..Len(a) BY <1>3, <2>1, <2>3
    <3>2. Lines(a)[i] = <<a[k], IF i = 2 * k THEN 2 ELSE 1>> BY <2>1, <3>1, LinesAt
    <3> QED BY <1>1, <1>2, <2>2, <2>3, <3>1, <3>2
  <2>4. CASE ~(k <= Len(a))
    <3> DEFINE m == k - Len(a)
    <3>1. ~(i <= 2 * Len(a)) /\ m \in 1..Len(b) /\ (i - 2 * Len(a) = 2 * m - 1 \/ i - 2 * Len(a) = 2 * m)
          /\ (i = 2 * k <=> i - 2 * Len(a) = 2 * m)
      BY <1>3, <2>1, <2>4
    <3>2. Lines(b)[i - 2 * Len(a)] = <<b[m], IF i = 2 * k THEN 2 ELSE 1>>
      <4> HIDE DEF m
      <4> QED BY <3>1, LinesAt
    <3> QED BY <1>1, <1>2, <2>2, <2>4, <3>1, <3>2
  <2> QED BY <2>3, <2>4
<1>6. Lines(a \o b) = Lines(a) \o Lines(b)
  <2> DEFINE s == Lines(a \o b)
             t == Lines(a) \o Lines(b)
             n == 2 * Len(a) + 2 * Len(b)
  <2>1. s \in Seq(Piece) /\ t \in Seq(Piece) /\ Len(s) = n /\ Len(t) = n /\ \A i \in 1..n : s[i] = t[i]
    BY <1>2, <1>4, <1>5
  <2> HIDE DEF s, t, n
  <2>2. s = t BY <2>1, SeqEqual
  <2> QED BY <2>2 DEF s, t
<1> QED BY <1>1, <1>6

LEMMA LinesTwice == ASSUME NEW L \in Seq(Line) PROVE LinesOf(Lines(L)) = L
<1>1. Len(Lines(L)) \div 2 = Len(L) /\ Len(L) \in Nat
  BY LinesAt
<1>2. \A k \in 1..Len(L) : Lines(L)[2 * k][1] = L[k]
  BY LinesAt
<1>3. LinesOf(Lines(L)) = [k \in 1..Len(L) |-> L[k]]
  BY <1>1, <1>2 DEF LinesOf
<1> QED BY <1>3

-----------------------------------------------------------------------------
(* The reader                                                               *)

LEMMA LeastNat == ASSUME NEW T \in SUBSET Nat, T # {} PROVE \E n \in T : \A m \in T : n <= m
<1> DEFINE R == OpToRel(<, Nat)
<1>1. \E x \in T : \A y \in T : ~ (<<y, x>> \in R)
  BY NatLessThanWellFounded, WFMin
<1>2. R = {ss \in Nat \X Nat : ss[1] < ss[2]}
  BY DEF OpToRel
<1> HIDE DEF R
<1>3. \A x, y \in Nat : y < x => <<y, x>> \in R
  BY <1>2
<1>4. PICK n \in T : \A y \in T : <<y, n>> \notin R
  BY <1>1
<1>5. ASSUME NEW m \in T PROVE n <= m
  <2>1. ~ (m < n) BY <1>3, <1>4
  <2> QED BY <2>1
<1> QED BY <1>5

\* The line that ends at e, from its begin b.
LEMMA LineBetween ==
    ASSUME file \in Seq(Piece), NEW e \in Ends, NEW b \in Nat, 1 <= b, b <= e, b = 1 \/ b - 1 \in Ends,
           \A j \in Ends : j < b \/ e <= j
    PROVE  LineEndingAt(e) = SubSeq(file, b, e)
<1> DEFINE before == {j \in Ends : j < e}
           last   == CHOOSE j \in before : \A h \in before : h <= j
<1>1. (\A j \in Ends : j \in Nat /\ j # 0) /\ \A j : j \in before <=> j \in Ends /\ j < e
  BY DEF Ends
<1>2. LineEndingAt(e) = SubSeq(file, IF before = {} THEN 1 ELSE 1 + last, e)
  BY DEF LineEndingAt
<1> HIDE DEF before
<1>3. CASE b = 1
  <2>1. \A j \in before : FALSE BY <1>1, <1>3
  <2>2. before = {} BY <2>1
  <2> HIDE DEF last
  <2> QED BY <1>2, <1>3, <2>2
<1>4. CASE b # 1
  <2>1. b - 1 \in before /\ \A h \in before : h <= b - 1
    BY <1>1, <1>4
  <2>2. last \in before /\ \A h \in before : h <= last
    BY <2>1
  <2> HIDE DEF last
  <2>3. 1 + last = b
    BY <1>1, <2>1, <2>2
  <2> QED BY <1>2, <2>1, <2>3
<1> QED BY <1>3, <1>4

LEMMA Neighbours ==
    ASSUME NEW f \in Seq(Piece), NEW m \in Nat, NEW i \in Nat, 1 <= m, i = m + 1, i <= Len(f)
    PROVE  SubSeq(f, m, i) = <<f[m], f[i]>>
<1>1. /\ SubSeq(f, m, i) \in Seq(Piece) /\ Len(SubSeq(f, m, i)) = 2
      /\ SubSeq(f, m, i)[1] = f[m] /\ SubSeq(f, m, i)[2] = f[i]
  OBVIOUS
<1> HIDE DEF Piece
<1> DEFINE s == SubSeq(f, m, i)
           x == f[m]
           y == f[i]
<1>2. s \in Seq(Piece) /\ Len(s) = 2 /\ s[1] = x /\ s[2] = y
  BY <1>1
<1> HIDE DEF s, x, y
<1>3. s = <<x, y>>
  BY <1>2
<1> QED BY <1>3 DEF s, x, y

LEMMA TwoPieces ==
    ASSUME NEW f \in Seq(Piece), NEW m \in Nat, NEW i \in DOMAIN f, 1 <= m, i = m + 1, f[i][2] = 2, f[m] = <<f[i][1], 1>>
    PROVE  SubSeq(f, m, i) = Pieces(f[i][1])
<1>1. i \in Nat /\ i <= Len(f) /\ f[i] \in Piece
  OBVIOUS
<1>2. f[i] = <<f[i][1], 2>>
  BY <1>1 DEF Piece
<1>3. SubSeq(f, m, i) = <<f[m], f[i]>>
  BY <1>1, Neighbours
<1> QED BY <1>2, <1>3 DEF Pieces

LEMMA StartedHasHeader == ASSUME file \in Seq(Piece), Started(file) PROVE HeaderFirst
<1>1. file[1][2] = 1 /\ file[2][2] = 2 /\ 1 \in DOMAIN file /\ 2 \in DOMAIN file /\ file[2][1] = Header
  BY DEF Started
<1>2. 1 \notin Ends /\ 2 \in Ends /\ \A j \in Ends : j \in Nat /\ j # 0
  BY <1>1 DEF Ends, Started
<1> DEFINE first == CHOOSE i \in Ends : \A j \in Ends : i <= j
<1>3. \A j \in Ends : 2 <= j
  BY <1>2
<1> HIDE DEF first
<1>4. first = 2
  <2>1. first \in Ends /\ \A j \in Ends : first <= j
    BY <1>2, <1>3 DEF first
  <2> QED BY <1>2, <1>3, <2>1
<1>5. LineEndingAt(2) = SubSeq(file, 1, 2)
  <2>1. \A j \in Ends : j < 1 \/ 2 <= j
    BY <1>3
  <2>2. 1 \in Nat /\ 1 <= 1 /\ 1 <= 2
    OBVIOUS
  <2> QED BY <1>2, <2>1, <2>2, LineBetween
<1>6. SubSeq(file, 1, 2) = Pieces(Header)
  <2>1. 1 \in Nat /\ 1 <= 1 /\ 2 = 1 + 1 /\ file[1] = <<file[2][1], 1>>
    BY <1>1 DEF Started
  <2>2. SubSeq(file, 1, 2) = Pieces(file[2][1])
    BY <1>1, <2>1, TwoPieces
  <2> QED BY <1>1, <2>2
<1>7. FirstLine = LineEndingAt(2)
  BY <1>4 DEF FirstLine, first
<1> QED BY <1>5, <1>6, <1>7 DEF HeaderFirst

LEMMA HeaderIsStarted == ASSUME file \in Seq(Piece), HeaderFirst, file # <<>> PROVE Started(file)
<1>1. Len(file) \in Nat \ {0} /\ Len(file) \in Ends
      /\ Ends \subseteq Nat /\ \A j \in Ends : j \in 1..Len(file)
  BY EmptySeq DEF Ends
<1>2. PICK e \in Ends : \A j \in Ends : e <= j
  BY <1>1, LeastNat
<1> DEFINE first == CHOOSE i \in Ends : \A j \in Ends : i <= j
<1>3. first \in Ends /\ \A j \in Ends : first <= j
  BY <1>2
<1> HIDE DEF first
<1>4. first = e
  BY <1>1, <1>2, <1>3
<1>5. FirstLine = LineEndingAt(e)
  BY <1>4 DEF FirstLine, first
<1>6. LineEndingAt(e) = SubSeq(file, 1, e)
  <2>1. 1 \in Nat /\ 1 <= 1 /\ 1 <= e /\ \A j \in Ends : j < 1 \/ e <= j
    BY <1>1, <1>2
  <2> QED BY <2>1, LineBetween
<1>7. SubSeq(file, 1, e) = << <<Header, 1>>, <<Header, 2>> >>
  BY <1>5, <1>6 DEF HeaderFirst, Pieces
<1>8. Len(SubSeq(file, 1, e)) = e /\ \A i \in 1..e : SubSeq(file, 1, e)[i] = file[i]
  <2>1. \A i \in 1..e : file[i] \in Piece
    BY <1>1
  <2> QED BY <1>1, <2>1, SubSeqProperties
<1>9. e = 2
  BY <1>7, <1>8
<1> QED
  <2> DEFINE h == <<Header, 1>>
             l == <<Header, 2>>
             s == SubSeq(file, 1, e)
  <2>1. file[1] = s[1] /\ file[2] = s[2] /\ s = <<h, l>>
    BY <1>7, <1>8, <1>9
  <2> HIDE DEF h, l, s
  <2>2. file[1] = h /\ file[2] = l
    BY <2>1
  <2> QED BY <1>1, <1>9, <2>2 DEF Started, h, l

\* A line between two ends that is not a header is a row.
LEMMA RowParsed ==
    ASSUME file \in Seq(Piece), NEW i \in DOMAIN file, i > 2, file[i - 2][2] = 2,
           file[i - 1] = <<file[i][1], 1>>, file[i][2] = 2
    PROVE  /\ i \in Ends /\ LineEndingAt(i) = Pieces(file[i][1])
           /\ i \in Parsed <=> file[i][1] # Header
<1>1. i - 2 \in DOMAIN file /\ i - 1 \in DOMAIN file /\ i - 1 # Len(file) /\ i \in Nat
  OBVIOUS
<1>2. i \in Ends /\ i - 2 \in Ends /\ i - 1 \notin Ends /\ \A j \in Ends : j \in Nat
  BY <1>1 DEF Ends
<1>3. \A j \in Ends : j <= i - 2 \/ i <= j
  BY <1>1, <1>2
<1> DEFINE b == i - 1
<1>4. /\ b \in Nat /\ 1 <= b /\ b <= i /\ b - 1 \in Ends
      /\ i = b + 1 /\ file[b] = <<file[i][1], 1>>
      /\ \A j \in Ends : j < b \/ i <= j
  BY <1>1, <1>2, <1>3
<1> HIDE DEF b
<1>7. LineEndingAt(i) = SubSeq(file, b, i)
  BY <1>2, <1>4, LineBetween
<1>8. SubSeq(file, b, i) = Pieces(file[i][1])
  BY <1>4, TwoPieces
<1>5. LineEndingAt(i) = Pieces(file[i][1])
  BY <1>7, <1>8
<1>6. Pieces(file[i][1])[1][1] = file[i][1]
  BY DEF Pieces
<1> QED BY <1>2, <1>5, <1>6 DEF Parsed, Whole

Upto(S, i) == {j \in S : j <= i}

\* Every element is one of the first, second, ... of its set.
LEMMA NthOf ==
    ASSUME NEW S, S \subseteq Nat, IsFiniteSet(S), NEW i \in S
    PROVE  Cardinality(Upto(S, i)) \in 1..Cardinality(S) /\ Nth(S, Cardinality(Upto(S, i))) = i
<1>1. \A h \in S : /\ h \in Nat /\ IsFiniteSet(Upto(S, h)) /\ Cardinality(Upto(S, h)) \in Nat
                   /\ Cardinality(Upto(S, h)) <= Cardinality(S)
  <2> TAKE h \in S
  <2>1. Upto(S, h) \in SUBSET S
    BY DEF Upto
  <2> QED BY <2>1, FS_Subset, FS_CardinalityType
<1>2. Cardinality(Upto(S, i)) # 0
  <2>1. i \in Upto(S, i)
    BY <1>1 DEF Upto
  <2> QED BY <1>1, <2>1, FS_EmptySet
<1>3. ASSUME NEW g \in S, NEW h \in S, g < h
      PROVE  Cardinality(Upto(S, g)) # Cardinality(Upto(S, h))
  <2>1. g \in Nat /\ h \in Nat
    BY <1>1
  <2>2. \A j \in Upto(S, g) : j \in Upto(S, h)
    BY <1>1, <1>3, <2>1 DEF Upto
  <2>3. Upto(S, g) \in SUBSET Upto(S, h) /\ h \in Upto(S, h) /\ h \notin Upto(S, g)
    <3>1. Upto(S, g) \subseteq Upto(S, h) BY <2>2
    <3>2. h <= h /\ ~(h <= g) BY <1>3, <2>1
    <3> QED BY <3>1, <3>2 DEF Upto
  <2>4. IsFiniteSet(Upto(S, h))
    BY <1>1
  <2>5. Cardinality(Upto(S, h)) = Cardinality(Upto(S, g)) => Upto(S, h) = Upto(S, g)
    BY <2>3, <2>4, FS_Subset
  <2> QED BY <2>3, <2>5
<1>4. \A h \in S : Cardinality(Upto(S, h)) = Cardinality(Upto(S, i)) => h = i
  <2> TAKE h \in S
  <2>1. h \in Nat /\ i \in Nat BY <1>1
  <2>2. h < i \/ i < h \/ h = i BY <2>1
  <2> QED BY <1>3, <2>2
<1>5. Nth(S, Cardinality(Upto(S, i))) = CHOOSE h \in S : Cardinality(Upto(S, h)) = Cardinality(Upto(S, i))
  BY DEF Nth, Upto
<1>6. Nth(S, Cardinality(Upto(S, i))) = i
  BY <1>4, <1>5
<1>7. Cardinality(S) \in Nat
  BY FS_CardinalityType
<1> QED BY <1>1, <1>2, <1>6, <1>7

\* place lists the n elements of S from the least to the greatest.
Lists(place, n, S) ==
    /\ place \in [1..n -> S]
    /\ \A j, k \in 1..n : j < k => place[j] < place[k]
    /\ \A i \in S : \E k \in 1..n : place[k] = i

LEMMA NthPlace ==
    ASSUME NEW S, S \subseteq Nat, NEW n \in Nat, NEW place, Lists(place, n, S)
    PROVE  IsFiniteSet(S) /\ Cardinality(S) = n /\ \A k \in 1..n : Nth(S, k) = place[k]
<1>0. /\ place \in [1..n -> S]
      /\ \A j, k \in 1..n : j < k => place[j] < place[k]
      /\ \A i \in S : \E k \in 1..n : place[k] = i
  BY DEF Lists
<1>1. \A j, k \in 1..n : place[j] = place[k] => j = k
  <2> TAKE j, k \in 1..n
  <2>1. place[j] \in Nat /\ place[k] \in Nat
    BY <1>0
  <2>2. j < k \/ k < j \/ j = k
    OBVIOUS
  <2> QED BY <1>0, <2>1, <2>2
<1>2. ASSUME NEW T, T \subseteq S, NEW k \in 0..n, \A i : i \in T <=> \E j \in 1..k : place[j] = i
      PROVE  IsFiniteSet(T) /\ Cardinality(T) = k
  <2> DEFINE f == [j \in 1..k |-> place[j]]
  <2>1. \A j \in 1..k : j \in 1..n /\ place[j] \in T
    BY <1>2
  <2>2. f \in [1..k -> T] /\ \A j \in 1..k : f[j] = place[j]
    BY <2>1
  <2>3. \A j, m \in 1..k : f[j] = f[m] => j = m
    BY <1>1, <2>1, <2>2
  <2>4. \A i \in T : \E j \in 1..k : f[j] = i
    BY <1>2, <2>2
  <2> HIDE DEF f
  <2>5. f \in Bijection(1..k, T)
    BY <2>2, <2>3, <2>4 DEF Bijection, Injection, Surjection, IsInjective
  <2>6. IsFiniteSet(1..k) /\ Cardinality(1..k) = k
    BY FS_Interval
  <2>7. ExistsBijection(1..k, T)
    BY <2>5 DEF ExistsBijection
  <2> QED BY <2>6, <2>7, FS_Bijection
<1>3. IsFiniteSet(S) /\ Cardinality(S) = n
  <2>1. n \in 0..n
    OBVIOUS
  <2>2. \A i : i \in S <=> \E j \in 1..n : place[j] = i
    BY <1>0
  <2> QED BY <1>2, <2>1, <2>2
<1>4. ASSUME NEW k \in 1..n PROVE Nth(S, k) = place[k]
  <2>1. place[k] \in S /\ k \in 0..n
    BY <1>0
  <2>2. Upto(S, place[k]) \subseteq S /\ \A i : i \in Upto(S, place[k]) <=> i \in S /\ i <= place[k]
    BY DEF Upto
  <2>3. ASSUME NEW i PROVE i \in Upto(S, place[k]) <=> \E j \in 1..k : place[j] = i
    <3>1. ASSUME i \in Upto(S, place[k]) PROVE \E j \in 1..k : place[j] = i
      <4>1. i \in S /\ i <= place[k] BY <2>2, <3>1
      <4>2. PICK j \in 1..n : place[j] = i BY <1>0, <4>1
      <4>3. ~(k < j)
        <5>1. place[j] \in Nat /\ place[k] \in Nat BY <1>0, <2>1
        <5> QED BY <1>0, <4>1, <4>2, <5>1
      <4>4. j \in 1..k BY <4>3
      <4> QED BY <4>2, <4>4
    <3>2. ASSUME NEW j \in 1..k, place[j] = i PROVE i \in Upto(S, place[k])
      <4>1. j \in 1..n /\ (j < k \/ j = k) BY <3>2
      <4>2. place[j] \in Nat /\ place[k] \in Nat /\ place[j] \in S BY <1>0, <2>1, <4>1
      <4>3. place[j] <= place[k] BY <1>0, <4>1, <4>2
      <4> QED BY <2>2, <3>2, <4>2, <4>3
    <3> QED BY <3>1, <3>2
  <2> DEFINE T == Upto(S, place[k])
  <2>4. T \subseteq S /\ \A i : i \in T <=> \E j \in 1..k : place[j] = i
    BY <2>2, <2>3
  <2> HIDE DEF T
  <2>5. Cardinality(T) = k
    BY <1>2, <2>1, <2>4
  <2>6. Nth(S, Cardinality(Upto(S, place[k]))) = place[k]
    BY <1>3, <2>1, NthOf
  <2> QED BY <2>5, <2>6 DEF T
<1> QED BY <1>3, <1>4

LEMMA LinesParsed ==
    ASSUME NEW L \in Seq(Line), file = Lines(L), NEW i
    PROVE  i \in Parsed <=> \E k \in 2..Len(L) : i = 2 * k /\ L[k] # Header
<1>1. /\ file \in Seq(Piece) /\ Len(file) = 2 * Len(L) /\ Len(L) \in Nat /\ DOMAIN file = 1..(2 * Len(L))
      /\ \A k \in 1..Len(L) : file[2 * k - 1] = <<L[k], 1>> /\ file[2 * k] = <<L[k], 2>>
  BY LinesAt
<1>2. ASSUME NEW k \in 2..Len(L), i = 2 * k
      PROVE  i \in Parsed <=> L[k] # Header
  <2>1. k - 1 \in 1..Len(L) /\ k \in 1..Len(L) /\ i - 2 = 2 * (k - 1) /\ i - 1 = 2 * k - 1 /\ i \in DOMAIN file /\ i > 2
    BY <1>1, <1>2
  <2>2. file[i - 2][2] = 2 /\ file[i - 1] = <<L[k], 1>> /\ file[i] = <<L[k], 2>>
    <3>1. file[2 * (k - 1)] = <<L[k - 1], 2>> /\ file[2 * k - 1] = <<L[k], 1>> /\ file[2 * k] = <<L[k], 2>>
      BY <1>1, <2>1
    <3> QED BY <1>2, <2>1, <3>1
  <2>3. file[i][1] = L[k] /\ file[i][2] = 2
    BY <2>2
  <2> QED BY <1>1, <2>1, <2>2, <2>3, RowParsed
<1>3. ASSUME i \in Parsed PROVE \E k \in 2..Len(L) : i = 2 * k
  <2>1. i \in DOMAIN file /\ i > 2 /\ (file[i][2] = 2 \/ i = Len(file))
    BY <1>3 DEF Parsed, Ends
  <2>2. PICK k \in 1..Len(L) : i = 2 * k - 1 \/ i = 2 * k
    BY <1>1, <2>1, LinesAt
  <2>3. i # 2 * k - 1
    BY <1>1, <2>1, <2>2
  <2> QED BY <2>1, <2>2, <2>3
<1> QED BY <1>2, <1>3

\* Whole lines under one header, and the reader returns their rows.
LEMMA RowsOfLines ==
    ASSUME NEW L \in Seq(Line), NEW R \in Seq(Nat \X Nat), file = Lines(L), RowsAmong(L, R)
    PROVE  Rows = R
<1>1. /\ file \in Seq(Piece) /\ Len(file) = 2 * Len(L) /\ Len(L) \in Nat
      /\ \A k \in 1..Len(L) : file[2 * k - 1] = <<L[k], 1>> /\ file[2 * k] = <<L[k], 2>>
  BY LinesAt
<1>2. CASE L = <<>>
  <2>1. R = <<>> BY <1>2 DEF RowsAmong
  <2>2. file = <<>> BY <1>1, <1>2
  <2> QED BY <2>1, <2>2 DEF Rows
<1>3. CASE L # <<>>
  <2> DEFINE n == Len(R)
  <2>1. L[1] = Header /\ n \in Nat
    BY <1>3 DEF RowsAmong
  <2>2. PICK place \in [1..n -> 2..Len(L)] :
             /\ \A j, k \in 1..n : j < k => place[j] < place[k]
             /\ \A i \in 2..Len(L) : L[i] # Header <=> \E k \in 1..n : place[k] = i
             /\ \A k \in 1..n : L[place[k]] = R[k]
    BY <1>3 DEF RowsAmong
  <2>3. Len(L) >= 1 /\ 1 \in 1..Len(L)
    BY <1>1, <1>3
  <2>4. file # <<>> /\ HeaderFirst
    <3>1. file[2 * 1 - 1] = <<L[1], 1>> /\ file[2 * 1] = <<L[1], 2>>
      BY <1>1, <2>3
    <3>2. Started(file)
      BY <1>1, <2>1, <2>3, <3>1 DEF Started
    <3>3. file # <<>>
      BY <1>1, <2>3
    <3> QED BY <1>1, <3>2, <3>3, StartedHasHeader
  <2> DEFINE at == [k \in 1..n |-> 2 * place[k]]
  <2>5. \A k \in 1..n : place[k] \in 2..Len(L) /\ place[k] \in Nat /\ at[k] = 2 * place[k]
    <3>1. \A k \in 1..n : place[k] \in 2..Len(L) BY <2>1
    <3>2. \A k \in 2..Len(L) : k \in Nat BY <1>1
    <3> QED BY <3>1, <3>2
  <2>6. at \in [1..n -> Parsed]
    <3>1. \A k \in 1..n : 2 * place[k] \in Parsed
      <4> TAKE k \in 1..n
      <4>1. L[place[k]] # Header BY <2>2, <2>5
      <4> QED BY <2>5, <4>1, LinesParsed
    <3> QED BY <3>1
  <2>7. \A j, k \in 1..n : j < k => at[j] < at[k]
    <3> TAKE j, k \in 1..n
    <3>1. place[j] \in Nat /\ place[k] \in Nat /\ (j < k => place[j] < place[k]) BY <2>2, <2>5
    <3> QED BY <2>5, <3>1
  <2>8. \A i \in Parsed : \E k \in 1..n : at[k] = i
    <3> TAKE i \in Parsed
    <3>1. PICK m \in 2..Len(L) : i = 2 * m /\ L[m] # Header BY LinesParsed
    <3>2. PICK k \in 1..n : place[k] = m BY <2>2, <3>1
    <3> QED BY <2>5, <3>1, <3>2
  <2>9. Parsed \subseteq Nat
    <3>1. \A i \in Ends : i \in Nat BY <1>1 DEF Ends
    <3>2. \A i \in Parsed : i \in Ends BY DEF Parsed
    <3> QED BY <3>1, <3>2
  <2> HIDE DEF at, n
  <2>10. Cardinality(Parsed) = n /\ \A k \in 1..n : Nth(Parsed, k) = at[k]
    <3>1. PICK S : S = Parsed
      OBVIOUS
    <3>2. S \subseteq Nat /\ Lists(at, n, S)
      BY <2>6, <2>7, <2>8, <2>9, <3>1 DEF Lists
    <3>3. Cardinality(S) = n /\ \A k \in 1..n : Nth(S, k) = at[k]
      BY <2>1, <3>2, NthPlace
    <3> QED BY <3>1, <3>3
  <2>11. \A k \in 1..n : file[at[k]][1] = R[k]
    <3> TAKE k \in 1..n
    <3>1. file[2 * place[k]] = <<L[place[k]], 2>>
      <4>1. place[k] \in 1..Len(L) BY <2>5
      <4> QED BY <1>1, <4>1
    <3> QED BY <2>2, <2>5, <3>1
  <2>12. Rows = [k \in 1..n |-> file[Nth(Parsed, k)][1]]
    BY <2>4, <2>10 DEF Rows
  <2>13. Rows = [k \in 1..n |-> R[k]]
    BY <2>10, <2>11, <2>12
  <2> QED BY <2>13 DEF n
<1> QED BY <1>2, <1>3

LEMMA LastRows ==
    ASSUME NEW R \in Seq(Nat \X Nat), Rows = R, NEW n \in 1..3
    PROVE  ReadLast(n) = SubSeq(R, IF n < Len(R) THEN Len(R) - n + 1 ELSE 1, Len(R))
<1>1. Len(R) \in Nat /\ n \in Nat /\ ~(n <= 0)
  OBVIOUS
<1>2. CASE n >= Len(R)
  <2>1. ReadLast(n) = R
    BY <1>1, <1>2 DEF ReadLast
  <2>2. SubSeq(R, 1, Len(R)) = R /\ ~(n < Len(R))
    BY <1>1, <1>2, SubSeqFull
  <2> QED BY <2>1, <2>2
<1>3. CASE ~(n >= Len(R))
  <2>1. n < Len(R)
    BY <1>1, <1>3
  <2> QED BY <1>1, <1>3, <2>1 DEF ReadLast
<1> QED BY <1>2, <1>3

-----------------------------------------------------------------------------
(* What an append writes                                                    *)

LEMMA RowsTyped ==
    ASSUME TypeInv, NEW n \in Nat
    PROVE  /\ RowsPerRun \in Nat \ {0} /\ Buffer \in Nat /\ Buffer >= 2
           /\ RowsOf(n) \in Seq(Nat \X Nat) /\ RowsOf(n) \in Seq(Line) /\ Len(RowsOf(n)) = RowsPerRun
           /\ <<Header>> \in Seq(Line) /\ <<>> \in Seq(Line)
<1>1. RowsPerRun \in Nat \ {0} /\ Buffer \in Nat /\ Buffer >= 2
  BY DEF TypeInv, Format, RowsPerRun, Buffer
<1>2. \A i \in 1..RowsPerRun : Row(n, i) \in Nat \X Nat
  BY <1>1 DEF Row
<1>3. RowsOf(n) \in Seq(Nat \X Nat) /\ Len(RowsOf(n)) = RowsPerRun
  BY <1>1, <1>2 DEF RowsOf
<1>4. RowsOf(n) \in Seq(Line)
  BY <1>3, SeqMonotonic DEF Line
<1>5. <<Header>> \in Seq(Line) /\ <<>> \in Seq(Line)
  BY DEF Line
<1> QED BY <1>1, <1>3, <1>4, <1>5

LEMMA RowIsNoHeader == ASSUME NEW r \in Nat \X Nat PROVE r # Header
BY DEF Header

LinesFor(n, first) == (IF first THEN <<Header>> ELSE <<>>) \o RowsOf(n)

LEMMA TextTyped ==
    ASSUME TypeInv, NEW n \in Nat, NEW b \in BOOLEAN
    PROVE  /\ Text(n, b) = Lines(LinesFor(n, b)) /\ LinesFor(n, b) \in Seq(Line)
           /\ LinesFor(n, b) = IF b THEN <<Header>> \o RowsOf(n) ELSE RowsOf(n)
           /\ Text(n, b) \in Seq(Piece) /\ Len(Text(n, b)) = 2 * (RowsPerRun + (IF b THEN 1 ELSE 0))
           /\ Len(Text(n, b)) >= 2 /\ (b => Started(Text(n, b)))
<1> DEFINE s == IF b THEN <<Header>> ELSE <<>>
           r == RowsOf(n)
<1>1. s \in Seq(Line) /\ r \in Seq(Line) /\ r \in Seq(Nat \X Nat) /\ Len(r) = RowsPerRun /\ RowsPerRun \in Nat \ {0}
      /\ Len(s) = IF b THEN 1 ELSE 0
  BY RowsTyped
<1>2. /\ s \o r \in Seq(Line) /\ Len(s \o r) = Len(s) + Len(r)
      /\ (b => (s \o r)[1] = Header) /\ (~b => s \o r = r)
  <2>1. b => s[1] = Header
    OBVIOUS
  <2>2. ~b => s = <<>>
    OBVIOUS
  <2> HIDE DEF s, r
  <2>3. s \o r \in Seq(Line) /\ Len(s \o r) = Len(s) + Len(r)
        /\ \A i \in 1..(Len(s) + Len(r)) : (s \o r)[i] = IF i <= Len(s) THEN s[i] ELSE r[i - Len(s)]
    BY <1>1, ConcatProperties
  <2>4. b => (s \o r)[1] = Header
    BY <1>1, <2>1, <2>3
  <2>5. <<>> \o r = r
    BY <1>1, ConcatEmptySeq
  <2> QED BY <2>2, <2>3, <2>4, <2>5
<1>3. LinesFor(n, b) = s \o r /\ Text(n, b) = Lines(s \o r)
  BY DEF LinesFor, Text
<1>4. LinesFor(n, b) = IF b THEN <<Header>> \o RowsOf(n) ELSE RowsOf(n)
  BY <1>2, <1>3
<1> DEFINE L == s \o r
<1>5. L \in Seq(Line) /\ Len(L) = RowsPerRun + (IF b THEN 1 ELSE 0) /\ (b => L[1] = Header)
  BY <1>1, <1>2
<1> HIDE DEF L, s, r
<1>6. /\ Lines(L) \in Seq(Piece) /\ Len(Lines(L)) = 2 * Len(L) /\ Len(L) \in Nat
      /\ \A k \in 1..Len(L) : Lines(L)[2 * k - 1] = <<L[k], 1>> /\ Lines(L)[2 * k] = <<L[k], 2>>
  BY <1>5, LinesAt, SMTT(30)
<1>7. Len(L) >= 1
  BY <1>1, <1>5
<1>8. b => Started(Lines(L))
  <2>1. 1 \in 1..Len(L) BY <1>6, <1>7
  <2>2. Lines(L)[2 * 1 - 1] = <<L[1], 1>> /\ Lines(L)[2 * 1] = <<L[1], 2>> BY <1>6, <2>1
  <2> QED BY <1>5, <1>6, <1>7, <2>2 DEF Started
<1> QED BY <1>3, <1>4, <1>5, <1>6, <1>7, <1>8 DEF L

\* The format is chosen once.
LEMMA FormatFrame ==
    ASSUME format' = format
    PROVE  /\ HeaderTest' = HeaderTest /\ RowsPerRun' = RowsPerRun /\ Buffer' = Buffer /\ OneWrite' = OneWrite
           /\ \A n : RowsOf(n)' = RowsOf(n)
           /\ \A n, b : Text(n, b)' = Text(n, b)
BY DEF HeaderTest, RowsPerRun, Buffer, OneWrite, RowsOf, Text

LEMMA TypeInit == Init => TypeInv
<1> SUFFICES ASSUME Init PROVE TypeInv
  OBVIOUS
<1>1. format \in Format /\ <<>> \in Seq(Piece) /\ <<>> \in Seq(Nat \X Nat)
  BY LogAssumption, EmptySeq DEF Init
<1> HIDE DEF Piece
<1>2. pc \in [Writers -> {"idle", "tested", "open"}] /\ missing \in [Writers -> BOOLEAN]
      /\ out \in [Writers -> Seq(Piece)] /\ run \in [Writers -> Nat]
  BY <1>1 DEF Init
<1> QED BY <1>1, <1>2 DEF Init, TypeInv

LEMMA TypeStep == ASSUME TypeInv, [Next]_vars PROVE TypeInv'
<1> USE DEF TypeInv
<1>0. HeaderMissing \in BOOLEAN /\ \A w \in Writers : (overlapped \/ Busy(w)) \in BOOLEAN
  BY DEF HeaderMissing, Busy
<1>1. ASSUME NEW w \in Writers, Test(w) PROVE TypeInv'
  BY <1>0, <1>1 DEF Test, Start
<1>2. ASSUME NEW w \in Writers, Open(w) PROVE TypeInv'
  <2>1. run' \in [Writers -> Nat] /\ runs' \in Nat /\ missing' \in [Writers -> BOOLEAN] /\ overlapped' \in BOOLEAN
    <3>1. CASE HeaderTest = "tell"
      <4>1. /\ missing' = [missing EXCEPT ![w] = HeaderMissing] /\ overlapped' = (overlapped \/ Busy(w))
            /\ runs' = runs + 1 /\ run' = [run EXCEPT ![w] = runs + 1]
        BY <1>2, <3>1 DEF Open, Start
      <4>2. overlapped' \in BOOLEAN
        BY <1>0, <4>1, Zenon
      <4> QED BY <1>0, <4>1, <4>2
    <3>2. CASE HeaderTest # "tell"
      BY <1>2, <3>2 DEF Open
    <3> QED BY <3>1, <3>2
  <2>2. /\ out' = [out EXCEPT ![w] = Text(run'[w], missing'[w])] /\ exists' = TRUE /\ pc' = [pc EXCEPT ![w] = "open"]
        /\ UNCHANGED <<format, file, appended, failures, torn>>
    BY <1>2 DEF Open
  <2>3. Text(run'[w], missing'[w]) \in Seq(Piece)
    BY <2>1, TextTyped
  <2> QED BY <2>1, <2>2, <2>3
<1>3. ASSUME NEW w \in Writers, Flush(w) PROVE TypeInv'
  <2>1. out[w] \in Seq(Piece) /\ Buffer \in Nat /\ Len(out[w]) > Buffer
    BY <1>3, RowsTyped DEF Flush, Format, Buffer
  <2>2. SubSeq(out[w], 1, Buffer) \in Seq(Piece) /\ SubSeq(out[w], Buffer + 1, Len(out[w])) \in Seq(Piece)
    BY <2>1
  <2> QED BY <1>3, <2>2 DEF Flush
<1>4. ASSUME NEW w \in Writers, Close(w) PROVE TypeInv'
  <2>1. RowsOf(run[w]) \in Seq(Nat \X Nat)
    BY RowsTyped
  <2>2. appended \o RowsOf(run[w]) \in Seq(Nat \X Nat) /\ file \o out[w] \in Seq(Piece)
    BY <2>1, ConcatProperties
  <2>3. <<>> \in Seq(Piece)
    OBVIOUS
  <2> QED BY <1>4, <2>2, <2>3 DEF Close
<1>5. ASSUME NEW w \in Writers, Fail(w) PROVE TypeInv'
  <2>1. PICK k \in 0..(Len(out[w]) - 1) : file' = file \o SubSeq(out[w], 1, k)
    BY <1>5 DEF Fail
  <2>2. SubSeq(out[w], 1, k) \in Seq(Piece) /\ <<>> \in Seq(Piece)
    BY <2>1
  <2>3. file' \in Seq(Piece)
    BY <2>1, <2>2, ConcatProperties
  <2> QED BY <1>5, <2>2, <2>3 DEF Fail
<1>6. CASE UNCHANGED vars
  BY <1>6 DEF vars
<1> QED BY <1>1, <1>2, <1>3, <1>4, <1>5, <1>6 DEF Next

\* Until somebody starts while another is busy, at most one process is.
LEMMA BusyStep == ASSUME TypeInv, BusyInv, [Next]_vars PROVE BusyInv'
<1> USE DEF TypeInv
<1>1. ASSUME NEW w \in Writers, pc[w] = "idle", NEW p \in {"tested", "open"}, pc' = [pc EXCEPT ![w] = p],
             overlapped' = (overlapped \/ Busy(w))
      PROVE  BusyInv'
  <2>1. SUFFICES ASSUME ~overlapped', NEW u \in Writers, NEW v \in Writers, pc'[u] # "idle", pc'[v] # "idle" PROVE u = v
    BY DEF BusyInv
  <2>2. \A x \in Writers : pc'[x] # "idle" => x = w
    BY <1>1, <2>1 DEF Busy
  <2> QED BY <2>1, <2>2
<1>2. ASSUME NEW w \in Writers, NEW p \in {"idle", "tested", "open"}, pc[w] # "idle", pc' = [pc EXCEPT ![w] = p],
             overlapped' = overlapped
      PROVE  BusyInv'
  BY <1>2 DEF BusyInv
<1>3. ASSUME NEW w \in Writers, Test(w) PROVE BusyInv'
  BY <1>1, <1>3 DEF Test
<1>4. ASSUME NEW w \in Writers, Open(w) PROVE BusyInv'
  <2>1. CASE HeaderTest = "tell"
    BY <1>1, <1>4, <2>1 DEF Open
  <2>2. CASE HeaderTest # "tell"
    BY <1>2, <1>4, <2>2 DEF Open
  <2> QED BY <2>1, <2>2
<1>5. ASSUME NEW w \in Writers, Flush(w) PROVE BusyInv'
  BY <1>5 DEF Flush, BusyInv
<1>6. ASSUME NEW w \in Writers, Close(w) PROVE BusyInv'
  BY <1>2, <1>6 DEF Close
<1>7. ASSUME NEW w \in Writers, Fail(w) PROVE BusyInv'
  BY <1>2, <1>7 DEF Fail
<1>8. CASE UNCHANGED vars
  BY <1>8 DEF vars, BusyInv
<1> QED BY <1>3, <1>4, <1>5, <1>6, <1>7, <1>8 DEF Next

LEMMA BufferStep == ASSUME TypeInv, BufferInv, [Next]_vars PROVE BufferInv'
<1> USE DEF TypeInv
<1>1. format' = format
  BY DEF Next, Test, Open, Flush, Close, Fail, vars
<1>2. OneWrite' = OneWrite /\ \A n, b : Text(n, b)' = Text(n, b)
  BY <1>1, FormatFrame
<1>3. SUFFICES ASSUME OneWrite PROVE \A v \in Writers : pc'[v] = "open" => out'[v] = Text(run'[v], missing'[v])
  BY <1>2 DEF BufferInv
<1>4. \A v \in Writers : pc[v] = "open" => out[v] = Text(run[v], missing[v])
  BY <1>3 DEF BufferInv
<1>5. ASSUME NEW w \in Writers, Test(w)
      PROVE  \A v \in Writers : pc'[v] = "open" => out'[v] = Text(run'[v], missing'[v])
  BY <1>4, <1>5 DEF Test, Start
<1>6. ASSUME NEW w \in Writers, Open(w)
      PROVE  \A v \in Writers : pc'[v] = "open" => out'[v] = Text(run'[v], missing'[v])
  <2>1. out' = [out EXCEPT ![w] = Text(run'[w], missing'[w])] /\ pc' = [pc EXCEPT ![w] = "open"]
    BY <1>6 DEF Open
  <2>2. \A v \in Writers \ {w} : run'[v] = run[v] /\ missing'[v] = missing[v]
    <3>1. CASE HeaderTest = "tell"
      BY <1>6, <3>1 DEF Open, Start
    <3>2. CASE HeaderTest # "tell"
      BY <1>6, <3>2 DEF Open
    <3> QED BY <3>1, <3>2
  <2> QED BY <1>4, <2>1, <2>2
<1>7. ASSUME NEW w \in Writers, Flush(w) PROVE FALSE
  <2>1. pc[w] = "open" /\ Len(out[w]) > Buffer
    BY <1>7 DEF Flush
  <2>2. Len(Text(run[w], missing[w])) = 2 * (RowsPerRun + (IF missing[w] THEN 1 ELSE 0))
    BY TextTyped
  <2>3. RowsPerRun \in Nat /\ Buffer \in Nat
    BY RowsTyped
  <2> QED BY <1>3, <1>4, <2>1, <2>2, <2>3 DEF OneWrite
<1>8. ASSUME NEW w \in Writers, Close(w)
      PROVE  \A v \in Writers : pc'[v] = "open" => out'[v] = Text(run'[v], missing'[v])
  BY <1>4, <1>8 DEF Close
<1>9. ASSUME NEW w \in Writers, Fail(w)
      PROVE  \A v \in Writers : pc'[v] = "open" => out'[v] = Text(run'[v], missing'[v])
  BY <1>4, <1>9 DEF Fail
<1>10. CASE UNCHANGED vars
  BY <1>4, <1>10 DEF vars
<1> QED BY <1>5, <1>6, <1>7, <1>8, <1>9, <1>10 DEF Next

LEMMA StartedGrows ==
    ASSUME NEW f \in Seq(Piece), NEW g \in Seq(Piece), Started(f) \/ (f = <<>> /\ Started(g))
    PROVE  Started(f \o g) /\ f \o g # <<>>
<1>1. CASE Started(f)
  <2>1. Len(f) \in Nat /\ Len(f) >= 2 /\ f[1] = <<Header, 1>> /\ f[2] = <<Header, 2>>
    BY <1>1 DEF Started
  <2> HIDE DEF Piece
  <2>2. Len(f \o g) >= 2 /\ (f \o g)[1] = f[1] /\ (f \o g)[2] = f[2]
    BY <2>1
  <2> QED BY <2>1, <2>2 DEF Started
<1>2. CASE f = <<>> /\ Started(g)
  <2>1. f \o g = g
    BY <1>2, ConcatEmptySeq
  <2> QED BY <1>2, <2>1 DEF Started
<1> QED BY <1>1, <1>2

LEMMA StartedPrefix ==
    ASSUME NEW t \in Seq(Piece), Started(t), NEW k \in Nat, 2 <= k, k <= Len(t)
    PROVE  SubSeq(t, 1, k) \in Seq(Piece) /\ Started(SubSeq(t, 1, k))
<1>1. Len(t) \in Nat /\ t[1] = <<Header, 1>> /\ t[2] = <<Header, 2>>
  BY DEF Started
<1> HIDE DEF Piece
<1>2. /\ SubSeq(t, 1, k) \in Seq(Piece) /\ Len(SubSeq(t, 1, k)) = k
      /\ SubSeq(t, 1, k)[1] = t[1] /\ SubSeq(t, 1, k)[2] = t[2]
  BY <1>1, SMTT(30)
<1> QED BY <1>1, <1>2 DEF Started

LEMMA FirstOf ==
    ASSUME NEW t \in Seq(Piece), Started(t)
    PROVE  Len(SubSeq(t, 1, 1)) = 1 /\ SubSeq(t, 1, 1)[1] = <<Header, 1>> /\ SubSeq(t, 1, 1) # <<>>
<1>1. Len(t) \in Nat /\ Len(t) >= 2 /\ t[1] = <<Header, 1>>
  BY DEF Started
<1> HIDE DEF Piece
<1> QED BY <1>1, SMTT(30)

LEMMA TitleStarts == ASSUME TypeInv, NEW w \in Writers, out[w] = Text(run[w], TRUE) PROVE Started(out[w])
<1>1. PICK n \in Nat : n = run[w]
  BY DEF TypeInv
<1>2. Started(Text(n, TRUE))
  BY TextTyped
<1> QED BY <1>1, <1>2

LEMMA HeaderStep == ASSUME TypeInv, HeaderInv, [Next]_vars PROVE HeaderInv'
<1> USE DEF TypeInv
<1>1. format' = format /\ HeaderTest' = HeaderTest /\ RowsPerRun' = RowsPerRun /\ \A n, b : Text(n, b)' = Text(n, b)
  <2>1. format' = format
    BY DEF Next, Test, Open, Flush, Close, Fail, vars
  <2> QED BY <2>1, FormatFrame
<1>0. /\ failures' = 0 => failures = 0
      /\ overlapped => overlapped'
      /\ torn' = torn \/ (torn' = torn + 1 /\ failures' # 0)
  <2>1. ASSUME NEW w \in Writers, Fail(w) PROVE failures' = failures + 1 /\ torn' \in {torn, torn + 1}
    BY <2>1 DEF Fail
  <2>2. ASSUME NEW w \in Writers, Fail(w) PROVE overlapped' = overlapped
    BY <2>2 DEF Fail
  <2>3. ASSUME NEW w \in Writers, Test(w) \/ Open(w) \/ Flush(w) \/ Close(w)
        PROVE  failures' = failures /\ torn' = torn /\ (overlapped => overlapped')
    BY <2>3 DEF Test, Open, Flush, Close
  <2>4. CASE UNCHANGED vars
    BY <2>4 DEF vars
  <2> QED BY <2>1, <2>2, <2>3, <2>4 DEF Next
<1>2. Untorn' => Untorn
  BY <1>0, <1>1 DEF Untorn
<1>a. failures' = 0 => torn' = 0
  BY <1>0 DEF HeaderInv
<1>3. SUFFICES ASSUME Untorn'
               PROVE  /\ file' = <<>> \/ Started(file')
                      /\ file' = <<>> => /\ \A v \in Writers : pc'[v] # "idle" => missing'[v]
                                         /\ \A v \in Writers : pc'[v] = "open" => out'[v] = Text(run'[v], TRUE)
                                         /\ HeaderTest = "exists" /\ exists' => \E v \in Writers : pc'[v] = "open"
  BY <1>1, <1>a DEF HeaderInv, Untorn, Started, NobodyWrites
<1>4. /\ file = <<>> \/ Started(file)
      /\ file = <<>> => /\ \A v \in Writers : pc[v] # "idle" => missing[v]
                        /\ \A v \in Writers : pc[v] = "open" => out[v] = Text(run[v], TRUE)
                        /\ HeaderTest = "exists" /\ exists => \E v \in Writers : pc[v] = "open"
  BY <1>2, <1>3 DEF HeaderInv, Untorn, NobodyWrites
<1> DEFINE Goal == /\ file' = <<>> \/ Started(file')
                   /\ file' = <<>> => /\ \A v \in Writers : pc'[v] # "idle" => missing'[v]
                                      /\ \A v \in Writers : pc'[v] = "open" => out'[v] = Text(run'[v], TRUE)
                                      /\ HeaderTest = "exists" /\ exists' => \E v \in Writers : pc'[v] = "open"
<1>5. ASSUME NEW w \in Writers, Test(w) PROVE Goal
  <2>1. /\ pc[w] = "idle" /\ HeaderTest \in {"size", "exists"}
        /\ missing' = [missing EXCEPT ![w] = HeaderMissing] /\ pc' = [pc EXCEPT ![w] = "tested"]
        /\ overlapped' = (overlapped \/ Busy(w)) /\ run' = [run EXCEPT ![w] = runs + 1]
        /\ UNCHANGED <<exists, file, out>>
    BY <1>5 DEF Test, Start, HeaderTest, Format
  <2>2. file = <<>> => HeaderMissing
    <3>1. CASE HeaderTest = "size"
      BY <3>1 DEF HeaderMissing
    <3>2. CASE HeaderTest = "exists"
      <4>1. ~Busy(w)
        BY <1>1, <1>3, <2>1, <3>2 DEF Untorn
      <4>2. \A v \in Writers : pc[v] # "open"
        BY <2>1, <4>1 DEF Busy
      <4> QED BY <1>4, <3>2, <4>2 DEF HeaderMissing
    <3> QED BY <2>1, <3>1, <3>2
  <2> QED BY <1>4, <2>1, <2>2
<1>6. ASSUME NEW w \in Writers, Open(w) PROVE Goal
  <2>1. /\ out' = [out EXCEPT ![w] = Text(run'[w], missing'[w])] /\ pc' = [pc EXCEPT ![w] = "open"]
        /\ file' = file
    BY <1>6 DEF Open
  <2>2. /\ \A v \in Writers \ {w} : run'[v] = run[v] /\ missing'[v] = missing[v]
        /\ file = <<>> => missing'[w] = TRUE
    <3>1. CASE HeaderTest = "tell"
      BY <1>6, <3>1 DEF Open, Start, HeaderMissing
    <3>2. CASE HeaderTest # "tell"
      <4>1. UNCHANGED <<run, missing>> /\ pc[w] = "tested"
        BY <1>6, <3>2 DEF Open
      <4> QED BY <1>4, <4>1
    <3> QED BY <3>1, <3>2
  <2>3. pc'[w] = "open" /\ \A v \in Writers \ {w} : pc'[v] = pc[v] /\ out'[v] = out[v]
    BY <2>1
  <2>4. out'[w] = Text(run'[w], missing'[w])
    BY <2>1
  <2> QED BY <1>4, <2>1, <2>2, <2>3, <2>4
<1>7. ASSUME NEW w \in Writers, Flush(w) PROVE Goal
  <2>1. /\ pc[w] = "open" /\ Len(out[w]) > Buffer /\ file' = file \o SubSeq(out[w], 1, Buffer)
        /\ out[w] \in Seq(Piece) /\ Buffer \in Nat /\ Buffer >= 2 /\ Len(out[w]) \in Nat /\ Buffer <= Len(out[w])
    BY <1>7 DEF Flush, Format, Buffer
  <2>2. file = <<>> => Started(out[w])
    BY <1>4, <2>1, TitleStarts
  <2>3. SubSeq(out[w], 1, Buffer) \in Seq(Piece) /\ (file = <<>> => Started(SubSeq(out[w], 1, Buffer)))
    <3>1. SubSeq(out[w], 1, Buffer) \in Seq(Piece)
      BY <2>1
    <3> QED BY <2>1, <2>2, <3>1, StartedPrefix
  <2>4. Started(file') /\ file' # <<>>
    BY <1>4, <2>1, <2>3, StartedGrows
  <2> QED BY <2>4
<1>8. ASSUME NEW w \in Writers, Close(w) PROVE Goal
  <2>1. pc[w] = "open" /\ file' = file \o out[w] /\ out[w] \in Seq(Piece)
    BY <1>8 DEF Close
  <2>2. file = <<>> => Started(out[w])
    BY <1>4, <2>1, TitleStarts
  <2>3. Started(file') /\ file' # <<>>
    BY <1>4, <2>1, <2>2, StartedGrows
  <2> QED BY <2>3
\* An append that fails and tears no line has written whole lines or nothing.
<1>9. ASSUME NEW w \in Writers, Fail(w) PROVE Goal
  <2>1. PICK k \in 0..(Len(out[w]) - 1) : k <= Buffer /\ file' = file \o SubSeq(out[w], 1, k)
    BY <1>9 DEF Fail
  <2>2. /\ pc[w] = "open" /\ failures' = failures + 1
        /\ torn' = IF file' # <<>> /\ file'[Len(file')][2] = 1 THEN torn + 1 ELSE torn
        /\ out' = [out EXCEPT ![w] = <<>>] /\ pc' = [pc EXCEPT ![w] = "idle"]
        /\ UNCHANGED <<exists, missing, run>>
    BY <1>9 DEF Fail
  <2>3. HeaderTest # "exists" /\ torn' = 0
    BY <1>1, <1>3, <2>2 DEF Untorn
  <2>4. ~(file' # <<>> /\ file'[Len(file')][2] = 1)
    BY <2>2, <2>3
  <2>5. out[w] \in Seq(Piece) /\ k \in Nat /\ Len(out[w]) \in Nat /\ k <= Len(out[w])
    BY <2>1
  <2>6. SubSeq(out[w], 1, k) \in Seq(Piece)
    BY <2>5
  <2>7. CASE file # <<>>
    <3>1. Started(file') /\ file' # <<>>
      BY <1>4, <2>1, <2>6, <2>7, StartedGrows
    <3> QED BY <3>1
  <2>8. CASE file = <<>> /\ k >= 2
    <3>1. Started(SubSeq(out[w], 1, k))
      BY <1>4, <2>2, <2>5, <2>8, TitleStarts, StartedPrefix
    <3>2. Started(file') /\ file' # <<>>
      BY <2>1, <2>6, <2>8, <3>1, StartedGrows
    <3> QED BY <3>2
  <2>9. CASE file = <<>> /\ k = 1
    <3>1. out[w] \in Seq(Piece) /\ Started(out[w])
      BY <1>4, <2>2, <2>9, TitleStarts
    <3>2. file' = SubSeq(out[w], 1, 1)
      BY <2>1, <2>6, <2>9, ConcatEmptySeq
    <3>3. Len(file') = 1 /\ file'[1] = <<Header, 1>>
      BY <3>1, <3>2, FirstOf
    <3> QED BY <2>4, <3>3
  <2>10. CASE file = <<>> /\ k = 0
    <3>1. SubSeq(out[w], 1, 0) = <<>>
      BY <2>5
    <3>2. file' = <<>>
      BY <2>1, <2>10, <3>1
    <3> QED BY <1>4, <2>2, <2>3, <2>10, <3>2
  <2>11. k >= 2 \/ k = 1 \/ k = 0
    BY <2>5
  <2> HIDE DEF Goal
  <2> QED BY <2>7, <2>8, <2>9, <2>10, <2>11
<1>10. CASE UNCHANGED vars
  BY <1>4, <1>10 DEF vars
<1> QED BY <1>5, <1>6, <1>7, <1>8, <1>9, <1>10 DEF Next

Told(R) == IF R = <<>> THEN <<>> ELSE Lines(<<Header>> \o R)

LEMMA LinesJoined ==
    ASSUME NEW L \in Seq(Line), NEW M \in Seq(Line)
    PROVE  /\ L \o M \in Seq(Line) /\ Len(L \o M) = Len(L) + Len(M)
           /\ \A i \in 1..(Len(L) + Len(M)) : (L \o M)[i] = IF i <= Len(L) THEN L[i] ELSE M[i - Len(L)]
BY ConcatProperties

LEMMA TitledLines ==
    ASSUME NEW R \in Seq(Nat \X Nat)
    PROVE  /\ R \in Seq(Line) /\ <<Header>> \in Seq(Line) /\ <<Header>> \o R \in Seq(Line)
           /\ Len(<<Header>> \o R) = 1 + Len(R) /\ (<<Header>> \o R)[1] = Header
           /\ \A k \in 2..(1 + Len(R)) : (<<Header>> \o R)[k] = R[k - 1]
           /\ Lines(<<Header>> \o R) # <<>>
<1>1. R \in Seq(Line) /\ <<Header>> \in Seq(Line) /\ Len(<<Header>>) = 1 /\ <<Header>>[1] = Header
  BY SeqMonotonic DEF Line
<1> DEFINE h == <<Header>>
           L == h \o R
<1>2. h \in Seq(Line) /\ Len(h) = 1 /\ h[1] = Header /\ Len(R) \in Nat
  BY <1>1
<1> HIDE DEF h
<1>3. /\ L \in Seq(Line) /\ Len(L) = Len(h) + Len(R)
      /\ \A i \in 1..(Len(h) + Len(R)) : L[i] = IF i <= Len(h) THEN h[i] ELSE R[i - Len(h)]
  BY <1>1, <1>2, LinesJoined
<1> HIDE DEF L
<1>4. Len(L) = 1 + Len(R) /\ L[1] = Header /\ \A k \in 2..(1 + Len(R)) : L[k] = R[k - 1]
  BY <1>2, <1>3
<1>5. Lines(L) # <<>>
  BY <1>2, <1>3, <1>4, LinesAt
<1> QED BY <1>1, <1>3, <1>4, <1>5 DEF L, h

\* An append to a file that holds R, complete and with a header unless it is empty.
LEMMA TextAppended ==
    ASSUME TypeInv, NEW n \in Nat, NEW R \in Seq(Nat \X Nat)
    PROVE  /\ Told(R) \o Text(n, R = <<>>) = Lines(<<Header>> \o (R \o RowsOf(n)))
           /\ R \o RowsOf(n) \in Seq(Nat \X Nat) /\ R \o RowsOf(n) # <<>>
<1>1. RowsOf(n) \in Seq(Nat \X Nat) /\ RowsOf(n) \in Seq(Line) /\ Len(RowsOf(n)) \in Nat \ {0}
  BY RowsTyped
<1>2. R \o RowsOf(n) \in Seq(Nat \X Nat) /\ R \o RowsOf(n) # <<>>
  <2> DEFINE r == RowsOf(n)
  <2>1. r \in Seq(Nat \X Nat) /\ Len(r) \in Nat \ {0}
    BY <1>1
  <2> HIDE DEF r
  <2>2. R \o r \in Seq(Nat \X Nat) /\ (R \o r = <<>> => r = <<>>)
    BY <2>1, ConcatProperties, ConcatEqualIffEmpty
  <2>3. r # <<>>
    BY <2>1
  <2> QED BY <2>2, <2>3 DEF r
<1>3. CASE R = <<>>
  <2>1. Text(n, TRUE) = Lines(<<Header>> \o RowsOf(n)) /\ Text(n, TRUE) \in Seq(Piece)
    BY TextTyped
  <2>2. R \o RowsOf(n) = RowsOf(n)
    BY <1>1, <1>3, ConcatEmptySeq
  <2>3. Told(R) \o Text(n, TRUE) = Text(n, TRUE)
    BY <1>3, <2>1, ConcatEmptySeq DEF Told
  <2>4. (R = <<>>) = TRUE
    BY <1>3
  <2> QED BY <1>2, <2>1, <2>2, <2>3, <2>4
<1>4. CASE R # <<>>
  <2>1. Text(n, FALSE) = Lines(RowsOf(n))
    BY TextTyped
  <2>2. R \in Seq(Line) /\ <<Header>> \in Seq(Line) /\ <<Header>> \o R \in Seq(Line)
    BY TitledLines
  <2>3. Lines((<<Header>> \o R) \o RowsOf(n)) = Lines(<<Header>> \o R) \o Lines(RowsOf(n))
    BY <1>1, <2>2, LinesConcat
  <2>4. (<<Header>> \o R) \o RowsOf(n) = <<Header>> \o (R \o RowsOf(n))
    BY <1>1, <2>2, ConcatAssociative, SMTT(30)
  <2>5. (R = <<>>) = FALSE
    BY <1>4
  <2> QED BY <1>2, <1>4, <2>1, <2>3, <2>4, <2>5 DEF Told
<1> QED BY <1>3, <1>4

LEMMA FlushSplits ==
    ASSUME NEW f \in Seq(Piece), NEW s \in Seq(Piece), NEW k \in Nat, k <= Len(s)
    PROVE  (f \o SubSeq(s, 1, k)) \o SubSeq(s, k + 1, Len(s)) = f \o s
<1> HIDE DEF Piece
<1> DEFINE a == SubSeq(s, 1, k)
           b == SubSeq(s, k + 1, Len(s))
<1>1. a \in Seq(Piece) /\ b \in Seq(Piece)
  OBVIOUS
<1>2. a \o b = s
  <2>1. Len(s) \in Nat /\ 1 \in 1..(Len(s) + 1) /\ k \in (1 - 1)..Len(s) /\ Len(s) \in k..Len(s)
    OBVIOUS
  <2>2. SubSeq(s, 1, k) \o SubSeq(s, k + 1, Len(s)) = SubSeq(s, 1, Len(s))
    BY <2>1, ConcatAdjacentSubSeq
  <2> QED BY <2>2, SubSeqFull
<1> HIDE DEF a, b
<1>3. (f \o a) \o b = f \o (a \o b)
  BY <1>1, ConcatAssociative
<1> QED BY <1>2, <1>3 DEF a, b

LEMMA AloneStep == ASSUME TypeInv, BusyInv, AloneInv, [Next]_vars PROVE AloneInv'
<1> USE DEF TypeInv
<1>1. /\ HeaderTest' = HeaderTest /\ RowsPerRun' = RowsPerRun
      /\ \A n : RowsOf(n)' = RowsOf(n)
      /\ \A n, b : Text(n, b)' = Text(n, b)
  <2>1. format' = format
    BY DEF Next, Test, Open, Flush, Close, Fail, vars
  <2> QED BY <2>1, FormatFrame
<1> DEFINE Goal == /\ (\A v \in Writers : pc'[v] # "open") => file' = Told(appended') /\ exists' = (appended' # <<>>)
                   /\ \A v \in Writers :
                         /\ pc'[v] = "open" =>
                               exists' /\ file' \o out'[v] = Lines(<<Header>> \o (appended' \o RowsOf(run'[v])))
                         /\ pc'[v] = "tested" => missing'[v] = (appended' = <<>>)
<1>2. SUFFICES ASSUME failures' = 0, ~overlapped' PROVE Goal
  BY <1>1 DEF AloneInv, NobodyWrites, Told
<1>3. failures = 0 /\ ~overlapped
  <2>1. failures' = 0 => failures = 0
    BY DEF Next, Test, Open, Flush, Close, Fail, vars
  <2>2. overlapped => overlapped'
    BY DEF Next, Test, Open, Flush, Close, Fail, vars
  <2> QED BY <1>2, <2>1, <2>2
<1>4. /\ (\A v \in Writers : pc[v] # "open") => file = Told(appended) /\ exists = (appended # <<>>)
      /\ \A v \in Writers :
            /\ pc[v] = "open" => exists /\ file \o out[v] = Lines(<<Header>> \o (appended \o RowsOf(run[v])))
            /\ pc[v] = "tested" => missing[v] = (appended = <<>>)
      /\ \A u, v \in Writers : pc[u] # "idle" /\ pc[v] # "idle" => u = v
  BY <1>3 DEF AloneInv, BusyInv, NobodyWrites, Told
\* Who finds nobody else busy sees whether there is a header.
<1>5. ASSUME \A v \in Writers : pc[v] = "idle"
      PROVE  HeaderMissing = (appended = <<>>) /\ file = Told(appended)
  <2>1. file = Told(appended) /\ exists = (appended # <<>>)
    BY <1>4, <1>5
  <2>2. file = <<>> <=> appended = <<>>
    BY <2>1, TitledLines DEF Told
  <2> QED BY <2>1, <2>2 DEF HeaderMissing
<1>6. ASSUME NEW w \in Writers, Test(w) PROVE Goal
  <2>1. /\ pc[w] = "idle" /\ missing' = [missing EXCEPT ![w] = HeaderMissing] /\ pc' = [pc EXCEPT ![w] = "tested"]
        /\ overlapped' = (overlapped \/ Busy(w)) /\ UNCHANGED <<exists, file, out, appended>>
    BY <1>6 DEF Test, Start
  <2>2. \A v \in Writers : pc[v] = "idle"
    BY <1>2, <2>1 DEF Busy
  <2>3. HeaderMissing = (appended = <<>>) /\ file = Told(appended) /\ exists = (appended # <<>>)
    BY <1>4, <1>5, <2>2
  <2>4. pc'[w] = "tested" /\ missing'[w] = HeaderMissing /\ \A v \in Writers \ {w} : pc'[v] = "idle"
    BY <2>1, <2>2
  <2> QED BY <2>1, <2>3, <2>4
<1>7. ASSUME NEW w \in Writers, Open(w) PROVE Goal
  <2>1. /\ out' = [out EXCEPT ![w] = Text(run'[w], missing'[w])] /\ pc' = [pc EXCEPT ![w] = "open"]
        /\ UNCHANGED <<file, appended>> /\ exists' = TRUE
    BY <1>7 DEF Open
  <2>2. /\ missing'[w] = (appended = <<>>) /\ file = Told(appended) /\ run'[w] \in Nat
        /\ \A v \in Writers \ {w} : pc[v] = "idle"
    <3>1. CASE HeaderTest = "tell"
      <4>1. /\ pc[w] = "idle" /\ missing' = [missing EXCEPT ![w] = HeaderMissing]
            /\ overlapped' = (overlapped \/ Busy(w)) /\ run' = [run EXCEPT ![w] = runs + 1]
        BY <1>7, <3>1 DEF Open, Start
      <4>2. \A v \in Writers : pc[v] = "idle"
        BY <1>2, <4>1 DEF Busy
      <4> QED BY <1>5, <4>1, <4>2
    <3>2. CASE HeaderTest # "tell"
      <4>1. pc[w] = "tested" /\ UNCHANGED <<missing, run>>
        BY <1>7, <3>2 DEF Open
      <4>2. \A v \in Writers \ {w} : pc[v] = "idle"
        BY <1>4, <4>1
      <4>3. \A v \in Writers : pc[v] # "open"
        BY <4>1, <4>2
      <4> QED BY <1>4, <4>1, <4>2, <4>3
    <3> QED BY <3>1, <3>2
  <2>3. file \o Text(run'[w], missing'[w]) = Lines(<<Header>> \o (appended \o RowsOf(run'[w])))
    <3>1. PICK n \in Nat : n = run'[w]
      BY <2>2
    <3>2. PICK R \in Seq(Nat \X Nat) : R = appended
      OBVIOUS
    <3>3. Told(R) \o Text(n, R = <<>>) = Lines(<<Header>> \o (R \o RowsOf(n)))
      BY TextAppended
    <3> QED BY <2>2, <3>1, <3>2, <3>3
  <2>4. pc'[w] = "open" /\ out'[w] = Text(run'[w], missing'[w]) /\ \A v \in Writers \ {w} : pc'[v] = "idle"
    BY <2>1, <2>2
  <2> QED BY <2>1, <2>3, <2>4
<1>8. ASSUME NEW w \in Writers, Flush(w) PROVE Goal
  <2>1. /\ pc[w] = "open" /\ Len(out[w]) > Buffer /\ file' = file \o SubSeq(out[w], 1, Buffer)
        /\ out' = [out EXCEPT ![w] = SubSeq(out[w], Buffer + 1, Len(out[w]))]
        /\ UNCHANGED <<exists, pc, missing, run, appended>>
        /\ out[w] \in Seq(Piece) /\ Buffer \in Nat /\ Len(out[w]) \in Nat /\ Buffer <= Len(out[w])
    BY <1>8 DEF Flush, Format, Buffer
  <2>2. file' \o out'[w] = file \o out[w]
    BY <2>1, FlushSplits
  <2>3. \A v \in Writers : pc[v] # "idle" => v = w
    BY <1>4, <2>1
  <2> QED BY <1>4, <2>1, <2>2, <2>3
<1>9. ASSUME NEW w \in Writers, Close(w) PROVE Goal
  <2>1. /\ pc[w] = "open" /\ file' = file \o out[w] /\ appended' = appended \o RowsOf(run[w])
        /\ pc' = [pc EXCEPT ![w] = "idle"] /\ exists' = exists
    BY <1>9 DEF Close
  <2>2. \A v \in Writers : pc'[v] = "idle"
    BY <1>4, <2>1
  <2>3. exists /\ file' = Lines(<<Header>> \o appended')
    BY <1>4, <2>1
  <2>4. appended' # <<>>
    BY <2>1, TextAppended
  <2> QED BY <2>1, <2>2, <2>3, <2>4 DEF Told
<1>10. ASSUME NEW w \in Writers, Fail(w) PROVE FALSE
  BY <1>2, <1>10 DEF Fail
<1>11. CASE UNCHANGED vars
  BY <1>4, <1>11 DEF vars
<1> QED BY <1>6, <1>7, <1>8, <1>9, <1>10, <1>11 DEF Next

LEMMA AmongTitled ==
    ASSUME NEW R \in Seq(Nat \X Nat)
    PROVE  RowsAmong(<<Header>> \o R, R)
<1> DEFINE L == <<Header>> \o R
           place == [k \in 1..Len(R) |-> k + 1]
<1>1. /\ L \in Seq(Line) /\ Len(L) = 1 + Len(R) /\ L[1] = Header /\ Len(R) \in Nat
      /\ \A k \in 2..(1 + Len(R)) : L[k] = R[k - 1]
  BY TitledLines
<1> HIDE DEF L
<1>2. place \in [1..Len(R) -> 2..Len(L)] /\ \A k \in 1..Len(R) : place[k] = k + 1
  BY <1>1
<1> HIDE DEF place
<1>3. \A j, k \in 1..Len(R) : j < k => place[j] < place[k]
  BY <1>2
<1>4. \A k \in 1..Len(R) : L[place[k]] = R[k]
  BY <1>1, <1>2
<1>5. ASSUME NEW i \in 2..Len(L) PROVE L[i] # Header /\ \E k \in 1..Len(R) : place[k] = i
  <2>1. i - 1 \in 1..Len(R) /\ place[i - 1] = i /\ L[i] = R[i - 1]
    BY <1>1, <1>2
  <2>2. R[i - 1] \in Nat \X Nat
    BY <2>1
  <2> QED BY <2>1, <2>2, RowIsNoHeader
<1>6. L # <<>>
  BY <1>1
<1> QED BY <1>1, <1>2, <1>3, <1>4, <1>5, <1>6 DEF RowsAmong, L

\* An append adds its rows, and perhaps a header that no reader sees.
LEMMA AmongAppended ==
    ASSUME NEW L \in Seq(Line), NEW R \in Seq(Nat \X Nat), NEW S \in Seq(Nat \X Nat), RowsAmong(L, R),
           NEW M \in Seq(Line), NEW h \in {0, 1}, Len(M) = h + Len(S), h = 1 => M[1] = Header,
           \A k \in 1..Len(S) : M[h + k] = S[k], L = <<>> => M = <<Header>> \o S
    PROVE  RowsAmong(L \o M, R \o S)
<1>1. CASE L = <<>>
  <2>1. R = <<>>
    BY <1>1 DEF RowsAmong
  <2>2. L \o M = <<Header>> \o S /\ R \o S = S
    BY <1>1, <2>1, ConcatEmptySeq
  <2> QED BY <2>2, AmongTitled
<1>2. CASE L # <<>>
  <2> DEFINE l == Len(L)
             r == Len(R)
             s == Len(S)
             LM == L \o M
             RS == R \o S
  <2>1. L[1] = Header /\ l \in Nat /\ r \in Nat /\ s \in Nat /\ l >= 1
    BY <1>2 DEF RowsAmong
  <2>2. PICK place \in [1..r -> 2..l] :
             /\ \A j, k \in 1..r : j < k => place[j] < place[k]
             /\ \A i \in 2..l : L[i] # Header <=> \E k \in 1..r : place[k] = i
             /\ \A k \in 1..r : L[place[k]] = R[k]
    BY <1>2 DEF RowsAmong
  <2>3. /\ LM \in Seq(Line) /\ Len(LM) = l + (h + s)
        /\ \A i \in 1..(l + (h + s)) : LM[i] = IF i <= l THEN L[i] ELSE M[i - l]
    <3>1. Len(M) = h + s
      OBVIOUS
    <3>2. /\ LM \in Seq(Line) /\ Len(LM) = Len(L) + Len(M)
          /\ \A i \in 1..(Len(L) + Len(M)) : LM[i] = IF i <= Len(L) THEN L[i] ELSE M[i - Len(L)]
      BY LinesJoined
    <3> HIDE DEF LM, s
    <3> QED BY <3>1, <3>2
  <2>4. /\ RS \in Seq(Nat \X Nat) /\ Len(RS) = r + s
        /\ \A i \in 1..(r + s) : RS[i] = IF i <= r THEN R[i] ELSE S[i - r]
    BY ConcatProperties
  <2>5. \A k \in 1..s : S[k] \in Nat \X Nat
    OBVIOUS
  <2>6. \A k \in 1..s : M[h + k] = S[k]
    OBVIOUS
  <2> HIDE DEF l, r, s, LM, RS
  <2> DEFINE both == [k \in 1..(r + s) |-> IF k <= r THEN place[k] ELSE l + h + (k - r)]
  <2>7. /\ \A k \in 1..r : k \in 1..(r + s) /\ both[k] = place[k] /\ place[k] \in 2..l /\ place[k] \in Nat
        /\ \A k \in (r + 1)..(r + s) : k \in 1..(r + s) /\ both[k] = l + h + (k - r)
        /\ \A k \in 1..(r + s) : k \in 1..r \/ k \in (r + 1)..(r + s)
    <3>1. \A k \in 1..r : place[k] \in 2..l
      BY <2>2
    <3>2. \A k \in 1..r : k \in 1..(r + s) /\ both[k] = place[k] /\ place[k] \in Nat
      <4> TAKE k \in 1..r
      <4>1. k \in 1..(r + s) /\ k <= r
        BY <2>1
      <4>2. place[k] \in Nat
        BY <2>1, <3>1
      <4> QED BY <4>1, <4>2
    <3>3. \A k \in (r + 1)..(r + s) : k \in 1..(r + s) /\ both[k] = l + h + (k - r)
      <4> TAKE k \in (r + 1)..(r + s)
      <4>1. k \in 1..(r + s) /\ ~(k <= r)
        BY <2>1
      <4> QED BY <4>1
    <3>4. \A k \in 1..(r + s) : k \in 1..r \/ k \in (r + 1)..(r + s)
      BY <2>1
    <3> QED BY <3>1, <3>2, <3>3, <3>4
  <2>8. both \in [1..(r + s) -> 2..(l + (h + s))]
    <3>1. \A k \in 1..(r + s) : (IF k <= r THEN place[k] ELSE l + h + (k - r)) \in 2..(l + (h + s))
      <4> TAKE k \in 1..(r + s)
      <4>1. CASE k \in 1..r
        BY <2>1, <2>7, <4>1
      <4>2. CASE k \in (r + 1)..(r + s)
        BY <2>1, <4>2
      <4> QED BY <2>7, <4>1, <4>2
    <3> QED BY <3>1
  <2> HIDE DEF both
  <2>9. ASSUME NEW j \in 1..(r + s), NEW k \in 1..(r + s), j < k PROVE both[j] < both[k]
    <3>1. CASE k \in 1..r
      <4>1. j \in 1..r BY <2>1, <2>9, <3>1
      <4> QED BY <2>2, <2>7, <2>9, <3>1, <4>1
    <3>2. CASE k \in (r + 1)..(r + s)
      <4>1. CASE j \in 1..r
        BY <2>1, <2>7, <3>2, <4>1
      <4>2. CASE j \in (r + 1)..(r + s)
        BY <2>1, <2>7, <2>9, <3>2, <4>2
      <4> QED BY <2>7, <4>1, <4>2
    <3> QED BY <2>7, <3>1, <3>2
  <2>10. ASSUME NEW i \in 2..(l + (h + s))
         PROVE  LM[i] # Header <=> \E k \in 1..(r + s) : both[k] = i
    <3>1. CASE i \in 2..l
      <4>1. LM[i] = L[i] BY <2>1, <2>3, <3>1
      <4>2. ASSUME NEW k \in 1..(r + s), both[k] = i PROVE \E m \in 1..r : place[m] = i
        <5>1. k \notin (r + 1)..(r + s)
          <6>1. ASSUME k \in (r + 1)..(r + s) PROVE FALSE
            <7>1. both[k] = l + h + (k - r) BY <2>7, <6>1
            <7>2. i \in Int /\ i <= l BY <2>1, <3>1
            <7>3. k \in Int /\ k - r >= 1 /\ h >= 0 /\ h \in Int
              <8>1. r \in Nat /\ s \in Nat /\ h \in Nat BY <2>1
              <8> HIDE DEF both
              <8>2. k \in Int /\ k >= r + 1 BY <6>1, <8>1
              <8> QED BY <8>1, <8>2
            <7>4. l + h + (k - r) > l BY <2>1, <7>3
            <7> QED BY <2>1, <4>2, <7>1, <7>2, <7>3, <7>4
          <6> QED BY <6>1
        <5> QED BY <2>7, <4>2, <5>1
      <4>3. ASSUME NEW m \in 1..r, place[m] = i PROVE \E k \in 1..(r + s) : both[k] = i
        BY <2>7, <4>3
      <4> QED BY <2>2, <3>1, <4>1, <4>2, <4>3
    <3>2. CASE h = 1 /\ i = l + 1
      <4>1. LM[i] = M[1] BY <2>1, <2>3, <3>2
      <4>2. ASSUME NEW k \in 1..(r + s), both[k] = i PROVE FALSE
        <5>1. CASE k \in 1..r BY <2>1, <2>7, <3>2, <4>2, <5>1
        <5>2. CASE k \in (r + 1)..(r + s) BY <2>1, <2>7, <3>2, <4>2, <5>2
        <5> QED BY <2>7, <5>1, <5>2
      <4> QED BY <3>2, <4>1, <4>2
    <3>3. CASE i > l + h
      <4> DEFINE m == i - l - h
      <4>1. m \in 1..s /\ i - l = h + m /\ ~(i <= l) /\ i \in 1..(l + (h + s)) BY <2>1, <3>3
      <4>2. LM[i] = M[h + m] BY <2>3, <4>1
      <4>3. LM[i] = S[m] /\ S[m] \in Nat \X Nat
        <5> HIDE DEF m
        <5> QED BY <2>5, <2>6, <4>1, <4>2
      <4>4. r + m \in (r + 1)..(r + s) /\ l + h + ((r + m) - r) = i BY <2>1, <3>3, <4>1
      <4>5. both[r + m] = i /\ r + m \in 1..(r + s)
        <5> HIDE DEF m
        <5> QED BY <2>7, <4>4
      <4> QED BY <4>3, <4>5, RowIsNoHeader
    <3>4. i \in 2..l \/ (h = 1 /\ i = l + 1) \/ i > l + h
      BY <2>1
    <3> QED BY <3>1, <3>2, <3>3, <3>4
  <2>11. ASSUME NEW k \in 1..(r + s) PROVE LM[both[k]] = RS[k]
    <3>1. CASE k \in 1..r
      <4>1. both[k] = place[k] /\ place[k] \in 1..(l + (h + s)) /\ place[k] <= l /\ k <= r BY <2>1, <2>7, <3>1
      <4>2. L[place[k]] = R[k]
        BY <2>2, <3>1
      <4>3. LM[place[k]] = L[place[k]]
        BY <2>3, <4>1
      <4>4. RS[k] = R[k]
        BY <2>4, <4>1
      <4> QED BY <4>1, <4>2, <4>3, <4>4
    <3>2. CASE k \in (r + 1)..(r + s)
      <4>1. /\ both[k] = l + h + (k - r) /\ both[k] \in 1..(l + (h + s)) /\ ~(both[k] <= l)
            /\ both[k] - l = h + (k - r) /\ k - r \in 1..s /\ ~(k <= r)
        BY <2>1, <2>7, <3>2
      <4>2. LM[both[k]] = M[h + (k - r)] BY <2>3, <4>1
      <4>3. RS[k] = S[k - r] BY <2>4, <4>1
      <4> QED BY <2>6, <4>1, <4>2, <4>3
    <3> QED BY <2>7, <3>1, <3>2
  <2>12. LM[1] = Header /\ LM # <<>>
    <3>1. 1 \in 1..(l + (h + s)) /\ 1 <= l /\ l + (h + s) >= 1
      BY <2>1
    <3>2. LM[1] = L[1]
      BY <2>3, <3>1
    <3> QED BY <2>1, <2>3, <3>1, <3>2
  <2>13. /\ both \in [1..Len(RS) -> 2..Len(LM)]
         /\ \A j, k \in 1..Len(RS) : j < k => both[j] < both[k]
         /\ \A i \in 2..Len(LM) : LM[i] # Header <=> \E k \in 1..Len(RS) : both[k] = i
         /\ \A k \in 1..Len(RS) : LM[both[k]] = RS[k]
    BY <2>3, <2>4, <2>8, <2>9, <2>10, <2>11
  <2>14. RowsAmong(LM, RS)
    BY <2>12, <2>13 DEF RowsAmong
  <2> QED BY <2>14 DEF LM, RS
<1> QED BY <1>1, <1>2

LEMMA LinesOfTyped == ASSUME NEW f \in Seq(Piece) PROVE LinesOf(f) \in Seq(Line)
<1>1. Len(f) \in Nat /\ Len(f) \div 2 \in Nat /\ 2 * (Len(f) \div 2) <= Len(f)
  OBVIOUS
<1>2. \A k \in 1..(Len(f) \div 2) : f[2 * k][1] \in Line
  <2> TAKE k \in 1..(Len(f) \div 2)
  <2>1. 2 * k \in 1..Len(f) BY <1>1
  <2>2. f[2 * k] \in Piece BY <2>1
  <2> QED BY <2>2 DEF Piece
<1> QED BY <1>1, <1>2 DEF LinesOf

Titles(b) == IF b THEN 1 ELSE 0

LEMMA LinesForAt ==
    ASSUME TypeInv, NEW n \in Nat, NEW b \in BOOLEAN
    PROVE  /\ LinesFor(n, b) \in Seq(Line) /\ Len(LinesFor(n, b)) = Titles(b) + Len(RowsOf(n))
           /\ (Titles(b) = 1 => LinesFor(n, b)[1] = Header)
           /\ \A k \in 1..Len(RowsOf(n)) : LinesFor(n, b)[Titles(b) + k] = RowsOf(n)[k]
           /\ (b => LinesFor(n, b) = <<Header>> \o RowsOf(n))
<1> DEFINE S == RowsOf(n)
<1>1. S \in Seq(Nat \X Nat) /\ S \in Seq(Line) /\ Len(S) \in Nat
  BY RowsTyped
<1>2. LinesFor(n, b) = (IF b THEN <<Header>> \o S ELSE S) /\ LinesFor(n, b) \in Seq(Line)
  BY TextTyped
<1> HIDE DEF S
<1>3. CASE b
  <2>1. /\ Len(<<Header>> \o S) = 1 + Len(S) /\ (<<Header>> \o S)[1] = Header
        /\ \A k \in 2..(1 + Len(S)) : (<<Header>> \o S)[k] = S[k - 1]
    BY <1>1, TitledLines
  <2>2. LinesFor(n, b) = <<Header>> \o S /\ Titles(b) = 1
    BY <1>2, <1>3 DEF Titles
  <2> DEFINE M == <<Header>> \o S
  <2> HIDE DEF M
  <2>3. \A k \in 1..Len(S) : M[1 + k] = S[k]
    <3> TAKE k \in 1..Len(S)
    <3>1. 1 + k \in 2..(1 + Len(S)) /\ (1 + k) - 1 = k BY <1>1
    <3> QED BY <2>1, <3>1 DEF M
  <2> QED BY <1>2, <2>1, <2>2, <2>3 DEF M, S
<1>4. CASE ~b
  <2>1. LinesFor(n, b) = S /\ Titles(b) = 0
    BY <1>2, <1>4 DEF Titles
  <2>2. \A k \in 1..Len(S) : 0 + k = k
    BY <1>1
  <2> QED BY <1>1, <1>4, <2>1, <2>2 DEF S
<1> QED BY <1>3, <1>4

LEMMA SharedStep == ASSUME TypeInv, BufferInv, HeaderInv, SharedInv, [Next]_vars PROVE SharedInv'
<1> USE DEF TypeInv
<1>1. HeaderTest' = HeaderTest /\ OneWrite' = OneWrite
  <2>1. format' = format
    BY DEF Next, Test, Open, Flush, Close, Fail, vars
  <2> QED BY <2>1, FormatFrame
<1>2. SUFFICES ASSUME failures' = 0, OneWrite, HeaderTest # "exists"
               PROVE  file' = Lines(LinesOf(file')) /\ RowsAmong(LinesOf(file'), appended')
  BY <1>1 DEF SharedInv
<1>3. failures = 0
  BY <1>2 DEF Next, Test, Open, Flush, Close, Fail, vars
<1>4. file = Lines(LinesOf(file)) /\ RowsAmong(LinesOf(file), appended)
  BY <1>2, <1>3 DEF SharedInv
<1>5. CASE UNCHANGED <<file, appended>>
  BY <1>4, <1>5
<1>6. ASSUME NEW w \in Writers, Flush(w) PROVE FALSE
  <2>1. pc[w] = "open" /\ Len(out[w]) > Buffer /\ out[w] = Text(run[w], missing[w])
    BY <1>2, <1>6 DEF Flush, BufferInv
  <2>2. Len(Text(run[w], missing[w])) = 2 * (RowsPerRun + (IF missing[w] THEN 1 ELSE 0))
    BY TextTyped
  <2>3. RowsPerRun \in Nat /\ Buffer \in Nat
    BY RowsTyped
  <2> QED BY <1>2, <2>1, <2>2, <2>3 DEF OneWrite
<1>7. ASSUME NEW w \in Writers, Close(w)
      PROVE  file' = Lines(LinesOf(file')) /\ RowsAmong(LinesOf(file'), appended')
  <2>1. /\ pc[w] = "open" /\ file' = file \o out[w] /\ appended' = appended \o RowsOf(run[w])
        /\ out[w] = Text(run[w], missing[w])
    BY <1>2, <1>7 DEF Close, BufferInv
  <2>2. PICK n \in Nat : n = run[w]
    OBVIOUS
  <2>3. PICK b \in BOOLEAN : b = missing[w]
    OBVIOUS
  <2>4. PICK f \in Seq(Piece) : f = file
    OBVIOUS
  <2>5. PICK R \in Seq(Nat \X Nat) : R = appended
    OBVIOUS
  <2>6. PICK S \in Seq(Nat \X Nat) : S = RowsOf(n)
    BY RowsTyped
  <2>7. PICK M \in Seq(Line) : M = LinesFor(n, b)
    BY TextTyped
  <2>8. PICK h \in {0, 1} : h = Titles(b)
    BY DEF Titles
  <2> DEFINE L == LinesOf(f)
  <2>9. L \in Seq(Line) /\ f = Lines(L) /\ RowsAmong(L, R)
    BY <1>4, <2>4, <2>5, LinesOfTyped
  <2>10. /\ Len(M) = h + Len(S) /\ (h = 1 => M[1] = Header) /\ \A k \in 1..Len(S) : M[h + k] = S[k]
         /\ (b => M = <<Header>> \o S)
    <3>1. /\ Len(LinesFor(n, b)) = Titles(b) + Len(RowsOf(n)) /\ (Titles(b) = 1 => LinesFor(n, b)[1] = Header)
          /\ \A k \in 1..Len(RowsOf(n)) : LinesFor(n, b)[Titles(b) + k] = RowsOf(n)[k]
          /\ (b => LinesFor(n, b) = <<Header>> \o RowsOf(n))
      BY LinesForAt
    <3> QED BY <2>6, <2>7, <2>8, <3>1
  <2>11. L = <<>> => b
    <3>1. L = <<>> => file = <<>>
      <4> HIDE DEF L
      <4>1. L = <<>> => Lines(L) = <<>>
        <5>1. Lines(L) \in Seq(Piece) /\ Len(Lines(L)) = 2 * Len(L)
          BY <2>9, LinesAt
        <5>2. L = <<>> => Len(L) = 0
          OBVIOUS
        <5> QED BY <5>1, <5>2, EmptySeq
      <4> QED BY <2>4, <2>9, <4>1
    <3>2. file = <<>> => missing[w]
      BY <1>2, <1>3, <2>1 DEF HeaderInv, Untorn
    <3> QED BY <2>3, <3>1, <3>2
  <2> HIDE DEF L
  <2>12. RowsAmong(L \o M, R \o S)
    BY <2>9, <2>10, <2>11, AmongAppended
  <2>13. L \o M \in Seq(Line) /\ Lines(L \o M) = Lines(L) \o Lines(M)
    BY <2>9, LinesConcat
  <2>14. Text(n, b) = Lines(M)
    BY <2>7, TextTyped
  <2>15. file' = Lines(L \o M) /\ appended' = R \o S
    BY <2>1, <2>2, <2>3, <2>4, <2>5, <2>6, <2>9, <2>13, <2>14
  <2>16. LinesOf(Lines(L \o M)) = L \o M
    BY <2>13, LinesTwice
  <2> QED BY <2>12, <2>15, <2>16
<1>8. ASSUME NEW w \in Writers, Fail(w) PROVE FALSE
  BY <1>2, <1>8 DEF Fail
<1>9. \/ UNCHANGED <<file, appended>>
      \/ \E w \in Writers : Flush(w) \/ Close(w) \/ Fail(w)
  BY DEF Next, Test, Open, vars
<1> QED BY <1>5, <1>6, <1>7, <1>8, <1>9

(***************************************************************************)
(* Torn pieces                                                             *)
(***************************************************************************)
LEMMA PiecesJoined ==
    ASSUME NEW f \in Seq(Piece), NEW g \in Seq(Piece)
    PROVE  /\ f \o g \in Seq(Piece) /\ Len(f \o g) = Len(f) + Len(g)
           /\ \A i \in 1..(Len(f) + Len(g)) : (f \o g)[i] = IF i <= Len(f) THEN f[i] ELSE g[i - Len(f)]
BY ConcatProperties

LEMMA PairedJoined ==
    ASSUME NEW f \in Seq(Piece), NEW g \in Seq(Piece), Paired(f), Paired(g)
    PROVE  Paired(f \o g)
<1> DEFINE h == f \o g
           n == Len(f)
<1>1. /\ DOMAIN h = 1..(n + Len(g)) /\ n \in Nat /\ Len(g) \in Nat
      /\ \A i \in 1..(n + Len(g)) : h[i] = IF i <= n THEN f[i] ELSE g[i - n]
  BY PiecesJoined
<1>2. /\ \A i \in 1..n : f[i][2] = 2 => i > 1 /\ f[i - 1] = <<f[i][1], 1>>
      /\ \A i \in 1..Len(g) : g[i][2] = 2 => i > 1 /\ g[i - 1] = <<g[i][1], 1>>
  BY DEF Paired
<1> HIDE DEF h, n, Piece
<1>3. ASSUME NEW i \in 1..(n + Len(g)), h[i][2] = 2
      PROVE  i > 1 /\ h[i - 1] = <<h[i][1], 1>>
  <2>1. CASE i <= n
    <3>1. i \in 1..n /\ h[i] = f[i] BY <1>1, <2>1
    <3>2. i > 1 /\ f[i - 1] = <<f[i][1], 1>> BY <1>2, <1>3, <3>1
    <3>3. h[i - 1] = f[i - 1] BY <1>1, <3>1, <3>2
    <3> QED BY <3>1, <3>2, <3>3
  <2>2. CASE i > n
    <3>1. i - n \in 1..Len(g) /\ h[i] = g[i - n] BY <1>1, <2>2
    <3>2. i - n > 1 /\ g[i - n - 1] = <<g[i - n][1], 1>> BY <1>2, <1>3, <3>1
    <3>3. h[i - 1] = g[i - n - 1] /\ i > 1
      <4>1. i - 1 \in 1..(n + Len(g)) /\ ~(i - 1 <= n) /\ i > 1 /\ (i - 1) - n = i - n - 1
        BY <1>1, <3>1, <3>2
      <4> QED BY <1>1, <4>1
    <3> QED BY <3>1, <3>2, <3>3
  <2> QED BY <1>1, <2>1, <2>2
<1> QED BY <1>1, <1>3 DEF Paired, h

LEMMA TornJoined ==
    ASSUME NEW f \in Seq(Piece), NEW g \in Seq(Piece), Paired(g), NEW i
    PROVE  i \in TornPieces(f \o g) <=> i \in TornPieces(f) \/ \E j \in TornPieces(g) : i = Len(f) + j
<1> DEFINE h == f \o g
           n == Len(f)
           m == Len(g)
<1>1. /\ h \in Seq(Piece) /\ Len(h) = n + m /\ n \in Nat /\ m \in Nat
      /\ \A k \in 1..(n + m) : h[k] = IF k <= n THEN f[k] ELSE g[k - n]
  BY PiecesJoined
<1>2. m > 0 => g[1][2] # 2
  BY DEF Paired
<1>3. /\ i \in TornPieces(h) <=> i \in 1..(n + m) /\ h[i][2] = 1 /\ ~(i < n + m /\ h[i + 1][2] = 2)
      /\ i \in TornPieces(f) <=> i \in 1..n /\ f[i][2] = 1 /\ ~(i < n /\ f[i + 1][2] = 2)
      /\ \A j : j \in TornPieces(g) <=> j \in 1..m /\ g[j][2] = 1 /\ ~(j < m /\ g[j + 1][2] = 2)
  BY <1>1 DEF TornPieces
<1> HIDE DEF h, n, m, Piece
<1>4. CASE i \in 1..n
  <2>1. h[i] = f[i] /\ (i < n => h[i + 1] = f[i + 1]) /\ (i = n /\ m > 0 => h[i + 1] = g[1])
    BY <1>1, <1>4
  <2>2. i \in TornPieces(h) <=> i \in TornPieces(f)
    BY <1>1, <1>2, <1>3, <1>4, <2>1
  <2>3. ASSUME NEW j \in TornPieces(g), i = n + j PROVE FALSE
    BY <1>1, <1>3, <1>4, <2>3
  <2> QED BY <2>2, <2>3 DEF h, n
<1>5. CASE i \in (n + 1)..(n + m)
  <2> DEFINE j == i - n
  <2>1. j \in 1..m /\ i = n + j /\ h[i] = g[j] /\ (i < n + m => h[i + 1] = g[j + 1])
    <3>1. j \in 1..m /\ i = n + j /\ h[i] = g[j]
      BY <1>1, <1>5
    <3>2. i < n + m => i + 1 \in 1..(n + m) /\ ~(i + 1 <= n) /\ (i + 1) - n = j + 1
      BY <1>1, <1>5
    <3> QED BY <1>1, <3>1, <3>2
  <2>2. \A k \in 1..m : i = n + k => k = j
    BY <1>1, <2>1
  <2> HIDE DEF j
  <2>3. i \in TornPieces(h) <=> j \in TornPieces(g)
    <3>1. i \in 1..(n + m) /\ (i < n + m <=> j < m)
      BY <1>1, <1>5, <2>1
    <3>2. i \in TornPieces(h) <=> g[j][2] = 1 /\ ~(i < n + m /\ g[j + 1][2] = 2)
      BY <1>3, <2>1, <3>1
    <3>3. j \in TornPieces(g) <=> g[j][2] = 1 /\ ~(j < m /\ g[j + 1][2] = 2)
      BY <1>3, <2>1
    <3> QED BY <3>1, <3>2, <3>3
  <2>4. i \notin TornPieces(f)
    BY <1>1, <1>3, <1>5
  <2> QED BY <1>3, <2>1, <2>2, <2>3, <2>4 DEF h, n
<1>6. CASE i \notin 1..(n + m)
  <2>1. i \notin TornPieces(h) /\ i \notin TornPieces(f)
    BY <1>1, <1>3, <1>6
  <2>2. ASSUME NEW j \in TornPieces(g), i = n + j PROVE FALSE
    BY <1>1, <1>3, <1>6, <2>2, SMTT(30)
  <2> QED BY <2>1, <2>2 DEF h, n
<1> QED BY <1>1, <1>4, <1>5, <1>6

\* The first k pieces of whole lines are torn at the last one or nowhere.
LEMMA PrefixOfLines ==
    ASSUME NEW L \in Seq(Line), NEW k \in Nat, k <= 2 * Len(L)
    PROVE  /\ SubSeq(Lines(L), 1, k) \in Seq(Piece) /\ Len(SubSeq(Lines(L), 1, k)) = k
           /\ Paired(SubSeq(Lines(L), 1, k))
           /\ \A i \in TornPieces(SubSeq(Lines(L), 1, k)) :
                 i = k /\ SubSeq(Lines(L), 1, k)[k][2] = 1
           /\ k = 2 * Len(L) => TornPieces(SubSeq(Lines(L), 1, k)) = {}
<1> DEFINE s == SubSeq(Lines(L), 1, k)
<1>1. /\ Lines(L) \in Seq(Piece) /\ Len(Lines(L)) = 2 * Len(L)
      /\ \A n \in 1..Len(L) : Lines(L)[2 * n - 1] = <<L[n], 1>> /\ Lines(L)[2 * n] = <<L[n], 2>>
      /\ \A i \in 1..(2 * Len(L)) : \E n \in 1..Len(L) : i = 2 * n - 1 \/ i = 2 * n
  BY LinesAt
<1>0. Len(L) \in Nat
  OBVIOUS
<1>2. s \in Seq(Piece) /\ Len(s) = k /\ \A i \in 1..k : s[i] = Lines(L)[i]
  <2> HIDE DEF Piece
  <2> QED BY <1>1
<1> HIDE DEF s
<1>3. ASSUME NEW i \in 1..k
      PROVE  /\ s[i][2] = 2 => i > 1 /\ s[i - 1] = <<s[i][1], 1>> /\ s[i][2] # 1
             /\ s[i][2] # 2 => s[i][2] = 1 /\ i < 2 * Len(L) /\ (i < k => s[i + 1][2] = 2)
  <2>0. i \in 1..(2 * Len(L))
    BY <1>0
  <2>1. PICK n \in 1..Len(L) : i = 2 * n - 1 \/ i = 2 * n
    BY <1>1, <2>0
  <2>2. Lines(L)[2 * n - 1] = <<L[n], 1>> /\ Lines(L)[2 * n] = <<L[n], 2>> /\ n \in Nat
    BY <1>0, <1>1, SMTT(30)
  <2>3. CASE i = 2 * n
    <3>1. i - 1 \in 1..k /\ i - 1 = 2 * n - 1
      BY <2>2, <2>3
    <3>2. s[i] = <<L[n], 2>> /\ s[i - 1] = <<L[n], 1>>
      BY <1>2, <2>2, <2>3, <3>1
    <3> QED BY <2>2, <2>3, <3>2
  <2>4. CASE i = 2 * n - 1
    <3>1. s[i] = <<L[n], 1>> /\ i < 2 * Len(L)
      BY <1>0, <1>1, <1>2, <2>2, <2>4
    <3>2. i < k => i + 1 \in 1..k /\ i + 1 = 2 * n
      BY <2>2, <2>4
    <3>3. i < k => s[i + 1] = <<L[n], 2>>
      BY <1>2, <2>2, <3>2
    <3> QED BY <3>1, <3>3
  <2> QED BY <2>1, <2>3, <2>4
<1>4. Paired(s)
  BY <1>2, <1>3 DEF Paired
<1>5. \A i : i \in TornPieces(s) <=> i \in 1..k /\ s[i][2] = 1 /\ ~(i < k /\ s[i + 1][2] = 2)
  BY <1>2 DEF TornPieces
<1>6. \A i \in TornPieces(s) : i = k /\ s[k][2] = 1
  <2> TAKE i \in TornPieces(s)
  <2>1. i \in 1..k /\ s[i][2] # 2 /\ s[i][2] = 1 /\ ~(i < k)
    BY <1>3, <1>5
  <2>2. i = k
    BY <2>1
  <2> QED BY <2>1, <2>2
<1>7. ASSUME k = 2 * Len(L), NEW i \in TornPieces(s) PROVE FALSE
  <2>1. i \in 1..k /\ s[i][2] # 2 /\ i = k
    BY <1>3, <1>5, <1>6, <1>7
  <2>2. i < 2 * Len(L)
    BY <1>3, <2>1
  <2> QED BY <1>0, <1>7, <2>1, <2>2
<1> QED BY <1>2, <1>4, <1>6, <1>7 DEF s

\* A whole append, or the first k pieces of one, after f.
LEMMA LossAppended ==
    ASSUME NEW f \in Seq(Piece), Paired(f), NEW L \in Seq(Line), NEW k \in Nat, k <= 2 * Len(L)
    PROVE  LET h == f \o SubSeq(Lines(L), 1, k)
           IN  /\ Paired(h) /\ h \in Seq(Piece) /\ Len(h) = Len(f) + k
               /\ k = 2 * Len(L) => TornPieces(h) = TornPieces(f)
               /\ \/ TornPieces(h) = TornPieces(f)
                  \/ /\ TornPieces(h) = TornPieces(f) \cup {Len(h)}
                     /\ h # <<>> /\ h[Len(h)][2] = 1
<1> DEFINE s == SubSeq(Lines(L), 1, k)
           h == f \o s
<1>1. /\ s \in Seq(Piece) /\ Len(s) = k /\ Paired(s)
      /\ \A i \in TornPieces(s) : i = k /\ s[k][2] = 1
      /\ k = 2 * Len(L) => TornPieces(s) = {}
  BY PrefixOfLines
<1>2. \A i \in TornPieces(s) : i \in 1..k
  BY <1>1 DEF TornPieces
<1> HIDE DEF s
<1>0. Len(f) \in Nat
  OBVIOUS
<1>3. /\ h \in Seq(Piece) /\ Len(h) = Len(f) + k
      /\ \A i \in 1..(Len(f) + k) : h[i] = IF i <= Len(f) THEN f[i] ELSE s[i - Len(f)]
  BY <1>1, PiecesJoined
<1>4. Paired(h)
  BY <1>1, PairedJoined
<1>5. \A i : i \in TornPieces(h) <=> i \in TornPieces(f) \/ \E j \in TornPieces(s) : i = Len(f) + j
  BY <1>1, TornJoined
<1> HIDE DEF h, Piece
<1>6. CASE TornPieces(s) = {}
  <2>1. TornPieces(h) = TornPieces(f)
    BY <1>5, <1>6
  <2> QED BY <1>3, <1>4, <2>1 DEF h, s
<1>7. CASE TornPieces(s) # {}
  <2>1. k \in TornPieces(s) /\ k \in 1..k /\ s[k][2] = 1
    BY <1>1, <1>2, <1>7
  <2>2. \A i : i \in TornPieces(h) <=> i \in TornPieces(f) \/ i = Len(h)
    BY <1>0, <1>1, <1>3, <1>5, <2>1
  <2>3. TornPieces(h) = TornPieces(f) \cup {Len(h)}
    BY <2>2
  <2>4. h[Len(h)] = s[k] /\ Len(h) # 0
    <3>1. Len(h) \in 1..(Len(f) + k) /\ ~(Len(h) <= Len(f)) /\ Len(h) - Len(f) = k
      BY <1>0, <1>3, <2>1
    <3> QED BY <1>3, <3>1
  <2>5. h # <<>>
    BY <2>4
  <2> QED BY <1>1, <1>3, <1>4, <1>7, <2>1, <2>3, <2>4, <2>5 DEF h, s
<1> QED BY <1>6, <1>7

LEMMA TornFinite ==
    ASSUME NEW f \in Seq(Piece)
    PROVE  IsFiniteSet(TornPieces(f)) /\ Cardinality(TornPieces(f)) \in Nat
<1>1. IsFiniteSet(1..Len(f)) /\ TornPieces(f) \in SUBSET (1..Len(f))
  <2>1. Len(f) \in Nat /\ 1 \in Int /\ Len(f) \in Int
    OBVIOUS
  <2>2. DOMAIN f = 1..Len(f)
    OBVIOUS
  <2>3. TornPieces(f) \subseteq DOMAIN f
    BY DEF TornPieces
  <2> QED BY <2>1, <2>2, <2>3, FS_Interval
<1> QED BY <1>1, FS_Subset, FS_CardinalityType

LEMMA RowEnds ==
    ASSUME TypeInv, NEW n \in Nat, NEW b \in BOOLEAN, NEW k \in 1..Len(RowsOf(n))
    PROVE  \E i \in 1..Len(Text(n, b)) : Text(n, b)[i] = <<RowsOf(n)[k], 2>>
<1>1. Text(n, b) = Lines(LinesFor(n, b)) /\ LinesFor(n, b) \in Seq(Line)
  BY TextTyped
<1>2. PICK M \in Seq(Line) : M = LinesFor(n, b)
  BY <1>1
<1>3. PICK t \in {0, 1} : t = Titles(b)
  BY DEF Titles
<1>4. Len(M) = t + Len(RowsOf(n)) /\ M[t + k] = RowsOf(n)[k] /\ Len(RowsOf(n)) \in Nat
  <2>1. Len(LinesFor(n, b)) = Titles(b) + Len(RowsOf(n)) /\ LinesFor(n, b)[Titles(b) + k] = RowsOf(n)[k]
    BY LinesForAt
  <2> QED BY <1>2, <1>3, <2>1, RowsTyped
<1>5. t + k \in 1..Len(M)
  BY <1>4
<1>6. Len(Lines(M)) = 2 * Len(M) /\ Lines(M)[2 * (t + k)] = <<M[t + k], 2>>
  BY <1>5, LinesAt
<1>7. 2 * (t + k) \in 1..(2 * Len(M))
  BY <1>4, <1>5
<1> QED BY <1>1, <1>2, <1>4, <1>6, <1>7

LEMMA LossStep == ASSUME TypeInv, BufferInv, LossInv, [Next]_vars PROVE LossInv'
<1> USE DEF TypeInv
<1>1. OneWrite' = OneWrite
  <2>1. format' = format
    BY DEF Next, Test, Open, Flush, Close, Fail, vars
  <2> QED BY <2>1, FormatFrame
<1>2. SUFFICES ASSUME OneWrite
               PROVE  /\ Paired(file') /\ Cardinality(TornPieces(file')) <= torn'
                      /\ \A k \in DOMAIN appended' : \E i \in DOMAIN file' : file'[i] = <<appended'[k], 2>>
  BY <1>1 DEF LossInv
<1>3. /\ Paired(file) /\ Cardinality(TornPieces(file)) <= torn
      /\ \A k \in DOMAIN appended : \E i \in DOMAIN file : file[i] = <<appended[k], 2>>
  BY <1>2 DEF LossInv
<1>4. CASE UNCHANGED <<file, appended, torn>>
  BY <1>3, <1>4
<1>5. ASSUME NEW w \in Writers, Flush(w) PROVE FALSE
  <2>1. pc[w] = "open" /\ Len(out[w]) > Buffer /\ out[w] = Text(run[w], missing[w])
    BY <1>2, <1>5 DEF Flush, BufferInv
  <2>2. Len(Text(run[w], missing[w])) = 2 * (RowsPerRun + (IF missing[w] THEN 1 ELSE 0))
    BY TextTyped
  <2>3. RowsPerRun \in Nat /\ Buffer \in Nat
    BY RowsTyped
  <2> QED BY <1>2, <2>1, <2>2, <2>3 DEF OneWrite
<1> DEFINE Ended(f, R) == \A k \in DOMAIN R : \E i \in DOMAIN f : f[i] = <<R[k], 2>>
<1>6. ASSUME NEW f \in Seq(Piece), NEW g \in Seq(Piece), NEW R \in Seq(Nat \X Nat), Ended(f, R)
      PROVE  Ended(f \o g, R)
  <2> TAKE k \in DOMAIN R
  <2>1. PICK i \in DOMAIN f : f[i] = <<R[k], 2>>
    BY <1>6
  <2>2. /\ f \o g \in Seq(Piece) /\ Len(f \o g) = Len(f) + Len(g)
        /\ \A j \in 1..(Len(f) + Len(g)) : (f \o g)[j] = IF j <= Len(f) THEN f[j] ELSE g[j - Len(f)]
    BY PiecesJoined
  <2> HIDE DEF Piece
  <2>3. i \in DOMAIN (f \o g) /\ i \in 1..(Len(f) + Len(g)) /\ i <= Len(f)
    BY <2>2
  <2> QED BY <2>1, <2>2, <2>3
<1>7. ASSUME NEW w \in Writers, pc[w] = "open"
      PROVE  \E L \in Seq(Line) : /\ out[w] = Lines(L) /\ Len(out[w]) = 2 * Len(L)
                                  /\ out[w] = SubSeq(Lines(L), 1, 2 * Len(L))
  <2>1. out[w] = Text(run[w], missing[w])
    BY <1>2, <1>7 DEF BufferInv
  <2>2. PICK n \in Nat : n = run[w]
    OBVIOUS
  <2>3. PICK b \in BOOLEAN : b = missing[w]
    OBVIOUS
  <2>4. out[w] = Lines(LinesFor(n, b)) /\ LinesFor(n, b) \in Seq(Line)
    BY <2>1, <2>2, <2>3, TextTyped
  <2>5. PICK L \in Seq(Line) : L = LinesFor(n, b)
    BY <2>4
  <2>6. Lines(L) \in Seq(Piece) /\ Len(Lines(L)) = 2 * Len(L)
    BY LinesAt
  <2>7. SubSeq(Lines(L), 1, Len(Lines(L))) = Lines(L)
    <3> HIDE DEF Piece
    <3> QED BY <2>6, SubSeqFull
  <2> QED BY <2>4, <2>5, <2>6, <2>7
<1>8. PICK f \in Seq(Piece) : f = file
  OBVIOUS
<1>9. PICK R \in Seq(Nat \X Nat) : R = appended
  OBVIOUS
<1>10. Paired(f) /\ Cardinality(TornPieces(f)) <= torn /\ Ended(f, R)
  BY <1>3, <1>8, <1>9
<1>11. IsFiniteSet(TornPieces(f)) /\ Cardinality(TornPieces(f)) \in Nat
  BY TornFinite
<1> HIDE DEF Ended
<1>12. ASSUME NEW w \in Writers, Close(w)
       PROVE  Paired(file') /\ Cardinality(TornPieces(file')) <= torn' /\ Ended(file', appended')
  <2>1. /\ pc[w] = "open" /\ file' = file \o out[w] /\ appended' = appended \o RowsOf(run[w]) /\ torn' = torn
        /\ out[w] = Text(run[w], missing[w])
    BY <1>2, <1>12 DEF Close, BufferInv
  <2>2. PICK L \in Seq(Line) : out[w] = SubSeq(Lines(L), 1, 2 * Len(L))
    BY <1>7, <2>1
  <2>3. PICK k \in Nat : k = 2 * Len(L)
    OBVIOUS
  <2>4. PICK t \in Seq(Piece) : t = out[w]
    OBVIOUS
  <2>5. t = SubSeq(Lines(L), 1, k) /\ k <= 2 * Len(L)
    BY <2>2, <2>3, <2>4
  <2>6. Paired(f \o t) /\ TornPieces(f \o t) = TornPieces(f)
    BY <1>10, <2>3, <2>5, LossAppended
  <2>7. Ended(f \o t, R \o RowsOf(run[w]))
    <3>1. PICK n \in Nat : n = run[w]
      OBVIOUS
    <3>2. PICK b \in BOOLEAN : b = missing[w]
      OBVIOUS
    <3>3. PICK S \in Seq(Nat \X Nat) : S = RowsOf(n)
      BY RowsTyped
    <3>4. \A k2 \in 1..Len(S) : \E i \in 1..Len(t) : t[i] = <<S[k2], 2>>
      <4>1. t = Text(n, b)
        BY <2>1, <2>4, <3>1, <3>2
      <4>2. \A k2 \in 1..Len(RowsOf(n)) : \E i \in 1..Len(Text(n, b)) : Text(n, b)[i] = <<RowsOf(n)[k2], 2>>
        BY RowEnds
      <4> QED BY <3>3, <4>1, <4>2
    <3>5. /\ f \o t \in Seq(Piece) /\ Len(f \o t) = Len(f) + Len(t)
          /\ \A j \in 1..(Len(f) + Len(t)) : (f \o t)[j] = IF j <= Len(f) THEN f[j] ELSE t[j - Len(f)]
      BY PiecesJoined
    <3>6. /\ R \o S \in Seq(Nat \X Nat) /\ Len(R \o S) = Len(R) + Len(S)
          /\ \A j \in 1..(Len(R) + Len(S)) : (R \o S)[j] = IF j <= Len(R) THEN R[j] ELSE S[j - Len(R)]
      BY ConcatProperties
    <3>7. Ended(f \o t, R)
      BY <1>6, <1>10
    <3> HIDE DEF Piece
    <3>8. ASSUME NEW j \in 1..(Len(R) + Len(S))
          PROVE  \E i \in DOMAIN (f \o t) : (f \o t)[i] = <<(R \o S)[j], 2>>
      <4>1. CASE j <= Len(R)
        <5>1. j \in DOMAIN R /\ (R \o S)[j] = R[j]
          BY <3>6, <4>1
        <5> QED BY <3>7, <5>1 DEF Ended
      <4>2. CASE j > Len(R)
        <5>1. j - Len(R) \in 1..Len(S) /\ (R \o S)[j] = S[j - Len(R)]
          BY <3>6, <4>2, SMTT(30)
        <5>2. PICK i \in 1..Len(t) : t[i] = <<S[j - Len(R)], 2>>
          BY <3>4, <5>1
        <5>3. Len(f) + i \in 1..(Len(f) + Len(t)) /\ ~(Len(f) + i <= Len(f)) /\ (Len(f) + i) - Len(f) = i
          OBVIOUS
        <5>4. (f \o t)[Len(f) + i] = t[i] /\ Len(f) + i \in DOMAIN (f \o t)
          BY <3>5, <5>3, SMTT(30)
        <5> QED BY <5>1, <5>2, <5>4
      <4>3. j <= Len(R) \/ j > Len(R)
        OBVIOUS
      <4> QED BY <4>1, <4>2, <4>3
    <3>9. DOMAIN (R \o S) = 1..(Len(R) + Len(S))
      BY <3>6
    <3> QED BY <3>1, <3>3, <3>8, <3>9 DEF Ended
  <2>8. file' = f \o t /\ appended' = R \o RowsOf(run[w])
    BY <1>8, <1>9, <2>1, <2>4
  <2> QED BY <1>10, <2>1, <2>6, <2>7, <2>8
<1>13. ASSUME NEW w \in Writers, Fail(w)
       PROVE  Paired(file') /\ Cardinality(TornPieces(file')) <= torn' /\ Ended(file', appended')
  <2>1. pc[w] = "open" /\ appended' = appended
    BY <1>13 DEF Fail
  <2>2. PICK L \in Seq(Line) : out[w] = Lines(L) /\ Len(out[w]) = 2 * Len(L)
    BY <1>7, <2>1
  <2>3. Len(L) \in Nat
    OBVIOUS
  <2>4. PICK k \in 0..(Len(out[w]) - 1) : file' = file \o SubSeq(out[w], 1, k)
    BY <1>13 DEF Fail
  <2>5. k \in Nat /\ k <= 2 * Len(L)
    BY <2>2, <2>3, <2>4
  <2>6. PICK t \in Seq(Piece) : t = SubSeq(Lines(L), 1, k)
    BY <2>5, PrefixOfLines
  <2> DEFINE h == f \o t
  <2>7. h = file'
    BY <1>8, <2>2, <2>4, <2>6
  <2>8. /\ Paired(h) /\ h \in Seq(Piece) /\ Len(h) = Len(f) + k
        /\ \/ TornPieces(h) = TornPieces(f)
           \/ TornPieces(h) = TornPieces(f) \cup {Len(h)} /\ h # <<>> /\ h[Len(h)][2] = 1
    BY <1>10, <2>5, <2>6, LossAppended
  <2>9. Ended(h, R)
    BY <1>6, <1>10
  <2> HIDE DEF h
  <2>10. torn' = IF h # <<>> /\ h[Len(h)][2] = 1 THEN torn + 1 ELSE torn
    BY <1>13, <2>7 DEF Fail
  <2>11. Cardinality(TornPieces(h)) <= torn'
    <3>1. CASE TornPieces(h) = TornPieces(f)
      BY <1>10, <1>11, <2>10, <3>1
    <3>2. CASE TornPieces(h) = TornPieces(f) \cup {Len(h)} /\ h # <<>> /\ h[Len(h)][2] = 1
      <4>1. Cardinality(TornPieces(h)) <= Cardinality(TornPieces(f)) + 1
        <5>1. Cardinality(TornPieces(f) \cup {Len(h)})
                = IF Len(h) \in TornPieces(f) THEN Cardinality(TornPieces(f)) ELSE Cardinality(TornPieces(f)) + 1
          BY <1>11, FS_AddElement
        <5> QED BY <1>11, <3>2, <5>1
      <4>2. torn' = torn + 1
        BY <2>10, <3>2
      <4>3. Cardinality(TornPieces(h)) \in Nat
        BY <2>8, TornFinite
      <4> QED BY <1>10, <1>11, <4>1, <4>2, <4>3
    <3> QED BY <2>8, <3>1, <3>2
  <2> QED BY <1>9, <2>1, <2>7, <2>8, <2>9, <2>11
<1>14. \/ UNCHANGED <<file, appended, torn>>
       \/ \E w \in Writers : Flush(w) \/ Close(w) \/ Fail(w)
  BY DEF Next, Test, Open, vars
<1> QED BY <1>4, <1>5, <1>12, <1>13, <1>14 DEF Ended

(***************************************************************************)
(* The invariant                                                           *)
(***************************************************************************)
LEMMA NoLines == Lines(<<>>) = <<>> /\ <<>> \in Seq(Line)
<1>1. <<>> \in Seq(Line)
  BY EmptySeq
<1>2. PICK L \in Seq(Line) : L = <<>>
  BY <1>1
<1>3. Lines(L) \in Seq(Piece) /\ Len(Lines(L)) = 2 * Len(L)
  BY LinesAt
<1>4. Len(L) = 0
  BY <1>2
<1>5. Len(Lines(L)) = 0
  BY <1>3, <1>4
<1>6. Lines(L) = <<>>
  BY <1>3, <1>5, EmptySeq
<1> QED BY <1>1, <1>2, <1>6

LEMMA LogInit == Init => LogInv
<1> SUFFICES ASSUME Init PROVE LogInv
  OBVIOUS
<1>1. TypeInv
  BY TypeInit
<1>2. /\ exists = FALSE /\ file = <<>> /\ appended = <<>> /\ torn = 0
      /\ \A w \in Writers : pc[w] = "idle"
  BY DEF Init
<1>3. BusyInv /\ BufferInv
  BY <1>2 DEF BusyInv, BufferInv
<1>4. HeaderInv
  BY <1>2 DEF HeaderInv
<1>5. AloneInv
  BY <1>2 DEF AloneInv
<1>6. SharedInv
  <2>1. LinesOf(file) = <<>>
    <3>1. LinesOf(file) = [k \in 1..0 |-> file[2 * k][1]]
      BY <1>2 DEF LinesOf
    <3> QED BY <3>1
  <2> QED BY <1>2, <2>1, NoLines DEF SharedInv, RowsAmong
<1>7. LossInv
  <2>1. Paired(file) /\ TornPieces(file) = {} /\ DOMAIN appended = {}
    BY <1>2 DEF Paired, TornPieces
  <2> QED BY <1>2, <2>1, FS_EmptySet DEF LossInv
<1> QED BY <1>1, <1>3, <1>4, <1>5, <1>6, <1>7 DEF LogInv

LEMMA LogInvariant == Spec => []LogInv
<1>1. LogInv /\ [Next]_vars => LogInv'
  BY TypeStep, BusyStep, BufferStep, HeaderStep, AloneStep, SharedStep, LossStep DEF LogInv
<1> QED BY LogInit, <1>1, PTL DEF Spec

(***************************************************************************)
(* What the runs check                                                     *)
(***************************************************************************)
LEMMA OneHeader ==
    ASSUME NEW f \in Seq(Piece), NEW R \in Seq(Nat \X Nat), NEW rest \in Seq(Piece),
           f \o rest = Lines(<<Header>> \o R), NEW i \in DOMAIN f, f[i] = <<Header, 1>>
    PROVE  i = 1
<1> DEFINE L == <<Header>> \o R
<1>1. /\ L \in Seq(Line) /\ Len(L) = 1 + Len(R) /\ Len(R) \in Nat
      /\ \A k \in 2..(1 + Len(R)) : L[k] = R[k - 1]
  BY TitledLines
<1> HIDE DEF L
<1>2. /\ Len(Lines(L)) = 2 * Len(L)
      /\ \A k \in 1..Len(L) : Lines(L)[2 * k - 1] = <<L[k], 1>> /\ Lines(L)[2 * k] = <<L[k], 2>>
      /\ \A j \in 1..(2 * Len(L)) : \E k \in 1..Len(L) : j = 2 * k - 1 \/ j = 2 * k
  BY <1>1, LinesAt
<1>3. /\ Len(f \o rest) = Len(f) + Len(rest)
      /\ \A j \in 1..(Len(f) + Len(rest)) : (f \o rest)[j] = IF j <= Len(f) THEN f[j] ELSE rest[j - Len(f)]
  BY PiecesJoined
<1>4. f \o rest = Lines(L)
  BY DEF L
<1>5. i \in 1..Len(f) /\ Len(f) \in Nat /\ Len(rest) \in Nat
  OBVIOUS
<1> HIDE DEF Piece
<1>6. i \in 1..(2 * Len(L)) /\ Lines(L)[i] = <<Header, 1>>
  BY <1>1, <1>2, <1>3, <1>4, <1>5
<1>7. PICK k \in 1..Len(L) : i = 2 * k - 1 \/ i = 2 * k
  BY <1>2, <1>6
<1>8. Lines(L)[2 * k - 1] = <<L[k], 1>> /\ Lines(L)[2 * k] = <<L[k], 2>>
  BY <1>2
<1>9. i = 2 * k - 1 /\ L[k] = Header
  BY <1>6, <1>7, <1>8
<1>10. CASE k = 1
  BY <1>9, <1>10
<1>11. CASE k \in 2..(1 + Len(R))
  <2>1. L[k] = R[k - 1] /\ k - 1 \in 1..Len(R)
    BY <1>1, <1>11, SMTT(30)
  <2>2. R[k - 1] \in Nat \X Nat
    BY <2>1
  <2> QED BY <1>9, <2>1, <2>2, RowIsNoHeader
<1> QED BY <1>1, <1>10, <1>11

LEMMA HeadersAlone == ASSUME TypeInv, AloneInv, failures = 0, ~overlapped PROVE Headers \subseteq {1}
<1> USE DEF TypeInv
<1>1. ASSUME NEW R \in Seq(Nat \X Nat), NEW rest \in Seq(Piece), file \o rest = Lines(<<Header>> \o R)
      PROVE  Headers \subseteq {1}
  <2>1. PICK f \in Seq(Piece) : f = file
    OBVIOUS
  <2>2. \A i \in DOMAIN f : f[i] = <<Header, 1>> => i = 1
    BY <1>1, <2>1, OneHeader
  <2> QED BY <2>1, <2>2 DEF Headers
<1>2. CASE NobodyWrites
  <2>1. file = IF appended = <<>> THEN <<>> ELSE Lines(<<Header>> \o appended)
    BY <1>2 DEF AloneInv
  <2>2. CASE appended = <<>>
    <3>1. DOMAIN file = {}
      BY <2>1, <2>2
    <3> QED BY <3>1 DEF Headers
  <2>3. CASE appended # <<>>
    <3>1. <<>> \in Seq(Piece) /\ file \o <<>> = file
      BY EmptySeq, ConcatEmptySeq
    <3> QED BY <1>1, <2>1, <2>3, <3>1
  <2> QED BY <2>2, <2>3
<1>3. ASSUME NEW w \in Writers, pc[w] = "open" PROVE Headers \subseteq {1}
  <2>1. file \o out[w] = Lines(<<Header>> \o (appended \o RowsOf(run[w])))
    BY <1>3 DEF AloneInv
  <2>2. PICK n \in Nat : n = run[w]
    OBVIOUS
  <2>3. PICK S \in Seq(Nat \X Nat) : S = RowsOf(n)
    BY RowsTyped
  <2>4. PICK R \in Seq(Nat \X Nat) : R = appended \o S
    <3>1. PICK A \in Seq(Nat \X Nat) : A = appended
      OBVIOUS
    <3>2. A \o S \in Seq(Nat \X Nat)
      BY ConcatProperties
    <3> QED BY <3>1, <3>2
  <2>5. file \o out[w] = Lines(<<Header>> \o R)
    BY <2>1, <2>2, <2>3, <2>4
  <2>6. PICK rest \in Seq(Piece) : rest = out[w]
    OBVIOUS
  <2> QED BY <1>1, <2>5, <2>6
<1> QED BY <1>2, <1>3 DEF NobodyWrites

\* A file that is not empty starts with the header unless an append was torn in the
\* middle of a line (where only its existence is tested: unless one failed or two
\* overlapped), and appends that do not overlap write it once.
THEOREM HeaderStaysOnTop == Spec => []HeaderOnTop
<1>1. LogInv => HeaderOnTop
  <2> SUFFICES ASSUME LogInv PROVE HeaderOnTop
    OBVIOUS
  <2> USE DEF LogInv, TypeInv
  <2>1. ASSUME Untorn PROVE HeaderFirst
    <3>1. file = <<>> \/ Started(file)
      BY <2>1 DEF HeaderInv
    <3> QED BY <3>1, StartedHasHeader DEF HeaderFirst
  <2>2. ASSUME failures = 0, ~overlapped PROVE Cardinality(Headers) <= 1
    <3>1. Headers \in SUBSET {1}
      BY <2>2, HeadersAlone
    <3>2. IsFiniteSet({1}) /\ Cardinality({1}) = 1
      BY FS_Singleton
    <3>3. IsFiniteSet(Headers) /\ Cardinality(Headers) <= Cardinality({1})
      BY <3>1, <3>2, FS_Subset
    <3> QED BY <3>2, <3>3
  <2> QED BY <2>1, <2>2 DEF HeaderOnTop, Untorn
<1> QED BY LogInvariant, <1>1, PTL

\* A reader gets the rows of the successful appends and no others, where an
\* append is one write or the appends do not overlap.
THEOREM ReaderGetsTheRows == Spec => []ReadsWhatWasAppended
<1>1. LogInv => ReadsWhatWasAppended
  <2> SUFFICES ASSUME LogInv, failures = 0,
                      \/ OneWrite /\ HeaderTest # "exists"
                      \/ ~overlapped /\ NobodyWrites,
                      NEW n \in 1..3
               PROVE  ReadLast(n) = SubSeq(appended, IF n < Len(appended) THEN Len(appended) - n + 1 ELSE 1, Len(appended))
    BY DEF ReadsWhatWasAppended, OneWrite, NobodyWrites
  <2> USE DEF LogInv, TypeInv
  <2>1. PICK R \in Seq(Nat \X Nat) : R = appended
    OBVIOUS
  <2>2. \E L \in Seq(Line) : file = Lines(L) /\ RowsAmong(L, R)
    <3>1. CASE OneWrite /\ HeaderTest # "exists"
      <4>1. file = Lines(LinesOf(file)) /\ RowsAmong(LinesOf(file), R)
        BY <2>1, <3>1 DEF SharedInv
      <4>2. PICK f \in Seq(Piece) : f = file
        OBVIOUS
      <4>3. LinesOf(f) \in Seq(Line)
        BY LinesOfTyped
      <4> QED BY <4>1, <4>2, <4>3
    <3>2. CASE ~overlapped /\ NobodyWrites
      <4>1. file = IF R = <<>> THEN <<>> ELSE Lines(<<Header>> \o R)
        BY <2>1, <3>2 DEF AloneInv
      <4>2. CASE R = <<>>
        <5>1. RowsAmong(<<>>, R)
          BY <4>2 DEF RowsAmong
        <5> QED BY <4>1, <4>2, <5>1, NoLines
      <4>3. CASE R # <<>>
        <5>1. <<Header>> \o R \in Seq(Line) /\ RowsAmong(<<Header>> \o R, R)
          BY TitledLines, AmongTitled
        <5> QED BY <4>1, <4>3, <5>1
      <4> QED BY <4>2, <4>3
    <3> QED BY <3>1, <3>2
  <2>3. PICK L \in Seq(Line) : file = Lines(L) /\ RowsAmong(L, R)
    BY <2>2
  <2>4. Rows = R
    BY <2>3, RowsOfLines
  <2> QED BY <2>1, <2>4, LastRows
<1> QED BY LogInvariant, <1>1, PTL

\* A row that a reader no longer finds stands behind a torn piece.
LEMMA LostBehindTorn ==
    ASSUME TypeInv, LossInv, OneWrite, HeaderFirst, NEW r \in ToSet(appended) \ ToSet(Rows)
    PROVE  \E p \in TornPieces(file) : file[p + 2] = <<r, 2>>
<1> USE DEF TypeInv
<1>1. PICK k \in DOMAIN appended : r = appended[k]
  BY DEF ToSet
<1>2. PICK i \in DOMAIN file : file[i] = <<r, 2>>
  BY <1>1 DEF LossInv
<1>3. r \in Nat \X Nat /\ r # Header
  BY <1>1, RowIsNoHeader
<1>4. file # <<>>
  BY <1>2
<1>5. Started(file)
  BY <1>4, HeaderIsStarted
<1>6. i > 1 /\ file[i - 1] = <<r, 1>>
  BY <1>2 DEF LossInv, Paired
<1>7. i > 2
  <2>1. i # 2
    BY <1>2, <1>3, <1>5 DEF Started
  <2> QED BY <1>2, <1>6, <2>1
<1>8. i \in Nat /\ i <= Len(file) /\ Len(file) \in Nat /\ i - 2 \in DOMAIN file /\ i - 1 \in DOMAIN file
  BY <1>2, <1>7, SMTT(30)
<1>9. file[i - 2][2] # 2
  <2> SUFFICES ASSUME file[i - 2][2] = 2 PROVE FALSE
    OBVIOUS
  <2>1. i \in Parsed
    <3>1. file[i - 1] = <<file[i][1], 1>> /\ file[i][2] = 2 /\ file[i][1] # Header
      BY <1>2, <1>3, <1>6
    <3> QED BY <1>7, <3>1, RowParsed
  <2>2. Parsed \subseteq 1..Len(file) /\ Parsed \subseteq Nat
    BY <1>8, SMTT(30) DEF Parsed, Ends
  <2>3. IsFiniteSet(Parsed)
    <3>1. IsFiniteSet(1..Len(file))
      BY <1>8, FS_Interval
    <3> QED BY <2>2, <3>1, FS_Subset
  <2> DEFINE c == Cardinality(Upto(Parsed, i))
  <2>4. c \in 1..Cardinality(Parsed) /\ Nth(Parsed, c) = i
    BY <2>1, <2>2, <2>3, NthOf
  <2> HIDE DEF c
  <2>5. Rows = [j \in 1..Cardinality(Parsed) |-> file[Nth(Parsed, j)][1]]
    BY <1>4 DEF Rows
  <2>6. c \in DOMAIN Rows /\ Rows[c] = r
    BY <1>2, <2>4, <2>5
  <2>7. r \in ToSet(Rows)
    BY <2>6 DEF ToSet
  <2> QED BY <2>7
<1>10. file[i - 2] \in Piece
  BY <1>8
<1>11. file[i - 2][2] = 1
  BY <1>9, <1>10 DEF Piece
<1>12. (i - 2) + 1 = i - 1 /\ (i - 2) + 2 = i
  BY <1>8
<1>13. i - 2 \in TornPieces(file)
  <2>1. file[i - 1][2] # 2
    BY <1>6
  <2> QED BY <1>8, <1>11, <1>12, <2>1 DEF TornPieces
<1> QED BY <1>2, <1>12, <1>13

\* While the header is whole and an append is one write, at most one row of
\* another append is lost per torn append.
THEOREM TornAppendsLoseLittle == Spec => []LossIsBounded
<1>1. LogInv => LossIsBounded
  <2> SUFFICES ASSUME LogInv, HeaderFirst, OneWrite
               PROVE  Cardinality(ToSet(appended) \ ToSet(Rows)) <= torn
    BY DEF LossIsBounded, OneWrite
  <2> USE DEF LogInv
  <2> DEFINE D == ToSet(appended) \ ToSet(Rows)
             T == TornPieces(file)
             f == [r \in D |-> CHOOSE p \in T : file[p + 2] = <<r, 2>>]
  <2>1. \A r \in D : \E p \in T : file[p + 2] = <<r, 2>>
    BY LostBehindTorn
  <2>2. IsFiniteSet(T) /\ Cardinality(T) \in Nat /\ Cardinality(T) <= torn /\ torn \in Nat
    <3>1. PICK g \in Seq(Piece) : g = file
      BY DEF TypeInv
    <3>2. IsFiniteSet(TornPieces(g)) /\ Cardinality(TornPieces(g)) \in Nat
      BY TornFinite
    <3>3. Cardinality(T) <= torn /\ torn \in Nat
      BY DEF LossInv, TypeInv
    <3> QED BY <3>1, <3>2, <3>3
  <2> HIDE DEF D, T
  <2>3. \A r \in D : f[r] \in T /\ file[f[r] + 2] = <<r, 2>>
    BY <2>1
  <2>4. f \in [D -> T]
    BY <2>3
  <2> HIDE DEF f
  <2>5. \A q, r \in D : f[q] = f[r] => q = r
    BY <2>3
  <2>6. f \in Injection(D, T)
    BY <2>4, <2>5 DEF Injection, IsInjective
  <2>7. IsFiniteSet(D) /\ Cardinality(D) <= Cardinality(T)
    BY <2>2, <2>6, FS_Injection
  <2>8. Cardinality(D) \in Nat
    BY <2>7, FS_CardinalityType
  <2> QED BY <2>2, <2>7, <2>8 DEF D
<1> QED BY LogInvariant, <1>1, PTL
=============================================================================
