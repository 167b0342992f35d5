--------------------------- MODULE QuestionProofs ---------------------------
(***************************************************************************)
(* Proofs about the questions of BenchVerdicts, one part each: the verdict *)
(* of the pre-flight gate, for every database; the hidden gems, for every  *)
(* tensor; the trend of the forensics history, for every history; and the  *)
(* optimizer's self-test, for every data set whose weights leave it room.  *)
(* Then the questions of RuleQuestions: the causal graph of                *)
(* graph_metrics.py with the table of graph_cache.py, for every list of    *)
(* cards, the ranks in it and the metrics read from either; the type hints *)
(* of the self-event scan, for every commander; and the order of the rows  *)
(* of two cards, for every two cards.  Last, the two compilers of          *)
(* RuleInterpreter, for every predicate tree.                              *)
(***************************************************************************)
EXTENDS RuleQuestions, RuleInterpreter, FiniteSetTheorems, SequenceTheorems, TLAPS

-----------------------------------------------------------------------------
(* The pre-flight gate                                                     *)

\* A gate question has cards of the database on both sides, from the first rule of the
\* stream to the last.
GateInv ==
    q.kind = "gate" =>
        q \in [kind : {"gate"}, fixture : SUBSET Cards, db : Databases, matching : SUBSET Cards]

LEMMA GateQuestions == Spec => []GateInv
<1>1. Init => GateInv
  BY DEF Init, GateInv
<1>2. ASSUME GateInv, [Next]_vars PROVE GateInv'
  <2>1. CASE EvaluateOne
    BY <1>2, <2>1 DEF EvaluateOne, GateInv
  <2>2. CASE \E c \in GemCandidates, r \in GemRules, x \in Contributions : Record(c, r, x)
    BY <2>2 DEF Record, GateInv
  <2>3. CASE \E row \in TrendRows : AppendRun(row)
    BY <2>3 DEF AppendRun, GateInv
  <2>4. CASE UNCHANGED vars
    BY <1>2, <2>4 DEF vars, GateInv
  <2> QED BY <1>2, <2>1, <2>2, <2>3, <2>4 DEF Next
<1> QED BY <1>1, <1>2, PTL DEF Spec

\* The gate's Cardinality is the one of FiniteSets.
LEMMA GateCounts == \A S : Gate!Cardinality(S) = Cardinality(S)
BY Zenon DEF Gate!Cardinality, Cardinality

\* The first corpus counts a card exactly if the rule matches one of the fixture, or of
\* the legendary creatures where the fixture is empty.
LEMMA CountedOfFixture ==
    ASSUME NEW M \in SUBSET Cards, NEW F \in SUBSET Cards
    PROVE  Gate!CountDistinct(M, F, Cards) >= 1 <=> M \cap Gate!Universe(F) # {}
<1> DEFINE S == M \cap Gate!Universe(F) \cap Cards
<1>1. S = M \cap Gate!Universe(F) /\ S \in SUBSET Cards
  OBVIOUS
<1>2. IsFiniteSet(S)
  BY <1>1, VerdictAssumption, FS_Subset
<1>3. Cardinality(S) \in Nat /\ (Cardinality(S) = 0 <=> S = {})
  BY <1>2, FS_CardinalityType, FS_EmptySet
<1>4. Gate!CountDistinct(M, F, Cards) = Cardinality(S)
  BY GateCounts DEF Gate!CountDistinct
<1> HIDE DEF S
<1> QED BY <1>1, <1>3, <1>4

\* The second corpus counts no less if the rule matches more or more are legal.
LEMMA LegalCountGrows ==
    ASSUME NEW M \in SUBSET Cards, NEW N \in SUBSET Cards, M \subseteq N,
           NEW L, NEW K, M \cap L \subseteq K
    PROVE  /\ Gate!CountDistinct(M, {}, L) \in Nat
           /\ Gate!CountDistinct(N, {}, K) \in Nat
           /\ Gate!CountDistinct(M, {}, L) <= Gate!CountDistinct(N, {}, K)
<1> DEFINE S == M \cap Gate!Universe({}) \cap L
           T == N \cap Gate!Universe({}) \cap K
<1>1. S \subseteq T /\ T \in SUBSET Cards
  OBVIOUS
<1>2. IsFiniteSet(T)
  BY <1>1, VerdictAssumption, FS_Subset
<1>3. IsFiniteSet(S) /\ Cardinality(S) <= Cardinality(T)
  BY <1>1, <1>2, FS_Subset
<1>4. Cardinality(S) \in Nat /\ Cardinality(T) \in Nat
  BY <1>2, <1>3, FS_CardinalityType
<1>5. Gate!CountDistinct(M, {}, L) = Cardinality(S) /\ Gate!CountDistinct(N, {}, K) = Cardinality(T)
  BY GateCounts DEF Gate!CountDistinct
<1> QED BY <1>3, <1>4, <1>5

\* A verdict by whether the first corpus has a card and the second has enough.
Graded(inFixture, enough) == IF inFixture THEN "PASS" ELSE IF enough THEN "WARN" ELSE "REJECT"

LEMMA StageIsGraded ==
    ASSUME NEW M \in SUBSET Cards, NEW F \in SUBSET Cards, NEW d
    PROVE  Gate!StageA(M, F, d) = Graded(M \cap Gate!Universe(F) # {},
                                         d.hasColumn /\ Gate!CountDistinct(M, {}, d.legal) >= Threshold)
BY CountedOfFixture DEF Gate!StageA, Graded

LEMMA GradesAreOrdered ==
    ASSUME NEW a \in BOOLEAN, NEW b \in BOOLEAN, NEW x \in BOOLEAN, NEW y \in BOOLEAN
    PROVE  /\ (a => b) /\ (x => y) => AtLeast(Graded(b, y), Graded(a, x))
           /\ a /\ ~b => ~AtLeast(Graded(b, y), Graded(a, x))
BY DEF AtLeast, Graded

\* For every database, fixture and stream of predicates: more matches, more legal
\* commanders and a larger fixture never lower the verdict of a rule, except that the
\* first entry of an empty fixture takes PASS from a rule that matches legendary
\* creatures and not that entry; and the gate is blind to a card that is neither legal
\* nor in the fixture, unless the fixture is empty and the card a legendary creature.
THEOREM GateIsMonotone == Spec => []CoverageOnlyHelps
<1>1. GateInv => CoverageOnlyHelps
  <2> SUFFICES ASSUME GateInv, q.kind = "gate" PROVE CoverageOnlyHelps
    BY DEF CoverageOnlyHelps
  <2>1. q.fixture \in SUBSET Cards /\ q.matching \in SUBSET Cards
    BY DEF GateInv
  <2>2. PICK M \in SUBSET Cards : M = q.matching
    BY <2>1
  <2>3. PICK F \in SUBSET Cards : F = q.fixture
    BY <2>1
  <2>4. PICK d : d = q.db
    OBVIOUS
  <2>5. PICK L : L = d.legal
    OBVIOUS
  <2> DEFINE In(N, G)   == N \cap Gate!Universe(G) # {}
             Enough(N, K) == Gate!CountDistinct(N, {}, K) >= Threshold
             now          == Gate!StageA(M, F, d)
  <2>6. now = Graded(In(M, F), d.hasColumn /\ Enough(M, L))
    BY <2>5, StageIsGraded
  <2>7. Threshold \in Nat
    BY VerdictAssumption
  <2>8. ASSUME NEW c \in Cards PROVE AtLeast(Gate!StageA(M \cup {c}, F, d), now)
    <3>1. In(M, F) => In(M \cup {c}, F)
      OBVIOUS
    <3>2. Enough(M, L) => Enough(M \cup {c}, L)
      BY <2>7, LegalCountGrows
    <3>3. Gate!StageA(M \cup {c}, F, d) = Graded(In(M \cup {c}, F), d.hasColumn /\ Enough(M \cup {c}, L))
      BY <2>5, StageIsGraded
    <3> QED BY <2>6, <3>1, <3>2, <3>3, GradesAreOrdered
  <2>9. ASSUME NEW c \in Cards, c \notin F \cup L, F = {} => c \notin Legendary
        PROVE  Gate!StageA(M \cup {c}, F, d) = now
    <3>1. In(M \cup {c}, F) <=> In(M, F)
      BY <2>9 DEF Gate!Universe
    <3>2. (M \cup {c}) \cap Gate!Universe({}) \cap L = M \cap Gate!Universe({}) \cap L
      BY <2>9
    <3>3. Enough(M \cup {c}, L) <=> Enough(M, L)
      BY <3>2 DEF Gate!CountDistinct
    <3>4. Gate!StageA(M \cup {c}, F, d) = Graded(In(M \cup {c}, F), d.hasColumn /\ Enough(M \cup {c}, L))
      BY <2>5, StageIsGraded
    <3> QED BY <2>6, <3>1, <3>3, <3>4
  <2>10. ASSUME NEW c \in Cards
         PROVE  AtLeast(Gate!StageA(M, F, [legal |-> L \cup {c}, hasColumn |-> TRUE]), now)
    <3>1. Enough(M, L) => Enough(M, L \cup {c})
      BY <2>7, LegalCountGrows
    <3>2. Gate!StageA(M, F, [legal |-> L \cup {c}, hasColumn |-> TRUE]) = Graded(In(M, F), Enough(M, L \cup {c}))
      BY StageIsGraded
    <3>3. CASE In(M, F)
      BY <2>6, <3>2, <3>3 DEF AtLeast, Graded
    <3>4. CASE ~In(M, F)
      BY <2>6, <3>1, <3>2, <3>4 DEF AtLeast, Graded
    <3> QED BY <3>3, <3>4
  <2>11. ASSUME NEW c \in Cards
         PROVE  AtLeast(Gate!StageA(M, F \cup {c}, d), now) <=>
                    ~(F = {} /\ M \cap Legendary # {} /\ c \notin M)
    <3>1. Gate!StageA(M, F \cup {c}, d) = Graded(In(M, F \cup {c}), d.hasColumn /\ Enough(M, L))
      BY <2>5, StageIsGraded
    <3>2. Gate!Universe(F \cup {c}) = F \cup {c}
      BY DEF Gate!Universe
    <3>3. CASE F = {} /\ M \cap Legendary # {} /\ c \notin M
      <4>1. In(M, F) /\ ~In(M, F \cup {c})
        BY <3>2, <3>3 DEF Gate!Universe
      <4> QED BY <2>6, <3>1, <3>3, <4>1, GradesAreOrdered
    <3>4. CASE ~(F = {} /\ M \cap Legendary # {} /\ c \notin M)
      <4>1. In(M, F) => In(M, F \cup {c})
        BY <3>2, <3>4 DEF Gate!Universe
      <4> QED BY <2>6, <3>1, <3>4, <4>1, GradesAreOrdered
    <3> QED BY <3>3, <3>4
  <2> QED BY <2>2, <2>3, <2>4, <2>5, <2>8, <2>9, <2>10, <2>11 DEF CoverageOnlyHelps
<1> QED BY <1>1, GateQuestions, PTL

-----------------------------------------------------------------------------
(* Induction over the naturals: the hypothesis is a set.                     *)

\* A set of naturals that is not empty has a least one.
LEMMA LeastNat == ASSUME NEW T \in SUBSET Nat, T # {} PROVE \E n \in T : \A m \in T : n <= m
<1> DEFINE R == OpToRel(<, Nat)
<1>1. \E x \in T : \A y \in T : ~ (<<y, x>> \in R)
  BY NatLessThanWellFounded, WFMin
<1>2. R = {ss \in Nat \X Nat : ss[1] < ss[2]}
  BY DEF OpToRel
<1> HIDE DEF R
<1>3. \A x, y \in Nat : y < x => <<y, x>> \in R
  BY <1>2
<1>4. PICK n \in T : \A y \in T : <<y, n>> \notin R
  BY <1>1
<1>5. ASSUME NEW m \in T PROVE n <= m
  <2>1. ~ (m < n) BY <1>3, <1>4
  <2> QED BY <2>1
<1> QED BY <1>5

\* A set of naturals with 0 and every successor has them all.
LEMMA SetInduction ==
    ASSUME NEW T, 0 \in T, \A n \in Nat : n \in T => n + 1 \in T
    PROVE  Nat \subseteq T
<1> SUFFICES ASSUME Nat \ T # {} PROVE FALSE
  OBVIOUS
<1>1. PICK n \in Nat \ T : \A m \in Nat \ T : n <= m
  BY LeastNat
<1>2. n # 0 /\ n - 1 \in Nat
  BY <1>1
<1>3. n - 1 \in T
  BY <1>1, <1>2
<1> QED BY <1>1, <1>2, <1>3

-----------------------------------------------------------------------------
(* The hidden gems: a total is a positive integer, the median a middle rank *)

\* s adds up the tensor over every subset of D, one chosen key after the other.
Chosen(S) == CHOOSE k \in S : TRUE
Adds(tensor, D, s) == s = [S \in SUBSET D |-> IF S = {} THEN 0 ELSE tensor[Chosen(S)] + s[S \ {Chosen(S)}]]

\* A total is the last value of such an s.
LEMMA TotalByKeys ==
    \A tensor, c : Gem!total(tensor, c) =
        (CHOOSE s : Adds(tensor, Gem!Firing(tensor, c), s))[Gem!Firing(tensor, c)]
BY DEF Gem!total, Adds, Chosen

\* A sum of positive integers is positive, an empty sum is zero.
LEMMA SumIsPositive ==
    ASSUME NEW D, IsFiniteSet(D), NEW f, \A k \in D : f[k] \in Int /\ f[k] > 0
    PROVE  /\ (CHOOSE s : Adds(f, D, s))[D] \in Nat
           /\ (CHOOSE s : Adds(f, D, s))[D] = 0 <=> D = {}
<1> DEFINE Small(n) == {E \in SUBSET D : Cardinality(E) <= n}
           Part(n, g) == /\ g \in [Small(n) -> Nat]
                         /\ \A E \in Small(n) : g[E] = IF E = {} THEN 0 ELSE f[Chosen(E)] + g[E \ {Chosen(E)}]
           T == {n \in Nat : \E g : Part(n, g)}
<1>1. \A E \in SUBSET D : /\ IsFiniteSet(E) /\ Cardinality(E) \in Nat /\ Cardinality(E) <= Cardinality(D)
                          /\ (Cardinality(E) = 0 <=> E = {})
  BY FS_Subset, FS_CardinalityType, FS_EmptySet
<1>2. \A E \in SUBSET D : E # {} =>
          /\ Chosen(E) \in E /\ E \ {Chosen(E)} \in SUBSET D
          /\ Cardinality(E \ {Chosen(E)}) = Cardinality(E) - 1
  BY <1>1, FS_RemoveElement DEF Chosen
<1> HIDE DEF Chosen
<1>3. 0 \in T
  <2> DEFINE g == [E \in Small(0) |-> 0]
  <2>1. \A E \in Small(0) : E = {} BY <1>1
  <2>2. Part(0, g) BY <2>1
  <2> QED BY <2>2
<1>4. \A n \in Nat : n \in T => n + 1 \in T
  <2> SUFFICES ASSUME NEW n \in Nat, n \in T PROVE n + 1 \in T
    OBVIOUS
  <2>1. PICK g : Part(n, g) OBVIOUS
  <2> DEFINE h == [E \in Small(n + 1) |-> IF E = {} THEN 0 ELSE f[Chosen(E)] + g[E \ {Chosen(E)}]]
  <2>2. \A E \in Small(n + 1) : E # {} => E \ {Chosen(E)} \in Small(n)
    BY <1>1, <1>2
  <2>3. h \in [Small(n + 1) -> Nat]
    BY <1>2, <2>1, <2>2
  <2>4. \A E \in Small(n) : h[E] = g[E]
    BY <1>1, <2>1
  <2>5. \A E \in Small(n + 1) : h[E] = IF E = {} THEN 0 ELSE f[Chosen(E)] + h[E \ {Chosen(E)}]
    BY <2>2, <2>4
  <2>6. Part(n + 1, h) BY <2>3, <2>5
  <2> HIDE DEF Part
  <2> QED BY <2>6
<1>5. Nat \subseteq T
  <2> HIDE DEF T
  <2> QED BY <1>3, <1>4, SetInduction
<1>6. Cardinality(D) \in Nat /\ Small(Cardinality(D)) = SUBSET D
  BY <1>1
<1>7. PICK g : Part(Cardinality(D), g)
  BY <1>5, <1>6
<1>8. Adds(f, D, g)
  BY <1>6, <1>7 DEF Adds
<1> DEFINE s == CHOOSE t : Adds(f, D, t)
<1>9. Adds(f, D, s)
  BY <1>8
<1> HIDE DEF s
<1> DEFINE U == {n \in Nat : \A E \in Small(n) : s[E] \in Nat /\ (s[E] = 0 <=> E = {})}
<1>10. 0 \in U
  BY <1>1, <1>9 DEF Adds
<1>11. \A n \in Nat : n \in U => n + 1 \in U
  <2> SUFFICES ASSUME NEW n \in Nat, n \in U, NEW E \in Small(n + 1) PROVE s[E] \in Nat /\ (s[E] = 0 <=> E = {})
    OBVIOUS
  <2>1. CASE E = {} BY <1>9, <2>1 DEF Adds
  <2>2. CASE E # {}
    <3>1. E \ {Chosen(E)} \in Small(n) BY <1>1, <1>2, <2>2
    <3>2. s[E \ {Chosen(E)}] \in Nat /\ f[Chosen(E)] \in Int /\ f[Chosen(E)] > 0 BY <1>2, <2>2, <3>1
    <3>3. s[E] = f[Chosen(E)] + s[E \ {Chosen(E)}] BY <1>9, <2>2 DEF Adds
    <3> QED BY <2>2, <3>2, <3>3
  <2> QED BY <2>1, <2>2
<1>12. Nat \subseteq U
  <2> HIDE DEF U
  <2> QED BY <1>10, <1>11, SetInduction
<1>13. s[D] \in Nat /\ (s[D] = 0 <=> D = {})
  BY <1>6, <1>12
<1> QED BY <1>13 DEF s

\* A finite set of cards has one with the greatest total.
LEMMA GreatestTotal ==
    ASSUME NEW P, IsFiniteSet(P), P # {}, NEW f \in [P -> Nat]
    PROVE  \E m \in P : \A x \in P : f[x] <= f[m]
<1> DEFINE Above(m) == {x \in P : f[x] > f[m]}
           T == {Cardinality(Above(m)) : m \in P}
<1>1. \A m \in P : IsFiniteSet(Above(m)) /\ Cardinality(Above(m)) \in Nat
  BY FS_Subset, FS_CardinalityType
<1>2. T \in SUBSET Nat /\ T # {}
  BY <1>1
<1>3. PICK n \in T : \A k \in T : n <= k
  <2> HIDE DEF T
  <2> QED BY <1>2, LeastNat
<1>4. PICK m \in P : n = Cardinality(Above(m))
  OBVIOUS
<1>5. SUFFICES ASSUME NEW x \in P, f[x] > f[m] PROVE FALSE
  BY <1>4
<1>6. Above(x) \subseteq Above(m) /\ Above(x) # Above(m)
  BY <1>5
<1>7. Cardinality(Above(x)) < Cardinality(Above(m))
  <2> HIDE DEF Above
  <2> QED BY <1>1, <1>4, <1>5, <1>6, FS_Subset, FS_CardinalityType
<1>8. n <= Cardinality(Above(x))
  BY <1>3, <1>5
<1> HIDE DEF Above
<1> QED BY <1>1, <1>4, <1>5, <1>7, <1>8

\* How many of the totals f are below t, and how many are not above it.
Below(P, f, t)  == Cardinality({c \in P : f[c] < t})
UpTo(P, f, t)   == Cardinality({c \in P : f[c] <= t})
IsNth(P, f, k, t) == t \in {f[c] : c \in P} /\ Below(P, f, t) < k /\ k <= UpTo(P, f, t)

\* Both counts grow with t, and a total counts itself only in the second.
LEMMA Ranks ==
    ASSUME NEW P, IsFiniteSet(P), NEW f \in [P -> Nat]
    PROVE  /\ \A t \in Int : Below(P, f, t) \in Nat /\ UpTo(P, f, t) \in Nat
           /\ \A t \in Int : Below(P, f, t) <= UpTo(P, f, t) /\ UpTo(P, f, t) <= Cardinality(P)
           /\ \A t, u \in Int : t < u => UpTo(P, f, t) <= Below(P, f, u)
           /\ \A t, u \in Int : t <= u => Below(P, f, t) <= Below(P, f, u)
           /\ \A t \in Int : UpTo(P, f, t) = Below(P, f, t + 1)
           /\ \A c \in P : Below(P, f, f[c]) + 1 <= UpTo(P, f, f[c])
<1> DEFINE B(t) == {c \in P : f[c] < t}
           U(t) == {c \in P : f[c] <= t}
<1>1. \A t : /\ IsFiniteSet(B(t)) /\ IsFiniteSet(U(t)) /\ Cardinality(B(t)) \in Nat /\ Cardinality(U(t)) \in Nat
             /\ Cardinality(U(t)) <= Cardinality(P)
  BY FS_Subset, FS_CardinalityType
<1>2. \A t \in Int : B(t) \subseteq U(t) /\ U(t) = B(t + 1)
  OBVIOUS
<1>3. \A t, u \in Int : (t < u => U(t) \subseteq B(u)) /\ (t <= u => B(t) \subseteq B(u))
  OBVIOUS
<1>4. \A c \in P : f[c] \in Int /\ B(f[c]) \subseteq U(f[c]) /\ B(f[c]) # U(f[c])
  OBVIOUS
<1> HIDE DEF B, U
<1>5. \A t \in Int : Cardinality(B(t)) <= Cardinality(U(t)) /\ Cardinality(U(t)) = Cardinality(B(t + 1))
  BY <1>1, <1>2, FS_Subset
<1>6. \A t, u \in Int : (t < u => Cardinality(U(t)) <= Cardinality(B(u))) /\ (t <= u => Cardinality(B(t)) <= Cardinality(B(u)))
  BY <1>1, <1>3, FS_Subset
<1>7. \A c \in P : Cardinality(B(f[c])) + 1 <= Cardinality(U(f[c]))
  BY <1>1, <1>4, FS_Subset
<1>8. \A t : Below(P, f, t) = Cardinality(B(t)) /\ UpTo(P, f, t) = Cardinality(U(t))
  BY DEF Below, UpTo, B, U
<1> QED BY <1>1, <1>5, <1>6, <1>7, <1>8

\* Every rank has a total.
LEMMA NthExists ==
    ASSUME NEW P, IsFiniteSet(P), NEW f \in [P -> Nat], NEW k \in 1..Cardinality(P)
    PROVE  \E t : IsNth(P, f, k, t)
<1>1. Cardinality(P) \in Nat /\ P # {}
  BY FS_CardinalityType, FS_EmptySet
<1>2. PICK m \in P : \A x \in P : f[x] <= f[m]
  BY <1>1, GreatestTotal
<1>3. UpTo(P, f, f[m]) = Cardinality(P)
  <2>1. {c \in P : f[c] <= f[m]} = P BY <1>2
  <2> QED BY <2>1 DEF UpTo
<1> DEFINE T == {t \in Nat : k <= UpTo(P, f, t)}
<1>4. PICK t \in T : \A u \in T : t <= u
  <2>1. T \in SUBSET Nat /\ T # {} BY <1>1, <1>2, <1>3
  <2> HIDE DEF T
  <2> QED BY <2>1, LeastNat
<1>5. Below(P, f, t) < k
  <2>1. CASE t = 0
    <3>1. {c \in P : f[c] < t} = {} BY <2>1
    <3> QED BY <3>1, FS_EmptySet DEF Below
  <2>2. CASE t # 0
    <3>1. t - 1 \in Nat /\ (t - 1) + 1 = t /\ t - 1 \notin T BY <1>4, <2>2
    <3>2. UpTo(P, f, t - 1) = Below(P, f, t) /\ UpTo(P, f, t - 1) \in Nat BY <3>1, Ranks
    <3> QED BY <3>1, <3>2
  <2> QED BY <2>1, <2>2
<1>6. t \in {f[c] : c \in P}
  <2> SUFFICES ASSUME t \notin {f[c] : c \in P} PROVE FALSE
    OBVIOUS
  <2>1. {c \in P : f[c] < t} = {c \in P : f[c] <= t} OBVIOUS
  <2>2. Below(P, f, t) = UpTo(P, f, t) BY <2>1 DEF Below, UpTo
  <2> QED BY <1>4, <1>5, <2>2, Ranks
<1> QED BY <1>4, <1>5, <1>6 DEF IsNth

\* Twice a total is more than the two middle totals together exactly if at least half
\* of the totals are below it.
LEMMA MedianByRank ==
    ASSUME NEW P, IsFiniteSet(P), NEW f \in [P -> Nat], NEW c \in P, NEW n, n = Cardinality(P),
           NEW x, IsNth(P, f, (n + 1) \div 2, x), NEW y, IsNth(P, f, n \div 2 + 1, y)
    PROVE  2 * f[c] > x + y <=> 2 * Below(P, f, f[c]) >= n
<1> DEFINE t == f[c]
<1>1. t \in Nat /\ x \in Nat /\ y \in Nat /\ n \in Nat
  BY FS_CardinalityType DEF IsNth
<1>2. PICK b : b = Below(P, f, t) OBVIOUS
<1>3. b \in Nat /\ b + 1 <= UpTo(P, f, t) /\ b <= UpTo(P, f, t)
  BY <1>1, <1>2, Ranks
<1>4. /\ Below(P, f, x) < (n + 1) \div 2 /\ (n + 1) \div 2 <= UpTo(P, f, x)
      /\ Below(P, f, y) < n \div 2 + 1 /\ n \div 2 + 1 <= UpTo(P, f, y)
  BY DEF IsNth
<1>5. \A u \in Nat : /\ Below(P, f, u) \in Nat /\ UpTo(P, f, u) \in Nat
                    /\ (u < t => UpTo(P, f, u) <= b) /\ (t < u => UpTo(P, f, t) <= Below(P, f, u))
                    /\ (t <= u => b <= Below(P, f, u))
  <2> HIDE DEF t
  <2>1. \A u \in Nat : u \in Int /\ t \in Int BY <1>1
  <2> QED BY <1>2, <2>1, Ranks
<1>6. UpTo(P, f, t) \in Nat BY <1>1, Ranks
<1> HIDE DEF t
<1>7. CASE 2 * b >= n
  <2>1. b >= (n + 1) \div 2 BY <1>1, <1>3, <1>7
  <2>2. x < t BY <1>1, <1>3, <1>4, <1>5, <2>1
  <2>3. y <= t BY <1>1, <1>3, <1>4, <1>5, <1>6, <2>1
  <2> QED BY <1>1, <1>2, <1>7, <2>2, <2>3 DEF t
<1>8. CASE 2 * b < n
  <2>1. b < (n + 1) \div 2 /\ b < n \div 2 + 1 BY <1>1, <1>3, <1>8
  <2>2. t <= x BY <1>1, <1>3, <1>4, <1>5, <2>1
  <2>3. t <= y BY <1>1, <1>3, <1>4, <1>5, <2>1
  <2> QED BY <1>1, <1>2, <1>3, <1>8, <2>2, <2>3 DEF t
<1> QED BY <1>1, <1>3, <1>7, <1>8

\* The tensor of a gem question holds finitely many contributions, one for each pair of
\* a candidate and a rule.
Tensors == UNION {[D -> Contributions] : D \in SUBSET (GemCandidates \X GemRules)}
GemInv == q.kind = "gems" => q \in [kind : {"gems"}, tensor : Tensors] /\ IsFiniteSet(DOMAIN q.tensor)

LEMMA GemQuestions == Spec => []GemInv
<1>1. Init => GemInv
  <2>1. <<>> \in Tensors /\ IsFiniteSet(DOMAIN <<>>)
    <3>1. DOMAIN <<>> = {} OBVIOUS
    <3>2. <<>> \in [{} -> Contributions] OBVIOUS
    <3>3. {} \in SUBSET (GemCandidates \X GemRules) OBVIOUS
    <3> QED BY <3>1, <3>2, <3>3, FS_EmptySet DEF Tensors
  <2> QED BY <2>1 DEF Init, GemInv
<1>2. ASSUME GemInv, [Next]_vars PROVE GemInv'
  <2>1. CASE EvaluateOne
    BY <2>1 DEF EvaluateOne, GemInv
  <2>2. CASE \E c \in GemCandidates, r \in GemRules, x \in Contributions : Record(c, r, x)
    <3>1. PICK c \in GemCandidates, r \in GemRules, x \in Contributions : Record(c, r, x) BY <2>2
    <3> DEFINE D == DOMAIN q.tensor
               next == [cell \in D \cup {<<c, r>>} |-> IF cell = <<c, r>> THEN x ELSE q.tensor[cell]]
    <3>2. q.kind = "gems" /\ q \in [kind : {"gems"}, tensor : Tensors] /\ IsFiniteSet(D)
      BY <1>2, <3>1 DEF GemInv, Record
    <3>3. q.tensor \in [D -> Contributions] /\ D \in SUBSET (GemCandidates \X GemRules)
      BY <3>2 DEF Tensors
    <3>4. D \cup {<<c, r>>} \in SUBSET (GemCandidates \X GemRules) /\ IsFiniteSet(D \cup {<<c, r>>})
      <4>1. <<c, r>> \in GemCandidates \X GemRules OBVIOUS
      <4> HIDE DEF D
      <4>2. D \cup {<<c, r>>} \in SUBSET (GemCandidates \X GemRules) BY <3>3, <4>1
      <4>3. IsFiniteSet(D \cup {<<c, r>>}) BY <3>2, FS_AddElement
      <4> QED BY <4>2, <4>3
    <3>5. next \in [D \cup {<<c, r>>} -> Contributions]
      BY <3>3
    <3>6. next \in Tensors /\ IsFiniteSet(DOMAIN next)
      BY <3>4, <3>5 DEF Tensors
    <3>7. q' = [q EXCEPT !.tensor = next]
      BY <3>1 DEF Record
    <3> HIDE DEF next
    <3> QED BY <3>2, <3>6, <3>7 DEF GemInv
  <2>3. CASE \E row \in TrendRows : AppendRun(row)
    BY <2>3 DEF AppendRun, GemInv
  <2>4. CASE UNCHANGED vars
    BY <1>2, <2>4 DEF vars, GemInv
  <2> QED BY <1>2, <2>1, <2>2, <2>3, <2>4 DEF Next
<1> QED BY <1>1, <1>2, PTL DEF Spec

\* The gem metric's Cardinality is the one of FiniteSets.
LEMMA GemCounts == \A S : Gem!Cardinality(S) = Cardinality(S)
BY Zenon DEF Gem!Cardinality, Cardinality

\* The rules in favour of a candidate, as rules.
InFavour(tensor, c) == {r \in GemRules : <<c, r>> \in DOMAIN tensor /\ tensor[<<c, r>>] > 0}
Positive(tensor) == {c \in GemCandidates : InFavour(tensor, c) # {}}

\* What the metric aggregates, by rule: the number in favour, a total that is positive
\* exactly for a card some rule favours, and those cards.
LEMMA TensorTotals ==
    ASSUME NEW tensor \in Tensors, IsFiniteSet(DOMAIN tensor)
    PROVE  /\ \A c : Gem!n_rules(tensor, c) = Cardinality(InFavour(tensor, c))
           /\ \A c : Gem!total(tensor, c) \in Nat
           /\ \A c \in GemCandidates : Gem!total(tensor, c) = 0 <=> InFavour(tensor, c) = {}
           /\ \A c : c \notin GemCandidates => Gem!total(tensor, c) = 0 /\ InFavour(tensor, c) = {}
           /\ Gem!Counted(tensor) = Positive(tensor) /\ IsFiniteSet(Positive(tensor))
<1>1. PICK D \in SUBSET (GemCandidates \X GemRules) : tensor \in [D -> Contributions]
  BY DEF Tensors
<1>2. \A c : Gem!Firing(tensor, c) = {<<c, r>> : r \in InFavour(tensor, c)}
  <2> TAKE c
  <2>1. ASSUME NEW k \in Gem!Firing(tensor, c) PROVE k \in {<<c, r>> : r \in InFavour(tensor, c)}
    <3>1. k \in D /\ k[1] = c /\ tensor[k] > 0 BY <1>1 DEF Gem!Firing
    <3>2. PICK d \in GemCandidates, r \in GemRules : k = <<d, r>> BY <3>1
    <3>3. r \in InFavour(tensor, c) /\ k = <<c, r>> BY <1>1, <3>1, <3>2 DEF InFavour
    <3> QED BY <3>3
  <2>2. ASSUME NEW r \in InFavour(tensor, c) PROVE <<c, r>> \in Gem!Firing(tensor, c)
    <3>1. <<c, r>>[1] = c OBVIOUS
    <3> QED BY <3>1 DEF Gem!Firing, InFavour
  <2> QED BY <2>1, <2>2
<1>3. \A c : /\ IsFiniteSet(Gem!Firing(tensor, c))
             /\ \A k \in Gem!Firing(tensor, c) : tensor[k] \in Int /\ tensor[k] > 0
  <2> TAKE c
  <2>1. Gem!Firing(tensor, c) \subseteq DOMAIN tensor BY DEF Gem!Firing
  <2>2. \A k \in Gem!Firing(tensor, c) : tensor[k] \in Int /\ tensor[k] > 0
    BY <1>1, VerdictAssumption DEF Gem!Firing
  <2> QED BY <2>1, <2>2, FS_Subset
<1>4. \A c : Gem!total(tensor, c) \in Nat /\ (Gem!total(tensor, c) = 0 <=> Gem!Firing(tensor, c) = {})
  <2> TAKE c
  <2>1. PICK F : F = Gem!Firing(tensor, c) OBVIOUS
  <2>2. (CHOOSE s : Adds(tensor, F, s))[F] \in Nat /\ ((CHOOSE s : Adds(tensor, F, s))[F] = 0 <=> F = {})
    BY <1>3, <2>1, SumIsPositive
  <2> QED BY <2>1, <2>2, TotalByKeys
<1>5. \A c : Gem!Firing(tensor, c) = {} <=> InFavour(tensor, c) = {}
  <2> TAKE c
  <2>1. ASSUME NEW r \in InFavour(tensor, c) PROVE Gem!Firing(tensor, c) # {}
    <3>1. <<c, r>> \in {<<c, x>> : x \in InFavour(tensor, c)} OBVIOUS
    <3> QED BY <1>2, <3>1
  <2>2. ASSUME NEW k \in Gem!Firing(tensor, c) PROVE InFavour(tensor, c) # {}
    <3>1. k \in {<<c, x>> : x \in InFavour(tensor, c)} BY <1>2
    <3> QED BY <3>1
  <2> QED BY <2>1, <2>2
<1>6. \A c : c \notin GemCandidates => InFavour(tensor, c) = {}
  BY <1>1 DEF InFavour
<1>7. \A c : Gem!n_rules(tensor, c) = Cardinality(InFavour(tensor, c))
  <2> TAKE c
  <2> DEFINE F == Gem!Firing(tensor, c)
             I == InFavour(tensor, c)
             name == [k \in F |-> k[2]]
  <2>1. name \in Bijection(F, I)
    <3>1. name \in [F -> I] BY <1>2
    <3>2. \A k, l \in F : name[k] = name[l] => k = l BY <1>2
    <3>3. \A r \in I : \E k \in F : name[k] = r
      <4> TAKE r \in I
      <4>1. <<c, r>> \in F /\ name[<<c, r>>] = r BY <1>2
      <4> QED BY <4>1
    <3> HIDE DEF name, F, I
    <3> QED BY <3>1, <3>2, <3>3 DEF Bijection, Injection, Surjection, IsInjective
  <2> HIDE DEF F, I, name
  <2>2. Cardinality(F) = Cardinality(I)
    BY <1>3, <2>1, FS_Bijection DEF F, ExistsBijection
  <2> QED BY <2>2, GemCounts DEF Gem!n_rules, F, I
<1>8. Gem!Counted(tensor) = Positive(tensor)
  <2>1. ASSUME NEW c \in Gem!Counted(tensor) PROVE c \in Positive(tensor)
    BY <1>1, <2>1 DEF Gem!Counted, Positive, InFavour
  <2>2. ASSUME NEW c \in Positive(tensor) PROVE c \in Gem!Counted(tensor)
    <3>1. PICK r \in GemRules : <<c, r>> \in DOMAIN tensor /\ tensor[<<c, r>>] > 0 BY DEF Positive, InFavour
    <3>2. <<c, r>>[1] = c OBVIOUS
    <3> QED BY <3>1, <3>2, Zenon DEF Gem!Counted
  <2> QED BY <2>1, <2>2
<1>9. IsFiniteSet(Positive(tensor))
  <2> DEFINE K == {k \in DOMAIN tensor : tensor[k] > 0}
             candidate == [k \in K |-> k[1]]
  <2>1. IsFiniteSet(K) BY FS_Subset
  <2>2. candidate \in Surjection(K, Gem!Counted(tensor)) BY Zenon DEF Gem!Counted, Surjection
  <2> HIDE DEF K, candidate
  <2> QED BY <1>8, <2>1, <2>2, FS_Surjection
<1> QED BY <1>4, <1>5, <1>6, <1>7, <1>8, <1>9

\* The median of the metric is a pair of middle totals.
LEMMA MedianIsMiddle ==
    ASSUME NEW tensor, NEW P, P = Gem!Counted(tensor), IsFiniteSet(P),
           NEW f \in [P -> Nat], \A c \in P : f[c] = Gem!total(tensor, c), NEW k \in 1..Cardinality(P)
    PROVE  IsNth(P, f, k, Gem!Nth(tensor, k))
<1>1. \A t : IsNth(P, f, k, t) <=>
          /\ t \in {Gem!total(tensor, c) : c \in P}
          /\ Gem!Cardinality({c \in P : Gem!total(tensor, c) < t}) < k
          /\ k <= Gem!Cardinality({c \in P : Gem!total(tensor, c) <= t})
  <2> TAKE t
  <2>1. {f[c] : c \in P} = {Gem!total(tensor, c) : c \in P} OBVIOUS
  <2>2. {c \in P : f[c] < t} = {c \in P : Gem!total(tensor, c) < t} OBVIOUS
  <2>3. {c \in P : f[c] <= t} = {c \in P : Gem!total(tensor, c) <= t} OBVIOUS
  <2> QED BY <2>1, <2>2, <2>3, GemCounts DEF IsNth, Below, UpTo
<1>2. \E t : IsNth(P, f, k, t)
  BY NthExists
<1>3. PICK u : IsNth(P, f, k, u) BY <1>2
<1> DEFINE Mid(t) == /\ Gem!Cardinality({c \in P : Gem!total(tensor, c) < t}) < k
                     /\ k <= Gem!Cardinality({c \in P : Gem!total(tensor, c) <= t})
           V == {Gem!total(tensor, c) : c \in P}
<1>4. u \in V /\ Mid(u) BY <1>1, <1>3
<1>5. Gem!Nth(tensor, k) = CHOOSE t \in V : Mid(t) BY Zenon DEF Gem!Nth
<1>6. Gem!Nth(tensor, k) \in V /\ Mid(Gem!Nth(tensor, k))
  <2> HIDE DEF V, Mid
  <2> QED BY <1>4, <1>5, Zenon
<1> QED BY <1>1, <1>6

\* For every tensor a scorer can write, of any number of candidates and rules, integer
\* contributions of either sign, and any two lists of top cards: the plausibility gate
\* of hidden_gems.py is a matter of rank.
THEOREM GemsAreRanked == Spec => []GemsBeatHalf
<1>1. GemInv => GemsBeatHalf
  <2> SUFFICES ASSUME GemInv, q.kind = "gems" PROVE GemsBeatHalf
    BY DEF GemsBeatHalf
  <2>1. PICK tensor \in Tensors : tensor = q.tensor /\ IsFiniteSet(DOMAIN tensor)
    BY DEF GemInv
  <2> DEFINE P == Positive(tensor)
             n == Cardinality(P)
             f == [c \in P |-> Gem!total(tensor, c)]
  <2>2. /\ \A c : Gem!n_rules(tensor, c) = Cardinality(InFavour(tensor, c))
        /\ \A c : Gem!total(tensor, c) \in Nat
        /\ \A c : Gem!total(tensor, c) > 0 <=> c \in P
        /\ Gem!Counted(tensor) = P /\ IsFiniteSet(P)
    <3>1. /\ \A c : Gem!n_rules(tensor, c) = Cardinality(InFavour(tensor, c))
          /\ \A c : Gem!total(tensor, c) \in Nat
          /\ \A c \in GemCandidates : Gem!total(tensor, c) = 0 <=> InFavour(tensor, c) = {}
          /\ \A c : c \notin GemCandidates => Gem!total(tensor, c) = 0 /\ InFavour(tensor, c) = {}
          /\ Gem!Counted(tensor) = Positive(tensor) /\ IsFiniteSet(Positive(tensor))
      BY <2>1, TensorTotals
    <3>2. \A c : c \in P <=> c \in GemCandidates /\ InFavour(tensor, c) # {}
      BY DEF Positive
    <3>3. \A c : Gem!total(tensor, c) > 0 <=> c \in P
      BY <3>1, <3>2
    <3> QED BY <3>1, <3>3
  <2>3. f \in [P -> Nat] /\ n \in Nat
    BY <2>2, FS_CardinalityType
  <2>4. ASSUME NEW c \in P
        PROVE  /\ 2 * f[c] > Gem!TwiceMedian(tensor) <=> 2 * Below(P, f, f[c]) >= n
               /\ Gem!TwiceMedian(tensor) > 0
    <3>1. n # 0 /\ (n + 1) \div 2 \in 1..n /\ n \div 2 + 1 \in 1..n
      <4>1. n # 0 BY <2>2, <2>4, FS_EmptySet
      <4> HIDE DEF n
      <4> QED BY <2>3, <4>1
    <3> DEFINE x == Gem!Nth(tensor, (n + 1) \div 2)
               y == Gem!Nth(tensor, n \div 2 + 1)
    <3>2. Gem!Cardinality(Gem!Counted(tensor)) = n
      BY <2>2, GemCounts
    <3>3. Gem!TwiceMedian(tensor) = x + y
      BY <3>1, <3>2 DEF Gem!TwiceMedian
    <3>4. IsNth(P, f, (n + 1) \div 2, x) /\ IsNth(P, f, n \div 2 + 1, y)
      <4>1. \A k \in 1..n : IsNth(P, f, k, Gem!Nth(tensor, k))
        BY <2>2, <2>3, MedianIsMiddle
      <4> HIDE DEF n, f, P
      <4> QED BY <3>1, <4>1
    <3>5. x \in Nat /\ x > 0 /\ y \in Nat /\ y > 0
      <4>1. \A t \in {f[d] : d \in P} : t \in Nat /\ t > 0 BY <2>2
      <4> HIDE DEF x, y, f, P
      <4> QED BY <3>4, <4>1 DEF IsNth
    <3> HIDE DEF x, y, f, P, n
    <3>6. 2 * f[c] > x + y <=> 2 * Below(P, f, f[c]) >= n
      BY <2>2, <2>3, <2>4, <3>4, MedianByRank DEF n
    <3> QED BY <3>3, <3>5, <3>6
  <2>5. ASSUME NEW c
        PROVE  Gem!Plausible(tensor, c) <=>
                   \/ Cardinality(InFavour(tensor, c)) >= 2
                   \/ c \in P /\ 2 * Cardinality({d \in P : Gem!total(tensor, d) < Gem!total(tensor, c)}) >= n
    <3>1. CASE c \notin P
      BY <2>2, <3>1 DEF Gem!Plausible
    <3>2. CASE c \in P
      <4>1. {d \in P : f[d] < f[c]} = {d \in P : Gem!total(tensor, d) < Gem!total(tensor, c)} BY <3>2
      <4>2. Below(P, f, f[c]) = Cardinality({d \in P : Gem!total(tensor, d) < Gem!total(tensor, c)})
        BY <4>1 DEF Below
      <4>3. f[c] = Gem!total(tensor, c) BY <3>2
      <4> HIDE DEF P, f, n
      <4> QED BY <2>2, <2>4, <3>2, <4>2, <4>3 DEF Gem!Plausible
    <3> QED BY <3>1, <3>2
  <2> HIDE DEF P, n, f
  <2>6. \A c : c \in Gem!Gems(tensor, OurTop, EdhrecTop) <=> c \in OurTop \ EdhrecTop /\ Gem!Plausible(tensor, c)
    BY DEF Gem!Gems
  <2>7. \A c \in OurTop \ EdhrecTop :
            c \in Gem!Gems(tensor, OurTop, EdhrecTop) <=>
                \/ Cardinality(InFavour(tensor, c)) >= 2
                \/ c \in Positive(tensor)
                   /\ 2 * Cardinality({d \in Positive(tensor) : Gem!total(tensor, d) < Gem!total(tensor, c)})
                          >= Cardinality(Positive(tensor))
    BY <2>5, <2>6 DEF P, n
  <2> QED BY <2>1, <2>7, Zenon DEF GemsBeatHalf, InFavour, Positive
<1> QED BY <1>1, GemQuestions, PTL

-----------------------------------------------------------------------------
(* The trend of the forensics history                                      *)

\* f is the fold of build_trend_items over the first n rows.
Folds(rows, n, f) ==
    f = [k \in 0..n |-> IF k = 0 THEN [items |-> <<>>, prev |-> <<>>] ELSE Trend!Fold(f[k - 1], rows[k])]

\* A trend is the last value of such an f.
LEMMA TrendByRows ==
    \A rows : Trend!build_trend_items(rows) = (CHOOSE f : Folds(rows, Len(rows), f))[Len(rows)].items
BY DEF Trend!build_trend_items, Folds

\* There is one for every number of rows.
LEMMA FoldExists == ASSUME NEW rows, NEW n \in Nat PROVE \E f : Folds(rows, n, f)
<1> DEFINE T == {m \in Nat : \E f : Folds(rows, m, f)}
<1>1. 0 \in T
  <2> DEFINE f == [k \in 0..0 |-> [items |-> <<>>, prev |-> <<>>]]
  <2>1. Folds(rows, 0, f) BY DEF Folds
  <2> QED BY <2>1
<1>2. \A m \in Nat : m \in T => m + 1 \in T
  <2> SUFFICES ASSUME NEW m \in Nat, m \in T PROVE m + 1 \in T
    OBVIOUS
  <2>1. PICK f : Folds(rows, m, f) OBVIOUS
  <2> DEFINE g == [k \in 0..(m + 1) |->
                      IF k = 0 THEN [items |-> <<>>, prev |-> <<>>] ELSE Trend!Fold(f[k - 1], rows[k])]
  <2>2. \A k \in 0..m : g[k] = f[k] BY <2>1 DEF Folds
  <2>3. \A k \in 0..(m + 1) : k # 0 => k - 1 \in 0..m OBVIOUS
  <2>4. Folds(rows, m + 1, g) BY <2>2, <2>3 DEF Folds
  <2> QED BY <2>4
<1>3. Nat \subseteq T
  <2> HIDE DEF T
  <2> QED BY <1>1, <1>2, SetInduction
<1> QED BY <1>3

\* What the loop holds after k rows.
State(rows, k) == (CHOOSE f : Folds(rows, Len(rows), f))[k]

\* The loop starts with nothing and takes one row after the other.
LEMMA TrendSteps ==
    ASSUME NEW rows, Len(rows) \in Nat
    PROVE  /\ Trend!build_trend_items(rows) = State(rows, Len(rows)).items
           /\ State(rows, 0) = [items |-> <<>>, prev |-> <<>>]
           /\ \A k \in 1..Len(rows) : State(rows, k) = Trend!Fold(State(rows, k - 1), rows[k])
<1> DEFINE f == CHOOSE g : Folds(rows, Len(rows), g)
<1>1. Folds(rows, Len(rows), f)
  <2>1. \E g : Folds(rows, Len(rows), g) BY FoldExists
  <2> QED BY <2>1
<1> HIDE DEF f
<1>2. f[0] = [items |-> <<>>, prev |-> <<>>] /\ \A k \in 1..Len(rows) : f[k] = Trend!Fold(f[k - 1], rows[k])
  BY <1>1 DEF Folds
<1>3. \A k : State(rows, k) = f[k] BY DEF State, f
<1> QED BY <1>2, <1>3, TrendByRows DEF f

\* What one more row appends to the items.
First(row) == [row |-> <<row>>, ndcg |-> {}, gem |-> {}]
Later(row, prev) ==
    [row |-> <<row>>, ndcg |-> Trend!Minus(row.ndcg, prev.ndcg), gem |-> Trend!Minus(row.gem, prev.gem)]
Appended(rows, k) ==
    IF k = 1 THEN <<First(rows[k])>>
    ELSE IF Trend!NewGroup(rows[k], rows[k - 1]) THEN <<Trend!Boundary, First(rows[k])>>
    ELSE <<Later(rows[k], rows[k - 1])>>

\* What an item of a trend over some rows can be.
Items(S) == {Trend!Boundary} \cup {First(row) : row \in S} \cup {Later(row, prev) : row \in S, prev \in S}

\* A row appends an item, or a boundary and an item.
LEMMA AppendedAreItems ==
    ASSUME NEW S, NEW rows \in Seq(S), NEW k \in 1..Len(rows)
    PROVE  Appended(rows, k) \in Seq(Items(S)) /\ Len(Appended(rows, k)) \in {1, 2}
<1>1. rows[k] \in S /\ (k # 1 => rows[k - 1] \in S)
  OBVIOUS
<1>2. Trend!Boundary \in Items(S) /\ First(rows[k]) \in Items(S) /\ (k # 1 => Later(rows[k], rows[k - 1]) \in Items(S))
  BY <1>1 DEF Items
<1> QED BY <1>2 DEF Appended

\* Appending two in turn is appending the two.
LEMMA AppendTwice ==
    ASSUME NEW S, NEW s \in Seq(S), NEW a \in S, NEW b \in S
    PROVE  s \o <<a>> \o <<b>> = s \o <<a, b>>
<1> DEFINE l == s \o <<a>> \o <<b>>
           r == s \o <<a, b>>
<1>1. l \in Seq(S) /\ r \in Seq(S) /\ Len(l) = Len(r)
  OBVIOUS
<1>2. \A k \in 1..Len(l) : l[k] = r[k]
  OBVIOUS
<1> HIDE DEF l, r
<1>3. l = r
  BY <1>1, <1>2
<1> QED BY <1>3 DEF l, r

\* The loop, row by row.
LEMMA TrendGrows ==
    ASSUME NEW S, NEW rows \in Seq(S)
    PROVE  /\ State(rows, 0).items = <<>>
           /\ \A k \in 1..Len(rows) : State(rows, k).items = State(rows, k - 1).items \o Appended(rows, k)
           /\ \A k \in 0..Len(rows) : State(rows, k).items \in Seq(Items(S))
           /\ Trend!build_trend_items(rows) = State(rows, Len(rows)).items
<1>0. Len(rows) \in Nat
  OBVIOUS
<1>1. /\ Trend!build_trend_items(rows) = State(rows, Len(rows)).items
      /\ State(rows, 0) = [items |-> <<>>, prev |-> <<>>]
      /\ \A k \in 1..Len(rows) : State(rows, k) = Trend!Fold(State(rows, k - 1), rows[k])
  BY <1>0, TrendSteps
<1>2. \A acc, row : /\ Trend!Fold(acc, row).prev = <<row>>
                    /\ Trend!Fold(acc, row).items =
                           acc.items \o (IF acc.prev # <<>> /\ Trend!NewGroup(row, acc.prev[1])
                                         THEN <<Trend!Boundary>> ELSE <<>>)
                               \o <<Trend!Item(row, acc.prev)>>
  BY DEF Trend!Fold
<1>3. \A k \in 1..Len(rows) : State(rows, k).prev = <<rows[k]>>
  BY <1>1, <1>2
<1>4. \A k \in 0..Len(rows) : State(rows, k).prev = IF k = 0 THEN <<>> ELSE <<rows[k]>>
  BY <1>0, <1>1, <1>3
<1>5. ASSUME NEW k \in 1..Len(rows), State(rows, k - 1).items \in Seq(Items(S))
      PROVE  /\ State(rows, k).items = State(rows, k - 1).items \o Appended(rows, k)
             /\ State(rows, k).items \in Seq(Items(S))
  <2>1. PICK acc : acc = State(rows, k - 1) OBVIOUS
  <2>2. PICK it \in Seq(Items(S)) : it = acc.items BY <1>5, <2>1
  <2>3. acc.prev = IF k = 1 THEN <<>> ELSE <<rows[k - 1]>> BY <1>0, <1>4, <2>1
  <2>4. State(rows, k).items = it \o (IF acc.prev # <<>> /\ Trend!NewGroup(rows[k], acc.prev[1])
                                      THEN <<Trend!Boundary>> ELSE <<>>)
                                  \o <<Trend!Item(rows[k], acc.prev)>>
    BY <1>1, <1>2, <2>1, <2>2
  <2>5. Appended(rows, k) \in Seq(Items(S))
    BY AppendedAreItems
  <2>6. State(rows, k).items = it \o Appended(rows, k)
    <3>1. CASE k = 1
      <4>1. acc.prev = <<>> /\ Trend!Item(rows[k], acc.prev) = First(rows[k])
        BY <2>3, <3>1 DEF Trend!Item, First
      <4>2. State(rows, k).items = it \o <<>> \o <<First(rows[k])>> BY <2>4, <4>1
      <4> QED BY <3>1, <4>2 DEF Appended
    <3>2. CASE k # 1 /\ Trend!NewGroup(rows[k], rows[k - 1])
      <4>1. acc.prev # <<>> /\ acc.prev[1] = rows[k - 1] BY <2>3, <3>2
      <4>2. Trend!Item(rows[k], acc.prev) = First(rows[k])
        BY <3>2, <4>1 DEF Trend!Item, First
      <4>3. State(rows, k).items = it \o <<Trend!Boundary>> \o <<First(rows[k])>> BY <2>4, <3>2, <4>1, <4>2
      <4>4. Appended(rows, k) = <<Trend!Boundary, First(rows[k])>> BY <3>2 DEF Appended
      <4> HIDE DEF First
      <4>5. Trend!Boundary \in Items(S) /\ First(rows[k]) \in Items(S) BY DEF Items
      <4>6. PICK X, a, b : X = Items(S) /\ a = Trend!Boundary /\ b = First(rows[k]) OBVIOUS
      <4>7. it \in Seq(X) /\ a \in X /\ b \in X BY <4>5, <4>6
      <4>8. it \o <<a>> \o <<b>> = it \o <<a, b>> BY <4>7, AppendTwice
      <4> QED BY <4>3, <4>4, <4>6, <4>8
    <3>3. CASE k # 1 /\ ~Trend!NewGroup(rows[k], rows[k - 1])
      <4>1. acc.prev # <<>> /\ acc.prev[1] = rows[k - 1] BY <2>3, <3>3
      <4>2. Trend!Item(rows[k], acc.prev) = Later(rows[k], rows[k - 1])
        BY <3>3, <4>1 DEF Trend!Item, Later
      <4>3. State(rows, k).items = it \o <<>> \o <<Later(rows[k], rows[k - 1])>> BY <2>4, <3>3, <4>1, <4>2
      <4> QED BY <3>3, <4>3 DEF Appended
    <3> QED BY <3>1, <3>2, <3>3
  <2> QED BY <2>1, <2>2, <2>5, <2>6
<1> DEFINE T == {k \in Nat : k <= Len(rows) => State(rows, k).items \in Seq(Items(S))}
<1>6. 0 \in T
  <2>1. State(rows, 0).items = <<>> BY <1>1
  <2>2. <<>> \in Seq(Items(S)) OBVIOUS
  <2> QED BY <2>1, <2>2
<1>7. \A k \in Nat : k \in T => k + 1 \in T
  <2> SUFFICES ASSUME NEW k \in Nat, k \in T, k + 1 <= Len(rows) PROVE State(rows, k + 1).items \in Seq(Items(S))
    OBVIOUS
  <2>1. k + 1 \in 1..Len(rows) /\ (k + 1) - 1 = k BY <1>0
  <2> QED BY <1>0, <1>5, <2>1
<1>8. Nat \subseteq T
  <2> HIDE DEF T
  <2> QED BY <1>6, <1>7, SetInduction
<1>9. \A k \in 0..Len(rows) : State(rows, k).items \in Seq(Items(S))
  BY <1>0, <1>8
<1>10. \A k \in 1..Len(rows) : State(rows, k - 1).items \in Seq(Items(S))
  BY <1>0, <1>9
<1> QED BY <1>1, <1>5, <1>9, <1>10

\* Counting the rows among the first items.
LEMMA RowCounts ==
    /\ \A it : RowsUpTo(it, 0) = 0
    /\ \A it : \A p \in Nat : /\ RowsUpTo(it, p) \in Nat
                              /\ RowsUpTo(it, p + 1) = RowsUpTo(it, p) + IF IsRow(it[p + 1]) THEN 1 ELSE 0
    /\ \A a, b : \A p \in Nat : (\A j \in 1..p : a[j] = b[j]) => RowsUpTo(a, p) = RowsUpTo(b, p)
<1> DEFINE In(it, p) == {j \in 1..p : IsRow(it[j])}
<1>1. \A it : In(it, 0) = {}
  OBVIOUS
<1>2. \A it : \A p \in Nat : IsFiniteSet(In(it, p))
  <2> TAKE it
  <2> TAKE p \in Nat
  <2>1. IsFiniteSet(1..p) BY FS_Interval
  <2>2. In(it, p) \subseteq 1..p OBVIOUS
  <2> HIDE DEF In
  <2> QED BY <2>1, <2>2, FS_Subset
<1>3. \A it : \A p \in Nat : In(it, p + 1) = IF IsRow(it[p + 1]) THEN In(it, p) \cup {p + 1} ELSE In(it, p)
  OBVIOUS
<1>4. \A it : \A p \in Nat : p + 1 \notin In(it, p)
  OBVIOUS
<1>5. \A a, b : \A p \in Nat : (\A j \in 1..p : a[j] = b[j]) => In(a, p) = In(b, p)
  OBVIOUS
<1>6. \A it, p : RowsUpTo(it, p) = Cardinality(In(it, p))
  BY DEF RowsUpTo
<1> HIDE DEF In
<1>7. \A it : \A p \in Nat : Cardinality(In(it, p + 1)) = Cardinality(In(it, p)) + IF IsRow(it[p + 1]) THEN 1 ELSE 0
  <2> TAKE it
  <2> TAKE p \in Nat
  <2>1. Cardinality(In(it, p)) \in Nat BY <1>2, FS_CardinalityType
  <2>2. CASE IsRow(it[p + 1])
    <3>1. Cardinality(In(it, p) \cup {p + 1}) = Cardinality(In(it, p)) + 1 BY <1>2, <1>4, FS_AddElement
    <3> QED BY <1>3, <2>2, <3>1
  <2>3. CASE ~IsRow(it[p + 1])
    <3>1. In(it, p + 1) = In(it, p) BY <1>3, <2>3
    <3> QED BY <2>1, <2>3, <3>1
  <2> QED BY <2>2, <2>3
<1> QED BY <1>1, <1>2, <1>5, <1>6, <1>7, FS_EmptySet, FS_CardinalityType

\* Only a boundary is not a row.
LEMMA ItemKinds ==
    /\ ~IsRow(Trend!Boundary)
    /\ \A row : IsRow(First(row)) /\ First(row).row = <<row>>
    /\ \A row, prev : IsRow(Later(row, prev)) /\ Later(row, prev).row = <<row>>
BY DEF Trend!Boundary, IsRow, First, Later

RowOf(item) == item.row[1]

\* The items after k rows: the rows are complete and in order, a boundary stands
\* between neighbours of different groups, and neighbours without one are of one group,
\* the second with the difference of the two.
CountedRows(it, rows, k) ==
    /\ RowsUpTo(it, Len(it)) = k
    /\ \A p \in 1..Len(it) : IsRow(it[p]) => RowsUpTo(it, p) \in 1..k /\ it[p].row = <<rows[RowsUpTo(it, p)]>>
    /\ k > 0 => Len(it) > 0 /\ IsRow(it[1]) /\ IsRow(it[Len(it)]) /\ RowOf(it[Len(it)]) = rows[k]
Divided(it) ==
    \A p \in 1..Len(it) : ~IsRow(it[p]) =>
        /\ it[p] = Trend!Boundary /\ 1 < p /\ p < Len(it) /\ IsRow(it[p - 1]) /\ IsRow(it[p + 1])
        /\ Trend!NewGroup(RowOf(it[p + 1]), RowOf(it[p - 1]))
Neighbours(it) ==
    \A p \in 1..(Len(it) - 1) : IsRow(it[p]) /\ IsRow(it[p + 1]) =>
        ~Trend!NewGroup(RowOf(it[p + 1]), RowOf(it[p])) /\ it[p + 1] = Later(RowOf(it[p + 1]), RowOf(it[p]))
Baselines(it) ==
    \A p \in 1..Len(it) : IsRow(it[p]) /\ (p = 1 \/ ~IsRow(it[p - 1])) => it[p] = First(RowOf(it[p]))
Shape(it, rows, k) == CountedRows(it, rows, k) /\ Divided(it) /\ Neighbours(it) /\ Baselines(it)

\* One more row keeps the shape.
LEMMA ShapeGrows ==
    ASSUME NEW S, NEW rows \in Seq(S), NEW k \in 1..Len(rows), NEW it \in Seq(Items(S)), Shape(it, rows, k - 1),
           k = 1 => it = <<>>
    PROVE  Shape(it \o Appended(rows, k), rows, k)
<1> DEFINE next == it \o Appended(rows, k)
           n == Len(it)
<1>1. n \in Nat /\ Len(rows) \in Nat /\ (k = 1 <=> n = 0)
  BY DEF Shape, CountedRows
<1>2. PICK X : X = Items(S) OBVIOUS
<1>3. Appended(rows, k) \in Seq(X) /\ it \in Seq(X) BY <1>2, AppendedAreItems
<1>4. Len(next) = n + Len(Appended(rows, k)) /\ (\A p \in 1..n : next[p] = it[p])
      /\ \A p \in 1..Len(Appended(rows, k)) : next[n + p] = Appended(rows, k)[p]
  <2>1. PICK app \in Seq(X) : app = Appended(rows, k) BY <1>3
  <2> QED BY <1>3, <2>1
<1> HIDE DEF next, n
<1>5. \A p \in 0..n : RowsUpTo(next, p) = RowsUpTo(it, p)
  <2> TAKE p \in 0..n
  <2>1. p \in Nat /\ \A j \in 1..p : next[j] = it[j]
    <3>1. \A j \in 1..p : j \in 1..n BY <1>1
    <3> QED BY <1>4, <3>1
  <2> QED BY <2>1, RowCounts
<1>6. RowsUpTo(next, n) = k - 1
  BY <1>1, <1>5 DEF n, Shape, CountedRows
<1>7. k > 1 => n > 0 /\ IsRow(it[1]) /\ IsRow(it[n]) /\ RowOf(it[n]) = rows[k - 1]
  BY DEF n, Shape, CountedRows
<1>8. /\ \A p \in 1..n : IsRow(it[p]) => RowsUpTo(it, p) \in 1..(k - 1) /\ it[p].row = <<rows[RowsUpTo(it, p)]>>
      /\ \A p \in 1..n : ~IsRow(it[p]) =>
             /\ it[p] = Trend!Boundary /\ 1 < p /\ p < n /\ IsRow(it[p - 1]) /\ IsRow(it[p + 1])
             /\ Trend!NewGroup(RowOf(it[p + 1]), RowOf(it[p - 1]))
      /\ \A p \in 1..(n - 1) : IsRow(it[p]) /\ IsRow(it[p + 1]) =>
             ~Trend!NewGroup(RowOf(it[p + 1]), RowOf(it[p])) /\ it[p + 1] = Later(RowOf(it[p + 1]), RowOf(it[p]))
      /\ \A p \in 1..n : IsRow(it[p]) /\ (p = 1 \/ ~IsRow(it[p - 1])) => it[p] = First(RowOf(it[p]))
  BY DEF n, Shape, CountedRows, Divided, Neighbours, Baselines
<1>9. CASE k # 1 /\ Trend!NewGroup(rows[k], rows[k - 1])
  <2>1. Appended(rows, k) = <<Trend!Boundary, First(rows[k])>> BY <1>9 DEF Appended
  <2>2. Len(next) = n + 2 /\ next[n + 1] = Trend!Boundary /\ next[n + 2] = First(rows[k])
    BY <1>1, <1>4, <2>1
  <2>3. IsRow(next[n + 2]) /\ ~IsRow(next[n + 1]) /\ next[n + 2].row = <<rows[k]>> /\ RowOf(next[n + 2]) = rows[k]
    BY <2>2, ItemKinds DEF RowOf
  <2>4. RowsUpTo(next, n + 1) = k - 1 /\ RowsUpTo(next, n + 2) = k
    <3>1. n + 1 \in Nat /\ (n + 1) + 1 = n + 2 BY <1>1
    <3> QED BY <1>1, <1>6, <2>3, <3>1, RowCounts
  <2>5. \A p \in 1..Len(next) : p \in 1..n \/ p = n + 1 \/ p = n + 2
    BY <1>1, <2>2
  <2>6. n > 0 /\ IsRow(next[1]) /\ IsRow(next[n]) /\ RowOf(next[n]) = rows[k - 1]
    <3>1. n > 0 /\ IsRow(it[1]) /\ IsRow(it[n]) /\ RowOf(it[n]) = rows[k - 1] BY <1>7, <1>9
    <3>2. 1 \in 1..n /\ n \in 1..n BY <1>1, <3>1
    <3>3. next[1] = it[1] /\ next[n] = it[n] BY <1>4, <3>2
    <3> QED BY <3>1, <3>3
  <2>7. CountedRows(next, rows, k)
    <3>1. ASSUME NEW p \in 1..n, IsRow(next[p])
          PROVE  RowsUpTo(next, p) \in 1..k /\ next[p].row = <<rows[RowsUpTo(next, p)]>>
      BY <1>1, <1>4, <1>5, <1>8, <3>1
    <3>2. \A p \in 1..Len(next) : IsRow(next[p]) => RowsUpTo(next, p) \in 1..k /\ next[p].row = <<rows[RowsUpTo(next, p)]>>
      BY <2>3, <2>4, <2>5, <3>1
    <3> QED BY <1>1, <2>2, <2>3, <2>4, <2>6, <3>2 DEF CountedRows
  <2>8. Divided(next)
    <3>1. ASSUME NEW p \in 1..n, ~IsRow(next[p])
          PROVE  /\ next[p] = Trend!Boundary /\ 1 < p /\ p < Len(next) /\ IsRow(next[p - 1]) /\ IsRow(next[p + 1])
                 /\ Trend!NewGroup(RowOf(next[p + 1]), RowOf(next[p - 1]))
      <4>1. it[p] = next[p] /\ 1 < p /\ p < n BY <1>4, <1>8, <3>1
      <4>2. it[p - 1] = next[p - 1] /\ it[p + 1] = next[p + 1]
        <5>1. p - 1 \in 1..n /\ p + 1 \in 1..n BY <1>1, <4>1
        <5>2. \A i \in 1..n : next[i] = it[i] BY <1>4
        <5> HIDE DEF next
        <5> QED BY <5>1, <5>2
      <4> QED BY <1>1, <1>8, <2>2, <3>1, <4>1, <4>2
    <3>2. /\ 1 < n + 1 /\ n + 1 < Len(next) /\ IsRow(next[(n + 1) - 1]) /\ IsRow(next[(n + 1) + 1])
          /\ Trend!NewGroup(RowOf(next[(n + 1) + 1]), RowOf(next[(n + 1) - 1]))
      <4>1. (n + 1) - 1 = n /\ (n + 1) + 1 = n + 2 BY <1>1
      <4> QED BY <1>1, <1>9, <2>2, <2>3, <2>6, <4>1
    <3> QED BY <2>2, <2>3, <2>5, <3>1, <3>2 DEF Divided
  <2>9. Neighbours(next)
    <3>1. ASSUME NEW p \in 1..(Len(next) - 1), IsRow(next[p]), IsRow(next[p + 1])
          PROVE  p \in 1..(n - 1) /\ next[p] = it[p] /\ next[p + 1] = it[p + 1]
      <4>1. p \in 1..n \/ p = n + 1 BY <1>1, <2>2
      <4>2. p # n + 1 /\ p + 1 # n + 1 BY <2>3, <3>1
      <4>3. p \in 1..(n - 1) /\ p \in 1..n /\ p + 1 \in 1..n BY <1>1, <4>1, <4>2
      <4>4. \A i \in 1..n : next[i] = it[i] BY <1>4
      <4> HIDE DEF Items
      <4> QED BY <4>3, <4>4
    <3> QED BY <1>8, <3>1 DEF Neighbours
  <2>10. Baselines(next)
    <3>1. ASSUME NEW p \in 1..n, IsRow(next[p]), p = 1 \/ ~IsRow(next[p - 1]) PROVE next[p] = First(RowOf(next[p]))
      <4>1. next[p] = it[p] /\ (p # 1 => next[p - 1] = it[p - 1]) BY <1>1, <1>4
      <4> QED BY <1>8, <3>1, <4>1
    <3> QED BY <2>2, <2>3, <2>5, <3>1 DEF Baselines
  <2> QED BY <2>7, <2>8, <2>9, <2>10 DEF Shape, next
<1>10. CASE ~(k # 1 /\ Trend!NewGroup(rows[k], rows[k - 1]))
  <2> DEFINE item == IF k = 1 THEN First(rows[k]) ELSE Later(rows[k], rows[k - 1])
  <2>1. Appended(rows, k) = <<item>> BY <1>10 DEF Appended
  <2>2. Len(next) = n + 1 /\ next[n + 1] = item
    BY <1>1, <1>4, <2>1
  <2>3. IsRow(next[n + 1]) /\ next[n + 1].row = <<rows[k]>> /\ RowOf(next[n + 1]) = rows[k]
    BY <2>2, ItemKinds DEF RowOf
  <2>4. RowsUpTo(next, n + 1) = k
    BY <1>1, <1>6, <2>3, RowCounts
  <2>5. \A p \in 1..Len(next) : p \in 1..n \/ p = n + 1
    BY <1>1, <2>2
  <2>6. n > 0 => IsRow(next[1]) /\ IsRow(next[n]) /\ RowOf(next[n]) = rows[k - 1] /\ k # 1
    BY <1>1, <1>4, <1>7
  <2>7. CountedRows(next, rows, k)
    <3>1. ASSUME NEW p \in 1..n, IsRow(next[p])
          PROVE  RowsUpTo(next, p) \in 1..k /\ next[p].row = <<rows[RowsUpTo(next, p)]>>
      BY <1>1, <1>4, <1>5, <1>8, <3>1
    <3>2. \A p \in 1..Len(next) : IsRow(next[p]) => RowsUpTo(next, p) \in 1..k /\ next[p].row = <<rows[RowsUpTo(next, p)]>>
      BY <2>3, <2>4, <2>5, <3>1
    <3>3. Len(next) > 0 /\ IsRow(next[1]) /\ IsRow(next[Len(next)]) /\ RowOf(next[Len(next)]) = rows[k]
      BY <1>1, <2>2, <2>3, <2>6
    <3> QED BY <2>2, <2>4, <3>2, <3>3 DEF CountedRows
  <2>8. Divided(next)
    <3>1. ASSUME NEW p \in 1..n, ~IsRow(next[p])
          PROVE  /\ next[p] = Trend!Boundary /\ 1 < p /\ p < Len(next) /\ IsRow(next[p - 1]) /\ IsRow(next[p + 1])
                 /\ Trend!NewGroup(RowOf(next[p + 1]), RowOf(next[p - 1]))
      <4>1. it[p] = next[p] /\ 1 < p /\ p < n BY <1>4, <1>8, <3>1
      <4>2. it[p - 1] = next[p - 1] /\ it[p + 1] = next[p + 1]
        <5>1. p - 1 \in 1..n /\ p + 1 \in 1..n BY <1>1, <4>1
        <5>2. \A i \in 1..n : next[i] = it[i] BY <1>4
        <5> HIDE DEF next
        <5> QED BY <5>1, <5>2
      <4> QED BY <1>1, <1>8, <2>2, <3>1, <4>1, <4>2
    <3> QED BY <1>1, <2>2, <2>3, <2>5, <3>1 DEF Divided
  <2>9. Neighbours(next)
    <3>1. ASSUME NEW p \in 1..(n - 1) PROVE next[p] = it[p] /\ next[p + 1] = it[p + 1]
      <4>1. p \in 1..n /\ p + 1 \in 1..n BY <1>1
      <4>2. \A i \in 1..n : next[i] = it[i] BY <1>4
      <4> QED BY <4>1, <4>2
    <3>2. \A p \in 1..(Len(next) - 1) : p \in 1..(n - 1) \/ (p = n /\ n > 0)
      BY <1>1, <2>2
    <3>3. n > 0 => next[n + 1] = Later(rows[k], rows[k - 1]) /\ ~Trend!NewGroup(rows[k], rows[k - 1])
      BY <1>10, <2>2, <2>6
    <3> QED BY <1>8, <2>3, <2>6, <3>1, <3>2, <3>3 DEF Neighbours
  <2>10. Baselines(next)
    <3>1. ASSUME NEW p \in 1..n, IsRow(next[p]), p = 1 \/ ~IsRow(next[p - 1]) PROVE next[p] = First(RowOf(next[p]))
      <4>1. next[p] = it[p] /\ (p # 1 => next[p - 1] = it[p - 1]) BY <1>1, <1>4
      <4> QED BY <1>8, <3>1, <4>1
    <3>2. ASSUME n + 1 = 1 \/ ~IsRow(next[(n + 1) - 1]) PROVE next[n + 1] = First(RowOf(next[n + 1]))
      BY <1>1, <2>2, <2>3, <2>6, <3>2
    <3> QED BY <2>5, <3>1, <3>2 DEF Baselines
  <2> QED BY <2>7, <2>8, <2>9, <2>10 DEF Shape, next
<1> QED BY <1>9, <1>10

\* The items of a trend over any rows.
LEMMA TrendShape ==
    ASSUME NEW S, NEW rows \in Seq(S)
    PROVE  /\ Trend!build_trend_items(rows) \in Seq(Items(S))
           /\ Shape(Trend!build_trend_items(rows), rows, Len(rows))
<1> DEFINE T == {k \in Nat : k <= Len(rows) => Shape(State(rows, k).items, rows, k)}
<1>1. Len(rows) \in Nat
  OBVIOUS
<1>2. /\ State(rows, 0).items = <<>>
      /\ \A k \in 1..Len(rows) : State(rows, k).items = State(rows, k - 1).items \o Appended(rows, k)
      /\ \A k \in 0..Len(rows) : State(rows, k).items \in Seq(Items(S))
      /\ Trend!build_trend_items(rows) = State(rows, Len(rows)).items
  BY TrendGrows
<1>3. 0 \in T
  <2>1. Len(<<>>) = 0 OBVIOUS
  <2>2. Shape(<<>>, rows, 0) BY <2>1, RowCounts DEF Shape, CountedRows, Divided, Neighbours, Baselines
  <2> QED BY <1>2, <2>2
<1>4. \A k \in Nat : k \in T => k + 1 \in T
  <2> SUFFICES ASSUME NEW k \in Nat, k \in T, k + 1 <= Len(rows) PROVE Shape(State(rows, k + 1).items, rows, k + 1)
    OBVIOUS
  <2>1. k + 1 \in 1..Len(rows) /\ (k + 1) - 1 = k /\ k \in 0..Len(rows) BY <1>1
  <2>2. PICK it \in Seq(Items(S)) : it = State(rows, k).items BY <1>2, <2>1
  <2>3. Shape(it, rows, (k + 1) - 1) /\ (k + 1 = 1 => it = <<>>) BY <1>1, <1>2, <2>1, <2>2
  <2>4. Shape(it \o Appended(rows, k + 1), rows, k + 1) BY <2>1, <2>3, ShapeGrows
  <2> QED BY <1>2, <2>1, <2>2, <2>4
<1>5. Nat \subseteq T
  <2> HIDE DEF T
  <2> QED BY <1>3, <1>4, SetInduction
<1> QED BY <1>1, <1>2, <1>5

\* The second sequence of items ends like the first, but for the first's first item.
EndsLike(a, b) ==
    Len(a) <= Len(b) /\ \A p \in 2..Len(a) : a[p] = b[Len(b) - Len(a) + p]

\* Appending the same to both keeps them alike.
LEMMA EndsAppended ==
    ASSUME NEW S, NEW a \in Seq(S), NEW b \in Seq(S), NEW c \in Seq(S), EndsLike(a, b), Len(a) > 0
    PROVE  EndsLike(a \o c, b \o c)
<1>1. Len(a) \in Nat /\ Len(b) \in Nat /\ Len(c) \in Nat
  OBVIOUS
<1>2. Len(a \o c) = Len(a) + Len(c) /\ Len(b \o c) = Len(b) + Len(c)
  OBVIOUS
<1>3. ASSUME NEW p \in 2..(Len(a) + Len(c)) PROVE (a \o c)[p] = (b \o c)[Len(b) - Len(a) + p]
  <2>1. CASE p <= Len(a)
    <3>1. p \in 2..Len(a) /\ Len(b) - Len(a) + p \in 1..Len(b) BY <1>1, <2>1 DEF EndsLike
    <3>2. (a \o c)[p] = a[p] /\ (b \o c)[Len(b) - Len(a) + p] = b[Len(b) - Len(a) + p] BY <3>1
    <3> QED BY <3>1, <3>2 DEF EndsLike
  <2>2. CASE p > Len(a)
    <3>1. p - Len(a) \in 1..Len(c) BY <1>1, <2>2
    <3>2. \A s \in Seq(S) : \A i \in 1..Len(c) : (s \o c)[Len(s) + i] = c[i] OBVIOUS
    <3>3. Len(a) + (p - Len(a)) = p /\ Len(b) + (p - Len(a)) = Len(b) - Len(a) + p BY <1>1
    <3> QED BY <3>1, <3>2, <3>3
  <2>3. p \in Int BY <1>1
  <2>4. p <= Len(a) \/ p > Len(a) BY <1>1, <2>3
  <2> QED BY <2>1, <2>2, <2>4
<1> HIDE DEF EndsLike
<1>4. Len(a) <= Len(b) BY DEF EndsLike
<1>5. PICK x, y : x = a \o c /\ y = b \o c OBVIOUS
<1>6. Len(y) - Len(x) = Len(b) - Len(a) /\ Len(x) <= Len(y) BY <1>1, <1>2, <1>4, <1>5
<1>7. \A p \in 2..Len(x) : x[p] = y[Len(y) - Len(x) + p] BY <1>2, <1>3, <1>5, <1>6
<1> QED BY <1>5, <1>6, <1>7 DEF EndsLike

\* The trend of the last rows is the end of the whole trend.
LEMMA WindowOfTrend ==
    ASSUME NEW S, NEW rows \in Seq(S), NEW last \in Seq(S), NEW m \in Nat, Len(rows) = m + Len(last),
           \A i \in 1..Len(last) : last[i] = rows[m + i]
    PROVE  EndsLike(Trend!build_trend_items(last), Trend!build_trend_items(rows))
<1>1. Len(rows) \in Nat /\ Len(last) \in Nat
  OBVIOUS
<1>2. PICK X : X = Items(S)
  OBVIOUS
<1>3. \A s \in Seq(S) :
          /\ State(s, 0).items = <<>>
          /\ \A k \in 1..Len(s) : State(s, k).items = State(s, k - 1).items \o Appended(s, k)
          /\ \A k \in 0..Len(s) : State(s, k).items \in Seq(X)
          /\ \A k \in 1..Len(s) : Appended(s, k) \in Seq(X) /\ Len(Appended(s, k)) \in {1, 2}
          /\ Trend!build_trend_items(s) = State(s, Len(s)).items
  <2> TAKE s \in Seq(S)
  <2>1. /\ State(s, 0).items = <<>>
        /\ \A k \in 1..Len(s) : State(s, k).items = State(s, k - 1).items \o Appended(s, k)
        /\ \A k \in 0..Len(s) : State(s, k).items \in Seq(Items(S))
        /\ Trend!build_trend_items(s) = State(s, Len(s)).items
    BY TrendGrows
  <2>2. \A k \in 1..Len(s) : Appended(s, k) \in Seq(Items(S)) /\ Len(Appended(s, k)) \in {1, 2}
    BY AppendedAreItems
  <2> QED BY <1>2, <2>1, <2>2
<1> DEFINE T == {k \in Nat : k + 1 <= Len(last) =>
                     Len(State(last, k + 1).items) > 0 /\ EndsLike(State(last, k + 1).items, State(rows, m + k + 1).items)}
<1>4. 0 \in T
  <2> SUFFICES ASSUME 1 <= Len(last)
               PROVE  Len(State(last, 1).items) > 0 /\ EndsLike(State(last, 1).items, State(rows, m + 1).items)
    OBVIOUS
  <2>1. 1 \in 1..Len(last) /\ m + 1 \in 1..Len(rows) /\ (m + 1) - 1 = m /\ m \in 0..Len(rows) /\ 1 - 1 = 0
    BY <1>1
  <2>2. Len(Appended(last, 1)) = 1
    <3>1. Appended(last, 1) = <<First(last[1])>> BY DEF Appended
    <3> QED BY <3>1
  <2>3. PICK it \in Seq(X), app \in Seq(X), app1 \in Seq(X) :
            /\ it = State(rows, m).items /\ app = Appended(rows, m + 1) /\ Len(app) \in {1, 2}
            /\ State(rows, m + 1).items = it \o app
            /\ app1 = Appended(last, 1) /\ State(last, 1).items = <<>> \o app1
    <3>1. /\ State(rows, m).items \in Seq(X) /\ Appended(rows, m + 1) \in Seq(X) /\ Len(Appended(rows, m + 1)) \in {1, 2}
          /\ State(rows, m + 1).items = State(rows, m).items \o Appended(rows, m + 1)
      BY <1>3, <2>1
    <3>2. Appended(last, 1) \in Seq(X) /\ State(last, 1).items = <<>> \o Appended(last, 1)
      <4>1. Appended(last, 1) \in Seq(X) BY <1>3, <2>1
      <4>2. State(last, 1).items = State(last, 1 - 1).items \o Appended(last, 1) BY <1>3, <2>1
      <4>3. State(last, 1 - 1).items = <<>> BY <1>3, <2>1
      <4> QED BY <4>1, <4>2, <4>3
    <3> QED BY <3>1, <3>2, Zenon
  <2>4. Len(it \o app) >= 1 /\ Len(<<>> \o app1) = 1
    <3>1. Len(it \o app) = Len(it) + Len(app) /\ Len(it) \in Nat BY <2>3
    <3>2. Len(<<>> \o app1) = Len(app1) BY <2>3
    <3>3. Len(app) = 1 \/ Len(app) = 2 BY <2>3
    <3>4. Len(it \o app) >= 1
      <4>1. PICK i \in Nat, j \in Nat, l \in Nat : i = Len(it) /\ j = Len(app) /\ l = Len(it \o app) BY <3>1
      <4> QED BY <3>1, <3>3, <4>1
    <3>5. Len(app1) = 1 BY <2>2, <2>3
    <3> QED BY <3>2, <3>4, <3>5
  <2>5. PICK x, y : x = State(last, 1).items /\ y = State(rows, m + 1).items OBVIOUS
  <2>6. Len(x) = 1 /\ Len(y) >= 1 BY <2>3, <2>4, <2>5
  <2>7. EndsLike(x, y) BY <2>6 DEF EndsLike
  <2>8. Len(State(last, 1).items) > 0
    <3>1. Len(State(last, 1).items) = 1 BY <2>3, <2>4, Zenon
    <3>2. \A l : l = 1 => l > 0 OBVIOUS
    <3> QED BY <3>1, <3>2
  <2>9. EndsLike(State(last, 1).items, State(rows, m + 1).items) BY <2>5, <2>7
  <2> QED BY <2>8, <2>9
<1>5. \A k \in Nat : k \in T => k + 1 \in T
  <2> SUFFICES ASSUME NEW k \in Nat, k \in T, k + 2 <= Len(last)
               PROVE  Len(State(last, k + 2).items) > 0 /\ EndsLike(State(last, k + 2).items, State(rows, m + k + 2).items)
    OBVIOUS
  <2>1. /\ k + 2 \in 1..Len(last) /\ k + 1 \in 1..Len(last) /\ (k + 2) - 1 = k + 1 /\ k + 1 \in 0..Len(last) /\ k + 2 # 1
        /\ m + k + 2 \in 1..Len(rows) /\ (m + k + 2) - 1 = m + k + 1 /\ m + k + 1 \in 0..Len(rows) /\ m + k + 2 # 1
        /\ m + (k + 2) = m + k + 2 /\ m + (k + 1) = m + k + 1
    BY <1>1
  <2>2. Appended(last, k + 2) = Appended(rows, m + k + 2)
    <3>1. last[k + 2] = rows[m + k + 2] /\ last[(k + 2) - 1] = rows[(m + k + 2) - 1]
      BY <2>1
    <3> QED BY <2>1, <3>1 DEF Appended
  <2>3. PICK a \in Seq(X), b \in Seq(X), c \in Seq(X) :
            /\ a = State(last, k + 1).items /\ b = State(rows, m + k + 1).items /\ c = Appended(last, k + 2)
            /\ State(last, k + 2).items = a \o c /\ State(rows, m + k + 2).items = b \o c
    <3>1. /\ State(last, k + 1).items \in Seq(X) /\ Appended(last, k + 2) \in Seq(X)
          /\ State(last, k + 2).items = State(last, k + 1).items \o Appended(last, k + 2)
      BY <1>3, <2>1
    <3>2. /\ State(rows, m + k + 1).items \in Seq(X)
          /\ State(rows, m + k + 2).items = State(rows, m + k + 1).items \o Appended(last, k + 2)
      BY <1>3, <2>1, <2>2
    <3> QED BY <3>1, <3>2, Zenon
  <2>4. EndsLike(a, b) /\ Len(a) > 0
    BY <2>1, <2>3
  <2>5. EndsLike(a \o c, b \o c) /\ Len(a \o c) > 0
    BY <2>4, EndsAppended
  <2> QED BY <2>3, <2>5
<1>6. Nat \subseteq T
  <2> HIDE DEF T
  <2> QED BY <1>4, <1>5, SetInduction
<1>7. CASE Len(last) = 0
  <2>1. Trend!build_trend_items(last) = <<>> BY <1>3, <1>7
  <2>2. Trend!build_trend_items(rows) \in Seq(X) BY <1>1, <1>3
  <2>3. PICK y : y = Trend!build_trend_items(rows) OBVIOUS
  <2>4. Len(y) \in Nat /\ Len(<<>>) = 0 BY <2>2, <2>3
  <2>5. EndsLike(<<>>, y) BY <2>4 DEF EndsLike
  <2> QED BY <2>1, <2>3, <2>5
<1>8. CASE Len(last) # 0
  <2>1. Len(last) - 1 \in Nat /\ (Len(last) - 1) + 1 = Len(last) /\ m + (Len(last) - 1) + 1 = Len(rows) BY <1>1, <1>8
  <2>2. Len(last) - 1 \in T BY <1>6, <2>1
  <2>3. EndsLike(State(last, Len(last)).items, State(rows, Len(rows)).items)
    BY <1>1, <2>1, <2>2
  <2> QED BY <1>3, <2>3
<1> QED BY <1>7, <1>8

\* A trend question has rows of the history.
TrendInv == q.kind = "trend" => q \in [kind : {"trend"}, rows : Seq(TrendRows)]

LEMMA TrendQuestions == Spec => []TrendInv
<1>1. Init => TrendInv
  <2>1. <<>> \in Seq(TrendRows) OBVIOUS
  <2>2. [kind |-> "trend", rows |-> <<>>] \in [kind : {"trend"}, rows : Seq(TrendRows)] BY <2>1
  <2>3. ASSUME Init, q.kind = "trend" PROVE q = [kind |-> "trend", rows |-> <<>>]
    <3>1. CASE q \in [kind : {"gate"}, fixture : SUBSET Cards, db : Databases, matching : {{}}]
      BY <2>3, <3>1
    <3>2. CASE q \in [kind : {"test"}, data : DataSets]
      BY <2>3, <3>2
    <3>3. CASE q = [kind |-> "gems", tensor |-> <<>>]
      BY <2>3, <3>3
    <3> QED BY <2>3, <3>1, <3>2, <3>3 DEF Init
  <2> QED BY <2>2, <2>3, Zenon DEF TrendInv
<1>2. ASSUME TrendInv, [Next]_vars PROVE TrendInv'
  <2>1. CASE EvaluateOne
    BY <2>1 DEF EvaluateOne, TrendInv
  <2>2. CASE \E c \in GemCandidates, r \in GemRules, x \in Contributions : Record(c, r, x)
    BY <2>2 DEF Record, TrendInv
  <2>3. CASE \E row \in TrendRows : AppendRun(row)
    BY <1>2, <2>3 DEF AppendRun, TrendInv
  <2>4. CASE UNCHANGED vars
    BY <1>2, <2>4 DEF vars, TrendInv
  <2> QED BY <1>2, <2>1, <2>2, <2>3, <2>4 DEF Next
<1> QED BY <1>1, <1>2, PTL DEF Spec

\* What --trend-n keeps of the rows.
LEMMA LastRows ==
    ASSUME NEW S, NEW rows \in Seq(S), NEW n, n = IF Len(rows) < Window THEN Len(rows) ELSE Window
    PROVE  /\ Trend!read_last_forensics(rows, Window) \in Seq(S)
           /\ Len(Trend!read_last_forensics(rows, Window)) = n /\ n \in Nat /\ n <= Len(rows)
           /\ \A i \in 1..n : Trend!read_last_forensics(rows, Window)[i] = rows[(Len(rows) - n) + i]
<1> DEFINE last == Trend!read_last_forensics(rows, Window)
<1>1. Window \in Nat /\ Len(rows) \in Nat
  BY VerdictAssumption
<1>2. n \in Nat /\ n <= Len(rows)
  BY <1>1
<1>3. CASE Window = 0
  <2>1. last = <<>> /\ n = 0 BY <1>1, <1>3 DEF Trend!read_last_forensics
  <2>2. <<>> \in Seq(S) /\ Len(<<>>) = 0 OBVIOUS
  <2> HIDE DEF last
  <2>3. last \in Seq(S) /\ Len(last) = n /\ \A i \in 1..n : last[i] = rows[(Len(rows) - n) + i] BY <2>1, <2>2
  <2> QED BY <1>2, <2>3 DEF last
<1>4. CASE Window # 0 /\ Window >= Len(rows)
  <2>1. last = rows /\ n = Len(rows) BY <1>1, <1>4 DEF Trend!read_last_forensics
  <2> HIDE DEF last
  <2>2. \A i \in 1..n : (Len(rows) - n) + i = i BY <1>1, <2>1
  <2>3. \A i \in 1..n : last[i] = rows[(Len(rows) - n) + i] BY <2>1, <2>2
  <2> QED BY <1>2, <2>1, <2>3 DEF last
<1>5. CASE Window # 0 /\ Window < Len(rows)
  <2>1. last = SubSeq(rows, Len(rows) - Window + 1, Len(rows)) /\ n = Window
    BY <1>1, <1>5 DEF Trend!read_last_forensics
  <2>2. Len(rows) - Window + 1 \in 1..Len(rows) BY <1>1, <1>5
  <2> HIDE DEF last
  <2>3. last \in Seq(S)
    BY <1>1, <2>1, <2>2
  <2>4. Len(last) = Window /\ \A i \in 1..Window : last[i] = rows[(Len(rows) - Window) + i]
    BY <1>1, <2>1, <2>2
  <2> QED BY <1>2, <2>1, <2>3, <2>4 DEF last
<1>6. Window = 0 \/ (Window # 0 /\ Window >= Len(rows)) \/ (Window # 0 /\ Window < Len(rows))
  BY <1>1
<1> QED BY <1>3, <1>4, <1>5, <1>6

\* A new group is another config or another snapshot.
LEMMA GroupsDiffer ==
    \A a, b : Trend!NewGroup(a, b) <=> <<a.config, a.snapshot>> # <<b.config, b.snapshot>>
BY DEF Trend!NewGroup

\* For every history, of any length, any groups and any rates, and every window: the
\* rows of the trend are complete and in order, a boundary stands exactly where the
\* group changes, and the window shows what the whole trend shows there.
THEOREM TrendSplitsGroups == Spec => []BoundariesSplitGroups
<1>1. TrendInv => BoundariesSplitGroups
  <2> SUFFICES ASSUME TrendInv, q.kind = "trend" PROVE BoundariesSplitGroups
    BY DEF BoundariesSplitGroups
  <2>1. PICK rows \in Seq(TrendRows) : rows = q.rows
    BY DEF TrendInv
  <2> DEFINE n == IF Len(rows) < Window THEN Len(rows) ELSE Window
             last == Trend!read_last_forensics(rows, Window)
             items == Trend!build_trend_items(last)
             whole == Trend!build_trend_items(rows)
             at == {k \in DOMAIN items : ~IsRow(items[k])}
             Group(k) == <<items[k].row[1].config, items[k].row[1].snapshot>>
  <2>2. last \in Seq(TrendRows) /\ Len(last) = n /\ n \in Nat /\ n <= Len(rows)
        /\ \A i \in 1..n : last[i] = rows[(Len(rows) - n) + i]
    BY LastRows
  <2>3. Len(rows) \in Nat /\ (Len(rows) - n) \in Nat /\ Len(rows) = (Len(rows) - n) + n
    <3> HIDE DEF n, last
    <3>1. Len(rows) \in Nat OBVIOUS
    <3> QED BY <2>2, <3>1
  <2> HIDE DEF n, last
  <2>4. items \in Seq(Items(TrendRows)) /\ Shape(items, last, n)
    BY <2>2, TrendShape
  <2>5. EndsLike(items, whole)
    <3>1. PICK m \in Nat : m = Len(rows) - n BY <2>3
    <3>2. Len(rows) = m + Len(last) /\ \A i \in 1..Len(last) : last[i] = rows[m + i] BY <2>2, <2>3, <3>1
    <3> QED BY <2>2, <3>2, WindowOfTrend
  <2>6. Len(items) \in Nat /\ DOMAIN items = 1..Len(items)
    <3>1. PICK X : X = Items(TrendRows) OBVIOUS
    <3>2. PICK it \in Seq(X) : it = items BY <2>4, <3>1
    <3> QED BY <3>2
  <2> HIDE DEF items, whole
  <2>7. RowsUpTo(items, Len(items)) = n
    BY <2>4 DEF Shape, CountedRows
  <2>8. \A k \in DOMAIN items \ at : items[k].row = <<rows[Len(rows) - n + RowsUpTo(items, k)]>>
    <3>1. \A k \in DOMAIN items \ at : RowsUpTo(items, k) \in 1..n /\ items[k].row = <<last[RowsUpTo(items, k)]>>
      BY <2>4, <2>6 DEF Shape, CountedRows
    <3> QED BY <2>2, <3>1
  <2>9. \A k \in at : 1 < k /\ k < Len(items) /\ {k - 1, k + 1} \cap at = {} /\ Group(k - 1) # Group(k + 1)
    <3> TAKE k \in at
    <3>1. /\ 1 < k /\ k < Len(items) /\ IsRow(items[k - 1]) /\ IsRow(items[k + 1])
          /\ Trend!NewGroup(RowOf(items[k + 1]), RowOf(items[k - 1]))
      BY <2>4, <2>6 DEF Shape, Divided
    <3>2. Group(k - 1) # Group(k + 1) BY <3>1, GroupsDiffer DEF RowOf
    <3> QED BY <3>1, <3>2
  <2>10. \A k \in 1..(Len(items) - 1) : {k, k + 1} \cap at = {} => Group(k) = Group(k + 1)
    <3> TAKE k \in 1..(Len(items) - 1)
    <3> HAVE {k, k + 1} \cap at = {}
    <3>1. IsRow(items[k]) /\ IsRow(items[k + 1]) BY <2>6
    <3>2. ~Trend!NewGroup(RowOf(items[k + 1]), RowOf(items[k])) BY <2>4, <3>1 DEF Shape, Neighbours
    <3> QED BY <3>2, GroupsDiffer DEF RowOf
  <2>11. Len(items) <= Len(whole) /\ \A k \in DOMAIN items \ {1} : items[k] = whole[Len(whole) - Len(items) + k]
    <3>1. \A k \in DOMAIN items \ {1} : k \in 2..Len(items) BY <2>6
    <3> QED BY <2>5, <3>1 DEF EndsLike
  <2>12. Shown = items /\ whole = Trend!build_trend_items(q.rows)
    BY <2>1 DEF Shown, items, whole, last
  <2> QED BY <2>1, <2>7, <2>8, <2>9, <2>10, <2>11, <2>12, Zenon DEF BoundariesSplitGroups, n
<1> QED BY <1>1, TrendQuestions, PTL

Value(S) == CHOOSE x \in S : TRUE
\* f is the running sum of the deltas after item i.
Runs(it, i, n, f) == f = [k \in 0..n |-> IF k = 0 THEN 0 ELSE f[k - 1] + Value(it[i + k].ndcg)]
RunSum(it, i, n) == (CHOOSE f : Runs(it, i, n, f))[n]
Differences(it, i, n, v) == \A k \in 1..n : Value(it[i + k].ndcg) = v[k] - v[k - 1]

\* A sum of differences of neighbours is the difference of the ends.
LEMMA Telescope ==
    ASSUME NEW it, NEW i \in Nat, NEW n \in Nat, NEW v \in [0..n -> Int], Differences(it, i, n, v)
    PROVE  RunSum(it, i, n) = v[n] - v[0]
<1> DEFINE g == [k \in 0..n |-> v[k] - v[0]]
           f == CHOOSE h : Runs(it, i, n, h)
<1>1. Runs(it, i, n, g)
  <2>1. \A k \in 0..n : k # 0 => k - 1 \in 0..n /\ k \in 1..n /\ v[k] \in Int /\ v[k - 1] \in Int /\ v[0] \in Int
    OBVIOUS
  <2>2. \A k \in 0..n : v[k] - v[0] = IF k = 0 THEN 0 ELSE g[k - 1] + Value(it[i + k].ndcg)
    BY <2>1 DEF Differences
  <2> QED BY <2>2 DEF Runs
<1>2. Runs(it, i, n, f)
  BY <1>1
<1> HIDE DEF f, g
<1> DEFINE T == {k \in Nat : k <= n => f[k] = v[k] - v[0]}
<1>3. 0 \in T
  BY <1>2 DEF Runs
<1>4. \A k \in Nat : k \in T => k + 1 \in T
  <2> SUFFICES ASSUME NEW k \in Nat, k \in T, k + 1 <= n PROVE f[k + 1] = v[k + 1] - v[0]
    OBVIOUS
  <2>1. k + 1 \in 1..n /\ (k + 1) - 1 = k /\ k \in 0..n OBVIOUS
  <2>2. f[k + 1] = f[k] + Value(it[i + (k + 1)].ndcg) BY <1>2, <2>1 DEF Runs
  <2>3. Value(it[i + (k + 1)].ndcg) = v[k + 1] - v[k] BY <2>1 DEF Differences
  <2>4. v[k] \in Int /\ v[k + 1] \in Int /\ v[0] \in Int BY <2>1
  <2> QED BY <2>1, <2>2, <2>3, <2>4
<1>5. Nat \subseteq T
  <2> HIDE DEF T
  <2> QED BY <1>3, <1>4, SetInduction
<1> QED BY <1>5 DEF f, RunSum

\* A rate is an integer or missing.
Rates(S) == \A row \in S : row.ndcg \subseteq Int /\ \A x, y \in row.ndcg : x = y

\* A row of the trend is a row of the history.
LEMMA RowsOfItems ==
    ASSUME NEW S, NEW item \in Items(S), IsRow(item)
    PROVE  RowOf(item) \in S
BY ItemKinds DEF Items, RowOf

\* A delta is the difference of two rates that are there.
LEMMA DeltaIsDifference ==
    ASSUME NEW S, Rates(S), NEW row \in S, NEW prev \in S, row.ndcg # {}, prev.ndcg # {}
    PROVE  /\ Value(row.ndcg) \in Int /\ Value(prev.ndcg) \in Int
           /\ Value(Later(row, prev).ndcg) = Value(row.ndcg) - Value(prev.ndcg)
<1>1. PICK x \in Int : row.ndcg = {x} BY DEF Rates
<1>2. PICK y \in Int : prev.ndcg = {y} BY DEF Rates
<1>3. Value(row.ndcg) = x /\ Value(prev.ndcg) = y BY <1>1, <1>2 DEF Value
<1>4. Trend!Minus(row.ndcg, prev.ndcg) = {x - y} BY <1>1, <1>2 DEF Trend!Minus
<1>5. Later(row, prev).ndcg = {x - y} BY <1>4 DEF Later
<1> QED BY <1>3, <1>5 DEF Value

\* The deltas of a run of rows of the trend.
LEMMA RunsTelescope ==
    ASSUME NEW S, Rates(S), NEW rows, NEW k, NEW it \in Seq(Items(S)), Shape(it, rows, k),
           NEW i \in 1..Len(it), NEW j \in 1..Len(it), i <= j,
           \A p \in i..j : IsRow(it[p]) /\ RowOf(it[p]).ndcg # {}
    PROVE  RunSum(it, i, j - i) = Value(RowOf(it[j]).ndcg) - Value(RowOf(it[i]).ndcg)
<1> DEFINE v == [p \in 0..(j - i) |-> Value(RowOf(it[i + p]).ndcg)]
<1>1. Len(it) \in Nat /\ j - i \in Nat /\ i \in Nat
  <2>1. PICK X : X = Items(S) OBVIOUS
  <2>2. Len(it) \in Nat BY <2>1
  <2> QED BY <2>2
<1>2. \A p \in 0..(j - i) : i + p \in i..j /\ i + p \in 1..Len(it)
  BY <1>1
<1>3. \A p \in i..j : it[p] \in Items(S)
  <2>1. PICK X : X = Items(S) OBVIOUS
  <2>2. \A p \in i..j : p \in 1..Len(it) BY <1>1
  <2> QED BY <2>1, <2>2
<1>4. \A p \in i..j : RowOf(it[p]) \in S /\ RowOf(it[p]).ndcg # {}
  BY <1>3, RowsOfItems
<1>5. \A p \in i..j : Value(RowOf(it[p]).ndcg) \in Int
  BY <1>4, DeltaIsDifference
<1>6. v \in [0..(j - i) -> Int]
  BY <1>2, <1>5
<1>7. ASSUME NEW p \in 1..(j - i) PROVE Value(it[i + p].ndcg) = v[p] - v[p - 1]
  <2>1. /\ p \in 0..(j - i) /\ p - 1 \in 0..(j - i) /\ i + p \in i..j /\ i + (p - 1) \in i..j
        /\ (i + (p - 1)) + 1 = i + p /\ i + (p - 1) \in 1..(Len(it) - 1)
    BY <1>1
  <2>2. it[i + p] = Later(RowOf(it[i + p]), RowOf(it[i + (p - 1)]))
    BY <2>1 DEF Shape, Neighbours
  <2>3. PICK a \in S, b \in S : a = RowOf(it[i + p]) /\ b = RowOf(it[i + (p - 1)]) /\ a.ndcg # {} /\ b.ndcg # {}
    BY <1>4, <2>1
  <2>4. Value(Later(a, b).ndcg) = Value(a.ndcg) - Value(b.ndcg)
    BY <2>3, DeltaIsDifference
  <2> QED BY <2>1, <2>2, <2>3, <2>4
<1>8. v[0] = Value(RowOf(it[i]).ndcg) /\ v[j - i] = Value(RowOf(it[j]).ndcg)
  <2>1. i + 0 = i /\ i + (j - i) = j /\ 0 \in 0..(j - i) /\ j - i \in 0..(j - i) BY <1>1
  <2> QED BY <2>1
<1> HIDE DEF v
<1>9. PICK n \in Nat : n = j - i
  BY <1>1
<1>10. RunSum(it, i, n) = v[n] - v[0]
  <2>1. PICK w \in [0..n -> Int] : w = v BY <1>6, <1>9
  <2>2. Differences(it, i, n, w) BY <1>7, <1>9, <2>1 DEF Differences
  <2>3. RunSum(it, i, n) = w[n] - w[0] BY <1>1, <2>2, Telescope
  <2> QED BY <2>1, <2>3
<1> QED BY <1>8, <1>9, <1>10

\* For every history and window: the deltas of a run of rows of one group whose rate is
\* always there add up to the difference of its ends, and the first row of a group has
\* none.
THEOREM TrendTelescopes == Spec => []DeltasTelescope
<1>1. TrendInv => DeltasTelescope
  <2> SUFFICES ASSUME TrendInv, q.kind = "trend" PROVE DeltasTelescope
    BY DEF DeltasTelescope
  <2>1. PICK rows \in Seq(TrendRows) : rows = q.rows
    BY DEF TrendInv
  <2> DEFINE last == Trend!read_last_forensics(rows, Window)
             items == Trend!build_trend_items(last)
  <2>2. last \in Seq(TrendRows)
    BY LastRows
  <2> HIDE DEF last
  <2>3. items \in Seq(Items(TrendRows)) /\ Shape(items, last, Len(last))
    BY <2>2, TrendShape
  <2>4. Len(items) \in Nat /\ DOMAIN items = 1..Len(items)
    <3>1. PICK X : X = Items(TrendRows) OBVIOUS
    <3>2. PICK it \in Seq(X) : it = items BY <2>3, <3>1
    <3> QED BY <3>2
  <2> HIDE DEF items
  <2>5. ASSUME NEW i \in DOMAIN items, NEW j \in DOMAIN items, i <= j,
               \A p \in i..j : IsRow(items[p]) /\ items[p].row[1].ndcg # {}
        PROVE  RunSum(items, i, j - i) = Value(items[j].row[1].ndcg) - Value(items[i].row[1].ndcg)
    <3>1. Rates(TrendRows) BY VerdictAssumption DEF Rates
    <3>2. \A p \in i..j : IsRow(items[p]) /\ RowOf(items[p]).ndcg # {} BY <2>5 DEF RowOf
    <3>3. RunSum(items, i, j - i) = Value(RowOf(items[j]).ndcg) - Value(RowOf(items[i]).ndcg)
      BY <2>3, <2>4, <2>5, <3>1, <3>2, RunsTelescope
    <3> QED BY <3>3 DEF RowOf
  <2>6. ASSUME NEW i \in DOMAIN items, i = 1 \/ ~IsRow(items[i - 1]) PROVE items[i].ndcg = {} /\ items[i].gem = {}
    <3>1. CASE IsRow(items[i])
      <4>1. items[i] = First(RowOf(items[i])) BY <2>3, <2>4, <2>6, <3>1 DEF Shape, Baselines
      <4>2. \A row : First(row).ndcg = {} /\ First(row).gem = {} BY DEF First
      <4> QED BY <4>1, <4>2
    <3>2. CASE ~IsRow(items[i])
      BY <2>3, <2>4, <3>2 DEF Shape, Divided, Trend!Boundary
    <3> QED BY <3>1, <3>2
  <2>7. Shown = items
    BY <2>1 DEF Shown, items, last
  <2>8. \A i, j \in DOMAIN Shown : i <= j /\ (\A p \in i..j : IsRow(Shown[p]) /\ Shown[p].row[1].ndcg # {}) =>
            RunSum(Shown, i, j - i) = Value(Shown[j].row[1].ndcg) - Value(Shown[i].row[1].ndcg)
    BY <2>5, <2>7
  <2>9. \A i \in DOMAIN Shown : i = 1 \/ ~IsRow(Shown[i - 1]) => Shown[i].ndcg = {} /\ Shown[i].gem = {}
    BY <2>6, <2>7
  <2> QED BY <2>8, <2>9, Zenon DEF DeltasTelescope, RunSum, Runs, Value
<1> QED BY <1>1, TrendQuestions, PTL

-----------------------------------------------------------------------------
(* The self-test of the optimizer                                          *)

\* A positive weight within the clamp that can be doubled, or an even one at the clamp
\* that can be halved.
Roomy(w) ==
    /\ w \in Nat /\ w > 0 /\ ClampMin <= w /\ w <= ClampMax
    /\ 2 * w <= ClampMax \/ (w = ClampMax /\ w % 2 = 0 /\ 2 * ClampMin <= w)

\* The grid has 0.5x and 2x.
HalvesAndDoubles == \E i, j \in DOMAIN Grid : Grid[i] = 2 /\ Grid[j] = 8

\* A data set whose rules are all roomy; the shuffled order has every rule.
RoomyData(d) ==
    /\ d.order \in Seq(DOMAIN d.shape) /\ \A r \in DOMAIN d.shape : \E k \in DOMAIN d.order : d.order[k] = r
    /\ \A r \in DOMAIN d.shape : Roomy(d.baseline[r])

\* The clamp keeps what is within it.
LEMMA ClampKeeps ==
    \A x \in Int : /\ Test!Clamp(x) \in Int
                   /\ ClampMin <= x /\ x <= ClampMax => Test!Clamp(x) = x
                   /\ ClampMin <= ClampMax /\ ClampMax <= x => Test!Clamp(x) = ClampMax
BY VerdictAssumption DEF Test!Clamp

\* A cell of an integer weight is one.
LEMMA CellsAreIntegers == \A p \in Int, m \in Nat : Test!Cell(p, m) \in Int
<1> TAKE p \in Int, m \in Nat
<1>1. (p * m) \div 4 \in Int
  <2>1. PICK x \in Int : x = p * m OBVIOUS
  <2>2. x \div 4 \in Int OBVIOUS
  <2> QED BY <2>1, <2>2
<1> QED BY <1>1, ClampKeeps DEF Test!Cell

\* A plant is far from the weight, and one of 0.5x and 2x undoes it.
LEMMA PlantIsUndone ==
    ASSUME NEW w, Roomy(w)
    PROVE  /\ Test!Planted(w) \in Int /\ Test!Planted(w) # w
           /\ Test!Distance(Test!Planted(w), w) * 20 > w
           /\ Test!Cell(Test!Planted(w), 2) = w \/ Test!Cell(Test!Planted(w), 8) = w
<1>1. w \in Nat /\ w > 0 /\ ClampMin <= w /\ w <= ClampMax /\ ClampMin \in Nat /\ ClampMax \in Nat /\ ClampMin <= ClampMax
  BY VerdictAssumption DEF Roomy
<1>2. CASE 2 * w <= ClampMax
  <2>1. Test!Up(w) = 2 * w
    <3>1. w * 2 = 2 * w /\ w * 2 \in Int /\ ClampMin <= w * 2 BY <1>1
    <3> QED BY <1>2, <3>1, ClampKeeps DEF Test!Up
  <2>2. Test!Planted(w) = 2 * w /\ 2 * w # w
    BY <1>1, <2>1 DEF Test!Planted
  <2>3. Test!Distance(2 * w, w) = w
    BY <1>1 DEF Test!Distance
  <2>4. Test!Cell(2 * w, 2) = w
    <3>1. (2 * w * 2) \div 4 = w BY <1>1
    <3> QED BY <1>1, <3>1, ClampKeeps DEF Test!Cell
  <2> QED BY <1>1, <2>2, <2>3, <2>4
<1>3. CASE ~(2 * w <= ClampMax)
  <2>1. w = ClampMax /\ w % 2 = 0 /\ 2 * ClampMin <= w
    BY <1>3 DEF Roomy
  <2>2. PICK h \in Nat : w = 2 * h /\ w \div 2 = h
    <3>1. w \div 2 \in Nat /\ w = 2 * (w \div 2) BY <1>1, <2>1
    <3> QED BY <3>1
  <2>3. Test!Up(w) = w
    <3>1. w * 2 \in Int /\ ClampMax <= w * 2 BY <1>1, <2>1
    <3> QED BY <1>1, <2>1, <3>1, ClampKeeps DEF Test!Up
  <2>4. Test!Down(w) = h /\ h # w
    <3>1. ClampMin <= h /\ h <= ClampMax BY <1>1, <2>1, <2>2
    <3> QED BY <1>1, <2>2, <3>1, ClampKeeps DEF Test!Down
  <2>5. Test!Planted(w) = h
    BY <2>3, <2>4 DEF Test!Planted
  <2>6. Test!Distance(h, w) = h /\ h > 0
    BY <1>1, <2>2 DEF Test!Distance
  <2>7. Test!Cell(h, 8) = w
    <3>1. (h * 8) \div 4 = w BY <2>2
    <3> QED BY <1>1, <3>1, ClampKeeps DEF Test!Cell
  <2> QED BY <1>1, <2>2, <2>4, <2>5, <2>6, <2>7
<1> QED BY <1>2, <1>3

\* f is the best value after each cell of the grid.
Better(d, r, best, cell) == IF Test!Score(d, r, cell) > Test!Score(d, r, best) THEN cell ELSE best
Sweeps(d, r, n, f) ==
    f = [k \in 0..n |-> IF k = 0 THEN Test!Planted(d.baseline[r])
                        ELSE Better(d, r, f[k - 1], Test!Cell(Test!Planted(d.baseline[r]), Grid[k]))]

\* The best value is the last value of such an f.
LEMMA BestBySweep == \A d, r : Test!Best(d, r) = (CHOOSE f : Sweeps(d, r, Len(Grid), f))[Len(Grid)]
BY DEF Test!Best, Sweeps, Better

\* There is one for every length of the grid.
LEMMA SweepExists == ASSUME NEW d, NEW r, NEW n \in Nat PROVE \E f : Sweeps(d, r, n, f)
<1> DEFINE T == {m \in Nat : \E f : Sweeps(d, r, m, f)}
           step(k, f) == Better(d, r, f[k - 1], Test!Cell(Test!Planted(d.baseline[r]), Grid[k]))
<1>1. 0 \in T
  <2> DEFINE f == [k \in 0..0 |-> Test!Planted(d.baseline[r])]
  <2>1. Sweeps(d, r, 0, f) BY DEF Sweeps
  <2> QED BY <2>1
<1>2. \A m \in Nat : m \in T => m + 1 \in T
  <2> SUFFICES ASSUME NEW m \in Nat, m \in T PROVE m + 1 \in T
    OBVIOUS
  <2>1. PICK f : Sweeps(d, r, m, f) OBVIOUS
  <2> DEFINE g == [k \in 0..(m + 1) |-> IF k = 0 THEN Test!Planted(d.baseline[r]) ELSE step(k, f)]
  <2>2. \A k \in 0..m : g[k] = f[k] BY <2>1 DEF Sweeps
  <2>3. \A k \in 0..(m + 1) : k # 0 => k - 1 \in 0..m OBVIOUS
  <2>4. Sweeps(d, r, m + 1, g) BY <2>2, <2>3 DEF Sweeps
  <2> QED BY <2>4
<1>3. Nat \subseteq T
  <2> HIDE DEF T
  <2> QED BY <1>1, <1>2, SetInduction
<1> QED BY <1>3

\* The sweep finds the weight of a live rule whose score peaks there, and stays where
\* it is if the score does not notice the rule.
LEMMA SweepOutcome ==
    ASSUME NEW d, NEW r, Roomy(d.baseline[r]), HalvesAndDoubles
    PROVE  /\ r \notin d.dead /\ d.shape[r] = "peaked" => Test!Best(d, r) = d.baseline[r]
           /\ d.shape[r] = "flat" => Test!Best(d, r) = Test!Planted(d.baseline[r])
<1> DEFINE w == d.baseline[r]
           p == Test!Planted(w)
           n == Len(Grid)
           f == CHOOSE g : Sweeps(d, r, n, g)
<1>1. n \in Nat /\ DOMAIN Grid = 1..n /\ \A k \in 1..n : Grid[k] \in Nat
  BY VerdictAssumption
<1>2. Sweeps(d, r, n, f)
  <2>1. \E g : Sweeps(d, r, n, g) BY <1>1, SweepExists
  <2> QED BY <2>1
<1>3. Test!Best(d, r) = f[n]
  BY BestBySweep
<1> HIDE DEF f, n
<1>4. f[0] = p /\ \A k \in 1..n : f[k] = Better(d, r, f[k - 1], Test!Cell(p, Grid[k]))
  BY <1>1, <1>2 DEF Sweeps
<1>5. p \in Int /\ w \in Int /\ \A k \in 1..n : Test!Cell(p, Grid[k]) \in Int
  BY <1>1, PlantIsUndone, CellsAreIntegers DEF Roomy
<1>6. PICK m \in 1..n : Test!Cell(p, Grid[m]) = w
  BY <1>1, PlantIsUndone DEF HalvesAndDoubles
<1> HIDE DEF w, p
<1>7. ASSUME r \notin d.dead, d.shape[r] = "peaked" PROVE f[n] = w
  <2>1. \A v \in Int : Test!Score(d, r, v) \in Int /\ Test!Score(d, r, v) <= 0 /\ (Test!Score(d, r, v) = 0 <=> v = w)
    BY <1>5, <1>7 DEF Test!Score, Test!Distance, w
  <2> DEFINE T == {k \in Nat : k <= n => f[k] \in Int /\ (m <= k => f[k] = w)}
  <2>2. 0 \in T
    BY <1>4, <1>5, <1>6
  <2>3. \A k \in Nat : k \in T => k + 1 \in T
    <3> SUFFICES ASSUME NEW k \in Nat, k \in T, k + 1 <= n PROVE f[k + 1] \in Int /\ (m <= k + 1 => f[k + 1] = w)
      OBVIOUS
    <3>1. k + 1 \in 1..n /\ (k + 1) - 1 = k BY <1>1
    <3>2. PICK c \in Int : c = Test!Cell(p, Grid[k + 1]) BY <1>5, <3>1
    <3>3. f[k + 1] = IF Test!Score(d, r, c) > Test!Score(d, r, f[k]) THEN c ELSE f[k]
      BY <1>4, <3>1, <3>2 DEF Better
    <3>4. f[k] \in Int /\ (m <= k => f[k] = w) BY <1>1
    <3>5. CASE m <= k
      BY <1>5, <2>1, <3>2, <3>3, <3>4, <3>5
    <3>6. CASE m = k + 1
      BY <1>5, <1>6, <2>1, <3>2, <3>3, <3>4, <3>6
    <3>7. CASE k + 1 < m
      BY <1>6, <3>2, <3>3, <3>4, <3>7
    <3> QED BY <1>6, <3>5, <3>6, <3>7
  <2>4. Nat \subseteq T
    <3> HIDE DEF T
    <3> QED BY <2>2, <2>3, SetInduction
  <2> QED BY <1>1, <1>6, <2>4
<1>8. ASSUME d.shape[r] = "flat" PROVE f[n] = p
  <2>1. \A v : Test!Score(d, r, v) = 0
    BY <1>8 DEF Test!Score
  <2> DEFINE T == {k \in Nat : k <= n => f[k] = p}
  <2>2. 0 \in T
    BY <1>4
  <2>3. \A k \in Nat : k \in T => k + 1 \in T
    <3> SUFFICES ASSUME NEW k \in Nat, k \in T, k + 1 <= n PROVE f[k + 1] = p
      OBVIOUS
    <3>1. k + 1 \in 1..n /\ (k + 1) - 1 = k BY <1>1
    <3> QED BY <1>1, <1>4, <2>1, <3>1 DEF Better
  <2>4. Nat \subseteq T
    <3> HIDE DEF T
    <3> QED BY <2>2, <2>3, SetInduction
  <2> QED BY <1>1, <2>4
<1> QED BY <1>3, <1>7, <1>8 DEF w, p

\* A test question has one of the data sets.
TestInv == q.kind = "test" => q.data \in DataSets

LEMMA TestQuestions == Spec => []TestInv
<1>1. Init => TestInv
  BY DEF Init, TestInv
<1>2. ASSUME TestInv, [Next]_vars PROVE TestInv'
  <2>1. CASE EvaluateOne
    BY <2>1 DEF EvaluateOne, TestInv
  <2>2. CASE \E c \in GemCandidates, r \in GemRules, x \in Contributions : Record(c, r, x)
    BY <2>2 DEF Record, TestInv
  <2>3. CASE \E row \in TrendRows : AppendRun(row)
    BY <2>3 DEF AppendRun, TestInv
  <2>4. CASE UNCHANGED vars
    BY <1>2, <2>4 DEF vars, TestInv
  <2> QED BY <1>2, <2>1, <2>2, <2>3, <2>4 DEF Next
<1> QED BY <1>1, <1>2, PTL DEF Spec

\* The rule that is planted is a live one with room.
LEMMA SelectedIsLive ==
    ASSUME NEW d, d.order \in Seq(DOMAIN d.shape), Test!Eligible(d) # {}
    PROVE  Test!Selected(d) \in DOMAIN d.shape /\ Test!Selected(d) \notin d.dead
<1>1. Test!Eligible(d) \subseteq DOMAIN d.order /\ DOMAIN d.order = 1..Len(d.order)
  BY DEF Test!Eligible
<1>2. Test!Eligible(d) \in SUBSET Nat
  BY <1>1
<1> DEFINE k == CHOOSE i \in Test!Eligible(d) : \A l \in Test!Eligible(d) : i <= l
<1>3. k \in Test!Eligible(d)
  BY <1>2, LeastNat
<1>4. Test!Selected(d) = d.order[k]
  BY DEF Test!Selected
<1> HIDE DEF k
<1>5. d.order[k] \notin d.dead
  BY <1>3 DEF Test!Eligible
<1>6. d.order[k] \in DOMAIN d.shape
  BY <1>1, <1>3
<1> QED BY <1>4, <1>5, <1>6

\* For any rules, any order, any of them dead, any shape of the train score and any grid
\* with 0.5x and 2x: the self-test tells something either way, as long as every weight
\* can be doubled or sits at the clamp.  The shipped weights between half the clamp and
\* the clamp are the ones GridUndoesPlant is about.
THEOREM RoomyTestTells ==
    HalvesAndDoubles /\ (\A d \in DataSets : RoomyData(d)) => (Spec => []SelfTestTells)
<1> SUFFICES ASSUME HalvesAndDoubles, \A d \in DataSets : RoomyData(d) PROVE Spec => []SelfTestTells
  OBVIOUS
<1>1. TestInv => SelfTestTells
  <2> SUFFICES ASSUME TestInv, q.kind = "test" PROVE SelfTestTells
    BY DEF SelfTestTells
  <2>1. PICK d \in DataSets : d = q.data
    BY DEF TestInv
  <2>2. d.order \in Seq(DOMAIN d.shape) /\ DOMAIN d.order = 1..Len(d.order)
        /\ (\A r \in DOMAIN d.shape : \E k \in DOMAIN d.order : d.order[k] = r)
        /\ \A r \in DOMAIN d.shape : Roomy(d.baseline[r])
    BY DEF RoomyData
  <2>3. ASSUME NEW r \in DOMAIN d.shape \ d.dead PROVE Test!Eligible(d) # {}
    <3>1. PICK k \in DOMAIN d.order : d.order[k] = r BY <2>2
    <3>2. Test!Planted(d.baseline[r]) # d.baseline[r] BY <2>2, PlantIsUndone
    <3> QED BY <3>1, <3>2 DEF Test!Eligible
  <2>4. ASSUME Test!Eligible(d) # {}
        PROVE  LET r == Test!Selected(d)
               IN  /\ d.shape[r] = "peaked" => Test!Recovered(d, r)
                   /\ d.shape[r] = "flat" => ~Test!Recovered(d, r)
    <3>1. PICK r \in DOMAIN d.shape : r = Test!Selected(d) /\ r \notin d.dead
      BY <2>2, <2>4, SelectedIsLive
    <3>2. PICK w : w = d.baseline[r] /\ Roomy(w) /\ w \in Nat
      BY <2>2 DEF Roomy
    <3>3. ASSUME d.shape[r] = "peaked" PROVE Test!Recovered(d, r)
      <4>1. Test!Best(d, r) = w BY <3>1, <3>2, <3>3, SweepOutcome
      <4>2. Test!Distance(w, w) * 20 <= w BY <3>2 DEF Test!Distance
      <4> QED BY <3>2, <4>1, <4>2 DEF Test!Recovered
    <3>4. ASSUME d.shape[r] = "flat" PROVE ~Test!Recovered(d, r)
      <4>1. Test!Best(d, r) = Test!Planted(w) BY <3>2, <3>4, SweepOutcome
      <4>2. Test!Distance(Test!Planted(w), w) * 20 > w /\ Test!Planted(w) \in Int BY <3>2, PlantIsUndone
      <4>3. Test!Distance(Test!Planted(w), w) * 20 \in Int BY <3>2, <4>2 DEF Test!Distance
      <4>4. ~(Test!Distance(Test!Planted(w), w) * 20 <= w) BY <3>2, <4>2, <4>3
      <4> QED BY <3>2, <4>1, <4>4 DEF Test!Recovered
    <3> QED BY <3>1, <3>3, <3>4
  <2>5. ASSUME Peaked(d), ~Test!Passes(d) PROVE DOMAIN d.shape \ d.dead = {}
    <3>1. ASSUME Test!Eligible(d) # {} PROVE FALSE
      <4>1. Test!Selected(d) \in DOMAIN d.shape BY <2>2, <3>1, SelectedIsLive
      <4>2. d.shape[Test!Selected(d)] = "peaked" BY <2>5, <4>1 DEF Peaked
      <4> QED BY <2>4, <2>5, <3>1, <4>2 DEF Test!Passes
    <3> QED BY <2>3, <3>1
  <2>6. ASSUME Test!Passes(d) PROVE d.shape[Test!Selected(d)] # "flat"
    BY <2>4, <2>6 DEF Test!Passes
  <2> QED BY <2>1, <2>5, <2>6 DEF SelfTestTells
<1> QED BY <1>1, TestQuestions, PTL

-----------------------------------------------------------------------------
(* The causal graph                                                        *)

\* A catch-all trigger is the only one that matches every effect, and it is kept out
\* of the indexes: data/event_match_seed.json.
LEMMA OnlyCatchAllMatchesAny ==
    \A m \in EventMatch : m[2] = "*" => m[1] \in CATCH_ALL_TRIGGERS
BY DEF EventMatch, CATCH_ALL_TRIGGERS

\* The events of the two tables, and none of them is empty.
MatchTriggers == CATCH_ALL_TRIGGERS \cup
    {"ChangesZone", "CounterAdded", "DamageDone", "Taps", "Untaps", "LifeGained", "Sacrificed", "Discarded", "Drawn",
     "TapsForMana", "Proliferate", "Investigated", "Surveil", "LifeLost", "BecomeMonarch"}
MatchEffects ==
    {"Token", "CopyPermanent", "Animate", "ChangeZone", "ChangeZoneAll", "PutCounter", "PutCounterAll", "Proliferate",
     "MultiplyCounter", "*", "DealDamage", "DamageAll", "AddPhase", "Tap", "TapAll", "TapOrUntap", "Untap", "UntapAll",
     "GainLife", "Sacrifice", "SacrificeAll", "Discard", "Draw", "Mana", "Investigate", "Surveil", "LoseLife",
     "BecomeMonarch"}
FedTriggers == {"Sacrificed", "Discarded", "Milled", "LifeLost", "Taps", "Exiled"}
FeedingCosts == {"sacrifice", "discard", "mill", "pay_life", "tap", "tap_type", "exile", "exile_from_grave",
                 "exile_from_hand", "exile_from_top"}

LEMMA MatchedEventsAreNamed ==
    \A m \in EventMatch : m[1] # "" /\ m[2] # ""
<1>1. \A m \in EventMatch : m[1] \in MatchTriggers /\ m[2] \in MatchEffects
  <2>1. \A m \in EventMatch : m[1] \in MatchTriggers
    BY DEF EventMatch, MatchTriggers
  <2>2. \A m \in EventMatch : m[2] \in MatchEffects
    BY DEF EventMatch, MatchEffects
  <2> QED BY <2>1, <2>2
<1>2. "" \notin MatchTriggers
  BY Zenon DEF MatchTriggers, CATCH_ALL_TRIGGERS
<1>3. "" \notin MatchEffects
  BY Zenon DEF MatchEffects
<1> QED BY <1>1, <1>2, <1>3, Zenon

LEMMA CostsAreNamed == \A c \in CostFeeds : c[1] # "" /\ c[2] # "" /\ c = <<c[1], c[2]>>
<1>1. \A c \in CostFeeds : c[1] \in FeedingCosts
  BY DEF CostFeeds, FeedingCosts
<1>2. \A c \in CostFeeds : c[2] \in FedTriggers
  BY DEF CostFeeds, FedTriggers
<1>3. \A c \in CostFeeds : c = <<c[1], c[2]>>
  BY DEF CostFeeds
<1>4. "" \notin FeedingCosts
  BY Zenon DEF FeedingCosts
<1>5. "" \notin FedTriggers
  BY Zenon DEF FedTriggers
<1> QED BY <1>1, <1>2, <1>3, <1>4, <1>5, Zenon

\* Which ports the three loops over the indexes connect.
JoinedByTable(t, p) ==
    /\ t.type = "trigger" /\ p.type = "effect"
    /\ \E m \in EventMatch : /\ m[1] \notin CATCH_ALL_TRIGGERS /\ m[2] # "*"
                             /\ t.event = m[1] /\ p.event = m[2] /\ Quality(m[3], t, p)
JoinedByName(t, p) ==
    /\ t.type = "trigger" /\ p.type = "effect" /\ t.event \notin CATCH_ALL_TRIGGERS
    /\ t.event # "" /\ t.event = p.event /\ \A m \in EventMatch : m[1] # t.event
JoinedByCost(t, p) ==
    /\ t.type = "trigger" /\ p.type = "cost" /\ t.event \notin CATCH_ALL_TRIGGERS /\ t.event # ""
    /\ <<p.event, t.event>> \in CostFeeds
PortsJoined(t, p) == JoinedByTable(t, p) \/ JoinedByName(t, p) \/ JoinedByCost(t, p)

\* The three loops ask of two ports what match_event asks.
LEMMA JoinedIsLinked == \A t, p : PortsJoined(t, p) <=> Linked(t, p)
<1> SUFFICES ASSUME NEW t, NEW p PROVE PortsJoined(t, p) <=> Linked(t, p)
  OBVIOUS
<1> USE DEF PortsJoined, JoinedByTable, JoinedByName, JoinedByCost
<1>1. PortsJoined(t, p) => Linked(t, p)
  BY MatchedEventsAreNamed, CostsAreNamed DEF Linked, match_event
<1>2. Linked(t, p) => PortsJoined(t, p)
  BY OnlyCatchAllMatchesAny, MatchedEventsAreNamed, CostsAreNamed DEF Linked, match_event
<1> QED BY <1>1, <1>2

-----------------------------------------------------------------------------
\* Whether some port of one card and some port of another are in a relation.
Somewhere(R(_, _), a, b) == \E t \in ToSet(a.ports), p \in ToSet(b.ports) : R(t, p)

\* An event is listed when a port of some card of the list has it.
LEMMA ListedEvents ==
    ASSUME NEW cards, NEW type, NEW i \in DOMAIN cards, NEW p \in ToSet(cards[i].ports),
           p.type = type, p.event # ""
    PROVE  p.event \in events(cards, type)
<1>1. cards[i] \in ToSet(cards)
  BY DEF ToSet
<1>2. p \in UNION {ToSet(c.ports) : c \in ToSet(cards)}
  BY <1>1
<1> QED BY <1>2 DEF events

LEMMA MappedEdges ==
    ASSUME NEW cards, NEW i \in DOMAIN cards, NEW j \in DOMAIN cards
    PROVE  <<i, j>> \in mapped_edges(cards) <=> Somewhere(JoinedByTable, cards[i], cards[j])
<1>1. ASSUME <<i, j>> \in mapped_edges(cards) PROVE Somewhere(JoinedByTable, cards[i], cards[j])
  BY <1>1 DEF mapped_edges, Somewhere, JoinedByTable, Is
<1>2. ASSUME NEW t \in ToSet(cards[i].ports), NEW p \in ToSet(cards[j].ports), JoinedByTable(t, p)
      PROVE  <<i, j>> \in mapped_edges(cards)
  <2>1. PICK m \in EventMatch : /\ m[1] \notin CATCH_ALL_TRIGGERS /\ m[2] # "*"
                                /\ t.event = m[1] /\ p.event = m[2] /\ Quality(m[3], t, p)
    BY <1>2 DEF JoinedByTable
  <2>2. i \in index(cards, "trigger", m[1]) /\ j \in index(cards, "effect", m[2])
    BY <1>2, <2>1 DEF index, JoinedByTable
  <2>3. Is(t, "trigger", {m[1]}) /\ Is(p, "effect", {m[2]})
    BY <1>2, <2>1 DEF Is, JoinedByTable
  <2>4. <<i, j>> \in {e \in index(cards, "trigger", m[1]) \X index(cards, "effect", m[2]) :
                        \E t1 \in ToSet(cards[e[1]].ports), p1 \in ToSet(cards[e[2]].ports) :
                            Is(t1, "trigger", {m[1]}) /\ Is(p1, "effect", {m[2]}) /\ Quality(m[3], t1, p1)}
    BY <2>1, <2>2, <2>3
  <2>5. m \in {n \in EventMatch : n[1] \notin CATCH_ALL_TRIGGERS /\ n[2] # "*"}
    BY <2>1
  <2> QED BY <2>4, <2>5, Zenon DEF mapped_edges
<1> QED BY <1>1, <1>2 DEF Somewhere

LEMMA UnmappedEdges ==
    ASSUME NEW cards, NEW i \in DOMAIN cards, NEW j \in DOMAIN cards
    PROVE  <<i, j>> \in unmapped_edges(cards) <=> Somewhere(JoinedByName, cards[i], cards[j])
<1>1. ASSUME <<i, j>> \in unmapped_edges(cards) PROVE Somewhere(JoinedByName, cards[i], cards[j])
  <2>1. PICK ev \in (trigger_events(cards) \cap events(cards, "effect")) \ {m[1] : m \in EventMatch} :
             i \in index(cards, "trigger", ev) /\ j \in index(cards, "effect", ev)
    BY <1>1 DEF unmapped_edges
  <2>2. ev # "" /\ ev \notin CATCH_ALL_TRIGGERS
    BY <2>1 DEF trigger_events, events
  <2>3. \A m \in EventMatch : m[1] # ev
    BY <2>1
  <2> QED BY <2>1, <2>2, <2>3 DEF index, Somewhere, JoinedByName
<1>2. ASSUME NEW t \in ToSet(cards[i].ports), NEW p \in ToSet(cards[j].ports), JoinedByName(t, p)
      PROVE  <<i, j>> \in unmapped_edges(cards)
  <2>1. t.event \in trigger_events(cards)
    BY <1>2, ListedEvents DEF trigger_events, JoinedByName
  <2>2. t.event \in events(cards, "effect")
    BY <1>2, ListedEvents DEF JoinedByName
  <2>3. i \in index(cards, "trigger", t.event) /\ j \in index(cards, "effect", t.event)
    BY <1>2 DEF index, JoinedByName
  <2>4. t.event \notin {m[1] : m \in EventMatch}
    BY <1>2 DEF JoinedByName
  <2>5. <<i, j>> \in index(cards, "trigger", t.event) \X index(cards, "effect", t.event)
    BY <1>2, <2>3 DEF JoinedByName
  <2> QED BY <2>1, <2>2, <2>4, <2>5, Zenon DEF unmapped_edges
<1> QED BY <1>1, <1>2 DEF Somewhere

LEMMA CostEdges ==
    ASSUME NEW cards, NEW i \in DOMAIN cards, NEW j \in DOMAIN cards
    PROVE  <<i, j>> \in cost_edges(cards) <=> Somewhere(JoinedByCost, cards[i], cards[j])
<1>1. ASSUME <<i, j>> \in cost_edges(cards) PROVE Somewhere(JoinedByCost, cards[i], cards[j])
  <2>1. PICK c \in CostFeeds : /\ c[2] \in trigger_events(cards)
                               /\ i \in index(cards, "trigger", c[2]) /\ j \in index(cards, "cost", c[1])
    BY <1>1 DEF cost_edges
  <2>2. c[2] # "" /\ c[2] \notin CATCH_ALL_TRIGGERS
    BY <2>1 DEF trigger_events, events
  <2> QED BY <2>1, <2>2, CostsAreNamed DEF index, Somewhere, JoinedByCost
<1>2. ASSUME NEW t \in ToSet(cards[i].ports), NEW p \in ToSet(cards[j].ports), JoinedByCost(t, p)
      PROVE  <<i, j>> \in cost_edges(cards)
  <2>1. t.event \in trigger_events(cards)
    BY <1>2, ListedEvents DEF trigger_events, JoinedByCost
  <2>2. i \in index(cards, "trigger", t.event) /\ j \in index(cards, "cost", p.event)
    BY <1>2 DEF index, JoinedByCost
  <2> DEFINE c == <<p.event, t.event>>
  <2>3. c \in {d \in CostFeeds : d[2] \in trigger_events(cards)}
    BY <1>2, <2>1 DEF JoinedByCost
  <2>4. <<i, j>> \in index(cards, "trigger", c[2]) \X index(cards, "cost", c[1])
    BY <2>2
  <2> HIDE DEF c
  <2> QED BY <2>3, <2>4, Zenon DEF cost_edges
<1> QED BY <1>1, <1>2 DEF Somewhere

LEMMA NeighboursAreLinked ==
    ASSUME NEW cards, NEW i \in DOMAIN cards, NEW j \in DOMAIN cards, i # j
    PROVE  j \in build_causal_graph(cards)[i] <=> CardsLinked(cards[i], cards[j])
<1> DEFINE E == mapped_edges(cards) \cup unmapped_edges(cards) \cup cost_edges(cards)
<1>1. j \in build_causal_graph(cards)[i] <=> <<i, j>> \in E \/ <<j, i>> \in E
  BY DEF build_causal_graph
<1>2. <<i, j>> \in E <=> Somewhere(PortsJoined, cards[i], cards[j])
  BY MappedEdges, UnmappedEdges, CostEdges DEF Somewhere, PortsJoined
<1>3. <<j, i>> \in E <=> Somewhere(PortsJoined, cards[j], cards[i])
  BY MappedEdges, UnmappedEdges, CostEdges DEF Somewhere, PortsJoined
<1> QED BY <1>1, <1>2, <1>3, JoinedIsLinked DEF Somewhere, CardsLinked

\* The adjacency joined from the three indexes, whatever the cards and their ports, has
\* exactly the edges of graph_engine's pairwise matcher.
THEOREM GraphIsPairwise == \A cards : IndexIsPairwise(cards)
BY NeighboursAreLinked DEF IndexIsPairwise

\* What find_trigger_feeders reports is linked, when the columns its query does not
\* select are empty.
LEMMA FeedersAreLinked ==
    ASSUME NEW a, NEW b, find_trigger_feeders(a, b) # {}, \A p \in ToSet(b.ports) : p = Selected(p)
    PROVE  CardsLinked(a, b)
<1>1. CASE \E t \in ToSet(a.ports), e \in ToSet(b.ports) :
              usable_trigger(t) /\ e.type = "effect" /\ match_event(t, Selected(e))
  BY <1>1 DEF usable_trigger, Linked, CardsLinked
<1>2. CASE \E t \in ToSet(a.ports), c \in ToSet(b.ports) :
              usable_trigger(t) /\ c.type = "cost" /\ <<c.event, t.event>> \in CostFeeds
  BY <1>2 DEF usable_trigger, Linked, CardsLinked
<1> QED BY <1>1, <1>2 DEF find_trigger_feeders

\* Whatever the cards, one that feeds a trigger of another by graph_engine's report is
\* its neighbour in the graph: the report asks for more (usable triggers, constraints on
\* what an effect produces) and never for less.
THEOREM FeedersAreFound == \A cards : FeedersAreNeighbours(cards)
BY FeedersAreLinked, NeighboursAreLinked DEF FeedersAreNeighbours

-----------------------------------------------------------------------------
\* A graph as build_causal_graph leaves it: finite, without loops, edges both ways.
Graph(adj) ==
    /\ IsFiniteSet(DOMAIN adj) /\ 0 \notin DOMAIN adj
    /\ \A n \in DOMAIN adj : adj[n] \subseteq DOMAIN adj /\ n \notin adj[n]
    /\ EdgesGoBothWays(adj)

\* build_causal_graph adds both directions of every edge and no card to itself.
THEOREM BuiltGraph == ASSUME NEW S, NEW cards \in Seq(S) PROVE Graph(build_causal_graph(cards))
<1> DEFINE adj == build_causal_graph(cards)
<1>1. DOMAIN adj = DOMAIN cards
  BY DEF build_causal_graph
<1>2. DOMAIN cards = 1..Len(cards) /\ Len(cards) \in Nat
  OBVIOUS
<1>3. IsFiniteSet(DOMAIN adj)
  BY <1>1, <1>2, FS_Interval
<1>4. 0 \notin DOMAIN adj
  BY <1>1, <1>2
<1>5. \A n \in DOMAIN adj : adj[n] \subseteq DOMAIN adj /\ n \notin adj[n]
  BY <1>1 DEF build_causal_graph
<1>6. EdgesGoBothWays(adj)
  BY <1>1 DEF build_causal_graph, EdgesGoBothWays
<1> QED BY <1>3, <1>4, <1>5, <1>6 DEF Graph

\* The synthetic commander's edges, added to those of the cards, go both ways.
THEOREM MergedEdgesGoBothWays ==
    ASSUME NEW adj, Graph(adj), NEW cmdrs \in SUBSET DOMAIN adj
    PROVE  EdgesGoBothWays(merged_adjacency(adj, cmdrs))
<1> DEFINE all    == merged_adjacency(adj, cmdrs)
           merged == (UNION {adj[c] : c \in cmdrs}) \ cmdrs
<1>1. DOMAIN all = {0} \cup DOMAIN adj /\ all[0] = merged
  BY DEF merged_adjacency
<1>2. \A n \in DOMAIN adj : all[n] = adj[n] \cup When(n \in merged, {0})
  BY DEF merged_adjacency, Graph
<1>3. \A n \in DOMAIN adj : 0 \notin adj[n] /\ n # 0
  BY DEF Graph
<1>4. merged \subseteq DOMAIN adj /\ 0 \notin merged
  BY DEF Graph
<1> HIDE DEF merged, all
<1>5. \A n, o \in DOMAIN adj : o \in all[n] <=> o \in adj[n]
  BY <1>2, <1>3 DEF When
<1>6. \A n \in DOMAIN adj : 0 \in all[n] <=> n \in all[0]
  BY <1>1, <1>2, <1>3 DEF When
<1>7. \A n, o \in DOMAIN adj : o \in adj[n] <=> n \in adj[o]
  BY DEF Graph, EdgesGoBothWays
<1> QED BY <1>1, <1>5, <1>6, <1>7 DEF EdgesGoBothWays, all

\* The synthetic node's neighbours are the commanders' own, without the commanders.
LEMMA DirectNeighbours ==
    ASSUME NEW adj, NEW cmdrs
    PROVE  \A n : n \in merged_adjacency(adj, cmdrs)[0] <=> n \notin cmdrs /\ \E c \in cmdrs : n \in adj[c]
BY DEF merged_adjacency

\* Every neighbour of a direct neighbour of the commanders is reached in two hops, so
\* that a direct neighbour's two-hop share is whole; the live metrics report it so.
THEOREM DirectNeighboursAreWhole ==
    ASSUME NEW adj, Graph(adj), NEW cmdrs \in SUBSET DOMAIN adj, NEW iterations
    PROVE  NeighboursWithinTwoHops(merged_adjacency(adj, cmdrs)[0], compute_commander_metrics(adj, cmdrs, iterations))
<1> DEFINE all == merged_adjacency(adj, cmdrs)
<1> SUFFICES ASSUME NEW n \in all[0]
             PROVE  LET two_hop == compute_commander_metrics(adj, cmdrs, iterations)[n].two_hop
                    IN  two_hop[1] = two_hop[2]
  BY DEF NeighboursWithinTwoHops
<1>1. n \in DOMAIN adj \ cmdrs
  BY DirectNeighbours DEF Graph
<1>2. compute_commander_metrics(adj, cmdrs, iterations)[n].two_hop = cmdr_two_hop_ratio(all, 0, n)
  BY <1>1 DEF compute_commander_metrics
<1> DEFINE hop2 == UNION {all[o] : o \in all[0]}
<1>3. (all[0] \cup hop2) \cap all[n] = all[n]
  OBVIOUS
<1>4. all[n] = adj[n] \cup {0}
  BY <1>1 DEF merged_adjacency, Graph, When
<1>5. IsFiniteSet(all[n])
  <2>1. IsFiniteSet(adj[n])
    BY <1>1, FS_Subset DEF Graph
  <2> QED BY <2>1, <1>4, FS_AddElement
<1>6. Cardinality(all[n]) \in Nat /\ Cardinality(all[n]) # 0
  BY <1>4, <1>5, FS_CardinalityType, FS_EmptySet
<1> HIDE DEF all
<1> DEFINE d == Cardinality(all[n])
<1>7. Max({1, d}) = d
  <2>1. d \in Nat /\ d >= 1
    BY <1>6
  <2> HIDE DEF d
  <2> QED BY <2>1 DEF Max
<1>8. cmdr_two_hop_ratio(all, 0, n) = <<d, d>>
  BY <1>3, <1>7 DEF cmdr_two_hop_ratio, Degree
<1> QED BY <1>2, <1>8 DEF all

-----------------------------------------------------------------------------
\* What a card keeps of its neighbours: all of them or `cap`, and none that it drops
\* outranks one it keeps.
LEMMA KeptOutranksDropped ==
    ASSUME NEW pr, NEW S, IsFiniteSet(S), NEW cap \in Nat, NEW K \in central(pr, S, cap), NEW m \in S \ K
    PROVE  K \subseteq S /\ IsFiniteSet(K) /\ Cardinality(K) = cap /\ \A k \in K : pr[k] >= pr[m]
<1>1. K \subseteq S /\ \A k \in K, o \in S \ K : pr[k] >= pr[o]
  BY DEF central
<1>2. Cardinality(K) = (IF Cardinality(S) <= cap THEN Cardinality(S) ELSE cap)
  BY DEF central
<1>3. IsFiniteSet(K)
  BY <1>1, FS_Subset
<1>4. Cardinality(K) # Cardinality(S)
  BY <1>1, FS_Subset
<1> QED BY <1>1, <1>2, <1>3, <1>4

\* A neighbour of several commanders may be kept by one and dropped by another: the
\* union of what they keep is all from the graph, and what it leaves out has been
\* dropped by some commander for `cap` others that it does not outrank.
THEOREM TableDropsOnlyTheOutranked ==
    ASSUME NEW adj, Graph(adj), NEW cmdrs \in SUBSET DOMAIN adj, NEW pr, NEW cap \in Nat
    PROVE  TableKeepsCentral(adj, pr, cap, cmdrs)
<1> DEFINE all == merged_adjacency(adj, cmdrs)
<1>0. \A n : n \in all[0] <=> n \notin cmdrs /\ \E c \in cmdrs : n \in adj[c]
  BY DirectNeighbours
<1> HIDE DEF all
<1> SUFFICES ASSUME NEW found \in commander_neighbours(adj, pr, cap, cmdrs)
             PROVE  /\ found \ cmdrs \subseteq all[0]
                    /\ \A m \in all[0] \ found : Cardinality({k \in found : pr[k] >= pr[m]}) >= cap
  BY DEF TableKeepsCentral, all
<1>1. PICK f : /\ \A c \in cmdrs : f[c] \in central(pr, adj[c], cap)
               /\ found = UNION {f[c] : c \in cmdrs}
  BY DEF commander_neighbours
<1>2. \A c \in cmdrs : f[c] \subseteq adj[c] /\ IsFiniteSet(adj[c])
  BY <1>1, FS_Subset DEF central, Graph
<1>3. found \ cmdrs \subseteq all[0]
  <2> SUFFICES ASSUME NEW k \in found \ cmdrs PROVE k \in all[0]
    OBVIOUS
  <2>1. PICK c \in cmdrs : k \in f[c]
    BY <1>1
  <2>2. k \in adj[c]
    BY <1>2, <2>1
  <2> QED BY <1>0, <2>1, <2>2
<1>4. IsFiniteSet(found)
  <2>1. found \subseteq DOMAIN adj
    BY <1>1, <1>2 DEF Graph
  <2> QED BY <2>1, FS_Subset DEF Graph
<1>5. ASSUME NEW m \in all[0] \ found PROVE Cardinality({k \in found : pr[k] >= pr[m]}) >= cap
  <2> DEFINE better == {k \in found : pr[k] >= pr[m]}
  <2>1. PICK c \in cmdrs : m \in adj[c] \ f[c]
    BY <1>0, <1>1, <1>5
  <2>2. /\ IsFiniteSet(f[c]) /\ Cardinality(f[c]) = cap
        /\ \A k \in f[c] : pr[k] >= pr[m]
    BY <1>1, <1>2, <2>1, KeptOutranksDropped
  <2>3. f[c] \subseteq better
    BY <1>1, <2>2
  <2>4. IsFiniteSet(better)
    BY <1>4, FS_Subset
  <2> HIDE DEF better
  <2>5. Cardinality(f[c]) <= Cardinality(better) /\ Cardinality(better) \in Nat
    BY <2>3, <2>4, FS_Subset, FS_CardinalityType
  <2> QED BY <2>2, <2>5 DEF better
<1> QED BY <1>3, <1>5

-----------------------------------------------------------------------------
(* The ranks.  An iteration moves shares of a rank along the edges: the    *)
(* matrix of what each node hands to each is added up by its rows and by   *)
(* its columns, and the divisions are exact in the unit of the graph.      *)

\* What node k adds to a sum, the partial sums up to n, and the last of them.
At(f, k)      == IF k \in DOMAIN f THEN f[k] ELSE 0
Sums(f, n, s) == s = [k \in 0..n |-> (IF k = 0 THEN 0 ELSE s[k - 1]) + (IF k \in DOMAIN f THEN f[k] ELSE 0)]
SumTo(f, n)   == (CHOOSE s : Sums(f, n, s))[n]

\* The sum that CausalGraph takes is the last partial sum.
LEMMA RankSumIsLast == \A rank : RankSum(rank) = SumTo(rank, Cardinality(DOMAIN rank))
BY DEF RankSum, SumTo, Sums

\* There are partial sums up to every n.
LEMMA SumsExist == ASSUME NEW f, NEW n \in Nat PROVE \E s : Sums(f, n, s)
<1> DEFINE T == {m \in Nat : \E s : Sums(f, m, s)}
<1>1. 0 \in T
  <2> DEFINE s == [k \in 0..0 |-> 0 + At(f, k)]
  <2>1. Sums(f, 0, s) BY DEF Sums, At
  <2> QED BY <2>1
<1>2. \A m \in Nat : m \in T => m + 1 \in T
  <2> SUFFICES ASSUME NEW m \in Nat, NEW s, Sums(f, m, s) PROVE \E t : Sums(f, m + 1, t)
    OBVIOUS
  <2> DEFINE t == [k \in 0..(m + 1) |-> IF k = m + 1 THEN s[m] + At(f, k) ELSE s[k]]
  <2>1. \A k \in 0..(m + 1) : t[k] = (IF k = 0 THEN 0 ELSE t[k - 1]) + (IF k \in DOMAIN f THEN f[k] ELSE 0)
    <3> TAKE k \in 0..(m + 1)
    <3>1. CASE k = m + 1
      <4>1. k # 0 /\ k - 1 = m /\ k - 1 \in 0..(m + 1) /\ k - 1 # m + 1 BY <3>1
      <4> QED BY <3>1, <4>1 DEF At
    <3>2. CASE k # m + 1
      <4>1. k \in 0..m BY <3>2
      <4>2. s[k] = (IF k = 0 THEN 0 ELSE s[k - 1]) + (IF k \in DOMAIN f THEN f[k] ELSE 0) BY <4>1 DEF Sums
      <4>3. k # 0 => k - 1 \in 0..(m + 1) /\ k - 1 # m + 1 BY <4>1
      <4> QED BY <3>2, <4>2, <4>3
    <3> QED BY <3>1, <3>2
  <2>2. t = [k \in 0..(m + 1) |-> t[k]] OBVIOUS
  <2> HIDE DEF t
  <2>3. Sums(f, m + 1, t) BY <2>1, <2>2 DEF Sums
  <2> QED BY <2>3
<1> HIDE DEF T
<1>3. Nat \subseteq T BY <1>1, <1>2, SetInduction
<1> QED BY <1>3 DEF T

\* The partial sums do not depend on where they stop.
LEMMA SumsAgree ==
    ASSUME NEW f, NEW n \in Nat, NEW s, Sums(f, n, s), NEW t, Sums(f, n + 1, t)
    PROVE  s[n] = t[n]
<1> DEFINE T == {k \in Nat : k \in 0..n => s[k] = t[k]}
<1>1. 0 \in T
  <2>1. 0 \in 0..n /\ 0 \in 0..(n + 1) OBVIOUS
  <2> QED BY <2>1 DEF Sums
<1>2. \A k \in Nat : k \in T => k + 1 \in T
  <2> SUFFICES ASSUME NEW k \in Nat, k \in T, k + 1 \in 0..n PROVE s[k + 1] = t[k + 1]
    OBVIOUS
  <2>1. k \in 0..n /\ k + 1 \in 0..(n + 1) /\ k + 1 # 0 /\ (k + 1) - 1 = k OBVIOUS
  <2>2. s[k] = t[k] BY <2>1
  <2> QED BY <2>1, <2>2 DEF Sums
<1> HIDE DEF T
<1>3. n \in T BY <1>1, <1>2, SetInduction
<1> QED BY <1>3 DEF T

\* A sum starts with the first node and grows by one at a time.
LEMMA SumStep ==
    ASSUME NEW f, NEW n \in Nat
    PROVE  SumTo(f, 0) = 0 + At(f, 0) /\ SumTo(f, n + 1) = SumTo(f, n) + At(f, n + 1)
<1>1. ASSUME NEW m \in Nat PROVE Sums(f, m, CHOOSE s : Sums(f, m, s))
  BY SumsExist
<1>2. PICK z : z = (CHOOSE s : Sums(f, 0, s)) /\ Sums(f, 0, z) BY <1>1
<1>3. PICK s : s = (CHOOSE x : Sums(f, n, x)) /\ Sums(f, n, s) BY <1>1
<1>4. PICK t : t = (CHOOSE x : Sums(f, n + 1, x)) /\ Sums(f, n + 1, t) BY <1>1
<1>5. z[0] = 0 + At(f, 0)
  BY <1>2 DEF Sums, At
<1>6. t[n + 1] = t[n] + At(f, n + 1)
  <2>1. n + 1 \in 0..(n + 1) /\ n + 1 # 0 /\ (n + 1) - 1 = n OBVIOUS
  <2> QED BY <1>4, <2>1 DEF Sums, At
<1>7. s[n] = t[n] BY <1>3, <1>4, SumsAgree
<1> QED BY <1>2, <1>3, <1>4, <1>5, <1>6, <1>7 DEF SumTo

\* A sum of naturals is a natural.
LEMMA SumType ==
    ASSUME NEW D, NEW f \in [D -> Nat], NEW n \in Nat
    PROVE  SumTo(f, n) \in Nat
<1> DEFINE T == {m \in Nat : SumTo(f, m) \in Nat}
<1>0. \A k : At(f, k) \in Nat BY DEF At
<1>1. 0 \in T BY <1>0, SumStep
<1>2. \A m \in Nat : m \in T => m + 1 \in T BY <1>0, SumStep
<1> HIDE DEF T
<1>3. n \in T BY <1>1, <1>2, SetInduction
<1> QED BY <1>3 DEF T

\* The function h is, node by node, the sum of f and g.
Added(h, f, g, D) == h \in [D -> Nat] /\ \A d \in D : h[d] = f[d] + g[d]

\* The sum of the sums.
LEMMA SumAdd ==
    ASSUME NEW D, NEW f \in [D -> Nat], NEW g \in [D -> Nat], NEW h, Added(h, f, g, D), NEW n \in Nat
    PROVE  SumTo(h, n) = SumTo(f, n) + SumTo(g, n)
<1> DEFINE T == {m \in Nat : SumTo(h, m) = SumTo(f, m) + SumTo(g, m)}
<1>0. \A k : At(f, k) \in Nat /\ At(g, k) \in Nat /\ At(h, k) = At(f, k) + At(g, k) BY DEF At, Added
<1>1. 0 \in T BY <1>0, SumStep
<1>2. ASSUME NEW m \in Nat, m \in T PROVE m + 1 \in T
  <2>1. SumTo(h, m + 1) = SumTo(h, m) + At(h, m + 1) BY SumStep
  <2>2. SumTo(f, m + 1) = SumTo(f, m) + At(f, m + 1) BY SumStep
  <2>3. SumTo(g, m + 1) = SumTo(g, m) + At(g, m + 1) BY SumStep
  <2>4. SumTo(f, m) \in Nat /\ SumTo(g, m) \in Nat BY SumType
  <2> QED BY <1>0, <1>2, <2>1, <2>2, <2>3, <2>4
<1> HIDE DEF T
<1>3. n \in T BY <1>1, <1>2, SetInduction
<1> QED BY <1>3 DEF T

\* The function h is, node by node, c times f.
Scaled(h, f, c, D) == h \in [D -> Nat] /\ \A d \in D : h[d] = c * f[d]

\* A common factor comes out of the sum.
LEMMA SumScale ==
    ASSUME NEW D, NEW f \in [D -> Nat], NEW c \in Nat, NEW h, Scaled(h, f, c, D), NEW n \in Nat
    PROVE  SumTo(h, n) = c * SumTo(f, n)
<1> DEFINE T == {m \in Nat : SumTo(h, m) = c * SumTo(f, m)}
<1>0. \A k : At(f, k) \in Nat /\ At(h, k) = c * At(f, k) BY DEF At, Scaled
<1>4. \A x, y \in Nat : c * (x + y) = c * x + c * y /\ c * x \in Nat OBVIOUS
<1>1. 0 \in T
  <2>1. PICK x \in Nat : x = At(f, 0) BY <1>0
  <2>2. SumTo(f, 0) = x /\ SumTo(h, 0) = 0 + c * x BY <1>0, <2>1, SumStep
  <2> QED BY <1>4, <2>2
<1>2. ASSUME NEW m \in Nat, m \in T PROVE m + 1 \in T
  <2>1. PICK x \in Nat : x = At(f, m + 1) BY <1>0
  <2>2. PICK y \in Nat : y = SumTo(f, m) BY SumType
  <2>3. SumTo(f, m + 1) = y + x BY <2>1, <2>2, SumStep
  <2>4. SumTo(h, m + 1) = c * y + c * x BY <1>0, <1>2, <2>1, <2>2, SumStep
  <2> QED BY <1>4, <2>3, <2>4
<1> HIDE DEF T
<1>3. n \in T BY <1>1, <1>2, SetInduction
<1> QED BY <1>3 DEF T

\* The same share for each node of a set.
Shared(h, A, c, D) == h \in [D -> Nat] /\ \A d \in D : h[d] = IF d \in A THEN c ELSE 0

\* The shares of a set add up to one share for each member.
LEMMA SumShare ==
    ASSUME NEW D, NEW A \in SUBSET D, NEW c \in Nat, NEW h, Shared(h, A, c, D), NEW n \in Nat
    PROVE  SumTo(h, n) = c * Cardinality(A \cap (0..n))
<1> DEFINE T == {m \in Nat : SumTo(h, m) = c * Cardinality(A \cap (0..m))}
<1>0. \A k : At(h, k) = IF k \in A THEN c ELSE 0 BY DEF At, Shared
<1>4. \A m \in Nat : IsFiniteSet(A \cap (0..m)) /\ Cardinality(A \cap (0..m)) \in Nat
  <2> TAKE m \in Nat
  <2>1. IsFiniteSet(0..m) BY FS_Interval
  <2>2. A \cap (0..m) \subseteq 0..m OBVIOUS
  <2> QED BY <2>1, <2>2, FS_Subset, FS_CardinalityType
<1>1. 0 \in T
  <2>1. CASE 0 \in A
    <3>1. A \cap (0..0) = {0} BY <2>1
    <3>2. Cardinality({0}) = 1 BY FS_Singleton
    <3>3. SumTo(h, 0) = 0 + c BY <1>0, <2>1, SumStep
    <3> QED BY <3>1, <3>2, <3>3
  <2>2. CASE 0 \notin A
    <3>1. A \cap (0..0) = {} BY <2>2
    <3>2. Cardinality({}) = 0 BY FS_EmptySet
    <3>3. SumTo(h, 0) = 0 BY <1>0, <2>2, SumStep
    <3>4. c * 0 = 0 OBVIOUS
    <3> QED BY <3>1, <3>2, <3>3, <3>4
  <2> QED BY <2>1, <2>2
<1>2. ASSUME NEW m \in Nat, m \in T PROVE m + 1 \in T
  <2>1. PICK x \in Nat : x = Cardinality(A \cap (0..m)) BY <1>4
  <2>2. CASE m + 1 \in A
    <3>1. A \cap (0..(m + 1)) = (A \cap (0..m)) \cup {m + 1} /\ m + 1 \notin A \cap (0..m) BY <2>2
    <3>2. Cardinality(A \cap (0..(m + 1))) = x + 1 BY <1>4, <2>1, <3>1, FS_AddElement
    <3>3. SumTo(h, m + 1) = c * x + c BY <1>0, <1>2, <2>1, <2>2, SumStep
    <3>4. c * (x + 1) = c * x + c OBVIOUS
    <3> QED BY <3>2, <3>3, <3>4
  <2>3. CASE m + 1 \notin A
    <3>1. A \cap (0..(m + 1)) = A \cap (0..m) BY <2>3
    <3>2. PICK y \in Nat : y = c * x OBVIOUS
    <3>3. SumTo(h, m) = y BY <1>2, <2>1, <3>2
    <3>4. SumTo(h, m + 1) = y BY <1>0, <2>3, <3>2, <3>3, SumStep
    <3>5. Cardinality(A \cap (0..(m + 1))) = x BY <2>1, <3>1
    <3> QED BY <3>2, <3>4, <3>5
  <2> QED BY <2>2, <2>3
<1> HIDE DEF T
<1>3. n \in T BY <1>1, <1>2, SetInduction
<1> QED BY <1>3 DEF T

\* Nothing adds up to nothing.
LEMMA SumOfNone == ASSUME NEW D, NEW n \in Nat PROVE SumTo([i \in D |-> 0], n) = 0
<1> DEFINE h == [i \in D |-> 0]
           T == {m \in Nat : SumTo(h, m) = 0}
<1>0. \A k : At(h, k) = 0 BY DEF At
<1> HIDE DEF h
<1>1. 0 \in T BY <1>0, SumStep
<1>2. \A m \in Nat : m \in T => m + 1 \in T BY <1>0, SumStep
<1> HIDE DEF T
<1>3. n \in T BY <1>1, <1>2, SetInduction
<1> QED BY <1>3 DEF T, h

\* The sums of the rows of a matrix, and the matrix with rows and columns exchanged.
RowSums(r, a, n, D)   == r \in [D -> Nat] /\ \A i \in D : r[i] = SumTo(a[i], n)
Transposed(b, a, D)   == b \in [D -> [D -> Nat]] /\ \A i, j \in D : b[i][j] = a[j][i]

\* A matrix may be added up by rows or by columns.
LEMMA SumSwap ==
    ASSUME NEW D, NEW a \in [D -> [D -> Nat]], NEW b, Transposed(b, a, D), NEW n \in Nat, NEW m \in Nat,
           NEW r, RowSums(r, a, n, D), NEW s, RowSums(s, b, m, D)
    PROVE  SumTo(s, n) = SumTo(r, m)
<1> DEFINE Cols(k) == [i \in D |-> SumTo(b[i], k)]
           Row(k)  == [i \in D |-> At(b[i], k)]
           T == {k \in Nat : SumTo(Cols(k), n) = SumTo(r, k)}
<1>1. \A i \in D : b[i] \in [D -> Nat] BY DEF Transposed
<1>2. \A k \in Nat : Cols(k) \in [D -> Nat] BY <1>1, SumType
<1>3. \A k : Row(k) \in [D -> Nat] BY <1>1 DEF At
<1>4. \A k : At(r, k) \in Nat BY DEF At, RowSums
<1>5. ASSUME NEW k PROVE SumTo(Row(k), n) = At(r, k)
  <2>1. CASE k \in D
    <3>1. \A i \in D : At(b[i], k) = a[k][i] BY <1>1, <2>1 DEF At, Transposed
    <3>2. Row(k) = a[k] BY <2>1, <3>1
    <3> QED BY <2>1, <3>2 DEF At, RowSums
  <2>2. CASE k \notin D
    <3>1. \A i \in D : At(b[i], k) = 0 BY <1>1, <2>2 DEF At
    <3>2. Row(k) = [i \in D |-> 0] BY <3>1
    <3> QED BY <2>2, <3>2, SumOfNone DEF At, RowSums
  <2> QED BY <2>1, <2>2
<1>6. 0 \in T
  <2>1. \A i \in D : SumTo(b[i], 0) = At(b[i], 0)
    <3> TAKE i \in D
    <3>1. PICK f \in [D -> Nat] : f = b[i] BY <1>1
    <3>2. At(f, 0) \in Nat BY <3>1 DEF At
    <3>3. SumTo(f, 0) = 0 + At(f, 0) BY SumStep
    <3> QED BY <3>1, <3>2, <3>3
  <2>2. Cols(0) = Row(0) BY <2>1
  <2>3. SumTo(r, 0) = At(r, 0) BY <1>4, SumStep
  <2> HIDE DEF Row, Cols
  <2> QED BY <1>5, <2>2, <2>3
<1>7. ASSUME NEW k \in Nat, k \in T PROVE k + 1 \in T
  <2>1. \A i \in D : SumTo(b[i], k + 1) = SumTo(b[i], k) + At(b[i], k + 1)
    BY SumStep
  <2>2. \A i \in D : Cols(k + 1)[i] = Cols(k)[i] + Row(k + 1)[i] BY <2>1
  <2>3. SumTo(r, k + 1) = SumTo(r, k) + At(r, k + 1) BY SumStep
  <2> HIDE DEF Row, Cols
  <2>4. PICK f \in [D -> Nat] : f = Cols(k) BY <1>2
  <2>5. PICK g \in [D -> Nat] : g = Row(k + 1) BY <1>3
  <2>6. PICK h \in [D -> Nat] : h = Cols(k + 1) BY <1>2
  <2>7. Added(h, f, g, D) BY <2>2, <2>4, <2>5, <2>6 DEF Added
  <2>8. SumTo(h, n) = SumTo(f, n) + SumTo(g, n) BY <2>4, <2>5, <2>7, SumAdd
  <2>9. k + 1 \in Nat OBVIOUS
  <2> QED BY <1>5, <1>7, <2>3, <2>4, <2>5, <2>6, <2>8, <2>9
<1> HIDE DEF T
<1>8. m \in T BY <1>6, <1>7, SetInduction
<1>9. s = Cols(m) BY DEF RowSums
<1> QED BY <1>8, <1>9 DEF T

\* The products of the numbers up to n, and the last of them.
Products(n, p) == p = [k \in 0..n |-> IF k = 0 THEN 1 ELSE k * p[k - 1]]
Product(n)     == (CHOOSE p : Products(n, p))[n]

\* The unit of a graph is the product of the numbers up to how many nodes it has.
LEMMA UnitIsProduct == \A adj : Unit(adj) = Product(Cardinality(DOMAIN adj))
BY DEF Unit, Product, Products

\* There are products up to every n.
LEMMA ProductsExist == ASSUME NEW n \in Nat PROVE \E p : Products(n, p)
<1> DEFINE T == {m \in Nat : \E p : Products(m, p)}
<1>1. 0 \in T
  <2> DEFINE p == [k \in 0..0 |-> 1]
  <2>1. Products(0, p) BY DEF Products
  <2> QED BY <2>1
<1>2. \A m \in Nat : m \in T => m + 1 \in T
  <2> SUFFICES ASSUME NEW m \in Nat, NEW p, Products(m, p) PROVE \E t : Products(m + 1, t)
    OBVIOUS
  <2> DEFINE t == [k \in 0..(m + 1) |-> IF k = m + 1 THEN k * p[m] ELSE p[k]]
  <2>1. \A k \in 0..(m + 1) : t[k] = IF k = 0 THEN 1 ELSE k * t[k - 1]
    <3> TAKE k \in 0..(m + 1)
    <3>1. CASE k = m + 1
      <4>1. k # 0 /\ k - 1 = m /\ k - 1 \in 0..(m + 1) /\ k - 1 # m + 1 BY <3>1
      <4> QED BY <3>1, <4>1
    <3>2. CASE k # m + 1
      <4>1. k \in 0..m BY <3>2
      <4>2. p[k] = IF k = 0 THEN 1 ELSE k * p[k - 1] BY <4>1 DEF Products
      <4>3. k # 0 => k - 1 \in 0..(m + 1) /\ k - 1 # m + 1 BY <4>1
      <4> QED BY <3>2, <4>2, <4>3
    <3> QED BY <3>1, <3>2
  <2>2. t = [k \in 0..(m + 1) |-> t[k]] OBVIOUS
  <2> HIDE DEF t
  <2>3. Products(m + 1, t) BY <2>1, <2>2 DEF Products
  <2> QED BY <2>3
<1> HIDE DEF T
<1>3. Nat \subseteq T BY <1>1, <1>2, SetInduction
<1> QED BY <1>3 DEF T

\* The products do not depend on where they stop.
LEMMA ProductsAgree ==
    ASSUME NEW n \in Nat, NEW s, Products(n, s), NEW t, Products(n + 1, t)
    PROVE  s[n] = t[n]
<1> DEFINE T == {k \in Nat : k \in 0..n => s[k] = t[k]}
<1>1. 0 \in T
  <2>1. 0 \in 0..n /\ 0 \in 0..(n + 1) OBVIOUS
  <2> QED BY <2>1 DEF Products
<1>2. \A k \in Nat : k \in T => k + 1 \in T
  <2> SUFFICES ASSUME NEW k \in Nat, k \in T, k + 1 \in 0..n PROVE s[k + 1] = t[k + 1]
    OBVIOUS
  <2>1. k \in 0..n /\ k + 1 \in 0..(n + 1) /\ k + 1 # 0 /\ (k + 1) - 1 = k OBVIOUS
  <2>2. s[k] = t[k] BY <2>1
  <2> QED BY <2>1, <2>2 DEF Products
<1> HIDE DEF T
<1>3. n \in T BY <1>1, <1>2, SetInduction
<1> QED BY <1>3 DEF T

\* Each product is the next number times the one before.
LEMMA ProductStep ==
    ASSUME NEW n \in Nat
    PROVE  Product(0) = 1 /\ Product(n + 1) = (n + 1) * Product(n)
<1>1. ASSUME NEW m \in Nat PROVE Products(m, CHOOSE p : Products(m, p))
  BY ProductsExist
<1>2. PICK z : z = (CHOOSE p : Products(0, p)) /\ Products(0, z) BY <1>1
<1>3. PICK s : s = (CHOOSE p : Products(n, p)) /\ Products(n, s) BY <1>1
<1>4. PICK t : t = (CHOOSE p : Products(n + 1, p)) /\ Products(n + 1, t) BY <1>1
<1>5. z[0] = 1 BY <1>2 DEF Products
<1>6. t[n + 1] = (n + 1) * t[n]
  <2>1. n + 1 \in 0..(n + 1) /\ n + 1 # 0 /\ (n + 1) - 1 = n OBVIOUS
  <2> QED BY <1>4, <2>1 DEF Products
<1>7. s[n] = t[n] BY <1>3, <1>4, ProductsAgree
<1> QED BY <1>2, <1>3, <1>4, <1>5, <1>6, <1>7 DEF Product

\* Every number up to n divides the product.
LEMMA ProductDivides ==
    ASSUME NEW n \in Nat
    PROVE  Product(n) \in Nat /\ \A d \in 1..n : \E e \in Nat : Product(n) = d * e
<1> DEFINE T == {m \in Nat : Product(m) \in Nat /\ \A d \in 1..m : \E e \in Nat : Product(m) = d * e}
<1>1. 0 \in T BY ProductStep
<1>2. ASSUME NEW m \in Nat, m \in T PROVE m + 1 \in T
  <2>1. PICK x \in Nat : x = Product(m) BY <1>2
  <2>2. Product(m + 1) = (m + 1) * x BY <2>1, ProductStep
  <2>3. (m + 1) * x \in Nat OBVIOUS
  <2>4. ASSUME NEW d \in 1..(m + 1) PROVE \E e \in Nat : (m + 1) * x = d * e
    <3>1. CASE d = m + 1 BY <3>1
    <3>2. CASE d # m + 1
      <4>0. d \in 1..m BY <3>2
      <4>1. PICK e \in Nat : x = d * e BY <1>2, <2>1, <4>0
      <4>2. (m + 1) * e \in Nat OBVIOUS
      <4>3. (m + 1) * (d * e) = d * ((m + 1) * e)
        <5>1. PICK k \in Nat : k = m + 1 OBVIOUS
        <5>2. k * (d * e) = d * (k * e) OBVIOUS
        <5> QED BY <5>1, <5>2
      <4> QED BY <4>1, <4>2, <4>3
    <3> QED BY <3>1, <3>2
  <2>5. \A d \in 1..(m + 1) : \E e \in Nat : Product(m + 1) = d * e BY <2>2, <2>4
  <2> QED BY <2>2, <2>3, <2>5
<1> HIDE DEF T
<1>3. n \in T BY <1>1, <1>2, SetInduction
<1> QED BY <1>3 DEF T

\* What is divided by one of its factors is the other.
LEMMA ExactDivision == ASSUME NEW d \in Nat, d # 0, NEW y \in Nat PROVE (d * y) \div d = y
<1> DEFINE k == (d * y) \div d
<1>1. d * y \in Nat OBVIOUS
<1>2. k \in Int /\ d * k <= d * y /\ d * y < d * k + d
  <2>1. PICK x \in Nat : x = d * y BY <1>1
  <2>2. x \div d \in Int /\ d * (x \div d) <= x /\ x < d * (x \div d) + d OBVIOUS
  <2> QED BY <2>1, <2>2
<1> HIDE DEF k
<1>3. ~(k < y)
  <2> SUFFICES ASSUME k + 1 <= y PROVE FALSE BY <1>2
  <2>1. d * (k + 1) <= d * y BY <1>2
  <2>2. d * (k + 1) = d * k + d BY <1>2
  <2> QED BY <1>2, <2>1, <2>2
<1>4. ~(y < k)
  <2> SUFFICES ASSUME y + 1 <= k PROVE FALSE BY <1>2
  <2>1. d * (y + 1) <= d * k BY <1>2
  <2>2. d * (y + 1) = d * y + d OBVIOUS
  <2> QED BY <1>1, <1>2, <2>1, <2>2
<1> QED BY <1>2, <1>3, <1>4 DEF k

\* The nodes are numbers of which none exceeds how many there are.
Numbered(adj) ==
    /\ IsFiniteSet(DOMAIN adj) /\ DOMAIN adj # {} /\ DOMAIN adj \subseteq 0..Cardinality(DOMAIN adj)
    /\ \A n \in DOMAIN adj : adj[n] \subseteq DOMAIN adj

\* The unit is divided by every number up to how many nodes there are, every degree
\* is such a number, and it is zero for the nodes without neighbours.
LEMMA UnitDivides ==
    ASSUME NEW adj, Numbered(adj)
    PROVE  /\ Cardinality(DOMAIN adj) \in Nat /\ Cardinality(DOMAIN adj) # 0
           /\ Unit(adj) \in Nat
           /\ \A d \in 1..Cardinality(DOMAIN adj) : \E e \in Nat : Unit(adj) = d * e
           /\ \A n \in DOMAIN adj : /\ Degree(adj, n) \in 0..Cardinality(DOMAIN adj)
                                    /\ Degree(adj, n) = 0 <=> adj[n] = {}
<1>1. PICK N \in Nat : N = Cardinality(DOMAIN adj)
  BY FS_CardinalityType DEF Numbered
<1>2. N # 0 BY <1>1, FS_EmptySet DEF Numbered
<1>3. Unit(adj) = Product(N) BY <1>1, UnitIsProduct
<1>4. ASSUME NEW n \in DOMAIN adj PROVE Degree(adj, n) \in 0..N /\ (Degree(adj, n) = 0 <=> adj[n] = {})
  <2>1. IsFiniteSet(adj[n]) /\ Cardinality(adj[n]) <= N
    BY <1>1, FS_Subset DEF Numbered
  <2>2. Cardinality(adj[n]) \in Nat /\ (Cardinality(adj[n]) = 0 <=> adj[n] = {})
    BY <2>1, FS_CardinalityType, FS_EmptySet
  <2> QED BY <2>1, <2>2 DEF Degree
<1> QED BY <1>1, <1>2, <1>3, <1>4, ProductDivides

\* A share of the unit is exact, and as many shares as it has make it whole.
LEMMA SharesAreWhole ==
    ASSUME NEW u \in Nat, NEW d \in Nat, d # 0, NEW e \in Nat, u = d * e, NEW x \in Nat
    PROVE  (17 * u * x) \div d \in Nat /\ ((17 * u * x) \div d) * d = 17 * u * x
<1>1. PICK y \in Nat : y = (17 * e) * x OBVIOUS
<1>2. (17 * u) * x = d * y
  <2>1. (17 * (d * e)) * x = d * ((17 * e) * x) OBVIOUS
  <2> QED BY <1>1, <2>1
<1>3. (d * y) \div d = y BY ExactDivision
<1>4. d * y = y * d OBVIOUS
<1> QED BY <1>2, <1>3, <1>4

\* What a node with neighbours hands on is all of its damped rank.
LEMMA HandedOn ==
    ASSUME NEW adj, Numbered(adj), NEW rank \in [DOMAIN adj -> Nat], NEW m \in DOMAIN adj
    PROVE  LET row == [n \in DOMAIN adj |-> Contribution(adj, rank, m, n)]
           IN  /\ row \in [DOMAIN adj -> Nat]
               /\ SumTo(row, Cardinality(DOMAIN adj)) = IF adj[m] = {} THEN 0 ELSE 17 * Unit(adj) * rank[m]
<1> DEFINE D == DOMAIN adj
           row == [n \in D |-> Contribution(adj, rank, m, n)]
<1>1. PICK N \in Nat : N = Cardinality(D) /\ N # 0 BY UnitDivides
<1>2. CASE adj[m] = {}
  <2>1. row = [n \in D |-> 0] BY <1>2 DEF Contribution
  <2> QED BY <1>1, <1>2, <2>1, SumOfNone
<1>3. CASE adj[m] # {}
  <2>1. PICK d \in Nat : d = Degree(adj, m) BY UnitDivides
  <2>2. d # 0 /\ d \in 1..N BY <1>1, <1>3, <2>1, UnitDivides
  <2>3. PICK u \in Nat : u = Unit(adj) BY UnitDivides
  <2>4. PICK e \in Nat : u = d * e BY <1>1, <2>2, <2>3, UnitDivides
  <2>5. PICK x \in Nat : x = rank[m] OBVIOUS
  <2>6. PICK c \in Nat : c = (17 * u * x) \div d /\ c * d = 17 * u * x
    BY <2>2, <2>4, SharesAreWhole
  <2>7. PICK A \in SUBSET D : A = adj[m] BY DEF Numbered
  <2>8. \A n \in D : row[n] = IF n \in A THEN c ELSE 0
    BY <2>1, <2>3, <2>5, <2>6, <2>7 DEF Contribution
  <2>11. row \in [D -> Nat] BY <2>6, <2>8
  <2> HIDE DEF row
  <2>9. Shared(row, A, c, D) BY <2>8, <2>11 DEF Shared
  <2>10. A \cap (0..N) = A /\ Cardinality(A) = d
    BY <1>1, <2>1, <2>7 DEF Numbered, Degree
  <2>13. SumTo(row, N) = c * Cardinality(A \cap (0..N))
    <3>1. A \in SUBSET D /\ c \in Nat /\ N \in Nat OBVIOUS
    <3> HIDE DEF D
    <3> QED BY <2>9, <3>1, SumShare
  <2>12. SumTo(row, N) = 17 * u * x BY <2>6, <2>10, <2>13
  <2> QED BY <1>1, <1>3, <2>3, <2>5, <2>11, <2>12 DEF row
<1> QED BY <1>2, <1>3

\* One power iteration of any graph multiplies the sum of the ranks by the scale, be
\* there nodes without neighbours or not: nothing is lost and nothing is gained.
THEOREM IterationKeepsRanks ==
    ASSUME NEW adj, Numbered(adj), NEW rank \in [DOMAIN adj -> Nat], NEW reset \in [DOMAIN adj -> Nat],
           RankSum(reset) = RankSum(rank)
    PROVE  /\ Iterate(adj, rank, reset) \in [DOMAIN adj -> Nat]
           /\ RankSum(Iterate(adj, rank, reset)) = Step(adj) * RankSum(rank)
<1> DEFINE D == DOMAIN adj
<1>1. PICK N \in Nat : N = Cardinality(D) /\ N # 0 BY UnitDivides
<1>2. PICK u \in Nat : u = Unit(adj) BY UnitDivides
<1>3. D \subseteq 0..N /\ IsFiniteSet(D) BY <1>1 DEF Numbered
<1>4. PICK M \in Nat : M = SumTo(rank, N) /\ M = RankSum(rank) /\ M = RankSum(reset) /\ M = SumTo(reset, N)
  BY <1>1, SumType, RankSumIsLast
<1> DEFINE a       == [m \in D |-> [n \in D |-> Contribution(adj, rank, m, n)]]
           got     == [n \in D |-> Received(adj, rank, n)]
           handed  == [m \in D |-> IF adj[m] = {} THEN 0 ELSE 17 * u * rank[m]]
           stuck   == [m \in D |-> IF adj[m] = {} THEN rank[m] ELSE 0]
<1>5. \A m \in D : a[m] \in [D -> Nat] /\ SumTo(a[m], N) = handed[m]
  <2> TAKE m \in D
  <2>1. PICK row : row = [n \in D |-> Contribution(adj, rank, m, n)] OBVIOUS
  <2>2. row \in [D -> Nat] /\ SumTo(row, N) = IF adj[m] = {} THEN 0 ELSE 17 * u * rank[m]
    BY <1>1, <1>2, <2>1, HandedOn
  <2> QED BY <2>1, <2>2
<1>21. \A m \in D : handed[m] \in Nat
  <2> TAKE m \in D
  <2>1. 17 * u * rank[m] \in Nat BY <1>2
  <2> QED BY <2>1
<1>6. got \in [D -> Nat] /\ SumTo(got, N) = SumTo(handed, N)
  <2> DEFINE b == [n \in D |-> [m \in D |-> a[m][n]]]
  <2>1. \A n \in D : b[n] = [m \in D |-> Contribution(adj, rank, m, n)] OBVIOUS
  <2>2. \A n \in D : got[n] = SumTo(b[n], N) BY <1>1, <2>1, RankSumIsLast DEF Received
  <2>3. a \in [D -> [D -> Nat]] BY <1>5
  <2>4. b \in [D -> [D -> Nat]] BY <2>3
  <2>5. Transposed(b, a, D) BY <2>4 DEF Transposed
  <2>6. \A n \in D : got[n] \in Nat
    <3> TAKE n \in D
    <3>1. PICK f \in [D -> Nat] : f = b[n] BY <2>4
    <3>2. SumTo(f, N) \in Nat BY <1>1, <3>1, SumType
    <3> HIDE DEF got, b
    <3> QED BY <2>2, <3>1, <3>2
  <2>7. got = [n \in D |-> got[n]] OBVIOUS
  <2> HIDE DEF a, b
  <2>8. RowSums(handed, a, N, D) BY <1>5, <1>21 DEF RowSums
  <2> HIDE DEF got, handed
  <2>9. got \in [D -> Nat] BY <2>6, <2>7
  <2>10. RowSums(got, b, N, D) BY <2>2, <2>9 DEF RowSums
  <2> QED BY <1>1, <2>3, <2>5, <2>8, <2>9, <2>10, SumSwap
<1>7. stuck \in [D -> Nat] /\ Dangling(adj, rank) = SumTo(stuck, N)
  BY <1>1, RankSumIsLast DEF Dangling
<1>8. PICK y \in Nat : y = Dangling(adj, rank)
  BY <1>7, SumType
<1>9. PICK c \in Nat : c = (17 * u * y) \div N /\ c * N = 17 * u * y
  <2>1. N \in 1..N BY <1>1
  <2>2. PICK e \in Nat : u = N * e BY <1>1, <1>2, <2>1, UnitDivides
  <2>3. (17 * u * y) \div N \in Nat /\ ((17 * u * y) \div N) * N = 17 * u * y
    BY <1>1, <1>2, <1>8, <2>2, SharesAreWhole
  <2> QED BY <2>3
<1>10. PICK v \in Nat : v = 17 * u OBVIOUS
<1>11. SumTo(handed, N) + v * y = v * M
  <2> DEFINE kept == [m \in D |-> v * stuck[m]]
             damped == [m \in D |-> v * rank[m]]
  <2>1. \A m \in D : rank[m] \in Nat /\ v * rank[m] \in Nat /\ v * 0 = 0 /\ v * rank[m] = 17 * u * rank[m]
    BY <1>10
  <2>2. handed \in [D -> Nat] /\ kept \in [D -> Nat] /\ damped \in [D -> Nat] BY <2>1
  <2>3. Added(damped, handed, kept, D) BY <2>1, <2>2 DEF Added
  <2>4. Scaled(damped, rank, v, D) BY <2>1, <2>2 DEF Scaled
  <2>5. Scaled(kept, stuck, v, D) BY <2>2 DEF Scaled
  <2> HIDE DEF handed, stuck, kept, damped
  <2>6. SumTo(damped, N) = SumTo(handed, N) + SumTo(kept, N) BY <1>1, <2>2, <2>3, SumAdd
  <2>7. SumTo(damped, N) = v * M BY <1>1, <1>4, <1>10, <2>4, SumScale
  <2>8. SumTo(kept, N) = v * y BY <1>1, <1>7, <1>8, <1>10, <2>5, SumScale
  <2> QED BY <2>6, <2>7, <2>8
<1>12. PICK w \in Nat : w = 3 * u OBVIOUS
<1> DEFINE back == [n \in D |-> w * reset[n]]
           even == [n \in D |-> c]
           part == [n \in D |-> back[n] + got[n]]
<1>13. back \in [D -> Nat] /\ SumTo(back, N) = w * M
  <2>1. \A n \in D : w * reset[n] \in Nat BY <1>12
  <2>2. Scaled(back, reset, w, D) BY <2>1 DEF Scaled
  <2> HIDE DEF back
  <2>3. SumTo(back, N) = w * SumTo(reset, N) BY <1>1, <1>12, <2>2, SumScale
  <2> QED BY <1>4, <2>2, <2>3 DEF Scaled
<1>14. even \in [D -> Nat] /\ SumTo(even, N) = c * N
  <2>1. even \in [D -> Nat] /\ Shared(even, D, c, D) BY <1>9 DEF Shared
  <2>2. D \cap (0..N) = D BY <1>3
  <2> HIDE DEF even
  <2>3. SumTo(even, N) = c * Cardinality(D \cap (0..N)) BY <1>1, <1>9, <2>1, SumShare
  <2> QED BY <1>1, <2>1, <2>2, <2>3
<1>15. Iterate(adj, rank, reset) = [n \in D |-> part[n] + even[n]]
  BY <1>1, <1>2, <1>8, <1>9, <1>12 DEF Iterate
<1> HIDE DEF back, even, got, handed, stuck, a
<1>16. part \in [D -> Nat] /\ SumTo(part, N) = w * M + SumTo(handed, N)
  <2>1. part \in [D -> Nat] /\ Added(part, back, got, D) BY <1>6, <1>13 DEF Added
  <2> HIDE DEF part
  <2> QED BY <1>1, <1>6, <1>13, <2>1, SumAdd
<1> HIDE DEF part
<1>17. PICK new \in [D -> Nat] : new = Iterate(adj, rank, reset) BY <1>14, <1>15, <1>16
<1>18. SumTo(new, N) = (w * M + SumTo(handed, N)) + c * N
  <2>1. Added(new, part, even, D) BY <1>15, <1>17 DEF Added
  <2> QED BY <1>1, <1>14, <1>16, <2>1, SumAdd
<1>19. (w * M + SumTo(handed, N)) + c * N = Step(adj) * M
  <2>1. PICK h \in Nat : h = SumTo(handed, N)
    <3>1. handed \in [D -> Nat] BY <1>21 DEF handed
    <3> QED BY <1>1, <3>1, SumType
  <2>2. c * N = v * y BY <1>9, <1>10
  <2>3. h + v * y = v * M BY <1>11, <2>1
  <2>4. (w * M + h) + v * y = w * M + v * M
    <3>1. w * M \in Nat /\ v * y \in Nat OBVIOUS
    <3> QED BY <2>3, <3>1
  <2>5. w * M + v * M = (20 * u) * M BY <1>10, <1>12
  <2> QED BY <1>2, <2>1, <2>2, <2>4, <2>5 DEF Step
<1>20. RankSum(new) = SumTo(new, N) BY <1>1, <1>17, RankSumIsLast
<1> QED BY <1>1, <1>4, <1>17, <1>18, <1>19, <1>20

\* Two iterations multiply the sum twice.
LEMMA RankedKeepsRanks ==
    ASSUME NEW adj, Numbered(adj), NEW rank0 \in [DOMAIN adj -> Nat], RankSum(rank0) = Unit(adj)
    PROVE  RankSum(Ranked(adj, rank0, 2)) = Unit(adj) * Step(adj) * Step(adj)
<1> DEFINE D == DOMAIN adj
           body(run, k) ==
               IF k = 0 THEN <<rank0, rank0>>
               ELSE <<Iterate(adj, run[k - 1][1], run[k - 1][2]), [n \in D |-> Step(adj) * run[k - 1][2][n]]>>
<1>1. PICK run : run = (CHOOSE f : f = [k \in 0..2 |-> body(f, k)]) OBVIOUS
<1>2. Ranked(adj, rank0, 2) = run[2][1] BY <1>1 DEF Ranked
<1>3. run = [k \in 0..2 |-> body(run, k)]
  <2> DEFINE one == <<Iterate(adj, rank0, rank0), [n \in D |-> Step(adj) * rank0[n]]>>
             two == <<Iterate(adj, one[1], one[2]), [n \in D |-> Step(adj) * one[2][n]]>>
             f   == [k \in 0..2 |-> IF k = 0 THEN <<rank0, rank0>> ELSE IF k = 1 THEN one ELSE two]
  <2>1. f[0] = <<rank0, rank0>> /\ f[1] = one /\ f[2] = two
    <3> HIDE DEF one, two
    <3> QED OBVIOUS
  <2> HIDE DEF f
  <2>2. body(f, 0) = f[0] /\ body(f, 1) = f[1] /\ body(f, 2) = f[2]
    BY <2>1
  <2>3. f = [k \in 0..2 |-> f[k]] BY DEF f
  <2>4. \A k \in 0..2 : k = 0 \/ k = 1 \/ k = 2 OBVIOUS
  <2> HIDE DEF body
  <2>5. f = [k \in 0..2 |-> body(f, k)] BY <2>2, <2>3, <2>4
  <2> QED BY <1>1, <2>5, Zenon
<1>4. run[0] = <<rank0, rank0>> BY <1>3
<1>5. run[1] = <<Iterate(adj, rank0, rank0), [n \in D |-> Step(adj) * rank0[n]]>>
  <2> HIDE DEF body
  <2>1. run[1] = body(run, 1) BY <1>3
  <2> QED BY <1>4, <2>1 DEF body
<1>6. run[2][1] = Iterate(adj, run[1][1], run[1][2])
  <2> HIDE DEF body
  <2>1. run[2] = body(run, 2) BY <1>3
  <2> QED BY <2>1 DEF body
<1>7. PICK N \in Nat : N = Cardinality(D) BY UnitDivides
<1>8. PICK u \in Nat : u = Unit(adj) BY UnitDivides
<1>9. PICK t \in Nat : t = Step(adj) BY <1>8 DEF Step
<1>10. PICK rank \in [D -> Nat] : rank = run[1][1] /\ RankSum(rank) = t * u
  <2>1. Iterate(adj, rank0, rank0) \in [D -> Nat] /\ RankSum(Iterate(adj, rank0, rank0)) = Step(adj) * RankSum(rank0)
    BY IterationKeepsRanks
  <2> QED BY <1>5, <1>8, <1>9, <2>1
<1>11. PICK reset \in [D -> Nat] : reset = run[1][2] /\ RankSum(reset) = t * u
  <2>1. PICK r : r = [n \in D |-> t * rank0[n]] OBVIOUS
  <2>2. r = run[1][2] BY <1>5, <1>9, <2>1
  <2>3. Scaled(r, rank0, t, D)
    <3>1. \A n \in D : t * rank0[n] \in Nat BY <1>9
    <3> QED BY <2>1, <3>1 DEF Scaled
  <2>4. SumTo(r, N) = t * SumTo(rank0, N) BY <1>7, <1>9, <2>3, SumScale
  <2>5. r \in [D -> Nat] BY <2>3 DEF Scaled
  <2>6. RankSum(r) = SumTo(r, N) /\ RankSum(rank0) = SumTo(rank0, N) BY <1>7, <2>5, RankSumIsLast
  <2> QED BY <1>8, <2>2, <2>4, <2>5, <2>6
<1>12. RankSum(Iterate(adj, rank, reset)) = t * (t * u)
  BY <1>9, <1>10, <1>11, IterationKeepsRanks
<1>13. t * (t * u) = (u * t) * t BY <1>8, <1>9
<1> QED BY <1>2, <1>6, <1>8, <1>9, <1>10, <1>11, <1>12, <1>13

\* Both kinds of rank start as shares of one.
LEMMA RanksStartWhole ==
    ASSUME NEW adj, Numbered(adj)
    PROVE  /\ RankSum(global_pagerank(adj, 2)) = Unit(adj) * Step(adj) * Step(adj)
           /\ \A n \in DOMAIN adj : RankSum(personalised_pagerank(adj, n, 2)) = Unit(adj) * Step(adj) * Step(adj)
<1> DEFINE D == DOMAIN adj
<1>1. PICK N \in Nat : N = Cardinality(D) /\ N # 0 BY UnitDivides
<1>2. PICK u \in Nat : u = Unit(adj) BY UnitDivides
<1>3. D \cap (0..N) = D BY <1>1 DEF Numbered
<1>4. RankSum(global_pagerank(adj, 2)) = Unit(adj) * Step(adj) * Step(adj)
  <2>1. N \in 1..N BY <1>1
  <2>2. PICK e \in Nat : u = N * e BY <1>1, <1>2, <2>1, UnitDivides
  <2>3. u \div N = e BY <1>1, <2>2, ExactDivision
  <2>4. PICK f : f = [n \in D |-> e] OBVIOUS
  <2>5. f \in [D -> Nat] /\ Shared(f, D, e, D) BY <2>2, <2>4 DEF Shared
  <2>6. SumTo(f, N) = e * N BY <1>1, <1>3, <2>2, <2>5, SumShare
  <2>7. RankSum(f) = u BY <1>1, <2>2, <2>5, <2>6, RankSumIsLast
  <2>8. RankSum(Ranked(adj, f, 2)) = Unit(adj) * Step(adj) * Step(adj) BY <1>2, <2>5, <2>7, RankedKeepsRanks
  <2>9. global_pagerank(adj, 2) = Ranked(adj, f, 2) BY <1>1, <1>2, <2>3, <2>4 DEF global_pagerank
  <2> QED BY <2>8, <2>9
<1>5. ASSUME NEW n \in D PROVE RankSum(personalised_pagerank(adj, n, 2)) = Unit(adj) * Step(adj) * Step(adj)
  <2>1. PICK f : f = [m \in D |-> IF m = n THEN u ELSE 0] OBVIOUS
  <2>2. PICK A \in SUBSET D : A = {n} OBVIOUS
  <2>3. f \in [D -> Nat] /\ Shared(f, A, u, D) BY <1>2, <2>1, <2>2 DEF Shared
  <2>4. A \cap (0..N) = A /\ Cardinality(A) = 1
    <3>1. Cardinality({n}) = 1 BY FS_Singleton
    <3> QED BY <1>3, <2>2, <3>1
  <2>5. SumTo(f, N) = u * 1 BY <1>1, <1>2, <2>2, <2>3, <2>4, SumShare
  <2>6. RankSum(f) = u BY <1>1, <1>2, <2>3, <2>5, RankSumIsLast
  <2>7. RankSum(Ranked(adj, f, 2)) = Unit(adj) * Step(adj) * Step(adj) BY <1>2, <2>3, <2>6, RankedKeepsRanks
  <2>8. personalised_pagerank(adj, n, 2) = Ranked(adj, f, 2) BY <1>2, <2>1 DEF personalised_pagerank
  <2> QED BY <2>7, <2>8
<1> QED BY <1>4, <1>5

\* The cards of a graph are numbered, with the synthetic commander too.
LEMMA GraphsAreNumbered ==
    ASSUME NEW S, NEW cards \in Seq(S), cards # <<>>
    PROVE  LET adj == build_causal_graph(cards)
           IN  Numbered(adj) /\ \A cmdrs \in SUBSET DOMAIN adj : Numbered(merged_adjacency(adj, cmdrs))
<1>1. PICK adj : adj = build_causal_graph(cards) OBVIOUS
<1>2. Graph(adj) BY <1>1, BuiltGraph
<1>3. PICK N \in Nat : N = Len(cards) /\ N # 0 OBVIOUS
<1>4. DOMAIN adj = 1..N BY <1>1, <1>3 DEF build_causal_graph
<1>5. Cardinality(1..N) = N /\ IsFiniteSet(1..N)
  <2>1. 1 \in Int /\ N \in Int /\ ~(1 > N) /\ N - 1 + 1 = N BY <1>3
  <2>2. IsFiniteSet(1..N) /\ Cardinality(1..N) = IF 1 > N THEN 0 ELSE N - 1 + 1
    BY <2>1, FS_Interval
  <2> QED BY <2>1, <2>2
<1>6. Numbered(adj)
  BY <1>2, <1>3, <1>4, <1>5 DEF Numbered, Graph
<1>7. ASSUME NEW cmdrs \in SUBSET DOMAIN adj PROVE Numbered(merged_adjacency(adj, cmdrs))
  <2>1. PICK all : all = merged_adjacency(adj, cmdrs) OBVIOUS
  <2>2. DOMAIN all = {0} \cup (1..N) BY <1>4, <2>1 DEF merged_adjacency
  <2>3. IsFiniteSet(DOMAIN all) /\ Cardinality(DOMAIN all) = N + 1
    <3>1. 0 \notin 1..N OBVIOUS
    <3>2. Cardinality((1..N) \cup {0}) = N + 1 /\ IsFiniteSet((1..N) \cup {0}) BY <1>5, <3>1, FS_AddElement
    <3>3. DOMAIN all = (1..N) \cup {0} BY <2>2
    <3> QED BY <3>2, <3>3
  <2>4. DOMAIN all \subseteq 0..(N + 1) BY <1>3, <2>2
  <2>5. ASSUME NEW n \in DOMAIN all PROVE all[n] \subseteq DOMAIN all
    <3>1. CASE n = 0
      <4>1. all[0] = (UNION {adj[c] : c \in cmdrs}) \ cmdrs BY <2>1 DEF merged_adjacency
      <4>2. UNION {adj[c] : c \in cmdrs} \subseteq 1..N BY <1>2, <1>4 DEF Graph
      <4> QED BY <2>2, <3>1, <4>1, <4>2
    <3>2. CASE n # 0
      <4>1. n \in DOMAIN adj BY <1>4, <2>2, <2>5, <3>2
      <4>2. all[n] \subseteq adj[n] \cup {0} BY <2>1, <3>2, <4>1 DEF merged_adjacency, When
      <4>3. adj[n] \subseteq 1..N BY <1>2, <1>4, <4>1 DEF Graph
      <4> QED BY <2>2, <4>2, <4>3
    <3> QED BY <3>1, <3>2
  <2> QED BY <2>1, <2>2, <2>3, <2>4, <2>5 DEF Numbered
<1> QED BY <1>1, <1>6, <1>7

\* A graph question has cards, in the order in which they have come.
GraphInv == q.kind = "graph" => q \in [kind : {"graph"}, cards : Seq(GraphCards)]

\* The cards of the question are typed from the first one on.
LEMMA GraphQuestions == RuleSpec => []GraphInv
<1>1. RuleInit => GraphInv
  <2> SUFFICES ASSUME RuleInit, q.kind = "graph"
               PROVE  q \in [kind : {"graph"}, cards : Seq(GraphCards)]
    BY DEF GraphInv
  <2>1. q = [kind |-> "graph", cards |-> <<>>]
    <3>1. ASSUME NEW family \in Families, NEW ctx \in Contexts, NEW card \in family.cards,
                 q = [kind |-> "rules", pool |-> family.ports, cmdr |-> Commander(family), card |-> card, ctx |-> ctx]
          PROVE  FALSE
      <4>1. q.kind = "rules" BY <3>1
      <4> QED BY <4>1
    <3> QED BY <3>1 DEF RuleInit
  <2>2. <<>> \in Seq(GraphCards) OBVIOUS
  <2> QED BY <2>1, <2>2
<1>2. ASSUME GraphInv, [RuleNext]_vars PROVE GraphInv'
  <2>1. CASE AddPort
    BY <2>1 DEF AddPort, GraphInv
  <2>2. CASE AddCard
    <3>1. PICK card \in GraphCards : q' = [q EXCEPT !.cards = Append(@, card)]
      BY <2>2 DEF AddCard
    <3>2. q \in [kind : {"graph"}, cards : Seq(GraphCards)] BY <1>2, <2>2 DEF AddCard, GraphInv
    <3>3. Append(q.cards, card) \in Seq(GraphCards) BY <3>1, <3>2
    <3> QED BY <3>1, <3>2, <3>3 DEF GraphInv
  <2>3. CASE UNCHANGED vars
    BY <1>2, <2>3 DEF vars, GraphInv
  <2> QED BY <1>2, <2>1, <2>2, <2>3 DEF RuleNext
<1> QED BY <1>1, <1>2, PTL DEF RuleSpec

\* What GraphMetricsAgree says of one commander or pair, given the graph and its ranks.
Agreed(adj, pr, a, b) ==
    LET cmdrs == {a, b}
        all   == merged_adjacency(adj, cmdrs)
        live  == compute_commander_metrics(adj, cmdrs, 2)
    IN  /\ EdgesGoBothWays(all) /\ NeighboursWithinTwoHops(all[0], live)
        /\ RankSum(personalised_pagerank(all, 0, 2)) = Unit(all) * Step(all) * Step(all)
        /\ \A n \in DOMAIN live : live[n].hub = graph_cache(adj, pr)[n].hub
        /\ \A cap \in DOMAIN adj : TableKeepsCentral(adj, pr, cap, cmdrs)

\* The cache and the live metrics agree on every commander and pair, for every list of
\* cards: power iteration loses no rank, to a card without neighbours or with the
\* synthetic commander, the hub scores are the same, and what the capped table leaves
\* out is outranked or equalled (graph_metrics.py, graph_cache.py).
THEOREM MetricsAgree == RuleSpec => []GraphMetricsAgree
<1>1. GraphInv => GraphMetricsAgree
  <2> SUFFICES ASSUME GraphInv, q.kind = "graph", q.cards # <<>> PROVE GraphMetricsAgree
    BY DEF GraphMetricsAgree
  <2>1. PICK cards \in Seq(GraphCards) : cards = q.cards /\ cards # <<>>
    BY DEF GraphInv
  <2>2. PICK adj : adj = build_causal_graph(cards) OBVIOUS
  <2>3. Graph(adj) /\ Numbered(adj) BY <2>1, <2>2, BuiltGraph, GraphsAreNumbered
  <2>4. PICK pr : pr = global_pagerank(adj, 2) OBVIOUS
  <2>5. RankSum(pr) = Unit(adj) * Step(adj) * Step(adj) BY <2>3, <2>4, RanksStartWhole
  <2>6. ASSUME NEW a \in DOMAIN adj, NEW b \in DOMAIN adj
        PROVE  Agreed(adj, pr, a, b)
    <3>1. PICK cmdrs \in SUBSET DOMAIN adj : cmdrs = {a, b} BY <2>6
    <3>2. PICK all : all = merged_adjacency(adj, cmdrs) OBVIOUS
    <3>3. PICK live : live = compute_commander_metrics(adj, cmdrs, 2) OBVIOUS
    <3>4. EdgesGoBothWays(all) BY <2>3, <3>1, <3>2, MergedEdgesGoBothWays
    <3>5. NeighboursWithinTwoHops(all[0], live) BY <2>3, <3>1, <3>2, <3>3, DirectNeighboursAreWhole
    <3>6. RankSum(personalised_pagerank(all, 0, 2)) = Unit(all) * Step(all) * Step(all)
      <4>1. Numbered(all) BY <2>1, <2>2, <3>1, <3>2, GraphsAreNumbered
      <4>2. 0 \in DOMAIN all BY <3>2 DEF merged_adjacency
      <4> QED BY <4>1, <4>2, RanksStartWhole
    <3>7. ASSUME NEW n \in DOMAIN live PROVE live[n].hub = graph_cache(adj, pr)[n].hub
      <4>1. n \in DOMAIN adj /\ n \in DOMAIN adj \ cmdrs BY <3>3, <3>7 DEF compute_commander_metrics
      <4>2. live[n].hub = card_hub_scores(adj)[n] BY <3>3, <4>1 DEF compute_commander_metrics
      <4>3. graph_cache(adj, pr)[n].hub = card_hub_scores(adj)[n] BY <4>1 DEF graph_cache
      <4> QED BY <4>2, <4>3
    <3>8. ASSUME NEW cap \in DOMAIN adj PROVE TableKeepsCentral(adj, pr, cap, cmdrs)
      <4>1. cap \in Nat BY <2>1, <2>2, <3>8 DEF build_causal_graph
      <4> QED BY <2>3, <3>1, <4>1, TableDropsOnlyTheOutranked
    <3> QED BY <3>1, <3>2, <3>3, <3>4, <3>5, <3>6, <3>7, <3>8 DEF Agreed
  <2>7. GraphMetricsAgree <=>
          LET g == build_causal_graph(cards)
              r == global_pagerank(g, 2)
          IN  /\ RankSum(r) = Unit(g) * Step(g) * Step(g)
              /\ \A a, b \in DOMAIN g : Agreed(g, r, a, b)
    BY <2>1 DEF GraphMetricsAgree, Agreed
  <2> QED BY <2>2, <2>4, <2>5, <2>6, <2>7
<1> QED BY <1>1, GraphQuestions, PTL

-----------------------------------------------------------------------------
(* The narrowed scans                                                      *)

\* A filter of one alternative comes out of Fused as it is.
LEMMA FusedOfOne == ASSUME NEW alt \in Seq(STRING) PROVE Fused(<<alt>>) = alt
<1> DEFINE one == <<alt>>
<1> DEFINE body(up, n) ==
        IF n = 0 THEN <<>>
        ELSE IF up[n - 1] = <<>> \/ one[n] = <<>> THEN up[n - 1] \o one[n]
        ELSE Front(up[n - 1]) \o <<Last(up[n - 1]) \o "," \o one[n][1]>> \o Tail(one[n])
<1> DEFINE f == [n \in 0..1 |-> IF n = 0 THEN <<>> ELSE alt]
<1>1. Len(one) = 1 /\ one[1] = alt
  OBVIOUS
<1>2. \A up : up = [n \in 0..1 |-> body(up, n)] => up[1] = alt
  <2> TAKE up
  <2> HAVE up = [n \in 0..1 |-> body(up, n)]
  <2>1. up[0] = <<>> BY DEF body
  <2>2. up[1] = up[0] \o one[1] BY <2>1
  <2> QED BY <1>1, <2>1, <2>2
<1>3. f = [n \in 0..1 |-> body(f, n)]
  <2>1. f[0] = <<>> /\ f[1] = alt OBVIOUS
  <2>2. body(f, 0) = <<>> OBVIOUS
  <2>3. body(f, 1) = f[0] \o one[1] BY <2>1
  <2>4. body(f, 1) = alt BY <1>1, <2>1, <2>3
  <2> HIDE DEF body
  <2> QED BY <2>2, <2>4
<1>4. Fused(one) = (CHOOSE up : up = [n \in 0..1 |-> body(up, n)])[1]
  BY <1>1 DEF Fused
<1> HIDE DEF f, body, one
<1>5. (CHOOSE up : up = [n \in 0..1 |-> body(up, n)])
        = [k \in 0..1 |-> body((CHOOSE up : up = [n \in 0..1 |-> body(up, n)]), k)]
  BY <1>3, Zenon
<1> QED BY <1>2, <1>4, <1>5 DEF one

\* The types that EtbTypeHints may narrow the scan to.
PrimaryTypes == {"Creature", "Artifact", "Enchantment", "Land", "Instant", "Sorcery", "Planeswalker"}

\* What a card must be to match an alternative whose base is one of the hinted types.
LEMMA BaseIsRequired ==
    ASSUME NEW card, NEW alt \in Seq(STRING), alt # <<>>, Base(alt) \in PrimaryTypes, filter_card_match(<<alt>>, card)
    PROVE  Base(alt) \in card.types
<1>1. PICK t : t = Base(alt) /\ t \in PrimaryTypes /\ t = alt[1]
  BY DEF Base
<1>2. t \in ToSet(Fused(<<alt>>)) \ {""}
  <2>1. 1 \in DOMAIN alt OBVIOUS
  <2>2. t \in ToSet(alt) BY <1>1, <2>1 DEF ToSet
  <2> QED BY <1>1, <2>2, FusedOfOne DEF PrimaryTypes
<1>3. Attribute(t) = [kind |-> "type", value |-> t, negated |-> FALSE]
  <2>1. t \notin DOMAIN Negations BY <1>1 DEF Negations, PrimaryTypes
  <2>2. Bare(t) = t /\ Negated(t) = FALSE BY <2>1 DEF Bare, Negated
  <2>3. t # "" /\ t \in CARD_TYPES BY <1>1 DEF PrimaryTypes, CARD_TYPES
  <2>4. classify_attr_token(t) = "type"
    <3>1. t \notin {"Legendary", "Basic", "Snow", "World"} /\ t \notin {"cmcLE3", "cmcGE5"}
      BY <1>1 DEF PrimaryTypes
    <3>2. t \notin {"White", "Blue", "Black", "Red", "Green", "Colorless", "Multicolor",
                     "W", "U", "B", "R", "G", "C"}
      BY <1>1 DEF PrimaryTypes
    <3>3. t \notin {"Flying", "Deathtouch", "Lifelink", "Trample", "Haste", "Menace", "Defender"}
      BY <1>1 DEF PrimaryTypes
    <3>4. t \notin {"powerGE4", "powerLE2"} /\ t \notin {"P1P1", "M1M1"}
      BY <1>1 DEF PrimaryTypes
    <3>5. t \notin CONTROLLER_QUALIFIERS /\ t \notin ZONE_QUALIFIERS
      BY <1>1 DEF PrimaryTypes, CONTROLLER_QUALIFIERS, ZONE_QUALIFIERS
    <3> QED BY <2>3, <3>1, <3>2, <3>3, <3>4, <3>5, Zenon DEF classify_attr_token
  <2> QED BY <2>2, <2>4 DEF Attribute
<1>4. Attribute(t) \in Static(<<alt>>)
  <2>1. Attribute(t) \in Attributes(<<alt>>) BY <1>2, Zenon DEF Attributes
  <2>2. ~Runtime(Attribute(t)) BY <1>3 DEF Runtime
  <2> QED BY <2>1, <2>2 DEF Static
<1>5. <<"type", t>> \in CardAttrs(card)
  BY <1>3, <1>4 DEF filter_card_match
<1> QED BY <1>1, <1>5 DEF CardAttrs

\* For every commander and candidate whose filters are sequences of alternatives: a
\* candidate that matches a usable alternative of some self-event trigger has a type
\* that is among the hints, if there are any, so that the narrowed scan of
\* _find_etb_self_complements reports each event that the whole scan would.
THEOREM HintsAreSound ==
    ASSUME NEW cmdr, NEW card, \A p \in Rows(cmdr) : p.filter \in Seq(Seq(STRING))
    PROVE  HintsLoseNothing(cmdr, card)
<1> DEFINE T == EtbTriggers(cmdr)
<1> DEFINE hints == EtbTypeHints(T)
<1> DEFINE fires(t) == \E alt \in EtbAlternatives(t) : filter_card_match(<<alt>>, card)
<1>1. ASSUME NEW t \in T, fires(t), hints # {} PROVE card.types \cap hints # {}
  <2>1. PICK alt \in EtbAlternatives(t) : filter_card_match(<<alt>>, card)
    BY <1>1
  <2>2. t \in Rows(cmdr) BY DEF EtbTriggers
  <2>3. alt \in Seq(STRING) /\ alt # <<>>
    BY <2>1, <2>2 DEF EtbAlternatives
  <2>4. Base(alt) \in UNION {{Base(a) : a \in EtbAlternatives(p)} : p \in T}
    BY <2>1
  <2>5. Base(alt) \in hints /\ Base(alt) \in PrimaryTypes
    BY <1>1, <2>4 DEF EtbTypeHints, PrimaryTypes
  <2> QED BY <2>1, <2>3, <2>5, BaseIsRequired
<1>2. CASE hints = {} \/ card.types \cap hints # {}
  <2>1. find_etb_self_complements(cmdr, card) = {Complement("etb_self", p.event, "card_identity", "") : p \in {t \in T : fires(t)}}
    BY <1>2 DEF find_etb_self_complements, When
  <2>2. \A p : Complement("etb_self", p.event, "card_identity", "").cmdr = p.event
    BY DEF Complement
  <2> QED BY <2>1, <2>2 DEF HintsLoseNothing
<1>3. CASE ~(hints = {} \/ card.types \cap hints # {})
  <2>1. {t \in T : fires(t)} = {} BY <1>1, <1>3
  <2>2. find_etb_self_complements(cmdr, card) = {} BY <1>3 DEF find_etb_self_complements, When
  <2> QED BY <2>1, <2>2 DEF HintsLoseNothing
<1> QED BY <1>2, <1>3

\* The ports a commander of some family can get, and the commanders that have them.
TypedPorts == {p \in UNION {family.ports : family \in Families} : p.filter \in Seq(Seq(STRING))}
Commanders ==
    [name : {"commander"}, types : {{"Creature"}}, supers : {{}}, subs : {family.subs : family \in Families},
     ports : Seq(TypedPorts), cmc : {3}, power : {2}, tough : {2}, kws : {{}}]

\* Whatever ports have arrived, the filters of the commander are sequences of alternatives.
RulesInv ==
    q.kind = "rules" =>
        q \in [kind : {"rules"}, pool : SUBSET TypedPorts, cmdr : Commanders,
               card : UNION {family.cards : family \in Families}, ctx : Contexts]

LEMMA RulesTyped == RuleSpec => []RulesInv
<1>1. RuleInit => RulesInv
  <2> SUFFICES ASSUME NEW family \in Families, NEW ctx \in Contexts, NEW card \in family.cards,
                      q = [kind |-> "rules", pool |-> family.ports, cmdr |-> Commander(family), card |-> card, ctx |-> ctx]
               PROVE  RulesInv
    BY DEF RuleInit, RulesInv
  <2>1. family.ports \subseteq TypedPorts
    BY RuleAssumption DEF TypedPorts
  <2>2. Commander(family) \in Commanders
    <3>1. <<>> \in Seq(TypedPorts) OBVIOUS
    <3> QED BY <3>1 DEF Commander, Card, Commanders
  <2> QED BY <2>1, <2>2 DEF RulesInv
<1>2. ASSUME RulesInv, [RuleNext]_vars PROVE RulesInv'
  <2>1. CASE AddPort
    <3>1. PICK p \in q.pool : q' = [q EXCEPT !.cmdr.ports = Append(@, p)]
      BY <2>1 DEF AddPort
    <3>2. q.kind = "rules" BY <2>1 DEF AddPort
    <3>3. q \in [kind : {"rules"}, pool : SUBSET TypedPorts, cmdr : Commanders,
                 card : UNION {family.cards : family \in Families}, ctx : Contexts]
      BY <1>2, <3>2 DEF RulesInv
    <3>4. p \in TypedPorts /\ q.cmdr \in Commanders BY <3>1, <3>3
    <3>5. q.cmdr.ports \in Seq(TypedPorts) BY <3>4 DEF Commanders
    <3>6. Append(q.cmdr.ports, p) \in Seq(TypedPorts) BY <3>4, <3>5
    <3>7. PICK c : c = [q.cmdr EXCEPT !.ports = Append(@, p)] OBVIOUS
    <3>8. c \in Commanders BY <3>4, <3>6, <3>7 DEF Commanders
    <3>9. q' = [q EXCEPT !.cmdr = c] BY <3>1, <3>7
    <3> QED BY <3>3, <3>8, <3>9 DEF RulesInv
  <2>2. CASE AddCard
    BY <2>2 DEF AddCard, RulesInv
  <2>3. CASE UNCHANGED vars
    BY <1>2, <2>3 DEF vars, RulesInv
  <2> QED BY <1>2, <2>1, <2>2, <2>3 DEF RuleNext
<1> QED BY <1>1, <1>2, PTL DEF RuleSpec

\* For every family of ports and every list of cards: the type hints of the self-event
\* scan lose no card, the graph joined from three indexes has the edges of the pairwise
\* matcher, and whoever find_trigger_feeders reports is a neighbour.
THEOREM ScansAreWhole == RuleSpec => []NarrowedScansAreWhole
<1>1. RulesInv => NarrowedScansAreWhole
  <2> SUFFICES ASSUME RulesInv PROVE NarrowedScansAreWhole
    OBVIOUS
  <2>1. ASSUME q.kind = "rules" PROVE HintsLoseNothing(q.cmdr, q.card)
    <3>1. q.cmdr.ports \in Seq(TypedPorts)
      BY <2>1 DEF RulesInv, Commanders
    <3>2. \A p \in Rows(q.cmdr) : p.filter \in Seq(Seq(STRING))
      BY <3>1 DEF Rows, ToSet, TypedPorts
    <3> QED BY <3>2, HintsAreSound
  <2> QED BY <2>1, GraphIsPairwise, FeedersAreFound DEF NarrowedScansAreWhole
<1> QED BY <1>1, RulesTyped, PTL

-----------------------------------------------------------------------------
(* The order of the rows: cards that differ in it and in nothing else.       *)

\* The same columns, and the same rows in some order.
Alike(a, b) ==
    /\ a.name = b.name /\ a.types = b.types /\ a.subs = b.subs /\ a.supers = b.supers
    /\ a.cmc = b.cmc /\ a.power = b.power /\ a.tough = b.tough /\ a.kws = b.kws
    /\ Rows(a) = Rows(b)

\* The same rows in another order: g takes each to its new place, h takes it back.
Permuted(s, t) ==
    /\ Len(s) \in Nat /\ Len(t) = Len(s)
    /\ DOMAIN s = 1..Len(s) /\ DOMAIN t = 1..Len(s)
    /\ \E g, h \in [1..Len(s) -> 1..Len(s)] :
          /\ \A i \in 1..Len(s) : t[g[i]] = s[i] /\ h[g[i]] = i
          /\ \A j \in 1..Len(s) : s[h[j]] = t[j] /\ g[h[j]] = j

\* What FirstFound reports is in some set, and it reports nothing only if all are empty.
LEMMA FirstFoundFinds ==
    ASSUME NEW n \in Nat, NEW f, DOMAIN f = 1..n
    PROVE  /\ FirstFound(f) \subseteq UNION {f[i] : i \in 1..n}
           /\ FirstFound(f) = {} => \A i \in 1..n : f[i] = {}
<1>1. FirstFound(f) \subseteq UNION {f[i] : i \in 1..n}
  BY DEF FirstFound
<1>2. ASSUME FirstFound(f) = {}, NEW i \in 1..n, f[i] # {} PROVE FALSE
  <2>1. PICK m \in {j \in 1..n : f[j] # {}} : \A j \in {k \in 1..n : f[k] # {}} : m <= j
    <3>1. {j \in 1..n : f[j] # {}} \in SUBSET Nat /\ {j \in 1..n : f[j] # {}} # {}
      BY <1>2
    <3> QED BY <3>1, LeastNat
  <2>2. m \in 1..n /\ f[m] # {} /\ \A k \in 1..(m - 1) : f[k] = {}
    <3>1. m \in 1..n /\ f[m] # {}
      OBVIOUS
    <3>2. ASSUME NEW k \in 1..(m - 1), f[k] # {} PROVE FALSE
      <4>1. k \in 1..n /\ k < m
        BY <3>1
      <4>2. m <= k
        BY <4>1, <3>2, <2>1
      <4> QED BY <4>1, <4>2, <3>1
    <3> QED BY <3>1, <3>2
  <2>3. f[m] \subseteq FirstFound(f)
    BY <2>2 DEF FirstFound
  <2> QED BY <2>2, <2>3, <1>2
<1> QED BY <1>1, <1>2

\* The first of a set of places in two sequences.
LEMMA FirstPlaces ==
    ASSUME NEW E \in SUBSET (Nat \X Nat), E # {}
    PROVE  \E e \in E : \A d \in E : e[1] < d[1] \/ (e[1] = d[1] /\ e[2] <= d[2])
<1>1. PICK x \in {e[1] : e \in E} : \A y \in {e[1] : e \in E} : x <= y
  <2>1. {e[1] : e \in E} \in SUBSET Nat /\ {e[1] : e \in E} # {}
    OBVIOUS
  <2> QED BY <2>1, LeastNat
<1>2. PICK z \in {e[2] : e \in {d \in E : d[1] = x}} : \A y \in {e[2] : e \in {d \in E : d[1] = x}} : z <= y
  <2>1. {e[2] : e \in {d \in E : d[1] = x}} \in SUBSET Nat /\ {e[2] : e \in {d \in E : d[1] = x}} # {}
    OBVIOUS
  <2> QED BY <2>1, LeastNat
<1>3. PICK e \in E : e[1] = x /\ e[2] = z
  BY <1>2
<1>4. ASSUME NEW d \in E PROVE e[1] < d[1] \/ (e[1] = d[1] /\ e[2] <= d[2])
  <2>1. x <= d[1] /\ (d[1] = x => z <= d[2])
    BY <1>1, <1>2
  <2>2. x \in Nat /\ d[1] \in Nat
    BY <1>3
  <2> QED BY <2>1, <2>2, <1>3
<1> QED BY <1>4

LEMMA PermutedRows ==
    ASSUME NEW a, NEW b, Permuted(a.ports, b.ports)
    PROVE  Rows(a) = Rows(b)
<1> DEFINE n == Len(a.ports)
<1>1. PICK g, h \in [1..n -> 1..n] :
          /\ \A i \in 1..n : b.ports[g[i]] = a.ports[i] /\ h[g[i]] = i
          /\ \A j \in 1..n : a.ports[h[j]] = b.ports[j] /\ g[h[j]] = j
  BY DEF Permuted
<1>2. DOMAIN a.ports = 1..n /\ DOMAIN b.ports = 1..n
  BY DEF Permuted
<1>3. Rows(a) = {a.ports[i] : i \in 1..n} /\ Rows(b) = {b.ports[i] : i \in 1..n}
  BY <1>2 DEF Rows, ToSet
<1> HIDE DEF n
<1>4. \A i \in 1..n : g[i] \in 1..n /\ h[i] \in 1..n
  OBVIOUS
<1>5. ASSUME NEW i \in 1..n PROVE a.ports[i] \in Rows(b) /\ b.ports[i] \in Rows(a)
  BY <1>1, <1>3, <1>4
<1> QED BY <1>3, <1>5

LEMMA PermutedBack ==
    ASSUME NEW s, NEW t, Permuted(s, t)
    PROVE  Permuted(t, s)
<1>1. PICK g, h \in [1..Len(s) -> 1..Len(s)] :
          /\ \A i \in 1..Len(s) : t[g[i]] = s[i] /\ h[g[i]] = i
          /\ \A j \in 1..Len(s) : s[h[j]] = t[j] /\ g[h[j]] = j
  BY DEF Permuted
<1>2. Len(s) \in Nat /\ Len(t) = Len(s) /\ DOMAIN s = 1..Len(s) /\ DOMAIN t = 1..Len(s)
  BY DEF Permuted
<1>3. \E x, y \in [1..Len(t) -> 1..Len(t)] :
          /\ \A i \in 1..Len(t) : s[x[i]] = t[i] /\ y[x[i]] = i
          /\ \A j \in 1..Len(t) : t[y[j]] = s[j] /\ x[y[j]] = j
  <2> h \in [1..Len(t) -> 1..Len(t)] /\ g \in [1..Len(t) -> 1..Len(t)]
    BY <1>2
  <2> WITNESS h \in [1..Len(t) -> 1..Len(t)], g \in [1..Len(t) -> 1..Len(t)]
  <2> QED BY <1>1, <1>2
<1> QED BY <1>2, <1>3 DEF Permuted

\* Every row has its place in the other order.
LEMMA RowsHavePlaces ==
    ASSUME NEW s, NEW t, Permuted(s, t), NEW i \in DOMAIN s
    PROVE  \E j \in DOMAIN t : t[j] = s[i]
<1>1. PICK g, h \in [1..Len(s) -> 1..Len(s)] : \A m \in 1..Len(s) : t[g[m]] = s[m]
  BY DEF Permuted
<1>2. DOMAIN s = 1..Len(s) /\ DOMAIN t = 1..Len(s)
  BY DEF Permuted
<1> QED BY <1>1, <1>2


-----------------------------------------------------------------------------
(* What the helpers read of a card: its columns, and the set of its rows.    *)

\* The conditions that several helpers put on one card.
LEMMA PoolsReadRows ==
    ASSUME NEW a, NEW b, Alike(a, b)
    PROVE  /\ IsCreature(a) = IsCreature(b)
           /\ EtbTriggers(a) = EtbTriggers(b)
           /\ token_etb_damage(a) = token_etb_damage(b)
           /\ dies_drain(a) = dies_drain(b)
           /\ gy_loader(a) = gy_loader(b)
           /\ attack_payoff(a) = attack_payoff(b)
           /\ evasion_soft(a) = evasion_soft(b)
           /\ evasion_hard(a) = evasion_hard(b)
           /\ x_cost_mana_double(a) = x_cost_mana_double(b)
           /\ x_cost_cost_reduce(a) = x_cost_cost_reduce(b)
           /\ death_payoff(a) = death_payoff(b)
           /\ recursive_fodder(a) = recursive_fodder(b)
           /\ untap_combo(a) = untap_combo(b)
           /\ cost_reduction_target(a) = cost_reduction_target(b)
           /\ proliferates(a) = proliferates(b)
           /\ p1p1_counter_producer(a) = p1p1_counter_producer(b)
           /\ HighToughness(a) = HighToughness(b)
           /\ vanilla_tribal_subtypes(a) = vanilla_tribal_subtypes(b)
           /\ self_mill(a) = self_mill(b)
           /\ self_discard(a) = self_discard(b)
           /\ only_self_sac_cost(a) = only_self_sac_cost(b)
           /\ MakesTokens(a) = MakesTokens(b)
           /\ AttachmentSupport(a) = AttachmentSupport(b)
           /\ ForeignTokens(a) = ForeignTokens(b)
           /\ panharmonicon_statics(a) = panharmonicon_statics(b)
           /\ token_subtypes(a) = token_subtypes(b)
           /\ UntapsCreatures(a) = UntapsCreatures(b)
           /\ CardAttrs(a) = CardAttrs(b)
<1>1. IsCreature(a) = IsCreature(b)
  BY DEF Alike, IsCreature
<1>2. EtbTriggers(a) = EtbTriggers(b)
  BY DEF Alike, EtbTriggers
<1>3. token_etb_damage(a) = token_etb_damage(b)
  BY DEF Alike, token_etb_damage, Joined
<1>4. dies_drain(a) = dies_drain(b)
  BY DEF Alike, dies_drain, Joined
<1>5. gy_loader(a) = gy_loader(b)
  BY DEF Alike, gy_loader, SomeRow
<1>6. attack_payoff(a) = attack_payoff(b)
  BY DEF Alike, attack_payoff, Joined
<1>7. evasion_soft(a) = evasion_soft(b)
  BY DEF Alike, evasion_soft, IsCreature
<1>8. evasion_hard(a) = evasion_hard(b)
  BY DEF Alike, evasion_hard, IsCreature, SomeRow
<1>9. x_cost_mana_double(a) = x_cost_mana_double(b)
  BY DEF Alike, x_cost_mana_double, SomeRow
<1>10. x_cost_cost_reduce(a) = x_cost_cost_reduce(b)
  BY DEF Alike, x_cost_cost_reduce, SomeRow
<1>11. death_payoff(a) = death_payoff(b)
  BY DEF Alike, death_payoff
<1>12. recursive_fodder(a) = recursive_fodder(b)
  BY DEF Alike, recursive_fodder, IsCreature
<1>13. untap_combo(a) = untap_combo(b)
  BY DEF Alike, untap_combo
<1>14. cost_reduction_target(a) = cost_reduction_target(b)
  BY DEF Alike, cost_reduction_target, IsCreature
<1>15. proliferates(a) = proliferates(b)
  BY DEF Alike, proliferates
<1>16. p1p1_counter_producer(a) = p1p1_counter_producer(b)
  BY DEF Alike, p1p1_counter_producer, SomeRow
<1>17. HighToughness(a) = HighToughness(b)
  BY DEF Alike, HighToughness
<1>18. vanilla_tribal_subtypes(a) = vanilla_tribal_subtypes(b)
  BY DEF Alike, vanilla_tribal_subtypes, When
<1>19. self_mill(a) = self_mill(b)
  BY DEF Alike, self_mill, SomeRow
<1>20. self_discard(a) = self_discard(b)
  BY DEF Alike, self_discard, SomeRow
<1>21. only_self_sac_cost(a) = only_self_sac_cost(b)
  BY DEF Alike, only_self_sac_cost
<1>22. MakesTokens(a) = MakesTokens(b)
  BY DEF Alike, MakesTokens
<1>23. AttachmentSupport(a) = AttachmentSupport(b)
  BY DEF Alike, AttachmentSupport
<1>24. ForeignTokens(a) = ForeignTokens(b)
  BY DEF Alike, ForeignTokens
<1>25. panharmonicon_statics(a) = panharmonicon_statics(b)
  BY DEF Alike, panharmonicon_statics
<1>26. token_subtypes(a) = token_subtypes(b)
  BY DEF Alike, token_subtypes
<1>27. UntapsCreatures(a) = UntapsCreatures(b)
  BY DEF Alike, UntapsCreatures, SomeRow
<1>28. CardAttrs(a) = CardAttrs(b)
  BY DEF Alike, CardAttrs
<1> QED
  BY <1>1, <1>2, <1>3, <1>4, <1>5, <1>6, <1>7, <1>8, <1>9, <1>10, <1>11, <1>12, <1>13, <1>14, <1>15, <1>16,
  <1>17, <1>18, <1>19, <1>20, <1>21, <1>22, <1>23, <1>24, <1>25, <1>26, <1>27, <1>28

LEMMA SubtypesReadRows ==
    ASSUME NEW a, NEW b, Alike(a, b), NEW other
    PROVE  commander_subtypes_from_ports(a, other) = commander_subtypes_from_ports(b, other)
BY DEF Alike, commander_subtypes_from_ports, token_tribe

LEMMA OwnEntryReadsRows ==
    ASSUME NEW a, NEW b, Alike(a, b), NEW effects
    PROVE  SelfEtb(a, effects) = SelfEtb(b, effects)
BY DEF Alike, SelfEtb, SomeRow

LEMMA AttackRewardReadsRows ==
    ASSUME NEW a, NEW b, Alike(a, b)
    PROVE  commander_has_team_attack_reward(a) = commander_has_team_attack_reward(b)
<1>1. commander_subtypes_from_ports(a, FALSE) = commander_subtypes_from_ports(b, FALSE)
  BY SubtypesReadRows
<1> QED BY <1>1 DEF Alike, commander_has_team_attack_reward

\* The helpers of DensityRules that read a card as the set of its rows report the same of
\* the same rows in any order.
LEMMA DensityRulesReadRows ==
    ASSUME NEW a, NEW b, NEW k, NEW l, Alike(a, b), Alike(k, l), NEW ctx
    PROVE  /\ find_lord_complements(a, k) = find_lord_complements(b, l)
           /\ find_etb_self_complements(a, k) = find_etb_self_complements(b, l)
           /\ find_scaling_complements(a, k) = find_scaling_complements(b, l)
           /\ find_spellcast_density_complements(a, k) = find_spellcast_density_complements(b, l)
           /\ find_spellcast_resonance(a, k) = find_spellcast_resonance(b, l)
           /\ find_value_engine_density(a, k) = find_value_engine_density(b, l)
           /\ find_cheat_cmc_bonus(a, k) = find_cheat_cmc_bonus(b, l)
           /\ find_counter_doubler_synergy(a, k) = find_counter_doubler_synergy(b, l)
           /\ find_counter_keyword_synergy(a, k) = find_counter_keyword_synergy(b, l)
           /\ find_proliferate_synergy(a, k) = find_proliferate_synergy(b, l)
           /\ find_cost_reduction_targets(a, k) = find_cost_reduction_targets(b, l)
           /\ find_land_to_gy_synergy(a, k) = find_land_to_gy_synergy(b, l)
           /\ find_tribal_density_complements(a, k, ctx) = find_tribal_density_complements(b, l, ctx)
           /\ find_x_cost_scaler(a, k, ctx) = find_x_cost_scaler(b, l, ctx)
<1>1. find_lord_complements(a, k) = find_lord_complements(b, l)
  <2>1. commander_subtypes_from_ports(a, TRUE) = commander_subtypes_from_ports(b, TRUE)
    BY SubtypesReadRows
  <2> QED BY <2>1 DEF Alike, find_lord_complements, When
<1>2. find_etb_self_complements(a, k) = find_etb_self_complements(b, l)
  <2>1. /\ EtbTriggers(a) = EtbTriggers(b)
        /\ CardAttrs(k) = CardAttrs(l)
    BY PoolsReadRows
  <2> QED BY <2>1 DEF Alike, find_etb_self_complements, When, filter_card_match
<1>3. find_scaling_complements(a, k) = find_scaling_complements(b, l)
  BY DEF Alike, find_scaling_complements
<1>4. find_spellcast_density_complements(a, k) = find_spellcast_density_complements(b, l)
  BY DEF Alike, find_spellcast_density_complements
<1>5. find_spellcast_resonance(a, k) = find_spellcast_resonance(b, l)
  BY DEF Alike, find_spellcast_resonance, When
<1>6. find_value_engine_density(a, k) = find_value_engine_density(b, l)
  BY DEF Alike, find_value_engine_density, When, InTarget
<1>7. find_cheat_cmc_bonus(a, k) = find_cheat_cmc_bonus(b, l)
  BY DEF Alike, find_cheat_cmc_bonus, When, InTarget
<1>8. find_counter_doubler_synergy(a, k) = find_counter_doubler_synergy(b, l)
  BY DEF Alike, find_counter_doubler_synergy, When
<1>9. find_counter_keyword_synergy(a, k) = find_counter_keyword_synergy(b, l)
  BY DEF Alike, find_counter_keyword_synergy, When
<1>10. find_proliferate_synergy(a, k) = find_proliferate_synergy(b, l)
  <2>1. proliferates(k) = proliferates(l)
    BY PoolsReadRows
  <2> QED BY <2>1 DEF Alike, find_proliferate_synergy, When
<1>11. find_cost_reduction_targets(a, k) = find_cost_reduction_targets(b, l)
  <2>1. cost_reduction_target(k) = cost_reduction_target(l)
    BY PoolsReadRows
  <2> QED BY <2>1 DEF Alike, find_cost_reduction_targets, When
<1>12. find_land_to_gy_synergy(a, k) = find_land_to_gy_synergy(b, l)
  BY DEF Alike, find_land_to_gy_synergy, When
<1>13. find_tribal_density_complements(a, k, ctx) = find_tribal_density_complements(b, l, ctx)
  <2>1. /\ vanilla_tribal_subtypes(a) = vanilla_tribal_subtypes(b)
        /\ commander_subtypes_from_ports(a, FALSE) = commander_subtypes_from_ports(b, FALSE)
    BY PoolsReadRows, SubtypesReadRows
  <2> QED BY <2>1 DEF Alike, find_tribal_density_complements, When, members, tribal_rule
<1>14. find_x_cost_scaler(a, k, ctx) = find_x_cost_scaler(b, l, ctx)
  <2>1. /\ x_cost_mana_double(k) = x_cost_mana_double(l)
        /\ x_cost_cost_reduce(k) = x_cost_cost_reduce(l)
    BY PoolsReadRows
  <2> QED BY <2>1 DEF Alike, find_x_cost_scaler, When, FlaggedPool
<1> QED BY <1>1, <1>2, <1>3, <1>4, <1>5, <1>6, <1>7, <1>8, <1>9, <1>10, <1>11, <1>12, <1>13, <1>14

\* The helpers of CombatRules that read a card as the set of its rows report the same of
\* the same rows in any order.
LEMMA CombatRulesReadRows ==
    ASSUME NEW a, NEW b, NEW k, NEW l, Alike(a, b), Alike(k, l), NEW ctx
    PROVE  /\ find_changeszone_resonance(a, k) = find_changeszone_resonance(b, l)
           /\ find_subject_zone_feeders(a, k) = find_subject_zone_feeders(b, l)
           /\ find_attack_payoffs(a, k) = find_attack_payoffs(b, l)
           /\ find_evasion_complements(a, k) = find_evasion_complements(b, l)
           /\ find_attack_reward_evasion(a, k, ctx) = find_attack_reward_evasion(b, l, ctx)
<1>1. find_changeszone_resonance(a, k) = find_changeszone_resonance(b, l)
  BY DEF Alike, find_changeszone_resonance
<1>2. find_subject_zone_feeders(a, k) = find_subject_zone_feeders(b, l)
  BY DEF Alike, find_subject_zone_feeders, When
<1>3. find_attack_payoffs(a, k) = find_attack_payoffs(b, l)
  <2>1. attack_payoff(k) = attack_payoff(l)
    BY PoolsReadRows
  <2> QED BY <2>1 DEF Alike, find_attack_payoffs, When
<1>4. find_evasion_complements(a, k) = find_evasion_complements(b, l)
  <2>1. commander_subtypes_from_ports(a, FALSE) = commander_subtypes_from_ports(b, FALSE)
    BY SubtypesReadRows
  <2> QED BY <2>1 DEF Alike, find_evasion_complements, When
<1>5. find_attack_reward_evasion(a, k, ctx) = find_attack_reward_evasion(b, l, ctx)
  <2>1. /\ evasion_soft(k) = evasion_soft(l)
        /\ evasion_hard(k) = evasion_hard(l)
        /\ commander_has_team_attack_reward(a) = commander_has_team_attack_reward(b)
    BY PoolsReadRows, AttackRewardReadsRows
  <2> QED BY <2>1 DEF Alike, find_attack_reward_evasion, When, FlaggedPool
<1> QED BY <1>1, <1>2, <1>3, <1>4, <1>5

\* The helpers of GraveyardRules that read a card as the set of its rows report the same of
\* the same rows in any order.
LEMMA GraveyardRulesReadRows ==
    ASSUME NEW a, NEW b, NEW k, NEW l, Alike(a, b), Alike(k, l)
    PROVE  /\ find_graveyard_fillers(a, k) = find_graveyard_fillers(b, l)
           /\ find_artifact_recursion(a, k) = find_artifact_recursion(b, l)
           /\ find_copy_synergy(a, k) = find_copy_synergy(b, l)
           /\ find_dies_drain(a, k) = find_dies_drain(b, l)
           /\ find_gy_loader(a, k) = find_gy_loader(b, l)
           /\ find_graveyard_sac_value(a, k) = find_graveyard_sac_value(b, l)
<1>1. find_graveyard_fillers(a, k) = find_graveyard_fillers(b, l)
  <2>1. /\ gy_loader(k) = gy_loader(l)
        /\ self_mill(k) = self_mill(l)
        /\ self_discard(k) = self_discard(l)
    BY PoolsReadRows
  <2> QED BY <2>1 DEF Alike, find_graveyard_fillers, When
<1>2. find_artifact_recursion(a, k) = find_artifact_recursion(b, l)
  <2>1. \A effects : SelfEtb(k, effects) = SelfEtb(l, effects)
    BY OwnEntryReadsRows
  <2> QED BY <2>1 DEF Alike, find_artifact_recursion, When
<1>3. find_copy_synergy(a, k) = find_copy_synergy(b, l)
  <2>1. /\ IsCreature(k) = IsCreature(l)
        /\ \A effects : SelfEtb(k, effects) = SelfEtb(l, effects)
    BY PoolsReadRows, OwnEntryReadsRows
  <2> QED BY <2>1 DEF Alike, find_copy_synergy, SomeRow, When
<1>4. find_dies_drain(a, k) = find_dies_drain(b, l)
  <2>1. dies_drain(k) = dies_drain(l)
    BY PoolsReadRows
  <2> QED BY <2>1 DEF Alike, find_dies_drain, When
<1>5. find_gy_loader(a, k) = find_gy_loader(b, l)
  <2>1. gy_loader(k) = gy_loader(l)
    BY PoolsReadRows
  <2> QED BY <2>1 DEF Alike, find_gy_loader, When
<1>6. find_graveyard_sac_value(a, k) = find_graveyard_sac_value(b, l)
  BY DEF Alike, find_graveyard_sac_value, When
<1> QED BY <1>1, <1>2, <1>3, <1>4, <1>5, <1>6

\* The helpers of StaticRules that read a card as the set of its rows report the same of
\* the same rows in any order.
LEMMA StaticRulesReadRows ==
    ASSUME NEW a, NEW b, NEW k, NEW l, Alike(a, b), Alike(k, l), NEW ctx
    PROVE  /\ find_token_producers_for_trigger(a, k) = find_token_producers_for_trigger(b, l)
           /\ find_static_strategy(a, k) = find_static_strategy(b, l)
           /\ find_token_etb_damage(a, k) = find_token_etb_damage(b, l)
           /\ find_reverse_panharmonicon(a, k) = find_reverse_panharmonicon(b, l)
           /\ find_panharmonicon_stacking(a, k) = find_panharmonicon_stacking(b, l)
           /\ find_graveyard_play_synergy(a, k) = find_graveyard_play_synergy(b, l)
           /\ find_edict_feeders(a, k) = find_edict_feeders(b, l)
           /\ find_team_anthem_payoffs(a, k, ctx) = find_team_anthem_payoffs(b, l, ctx)
<1>1. find_token_producers_for_trigger(a, k) = find_token_producers_for_trigger(b, l)
  <2>1. MakesTokens(k) = MakesTokens(l)
    BY PoolsReadRows
  <2> QED BY <2>1 DEF Alike, find_token_producers_for_trigger, When
<1>2. find_static_strategy(a, k) = find_static_strategy(b, l)
  <2>1. /\ MakesTokens(k) = MakesTokens(l)
        /\ AttachmentSupport(k) = AttachmentSupport(l)
    BY PoolsReadRows
  <2> QED BY <2>1 DEF Alike, find_static_strategy, When
<1>3. find_token_etb_damage(a, k) = find_token_etb_damage(b, l)
  <2>1. token_etb_damage(k) = token_etb_damage(l)
    BY PoolsReadRows
  <2> QED BY <2>1 DEF Alike, find_token_etb_damage, When
<1>4. find_reverse_panharmonicon(a, k) = find_reverse_panharmonicon(b, l)
  <2>1. panharmonicon_statics(k) = panharmonicon_statics(l)
    BY PoolsReadRows
  <2> QED BY <2>1 DEF Alike, find_reverse_panharmonicon, When
<1>5. find_panharmonicon_stacking(a, k) = find_panharmonicon_stacking(b, l)
  <2>1. /\ panharmonicon_statics(a) = panharmonicon_statics(b)
        /\ panharmonicon_statics(k) = panharmonicon_statics(l)
    BY PoolsReadRows
  <2> QED BY <2>1 DEF Alike, find_panharmonicon_stacking, When
<1>6. find_graveyard_play_synergy(a, k) = find_graveyard_play_synergy(b, l)
  BY DEF Alike, find_graveyard_play_synergy, SomeRow, When
<1>7. find_edict_feeders(a, k) = find_edict_feeders(b, l)
  BY DEF Alike, find_edict_feeders, SomeRow, When
<1>8. find_team_anthem_payoffs(a, k, ctx) = find_team_anthem_payoffs(b, l, ctx)
  BY DEF Alike, find_team_anthem_payoffs, When
<1> QED BY <1>1, <1>2, <1>3, <1>4, <1>5, <1>6, <1>7, <1>8

\* The helpers of SupplyRules that read a card as the set of its rows report the same of
\* the same rows in any order.
LEMMA SupplyRulesReadRows ==
    ASSUME NEW a, NEW b, NEW k, NEW l, Alike(a, b), Alike(k, l), NEW ctx, NEW vocab
    PROVE  /\ find_subtype_supply_complements(a, k, vocab) = find_subtype_supply_complements(b, l, vocab)
           /\ find_prepared_mechanic_complements(a, k) = find_prepared_mechanic_complements(b, l)
           /\ find_death_outlet_complements(a, k, ctx) = find_death_outlet_complements(b, l, ctx)
           /\ find_aristocrats_death_bridge(a, k, ctx) = find_aristocrats_death_bridge(b, l, ctx)
<1>1. find_subtype_supply_complements(a, k, vocab) = find_subtype_supply_complements(b, l, vocab)
  <2>1. token_subtypes(k) = token_subtypes(l)
    BY PoolsReadRows
  <2> QED BY <2>1 DEF Alike, find_subtype_supply_complements, When
<1>2. find_prepared_mechanic_complements(a, k) = find_prepared_mechanic_complements(b, l)
  BY DEF Alike, find_prepared_mechanic_complements, When
<1>3. find_death_outlet_complements(a, k, ctx) = find_death_outlet_complements(b, l, ctx)
  BY DEF Alike, find_death_outlet_complements, When
<1>4. find_aristocrats_death_bridge(a, k, ctx) = find_aristocrats_death_bridge(b, l, ctx)
  <2>1. /\ death_payoff(k) = death_payoff(l)
        /\ recursive_fodder(k) = recursive_fodder(l)
    BY PoolsReadRows
  <2> QED BY <2>1 DEF Alike, find_aristocrats_death_bridge, When, FlaggedPool
<1> QED BY <1>1, <1>2, <1>3, <1>4

\* The helpers of FeederRules that read a card as the set of its rows report the same of
\* the same rows in any order.
LEMMA FeederRulesReadRows ==
    ASSUME NEW a, NEW b, NEW k, NEW l, Alike(a, b), Alike(k, l)
    PROVE  /\ find_cost_payoff_complements(a, k) = find_cost_payoff_complements(b, l)
           /\ find_counter_axis_feeders(a, k) = find_counter_axis_feeders(b, l)
           /\ find_modified_axis_feeders(a, k) = find_modified_axis_feeders(b, l)
           /\ find_cardpower_axis_feeders(a, k) = find_cardpower_axis_feeders(b, l)
           /\ find_tap_type_feeders(a, k) = find_tap_type_feeders(b, l)
           /\ find_hand_size_feeders(a, k) = find_hand_size_feeders(b, l)
           /\ find_gy_fuel_feeders(a, k) = find_gy_fuel_feeders(b, l)
           /\ find_lifegain_feeders(a, k) = find_lifegain_feeders(b, l)
           /\ find_life_total_feeders(a, k) = find_life_total_feeders(b, l)
           /\ find_land_bounce_feeders(a, k) = find_land_bounce_feeders(b, l)
           /\ find_creature_died_feeders(a, k) = find_creature_died_feeders(b, l)
<1>1. find_cost_payoff_complements(a, k) = find_cost_payoff_complements(b, l)
  BY DEF Alike, find_cost_payoff_complements, SomeRow, When
<1>2. find_counter_axis_feeders(a, k) = find_counter_axis_feeders(b, l)
  <2>1. only_self_sac_cost(k) = only_self_sac_cost(l)
    BY PoolsReadRows
  <2> QED BY <2>1 DEF Alike, find_counter_axis_feeders, When, Tiered, PutsCounters, EtbCounter, SomeRow
<1>3. find_modified_axis_feeders(a, k) = find_modified_axis_feeders(b, l)
  <2>1. /\ IsCreature(k) = IsCreature(l)
        /\ only_self_sac_cost(k) = only_self_sac_cost(l)
    BY PoolsReadRows
  <2> QED BY <2>1 DEF Alike, find_modified_axis_feeders, When, Tiered, PutsCounters, EtbCounter, SomeRow
<1>4. find_cardpower_axis_feeders(a, k) = find_cardpower_axis_feeders(b, l)
  <2>1. only_self_sac_cost(k) = only_self_sac_cost(l)
    BY PoolsReadRows
  <2> QED BY <2>1 DEF Alike, find_cardpower_axis_feeders, When, Tiered, PutsCounters, SomeRow
<1>5. find_tap_type_feeders(a, k) = find_tap_type_feeders(b, l)
  BY DEF Alike, find_tap_type_feeders, SomeRow, When, Tiered
<1>6. find_hand_size_feeders(a, k) = find_hand_size_feeders(b, l)
  BY DEF Alike, find_hand_size_feeders, SomeRow, When, Tiered
<1>7. find_gy_fuel_feeders(a, k) = find_gy_fuel_feeders(b, l)
  BY DEF Alike, find_gy_fuel_feeders, SomeRow, When, Tiered
<1>8. find_lifegain_feeders(a, k) = find_lifegain_feeders(b, l)
  BY DEF Alike, find_lifegain_feeders, SomeRow, When, Tiered
<1>9. find_life_total_feeders(a, k) = find_life_total_feeders(b, l)
  BY DEF Alike, find_life_total_feeders, When, Tiered
<1>10. find_land_bounce_feeders(a, k) = find_land_bounce_feeders(b, l)
  BY DEF Alike, find_land_bounce_feeders, SomeRow, When, Tiered
<1>11. find_creature_died_feeders(a, k) = find_creature_died_feeders(b, l)
  BY DEF Alike, find_creature_died_feeders, When, Tiered
<1> QED BY <1>1, <1>2, <1>3, <1>4, <1>5, <1>6, <1>7, <1>8, <1>9, <1>10, <1>11

\* The helpers of UtilityRules that read a card as the set of its rows report the same of
\* the same rows in any order.
LEMMA UtilityRulesReadRows ==
    ASSUME NEW a, NEW b, NEW k, NEW l, Alike(a, b), Alike(k, l)
    PROVE  /\ find_extra_land_plays(a, k) = find_extra_land_plays(b, l)
           /\ find_landfall_enablers(a, k) = find_landfall_enablers(b, l)
           /\ find_creatures_as_lands_landfall(a, k) = find_creatures_as_lands_landfall(b, l)
           /\ find_flicker_synergy(a, k) = find_flicker_synergy(b, l)
           /\ find_wheel_synergy(a, k) = find_wheel_synergy(b, l)
           /\ find_untap_synergy(a, k) = find_untap_synergy(b, l)
           /\ find_untap_combo(a, k) = find_untap_combo(b, l)
           /\ find_multicolor_untap(a, k) = find_multicolor_untap(b, l)
           /\ find_mana_doubler_synergy(a, k) = find_mana_doubler_synergy(b, l)
           /\ find_cascade_value(a, k) = find_cascade_value(b, l)
           /\ find_flicker_payoffs(a, k) = find_flicker_payoffs(b, l)
           /\ find_counter_target_payoff(a, k) = find_counter_target_payoff(b, l)
           /\ find_creature_untap_engine(a, k) = find_creature_untap_engine(b, l)
           /\ find_damage_doubler_synergy(a, k) = find_damage_doubler_synergy(b, l)
<1>1. find_extra_land_plays(a, k) = find_extra_land_plays(b, l)
  BY DEF Alike, find_extra_land_plays, Pool, When
<1>2. find_landfall_enablers(a, k) = find_landfall_enablers(b, l)
  BY DEF Alike, find_landfall_enablers, When, Pool
<1>3. find_creatures_as_lands_landfall(a, k) = find_creatures_as_lands_landfall(b, l)
  BY DEF Alike, find_creatures_as_lands_landfall, Pool, When
<1>4. find_flicker_synergy(a, k) = find_flicker_synergy(b, l)
  BY DEF Alike, find_flicker_synergy, Pool, When
<1>5. find_wheel_synergy(a, k) = find_wheel_synergy(b, l)
  BY DEF Alike, find_wheel_synergy, SomeRow, Pool, When
<1>6. find_untap_synergy(a, k) = find_untap_synergy(b, l)
  <2>1. UntapsCreatures(k) = UntapsCreatures(l)
    BY PoolsReadRows
  <2> QED BY <2>1 DEF Alike, find_untap_synergy, Pool, When
<1>7. find_untap_combo(a, k) = find_untap_combo(b, l)
  <2>1. untap_combo(k) = untap_combo(l)
    BY PoolsReadRows
  <2> QED BY <2>1 DEF Alike, find_untap_combo, Pool, When
<1>8. find_multicolor_untap(a, k) = find_multicolor_untap(b, l)
  BY DEF Alike, find_multicolor_untap, SomeRow, Pool, When
<1>9. find_mana_doubler_synergy(a, k) = find_mana_doubler_synergy(b, l)
  BY DEF Alike, find_mana_doubler_synergy, Pool, When
<1>10. find_cascade_value(a, k) = find_cascade_value(b, l)
  BY DEF Alike, find_cascade_value, When
<1>11. find_flicker_payoffs(a, k) = find_flicker_payoffs(b, l)
  <2>1. IsCreature(k) = IsCreature(l)
    BY PoolsReadRows
  <2> QED BY <2>1 DEF Alike, find_flicker_payoffs, SomeRow, Pool, When
<1>12. find_counter_target_payoff(a, k) = find_counter_target_payoff(b, l)
  BY DEF Alike, find_counter_target_payoff, Pool, PutsCounters, SomeRow, When
<1>13. find_creature_untap_engine(a, k) = find_creature_untap_engine(b, l)
  <2>1. UntapsCreatures(k) = UntapsCreatures(l)
    BY PoolsReadRows
  <2> QED BY <2>1 DEF Alike, find_creature_untap_engine, Pool, When
<1>14. find_damage_doubler_synergy(a, k) = find_damage_doubler_synergy(b, l)
  BY DEF Alike, find_damage_doubler_synergy, SomeRow, When, Tiered
<1> QED BY <1>1, <1>2, <1>3, <1>4, <1>5, <1>6, <1>7, <1>8, <1>9, <1>10, <1>11, <1>12, <1>13, <1>14

-----------------------------------------------------------------------------
(* Loops over rows: they report a card under the first row that finds it.   *)

\* A loop that asks each row the same finds something in both orders or in neither.
LEMMA LoopsFindAlike ==
    ASSUME NEW s, NEW t, Permuted(s, t), NEW F, NEW G, DOMAIN F = DOMAIN s, DOMAIN G = DOMAIN t,
           \A i \in DOMAIN s, j \in DOMAIN t : s[i] = t[j] => F[i] = G[j],
           FirstFound(F) # {}
    PROVE  FirstFound(G) # {}
<1>1. DOMAIN s = 1..Len(s) /\ DOMAIN t = 1..Len(s) /\ Len(s) \in Nat
  BY DEF Permuted
<1>2. PICK x \in FirstFound(F) : TRUE
  OBVIOUS
<1>3. PICK i \in DOMAIN s : x \in F[i]
  BY <1>1, <1>2, FirstFoundFinds
<1>4. PICK j \in DOMAIN t : t[j] = s[i]
  BY RowsHavePlaces
<1>5. G[j] # {}
  BY <1>3, <1>4
<1> QED BY <1>1, <1>4, <1>5, FirstFoundFinds

\* All of X is reported under one rule.
Under(r, X) == \A c \in X : c.rule = r

LEMMA OneReports ==
    ASSUME NEW r, NEW x, NEW y, NEW z, NEW P PROVE Under(r, When(P, {Complement(r, x, y, z)}))
BY DEF Under, When, Complement

LEMMA WhenReports ==
    ASSUME NEW r, NEW X, NEW P, P => Under(r, X) PROVE Under(r, When(P, X))
BY DEF Under, When

LEMMA FirstReports ==
    ASSUME NEW r, NEW f, \A i \in DOMAIN f : Under(r, f[i]) PROVE Under(r, FirstFound(f))
BY DEF Under, FirstFound

LEMMA TwoReport ==
    ASSUME NEW r, NEW A, NEW B, Under(r, A), Under(r, B) PROVE Under(r, FirstFound(<<A, B>>))
BY DEF Under, FirstFound

LEMMA ThreeReport ==
    ASSUME NEW r, NEW A, NEW B, NEW C, Under(r, A), Under(r, B), Under(r, C)
    PROVE  Under(r, FirstFound(<<A, B, C>>))
BY DEF Under, FirstFound

\* What X reports under a rule that does not read rows in order, Y reports as well.
Credits(X, Y) == \A c \in X : c.rule \notin RowsInOrder => \E d \in Y : d.rule = c.rule

LEMMA AnyReportCredits ==
    ASSUME NEW r, NEW X, NEW Y, Under(r, X), Under(r, Y), X # {} => Y # {}
    PROVE  Credits(X, Y)
BY DEF Under, Credits

LEMMA OrderedCredits ==
    ASSUME NEW r \in RowsInOrder, NEW X, NEW Y, Under(r, X) PROVE Credits(X, Y)
BY DEF Under, Credits

\* find_scales_with_density goes through the commander's rows.
LEMMA ScalersCredit ==
    ASSUME NEW a, NEW b, NEW k, NEW l, Alike(a, b), Alike(k, l), Permuted(a.ports, b.ports)
    PROVE  Credits(find_scales_with_density(a, k), find_scales_with_density(b, l))
<1> DEFINE F == [i \in DOMAIN a.ports |-> When((a.ports[i]).type = "scales_with", scaler_asks(Rows(a), k, a.ports[i]))]
           G == [i \in DOMAIN b.ports |-> When((b.ports[i]).type = "scales_with", scaler_asks(Rows(b), l, b.ports[i]))]
<1>1. ASSUME NEW p PROVE scaler_asks(Rows(a), k, p) = scaler_asks(Rows(b), l, p)
  <2>1. p1p1_counter_producer(k) = p1p1_counter_producer(l) /\ HighToughness(k) = HighToughness(l)
    BY PoolsReadRows
  <2> QED BY <2>1 DEF Alike, scaler_asks, When
<1>2. ASSUME NEW P, NEW c, NEW p PROVE Under("scaling", scaler_asks(P, c, p))
  <2> DEFINE Scaling(x, y) == {Complement("scaling", x, y, "")}
             A == When(\E r \in Rows(c) : Is(r, "effect", {"Token"}) /\ "creature" \in r.raw,
                       Scaling("scales_creature_count", "token_producer"))
             B == When(\E r \in Rows(c) : Is(r, "effect", {"CopyPermanent"}) /\ "Populate" \in r.raw,
                       Scaling("scales_creature_count", "populate"))
  <2>1. Under("scaling", FirstFound(<<A, B>>))
    <3>1. Under("scaling", A) /\ Under("scaling", B)
      BY OneReports
    <3> HIDE DEF A, B
    <3> QED BY <3>1, TwoReport
  <2>2. \A Q, x, y : Under("scaling", When(Q, Scaling(x, y)))
    BY OneReports
  <2> QED BY <2>1, <2>2 DEF scaler_asks
<1>3. find_scales_with_density(a, k) = FirstFound(F) /\ find_scales_with_density(b, l) = FirstFound(G)
  BY DEF find_scales_with_density, FirstOf
<1>4. \A i \in DOMAIN a.ports, j \in DOMAIN b.ports : a.ports[i] = b.ports[j] => F[i] = G[j]
  BY <1>1 DEF When
<1>5. DOMAIN F = DOMAIN a.ports /\ DOMAIN G = DOMAIN b.ports
  OBVIOUS
<1>6. (\A i \in DOMAIN F : Under("scaling", F[i])) /\ \A i \in DOMAIN G : Under("scaling", G[i])
  BY <1>2, WhenReports
<1> HIDE DEF F, G
<1>7. FirstFound(F) # {} => FirstFound(G) # {}
  BY <1>4, <1>5, LoopsFindAlike
<1>8. Under("scaling", FirstFound(F)) /\ Under("scaling", FirstFound(G))
  BY <1>6, FirstReports
<1> QED BY <1>3, <1>7, <1>8, AnyReportCredits

\* find_cost_reduction_synergy goes through the candidate's rows.
LEMMA ReducersCredit ==
    ASSUME NEW a, NEW b, NEW k, NEW l, Alike(a, b), Permuted(k.ports, l.ports)
    PROVE  Credits(find_cost_reduction_synergy(a, k), find_cost_reduction_synergy(b, l))
<1>1. WantedSpells(Rows(a)) = WantedSpells(Rows(b))
  BY DEF Alike
<1> DEFINE W == WantedSpells(Rows(a))
           found(t) == When(t # "", {Complement("cost_reducer", "SpellCast_" \o t, "ReduceCost_" \o t, t)})
           F == [i \in DOMAIN k.ports |-> found(reduced_spell(W, k.ports[i]))]
           G == [i \in DOMAIN l.ports |-> found(reduced_spell(W, l.ports[i]))]
<1>2. /\ find_cost_reduction_synergy(a, k) = When(W # {}, FirstFound(F))
      /\ find_cost_reduction_synergy(b, l) = When(W # {}, FirstFound(G))
  BY <1>1 DEF find_cost_reduction_synergy, FirstOf
<1>3. \A i \in DOMAIN k.ports, j \in DOMAIN l.ports : k.ports[i] = l.ports[j] => F[i] = G[j]
  OBVIOUS
<1>4. DOMAIN F = DOMAIN k.ports /\ DOMAIN G = DOMAIN l.ports
  OBVIOUS
<1>5. (\A i \in DOMAIN F : Under("cost_reducer", F[i])) /\ \A i \in DOMAIN G : Under("cost_reducer", G[i])
  <2>1. \A t : Under("cost_reducer", found(t))
    BY OneReports
  <2> HIDE DEF found
  <2> QED BY <2>1
<1> HIDE DEF F, G, W
<1>6. FirstFound(F) # {} => FirstFound(G) # {}
  BY <1>3, <1>4, LoopsFindAlike
<1>7. Under("cost_reducer", FirstFound(F)) /\ Under("cost_reducer", FirstFound(G))
  BY <1>5, FirstReports
<1>8. CASE W # {}
  BY <1>2, <1>6, <1>7, <1>8, AnyReportCredits DEF When
<1>9. CASE W = {}
  BY <1>2, <1>9 DEF When, Credits
<1> QED BY <1>8, <1>9

\* find_effect_feeds_etb goes through the candidate's rows, and through the
\* alternatives of each.
LEMMA EntriesCredit ==
    ASSUME NEW a, NEW b, NEW k, NEW l, Alike(a, b), Alike(k, l), Permuted(k.ports, l.ports)
    PROVE  Credits(find_effect_feeds_etb(a, k), find_effect_feeds_etb(b, l))
<1>1. ASSUME NEW p PROVE fed_entry(a, k, p) = fed_entry(b, l, p)
  <2>1. ForeignTokens(a) = ForeignTokens(b) /\ IsCreature(k) = IsCreature(l)
    BY PoolsReadRows
  <2>2. cmdr_produces(a) = cmdr_produces(b)
    BY <2>1 DEF Alike, cmdr_produces
  <2> QED BY <2>1, <2>2 DEF fed_entry, FirstOf, When
<1>2. ASSUME NEW x, NEW y, NEW p PROVE Under("effect_feeds_trigger", fed_entry(x, y, p))
  <2> DEFINE ownEntry(base) == /\ base = "Creature" /\ ForeignTokens(x) # {}
                               /\ ~Mentions(p.filter, "Other") /\ IsCreature(y)
             fed(base) == /\ \E made \in cmdr_produces(x) : made[1] = base /\ p.dest \in {"", "Any", made[2]}
                          /\ ~ownEntry(base)
             found(base) == When(fed(base), {Complement("effect_feeds_trigger", "Token_" \o base, "ChangesZone_" \o base, "")})
             f == [i \in DOMAIN p.filter |-> found(Base(p.filter[i]))]
  <2>1. fed_entry(x, y, p) = FirstFound(f)
    BY DEF fed_entry, FirstOf
  <2>2. \A base : Under("effect_feeds_trigger", found(base))
    BY OneReports
  <2>3. \A i \in DOMAIN f : Under("effect_feeds_trigger", f[i])
    <3> HIDE DEF found
    <3> QED BY <2>2
  <2> HIDE DEF f
  <2> QED BY <2>1, <2>3, FirstReports
<1> DEFINE watches(p) == Is(p, "trigger", {"ChangesZone"}) /\ p.filter # <<>> /\ ~trigger_only_matches_self(p.filter)
           F == [i \in DOMAIN k.ports |-> When(watches(k.ports[i]), fed_entry(a, k, k.ports[i]))]
           G == [i \in DOMAIN l.ports |-> When(watches(l.ports[i]), fed_entry(b, l, l.ports[i]))]
<1>3. find_effect_feeds_etb(a, k) = FirstFound(F) /\ find_effect_feeds_etb(b, l) = FirstFound(G)
  BY DEF find_effect_feeds_etb, FirstOf
<1>4. \A i \in DOMAIN k.ports, j \in DOMAIN l.ports : k.ports[i] = l.ports[j] => F[i] = G[j]
  BY <1>1 DEF When
<1>5. DOMAIN F = DOMAIN k.ports /\ DOMAIN G = DOMAIN l.ports
  OBVIOUS
<1>6. (\A i \in DOMAIN F : Under("effect_feeds_trigger", F[i])) /\ \A i \in DOMAIN G : Under("effect_feeds_trigger", G[i])
  BY <1>2, WhenReports
<1> HIDE DEF F, G
<1>7. FirstFound(F) # {} => FirstFound(G) # {}
  BY <1>4, <1>5, LoopsFindAlike
<1>8. Under("effect_feeds_trigger", FirstFound(F)) /\ Under("effect_feeds_trigger", FirstFound(G))
  BY <1>6, FirstReports
<1> QED BY <1>3, <1>7, <1>8, AnyReportCredits

\* find_opponent_forcing goes through the commander's rows, and through the effects
\* that each trigger wants.
LEMMA ForcersCredit ==
    ASSUME NEW a, NEW b, NEW k, NEW l, Alike(k, l), Permuted(a.ports, b.ports)
    PROVE  Credits(find_opponent_forcing(a, k), find_opponent_forcing(b, l))
<1>1. ASSUME NEW p PROVE forced_effect(k, p) = forced_effect(l, p)
  BY DEF Alike, forced_effect, FirstOf, Pool, When, SomeRow
<1>2. ASSUME NEW y, NEW p PROVE Under("opponent_forcing", forced_effect(y, p))
  <2> DEFINE forces(e) == SomeRow(y, "effect", {e}, LAMBDA r :
                 IF e = "Draw" THEN r.filter \in DRAW_FILTERS \/ Mentions(r.filter, "Each") ELSE r.filter \in OPPONENT_FILTERS)
             found(e) == Pool("opponent_forcing", p.event, "force_" \o e, forces(e))
             wanted == OPPONENT_TRIGGER_TO_EFFECT[p.event]
             f == [i \in DOMAIN wanted |-> found(wanted[i])]
  <2>1. forced_effect(y, p) = FirstFound(f)
    BY DEF forced_effect, FirstOf
  <2>2. \A e : Under("opponent_forcing", found(e))
    BY OneReports DEF Pool
  <2>3. \A i \in DOMAIN f : Under("opponent_forcing", f[i])
    <3> HIDE DEF found, wanted
    <3> QED BY <2>2
  <2> HIDE DEF f
  <2> QED BY <2>1, <2>3, FirstReports
<1> DEFINE watches(p) == Is(p, "trigger", DOMAIN OPPONENT_TRIGGER_TO_EFFECT) /\ OpponentFacing(p.filter)
           F == [i \in DOMAIN a.ports |-> When(watches(a.ports[i]), forced_effect(k, a.ports[i]))]
           G == [i \in DOMAIN b.ports |-> When(watches(b.ports[i]), forced_effect(l, b.ports[i]))]
<1>3. find_opponent_forcing(a, k) = FirstFound(F) /\ find_opponent_forcing(b, l) = FirstFound(G)
  BY DEF find_opponent_forcing, FirstOf
<1>4. \A i \in DOMAIN a.ports, j \in DOMAIN b.ports : a.ports[i] = b.ports[j] => F[i] = G[j]
  BY <1>1 DEF When
<1>5. DOMAIN F = DOMAIN a.ports /\ DOMAIN G = DOMAIN b.ports
  OBVIOUS
<1>6. (\A i \in DOMAIN F : Under("opponent_forcing", F[i])) /\ \A i \in DOMAIN G : Under("opponent_forcing", G[i])
  BY <1>2, WhenReports
<1> HIDE DEF F, G
<1>7. FirstFound(F) # {} => FirstFound(G) # {}
  BY <1>4, <1>5, LoopsFindAlike
<1>8. Under("opponent_forcing", FirstFound(F)) /\ Under("opponent_forcing", FirstFound(G))
  BY <1>6, FirstReports
<1> QED BY <1>3, <1>7, <1>8, AnyReportCredits

\* The rules that read one row and not another.
LEMMA OrderedRules ==
    ASSUME NEW a, NEW k
    PROVE  /\ Under("combat_enhancer", find_combat_enhancers(a, k))
           /\ Under("cost_feeds_trigger", find_sacrifice_outlets(a, k))
           /\ Under("panharmonicon", find_panharmonicon_complements(a, k))
           /\ Under("affinity_archetype", find_affinity_archetype(a, k))
<1>1. Under("combat_enhancer", find_combat_enhancers(a, k))
  <2> DEFINE found(e) == {Complement("combat_enhancer", "DamageDone", e, "")}
             A == When(HasPort(Rows(k), "effect", {"AddPhase"}), found("AddPhase"))
             B == When(HasPort(Rows(k), "keyword", {"Double Strike"}), found("DoubleStrike"))
  <2>1. Under("combat_enhancer", A) /\ Under("combat_enhancer", B)
    BY OneReports
  <2>2. find_combat_enhancers(a, k) = When(WantsCombat(a.ports), FirstFound(<<A, B>>))
    BY DEF find_combat_enhancers
  <2> HIDE DEF A, B
  <2>3. Under("combat_enhancer", FirstFound(<<A, B>>))
    BY <2>1, TwoReport
  <2> QED BY <2>2, <2>3, WhenReports
<1>2. Under("cost_feeds_trigger", find_sacrifice_outlets(a, k))
  BY OneReports DEF find_sacrifice_outlets
<1>3. Under("panharmonicon", find_panharmonicon_complements(a, k))
  BY OneReports DEF find_panharmonicon_complements
<1>4. Under("affinity_archetype", find_affinity_archetype(a, k))
  <2> DEFINE type == affinity_type(a)
             starts(p, c) == HasClause(p, c) /\ Base(Clause(p, c)[1]) = type
             found(e, cond) == When(cond, {Complement("affinity_archetype", "Affinity_" \o type, e, "")})
             A == found("typed_land", {"Land", type} \subseteq k.types)
             B == found("cost_reducer", SomeRow(k, "static", {"ReduceCost"},
                                                LAMBDA p : starts(p, "ValidCard") \/ starts(p, "Type")))
             C == found("cheap_typed", type \in k.types /\ "Land" \notin k.types /\ k.cmc <= 1)
  <2>1. Under("affinity_archetype", A) /\ Under("affinity_archetype", B) /\ Under("affinity_archetype", C)
    BY OneReports
  <2>2. find_affinity_archetype(a, k) = When(type # "", FirstFound(<<A, B, C>>))
    BY DEF find_affinity_archetype, supports_affinity
  <2> HIDE DEF A, B, C
  <2>3. Under("affinity_archetype", FirstFound(<<A, B, C>>))
    BY <2>1, ThreeReport
  <2> QED BY <2>2, <2>3, WhenReports
<1> QED BY <1>1, <1>2, <1>3, <1>4

-----------------------------------------------------------------------------
(* The first pair of rows that a rule matches, and the first path in a card. *)

\* The pair rules that credit a card are the same.
LEMMA PairRulesAlike ==
    ASSUME NEW a, NEW b, NEW k, NEW l, Permuted(a.ports, b.ports), Permuted(k.ports, l.ports),
           NEW c \in find_pair_complements(a, k)
    PROVE  \E d \in find_pair_complements(b, l) : d.rule = c.rule
<1>1. ~stax_excluded(a, k) /\ \E rule \in COMPLEMENT_RULES : \E at \in Matches(rule, a, k) :
          c = PairComplement(rule, a.ports[at[1]], k.ports[at[2]])
  BY DEF find_pair_complements, When
<1>2a. PICK rule \in COMPLEMENT_RULES : \E at \in Matches(rule, a, k) :
          c = PairComplement(rule, a.ports[at[1]], k.ports[at[2]])
  BY <1>1
<1>2. PICK at \in Matches(rule, a, k) : c = PairComplement(rule, a.ports[at[1]], k.ports[at[2]])
  BY <1>2a
<1>3. ~stax_excluded(b, l)
  <2>1. ToSet(a.ports) = ToSet(b.ports) /\ ToSet(k.ports) = ToSet(l.ports)
    BY PermutedRows DEF Rows
  <2> QED BY <1>1, <2>1 DEF stax_excluded
<1>4. Matches(rule, b, l) # {}
  <2>1. /\ at[1] \in DOMAIN a.ports /\ at[2] \in DOMAIN k.ports
        /\ matched(rule, a.ports[at[1]], k.ports[at[2]])
    BY <1>2 DEF Matches
  <2>2. PICK i \in DOMAIN b.ports : b.ports[i] = a.ports[at[1]]
    BY <2>1, RowsHavePlaces
  <2>3. PICK j \in DOMAIN l.ports : l.ports[j] = k.ports[at[2]]
    BY <2>1, RowsHavePlaces
  <2>4. <<i, j>> \in Matches(rule, b, l)
    BY <2>1, <2>2, <2>3 DEF Matches
  <2> QED BY <2>4
<1>5. Matches(rule, b, l) \in SUBSET (Nat \X Nat)
  <2>1. DOMAIN b.ports \subseteq Nat /\ DOMAIN l.ports \subseteq Nat
    BY DEF Permuted
  <2> QED BY <2>1 DEF Matches
<1>6. PICK e \in Matches(rule, b, l) :
          \A d \in Matches(rule, b, l) : e[1] < d[1] \/ (e[1] = d[1] /\ e[2] <= d[2])
  BY <1>4, <1>5, FirstPlaces
<1>7. ~Seen(rule, b, l, e)
  <2> SUFFICES ASSUME NEW d \in Matches(rule, b, l), d[1] < e[1] \/ (d[1] = e[1] /\ d[2] < e[2]) PROVE FALSE
    BY DEF Seen
  <2>1. d[1] \in Nat /\ d[2] \in Nat /\ e[1] \in Nat /\ e[2] \in Nat
    BY <1>5
  <2> QED BY <2>1, <1>6
<1>8. PairComplement(rule, b.ports[e[1]], l.ports[e[2]]) \in find_pair_complements(b, l)
  BY <1>3, <1>6, <1>7 DEF find_pair_complements, When
<1> QED BY <1>8, <1>2 DEF PairComplement

LEMMA EdgesBothWays ==
    ASSUME NEW p, NEW r, walk_edge(p, r)
    PROVE  walk_edge(r, p)
BY DEF walk_edge, event_match_edge, cost_feeds_edge

LEMMA SelfPathsAlike ==
    ASSUME NEW a, NEW b, NEW k, NEW l, Alike(a, b), Alike(k, l),
           Permuted(a.ports, b.ports), Permuted(k.ports, l.ports), find_self_bridging_cascade(a, k) # {}
    PROVE  find_self_bridging_cascade(b, l) # {}
<1>1. prefilter(a, k) /\ Bridge(a, k) # {}
  BY DEF find_self_bridging_cascade, When
<1>2. prefilter(b, l)
  <2>1. Rows(a) = Rows(b) /\ Rows(k) = Rows(l) /\ Len(a.ports) = Len(b.ports)
    BY DEF Alike, Permuted
  <2>2. stax_excluded(a, k) = stax_excluded(b, l)
    BY <2>1 DEF stax_excluded, Rows
  <2> QED BY <1>1, <2>1, <2>2 DEF prefilter
<1> DEFINE A == {i \in DOMAIN k.ports : \E c \in Rows(a) : port_pair_matches(c, k.ports[i])}
           B == {i \in DOMAIN l.ports : \E c \in Rows(b) : port_pair_matches(c, l.ports[i])}
           F == {ij \in B \X B : ij[1] < ij[2] /\ walk_edge(l.ports[ij[1]], l.ports[ij[2]])}
<1>3. PICK i \in A, j \in A : i < j /\ walk_edge(k.ports[i], k.ports[j])
  BY <1>1 DEF Bridge, walk_self_paths, earliest
<1>4. F # {}
  <2>1. PICK g, h \in [1..Len(k.ports) -> 1..Len(k.ports)] :
            /\ \A m \in 1..Len(k.ports) : l.ports[g[m]] = k.ports[m] /\ h[g[m]] = m
            /\ \A m \in 1..Len(k.ports) : k.ports[h[m]] = l.ports[m] /\ g[h[m]] = m
    BY DEF Permuted
  <2>2. /\ i \in 1..Len(k.ports) /\ j \in 1..Len(k.ports) /\ Len(k.ports) \in Nat
        /\ DOMAIN l.ports = 1..Len(k.ports)
    BY DEF Permuted
  <2>3. g[i] \in B /\ g[j] \in B
    <3>1. g[i] \in DOMAIN l.ports /\ g[j] \in DOMAIN l.ports
      BY <2>1, <2>2
    <3>2. l.ports[g[i]] = k.ports[i] /\ l.ports[g[j]] = k.ports[j]
      BY <2>1, <2>2
    <3>3. Rows(a) = Rows(b)
      BY DEF Alike
    <3> QED BY <3>1, <3>2, <3>3
  <2>4. g[i] # g[j] /\ g[i] \in Int /\ g[j] \in Int
    <3>1. i # j /\ h[g[i]] = i /\ h[g[j]] = j
      BY <2>1, <2>2, <1>3
    <3>2. g[i] \in 1..Len(k.ports) /\ g[j] \in 1..Len(k.ports)
      BY <2>1, <2>2
    <3> QED BY <3>1, <3>2, <2>2
  <2>5. walk_edge(l.ports[g[i]], l.ports[g[j]]) /\ walk_edge(l.ports[g[j]], l.ports[g[i]])
    <3>1. l.ports[g[i]] = k.ports[i] /\ l.ports[g[j]] = k.ports[j]
      BY <2>1, <2>2
    <3> QED BY <3>1, <1>3, EdgesBothWays
  <2>6. <<g[i], g[j]>> \in F \/ <<g[j], g[i]>> \in F
    BY <2>3, <2>4, <2>5
  <2> QED BY <2>6
<1>5. F \in SUBSET (Nat \X Nat)
  <2>1. DOMAIN l.ports \subseteq Nat
    BY DEF Permuted
  <2> QED BY <2>1
<1>6. PICK e \in F : \A d \in F : e[1] < d[1] \/ (e[1] = d[1] /\ e[2] <= d[2])
  <2> HIDE DEF F
  <2> QED BY <1>4, <1>5, FirstPlaces
<1>7. e \in earliest(F)
  BY <1>6 DEF earliest
<1>8. Bridge(b, l) # {}
  BY <1>7 DEF Bridge, walk_self_paths
<1> QED BY <1>2, <1>8 DEF find_self_bridging_cascade, When

LEMMA SelfPathsCredit ==
    ASSUME NEW a, NEW b, NEW k, NEW l, Alike(a, b), Alike(k, l),
           Permuted(a.ports, b.ports), Permuted(k.ports, l.ports)
    PROVE  Credits(find_self_bridging_cascade(a, k), find_self_bridging_cascade(b, l))
<1>1. ASSUME NEW x, NEW y PROVE Under("self_bridging_cascade", find_self_bridging_cascade(x, y))
  <2>1. \A r, u, v, w : Complement(r, u, v, w).rule = r
    BY DEF Complement
  <2> QED BY <2>1 DEF find_self_bridging_cascade, Under
<1> QED BY <1>1, SelfPathsAlike, AnyReportCredits

-----------------------------------------------------------------------------
(* All the rules together.                                                   *)

LEMMA EqualCredit == ASSUME NEW X, NEW Y, X = Y PROVE Credits(X, Y)
BY DEF Credits

LEMMA PoolCredits ==
    ASSUME NEW a, NEW b, NEW k, NEW l, Alike(a, b), Alike(k, l),
           Permuted(a.ports, b.ports), Permuted(k.ports, l.ports), NEW vocab
    PROVE  Credits(pool_complements(a, k, vocab), pool_complements(b, l, vocab))
<1>1. /\ find_lord_complements(a, k) = find_lord_complements(b, l)
      /\ find_etb_self_complements(a, k) = find_etb_self_complements(b, l)
      /\ find_scaling_complements(a, k) = find_scaling_complements(b, l)
      /\ find_spellcast_density_complements(a, k) = find_spellcast_density_complements(b, l)
      /\ find_changeszone_resonance(a, k) = find_changeszone_resonance(b, l)
      /\ find_subject_zone_feeders(a, k) = find_subject_zone_feeders(b, l)
      /\ find_graveyard_fillers(a, k) = find_graveyard_fillers(b, l)
      /\ find_extra_land_plays(a, k) = find_extra_land_plays(b, l)
      /\ find_landfall_enablers(a, k) = find_landfall_enablers(b, l)
      /\ find_creatures_as_lands_landfall(a, k) = find_creatures_as_lands_landfall(b, l)
      /\ find_flicker_synergy(a, k) = find_flicker_synergy(b, l)
      /\ find_cost_payoff_complements(a, k) = find_cost_payoff_complements(b, l)
      /\ find_token_producers_for_trigger(a, k) = find_token_producers_for_trigger(b, l)
      /\ find_subtype_supply_complements(a, k, vocab) = find_subtype_supply_complements(b, l, vocab)
      /\ find_static_strategy(a, k) = find_static_strategy(b, l)
      /\ find_attack_payoffs(a, k) = find_attack_payoffs(b, l)
      /\ find_wheel_synergy(a, k) = find_wheel_synergy(b, l)
      /\ find_artifact_recursion(a, k) = find_artifact_recursion(b, l)
      /\ find_copy_synergy(a, k) = find_copy_synergy(b, l)
      /\ find_token_etb_damage(a, k) = find_token_etb_damage(b, l)
      /\ find_dies_drain(a, k) = find_dies_drain(b, l)
      /\ find_gy_loader(a, k) = find_gy_loader(b, l)
      /\ find_reverse_panharmonicon(a, k) = find_reverse_panharmonicon(b, l)
      /\ find_panharmonicon_stacking(a, k) = find_panharmonicon_stacking(b, l)
      /\ find_evasion_complements(a, k) = find_evasion_complements(b, l)
  BY DensityRulesReadRows, CombatRulesReadRows, GraveyardRulesReadRows, UtilityRulesReadRows, FeederRulesReadRows, StaticRulesReadRows, SupplyRulesReadRows
<1>2. Credits(find_effect_feeds_etb(a, k), find_effect_feeds_etb(b, l))
  BY EntriesCredit
<1>3. Credits(find_sacrifice_outlets(a, k), find_sacrifice_outlets(b, l))
  <2>1. Under("cost_feeds_trigger", find_sacrifice_outlets(a, k)) /\ Under("cost_feeds_trigger", find_sacrifice_outlets(b, l))
    BY OrderedRules
  <2> QED BY <2>1, OrderedCredits DEF RowsInOrder
<1>4. Credits(find_panharmonicon_complements(a, k), find_panharmonicon_complements(b, l))
  <2>1. Under("panharmonicon", find_panharmonicon_complements(a, k)) /\ Under("panharmonicon", find_panharmonicon_complements(b, l))
    BY OrderedRules
  <2> QED BY <2>1, OrderedCredits DEF RowsInOrder
<1>5. Credits(find_scales_with_density(a, k), find_scales_with_density(b, l))
  BY ScalersCredit
<1>6. Credits(find_opponent_forcing(a, k), find_opponent_forcing(b, l))
  BY ForcersCredit
<1>7. Credits(find_combat_enhancers(a, k), find_combat_enhancers(b, l))
  <2>1. Under("combat_enhancer", find_combat_enhancers(a, k)) /\ Under("combat_enhancer", find_combat_enhancers(b, l))
    BY OrderedRules
  <2> QED BY <2>1, OrderedCredits DEF RowsInOrder
<1> QED BY <1>1, <1>2, <1>3, <1>4, <1>5, <1>6, <1>7 DEF Credits, pool_complements

LEMMA EngineCredits ==
    ASSUME NEW a, NEW b, NEW k, NEW l, Alike(a, b), Alike(k, l), Permuted(k.ports, l.ports)
    PROVE  Credits(engine_complements(a, k), engine_complements(b, l))
<1>1. /\ find_spellcast_resonance(a, k) = find_spellcast_resonance(b, l)
      /\ find_untap_synergy(a, k) = find_untap_synergy(b, l)
      /\ find_untap_combo(a, k) = find_untap_combo(b, l)
      /\ find_multicolor_untap(a, k) = find_multicolor_untap(b, l)
      /\ find_graveyard_play_synergy(a, k) = find_graveyard_play_synergy(b, l)
      /\ find_edict_feeders(a, k) = find_edict_feeders(b, l)
      /\ find_value_engine_density(a, k) = find_value_engine_density(b, l)
      /\ find_cheat_cmc_bonus(a, k) = find_cheat_cmc_bonus(b, l)
      /\ find_counter_doubler_synergy(a, k) = find_counter_doubler_synergy(b, l)
      /\ find_counter_keyword_synergy(a, k) = find_counter_keyword_synergy(b, l)
      /\ find_proliferate_synergy(a, k) = find_proliferate_synergy(b, l)
      /\ find_mana_doubler_synergy(a, k) = find_mana_doubler_synergy(b, l)
      /\ find_graveyard_sac_value(a, k) = find_graveyard_sac_value(b, l)
      /\ find_cost_reduction_targets(a, k) = find_cost_reduction_targets(b, l)
      /\ find_land_to_gy_synergy(a, k) = find_land_to_gy_synergy(b, l)
      /\ find_cascade_value(a, k) = find_cascade_value(b, l)
      /\ find_flicker_payoffs(a, k) = find_flicker_payoffs(b, l)
      /\ find_counter_target_payoff(a, k) = find_counter_target_payoff(b, l)
      /\ find_creature_untap_engine(a, k) = find_creature_untap_engine(b, l)
      /\ find_counter_axis_feeders(a, k) = find_counter_axis_feeders(b, l)
      /\ find_modified_axis_feeders(a, k) = find_modified_axis_feeders(b, l)
      /\ find_cardpower_axis_feeders(a, k) = find_cardpower_axis_feeders(b, l)
      /\ find_tap_type_feeders(a, k) = find_tap_type_feeders(b, l)
      /\ find_hand_size_feeders(a, k) = find_hand_size_feeders(b, l)
      /\ find_gy_fuel_feeders(a, k) = find_gy_fuel_feeders(b, l)
      /\ find_lifegain_feeders(a, k) = find_lifegain_feeders(b, l)
      /\ find_life_total_feeders(a, k) = find_life_total_feeders(b, l)
      /\ find_land_bounce_feeders(a, k) = find_land_bounce_feeders(b, l)
      /\ find_creature_died_feeders(a, k) = find_creature_died_feeders(b, l)
      /\ find_damage_doubler_synergy(a, k) = find_damage_doubler_synergy(b, l)
      /\ find_prepared_mechanic_complements(a, k) = find_prepared_mechanic_complements(b, l)
  BY DensityRulesReadRows, UtilityRulesReadRows, StaticRulesReadRows, GraveyardRulesReadRows, FeederRulesReadRows, SupplyRulesReadRows
<1>2. Credits(find_cost_reduction_synergy(a, k), find_cost_reduction_synergy(b, l))
  BY ReducersCredit
<1>3. Credits(find_affinity_archetype(a, k), find_affinity_archetype(b, l))
  <2>1. Under("affinity_archetype", find_affinity_archetype(a, k)) /\ Under("affinity_archetype", find_affinity_archetype(b, l))
    BY OrderedRules
  <2> QED BY <2>1, OrderedCredits DEF RowsInOrder
<1> QED BY <1>1, <1>2, <1>3 DEF Credits, engine_complements

LEMMA FlaggedCredits ==
    ASSUME NEW a, NEW b, NEW k, NEW l, Alike(a, b), Alike(k, l),
           Permuted(a.ports, b.ports), Permuted(k.ports, l.ports), NEW ctx
    PROVE  Credits(flagged_complements(a, k, ctx), flagged_complements(b, l, ctx))
<1>1. /\ find_tribal_density_complements(a, k, ctx) = find_tribal_density_complements(b, l, ctx)
      /\ find_team_anthem_payoffs(a, k, ctx) = find_team_anthem_payoffs(b, l, ctx)
      /\ find_death_outlet_complements(a, k, ctx) = find_death_outlet_complements(b, l, ctx)
      /\ find_attack_reward_evasion(a, k, ctx) = find_attack_reward_evasion(b, l, ctx)
      /\ find_x_cost_scaler(a, k, ctx) = find_x_cost_scaler(b, l, ctx)
      /\ find_aristocrats_death_bridge(a, k, ctx) = find_aristocrats_death_bridge(b, l, ctx)
  BY DensityRulesReadRows, StaticRulesReadRows, SupplyRulesReadRows, CombatRulesReadRows
<1>2. Credits(find_self_bridging_cascade(a, k), find_self_bridging_cascade(b, l))
  BY SelfPathsCredit
<1> QED BY <1>1, <1>2 DEF Credits, flagged_complements, When

LEMMA AllCredit ==
    ASSUME NEW a, NEW b, NEW k, NEW l, Alike(a, b), Alike(k, l),
           Permuted(a.ports, b.ports), Permuted(k.ports, l.ports), NEW ctx, NEW vocab
    PROVE  Credits(find_all_complements(a, k, ctx, vocab), find_all_complements(b, l, ctx, vocab))
<1>1. Credits(pool_complements(a, k, vocab), pool_complements(b, l, vocab))
  BY PoolCredits
<1>2. Credits(engine_complements(a, k), engine_complements(b, l))
  BY EngineCredits
<1>3. Credits(flagged_complements(a, k, ctx), flagged_complements(b, l, ctx))
  BY FlaggedCredits
<1> DEFINE pairs(x, y) == {[rule |-> c.rule, cmdr |-> c.cmdr, cand |-> c.cand, group |-> c.group]
                               : c \in find_pair_complements(x, y)}
<1>4. Credits(pairs(a, k), pairs(b, l))
  <2> SUFFICES ASSUME NEW c \in find_pair_complements(a, k)
               PROVE  \E d \in pairs(b, l) : d.rule = c.rule
    BY DEF Credits
  <2>1. PICK d \in find_pair_complements(b, l) : d.rule = c.rule
    BY PairRulesAlike
  <2>2. PICK e : e = [rule |-> d.rule, cmdr |-> d.cmdr, cand |-> d.cand, group |-> d.group]
    OBVIOUS
  <2>3. e \in pairs(b, l) /\ e.rule = c.rule
    BY <2>1, <2>2
  <2> QED BY <2>3
<1> HIDE DEF pairs
<1>5. ASSUME NEW x, NEW y
      PROVE  find_all_complements(x, y, ctx, vocab)
                 = (pool_complements(x, y, vocab) \cup engine_complements(x, y) \cup flagged_complements(x, y, ctx))
                   \cup pairs(x, y)
  BY DEF find_all_complements, card_attr_complements, pairs
<1> QED BY <1>1, <1>2, <1>3, <1>4, <1>5 DEF Credits

LEMMA AlikeBack == ASSUME NEW a, NEW b, Alike(a, b) PROVE Alike(b, a)
BY DEF Alike

\* The rules of X that do not read rows in order.
Crediting(X) == {c.rule : c \in X} \ RowsInOrder

\* For every two cards, every state of the flags and every database: which rules credit
\* the candidate does not depend on the order in which the rows of either card arrive,
\* the four rules that read their rows in order aside.
THEOREM RulesIgnoreRowOrder ==
    ASSUME NEW a, NEW b, NEW k, NEW l, Alike(a, b), Alike(k, l),
           Permuted(a.ports, b.ports), Permuted(k.ports, l.ports), NEW ctx, NEW vocab
    PROVE  Crediting(find_all_complements(a, k, ctx, vocab)) = Crediting(find_all_complements(b, l, ctx, vocab))
<1>1. Credits(find_all_complements(a, k, ctx, vocab), find_all_complements(b, l, ctx, vocab))
  BY AllCredit
<1>2. Credits(find_all_complements(b, l, ctx, vocab), find_all_complements(a, k, ctx, vocab))
  <2>1. Alike(b, a) /\ Alike(l, k) /\ Permuted(b.ports, a.ports) /\ Permuted(l.ports, k.ports)
    BY AlikeBack, PermutedBack
  <2> QED BY <2>1, AllCredit
<1> QED BY <1>1, <1>2 DEF Credits, Crediting

\* A sequence and its reverse have the same rows.
LEMMA ReversePermutes ==
    ASSUME NEW S, NEW s \in Seq(S)
    PROVE  Permuted(s, Reverse(s))
<1> DEFINE n == Len(s)
           g == [i \in 1..n |-> n + 1 - i]
<1>1. n \in Nat /\ DOMAIN s = 1..n
  OBVIOUS
<1>2. Reverse(s) = [i \in 1..n |-> s[(n - i) + 1]]
  BY DEF Reverse
<1> HIDE DEF n
<1>3. Len(Reverse(s)) = n /\ DOMAIN Reverse(s) = 1..n
  BY <1>1, <1>2
<1>4. g \in [1..n -> 1..n]
  BY <1>1
<1>5. /\ \A i \in 1..n : Reverse(s)[g[i]] = s[i] /\ g[g[i]] = i
      /\ \A j \in 1..n : s[g[j]] = Reverse(s)[j] /\ g[g[j]] = j
  <2> SUFFICES ASSUME NEW i \in 1..n
               PROVE  Reverse(s)[g[i]] = s[i] /\ g[g[i]] = i /\ s[g[i]] = Reverse(s)[i]
    OBVIOUS
  <2>1. g[i] = n + 1 - i /\ g[i] \in 1..n /\ i \in Int
    BY <1>1
  <2>2. (n - g[i]) + 1 = i /\ (n - i) + 1 = g[i]
    BY <1>1, <2>1
  <2>3. Reverse(s)[g[i]] = s[(n - g[i]) + 1] /\ Reverse(s)[i] = s[(n - i) + 1]
    BY <1>2, <2>1
  <2>4. g[g[i]] = n + 1 - g[i]
    BY <2>1
  <2> QED BY <1>1, <2>1, <2>2, <2>3, <2>4
<1> HIDE DEF g
<1> QED BY <1>1, <1>3, <1>4, <1>5 DEF Permuted, n

\* A card and the same card with its rows reversed.
LEMMA ReversedIsAlike ==
    ASSUME NEW card, DOMAIN Card("", {}, {}, <<>>) \subseteq DOMAIN card, NEW S, card.ports \in Seq(S),
           NEW r, r = [card EXCEPT !.ports = Reverse(@)]
    PROVE  Alike(card, r) /\ Permuted(card.ports, r.ports)
<1>1. {"name", "types", "subs", "supers", "cmc", "power", "tough", "kws", "ports"} \subseteq DOMAIN card
  BY DEF Card
<1>2. r.ports = Reverse(card.ports)
  BY <1>1
<1>3. Permuted(card.ports, r.ports)
  BY <1>2, ReversePermutes
<1>4. Rows(card) = Rows(r)
  BY <1>3, PermutedRows
<1> QED BY <1>1, <1>3, <1>4 DEF Alike

\* For every family of ports and candidates: the rules that credit the candidate are the
\* same when the rows of both cards arrive in the opposite order.
THEOREM RowOrderDoesNotMatter == RuleSpec => []RowOrderIrrelevant
<1>1. RulesInv => RowOrderIrrelevant
  <2> DEFINE b == [q.cmdr EXCEPT !.ports = Reverse(@)]
             l == [q.card EXCEPT !.ports = Reverse(@)]
  <2> SUFFICES ASSUME RulesInv, q.kind = "rules"
               PROVE  Cardinality({{c.rule : c \in Complements(o[1], o[2])} \ RowsInOrder
                                   : o \in {<<q.cmdr, q.card>>, <<b, l>>}}) = 1
    BY DEF RowOrderIrrelevant
  <2>1. Alike(q.cmdr, b) /\ Permuted(q.cmdr.ports, b.ports)
    <3>1. q.cmdr \in Commanders
      BY DEF RulesInv
    <3>2. DOMAIN Card("", {}, {}, <<>>) \subseteq DOMAIN q.cmdr /\ q.cmdr.ports \in Seq(TypedPorts)
      BY <3>1 DEF Commanders, Card
    <3> QED BY <3>2, ReversedIsAlike
  <2>2. Alike(q.card, l) /\ Permuted(q.card.ports, l.ports)
    <3>1. PICK family \in Families : q.card \in family.cards
      BY DEF RulesInv
    <3> QED BY <3>1, RuleAssumption, ReversedIsAlike
  <2> HIDE DEF b, l
  <2>3. Crediting(Complements(q.cmdr, q.card)) = Crediting(Complements(b, l))
    BY <2>1, <2>2, RulesIgnoreRowOrder DEF Complements
  <2>4. PICK x : x = {c.rule : c \in Complements(q.cmdr, q.card)} \ RowsInOrder
                 /\ x = {c.rule : c \in Complements(b, l)} \ RowsInOrder
    BY <2>3 DEF Crediting
  <2>5. {{c.rule : c \in Complements(o[1], o[2])} \ RowsInOrder : o \in {<<q.cmdr, q.card>>, <<b, l>>}} = {x}
    BY <2>4
  <2> QED BY <2>5, FS_Singleton
<1> QED BY <1>1, RulesTyped, PTL

-----------------------------------------------------------------------------
(* Predicate trees compiled twice                                          *)

\* A tree as the text is read: a parent stands before its arguments, and only a leaf
\* that compares has fields.
Tree(t) ==
    /\ \E S : t \in Seq(S)
    /\ \A i \in DOMAIN t : /\ t[i].parent \in Nat /\ t[i].parent < i /\ t[i].fields \in Seq(STRING \X STRING)
                           /\ t[i].op \in Connectives \cup {"not_in_commander_set"} => t[i].fields = <<>>

LEMMA TreeNodes ==
    ASSUME NEW t, Tree(t)
    PROVE  /\ Len(t) \in Nat /\ DOMAIN t = 1..Len(t)
           /\ \A i \in DOMAIN t : /\ i \in Nat /\ i >= 1 /\ t[i].parent \in Nat
                                  /\ t[i].parent < i /\ t[i].fields \in Seq(STRING \X STRING)
                                  /\ t[i].parent # 0 => t[i].parent \in DOMAIN t
           /\ \A i \in DOMAIN t : \A j \in Args(t, i) : j \in DOMAIN t /\ i < j
<1>1. Len(t) \in Nat /\ DOMAIN t = 1..Len(t)
  BY LenProperties DEF Tree
<1>3. \A i \in DOMAIN t : /\ i \in Nat /\ i >= 1 /\ t[i].parent \in Nat
                          /\ t[i].parent < i /\ t[i].fields \in Seq(STRING \X STRING)
  BY <1>1 DEF Tree
<1> QED BY <1>1, <1>3 DEF Args

\* f says of every node up to n whether a NOT stands over it.
Shadows(t, n, f) ==
    f = [j \in 1..n |-> t[j].parent # 0 /\ (t[t[j].parent].op = "not" \/ f[t[j].parent])]

LEMMA UnderNotByNodes ==
    ASSUME NEW t, Tree(t), NEW i
    PROVE  UnderNot(t, i) = (CHOOSE f : Shadows(t, Len(t), f))[i]
BY TreeNodes DEF UnderNot, Shadows

LEMMA ShadowsExist ==
    ASSUME NEW t, Tree(t), NEW n \in Nat
    PROVE  n <= Len(t) => \E f : Shadows(t, n, f)
<1> DEFINE T == {m \in Nat : m <= Len(t) => \E f : Shadows(t, m, f)}
<1>1. 0 \in T
  <2>1. Shadows(t, 0, [j \in 1..0 |-> TRUE]) BY DEF Shadows
  <2> QED BY <2>1
<1>2. \A m \in Nat : m \in T => m + 1 \in T
  <2> SUFFICES ASSUME NEW m \in Nat, m \in T, m + 1 <= Len(t) PROVE \E f : Shadows(t, m + 1, f)
    OBVIOUS
  <2>0. m <= Len(t) BY TreeNodes
  <2>1. PICK f : Shadows(t, m, f) BY <2>0
  <2> DEFINE g == [j \in 1..(m + 1) |-> t[j].parent # 0 /\ (t[t[j].parent].op = "not" \/ f[t[j].parent])]
  <2>2. \A j \in 1..m : g[j] = f[j]
    <3>1. \A j \in 1..m : f[j] = (t[j].parent # 0 /\ (t[t[j].parent].op = "not" \/ f[t[j].parent]))
      BY <2>1 DEF Shadows
    <3> QED BY <3>1
  <2>3. \A j \in 1..(m + 1) : t[j].parent # 0 => t[j].parent \in 1..m
    BY TreeNodes
  <2>4. \A j \in 1..(m + 1) : t[j].parent # 0 => g[t[j].parent] = f[t[j].parent]
    BY <2>2, <2>3
  <2>5. \A j \in 1..(m + 1) : (t[j].parent # 0 /\ (t[t[j].parent].op = "not" \/ f[t[j].parent]))
                            = (t[j].parent # 0 /\ (t[t[j].parent].op = "not" \/ g[t[j].parent]))
    BY <2>4
  <2>6. g = [j \in 1..(m + 1) |-> t[j].parent # 0 /\ (t[t[j].parent].op = "not" \/ g[t[j].parent])]
    BY <2>5
  <2>7. Shadows(t, m + 1, g)
    BY <2>6 DEF Shadows
  <2> QED BY <2>7
<1> HIDE DEF T
<1>3. n \in T BY <1>1, <1>2, SetInduction
<1> QED BY <1>3 DEF T

LEMMA UnderNotStep ==
    ASSUME NEW t, Tree(t), NEW i \in DOMAIN t
    PROVE  /\ UnderNot(t, i) \in BOOLEAN
           /\ UnderNot(t, i) <=> t[i].parent # 0 /\ (t[t[i].parent].op = "not" \/ UnderNot(t, t[i].parent))
<1> DEFINE f == CHOOSE g : Shadows(t, Len(t), g)
<1>1. Shadows(t, Len(t), f)
  BY ShadowsExist, TreeNodes
<1>2. UnderNot(t, i) = f[i] /\ UnderNot(t, t[i].parent) = f[t[i].parent]
  BY UnderNotByNodes
<1>3. i \in 1..Len(t)
  BY TreeNodes
<1> HIDE DEF f
<1>4. f[i] = (t[i].parent # 0 /\ (t[t[i].parent].op = "not" \/ f[t[i].parent]))
  BY <1>1, <1>3 DEF Shadows
<1> QED BY <1>2, <1>4

-----------------------------------------------------------------------------
\* f lists the values of the first nodes, up to n.
Lists(t, n, f) ==
    f = [m \in 0..n |-> IF m = 0 THEN <<>> ELSE f[m - 1] \o [k \in DOMAIN t[m].fields |-> t[m].fields[k][2]]]

LEMMA ParamsByNodes == \A t, n : ParamsUpTo(t, n) = (CHOOSE f : Lists(t, Len(t), f))[n]
BY DEF ParamsUpTo, Lists

LEMMA ListsExist == ASSUME NEW t, NEW n \in Nat PROVE \E f : Lists(t, n, f)
<1> DEFINE T == {m \in Nat : \E f : Lists(t, m, f)}
<1>1. 0 \in T
  <2>1. Lists(t, 0, [m \in 0..0 |-> <<>>]) BY DEF Lists
  <2> QED BY <2>1
<1>2. \A m \in Nat : m \in T => m + 1 \in T
  <2> SUFFICES ASSUME NEW m \in Nat, m \in T PROVE \E f : Lists(t, m + 1, f)
    OBVIOUS
  <2>1. PICK f : Lists(t, m, f) OBVIOUS
  <2> DEFINE g == [x \in 0..(m + 1) |-> IF x = 0 THEN <<>> ELSE f[x - 1] \o [k \in DOMAIN t[x].fields |-> t[x].fields[k][2]]]
  <2>2. \A x \in 0..m : g[x] = f[x]
    <3>1. \A x \in 0..m : f[x] = IF x = 0 THEN <<>> ELSE f[x - 1] \o [k \in DOMAIN t[x].fields |-> t[x].fields[k][2]]
      BY <2>1 DEF Lists
    <3> QED BY <3>1
  <2>3. \A x \in 0..(m + 1) : x # 0 => g[x - 1] = f[x - 1]
    <3>1. \A x \in 0..(m + 1) : x # 0 => x - 1 \in 0..m
      OBVIOUS
    <3> HIDE DEF g
    <3> QED BY <2>2, <3>1
  <2>4. g = [x \in 0..(m + 1) |-> IF x = 0 THEN <<>> ELSE g[x - 1] \o [k \in DOMAIN t[x].fields |-> t[x].fields[k][2]]]
    BY <2>3
  <2>5. Lists(t, m + 1, g) BY <2>4 DEF Lists
  <2> QED BY <2>5
<1> HIDE DEF T
<1>3. n \in T BY <1>1, <1>2, SetInduction
<1> QED BY <1>3 DEF T

Values(node) == [k \in DOMAIN node.fields |-> node.fields[k][2]]

LEMMA ParamsStep ==
    ASSUME NEW t, Tree(t)
    PROVE  /\ ParamsUpTo(t, 0) = <<>>
           /\ \A n \in DOMAIN t : ParamsUpTo(t, n) = ParamsUpTo(t, n - 1) \o Values(t[n])
<1> DEFINE f == CHOOSE g : Lists(t, Len(t), g)
<1>1. Lists(t, Len(t), f)
  BY ListsExist, TreeNodes
<1>2. \A n : ParamsUpTo(t, n) = f[n]
  BY ParamsByNodes
<1> HIDE DEF f
<1>3. \A m \in 0..Len(t) : f[m] = IF m = 0 THEN <<>> ELSE f[m - 1] \o [k \in DOMAIN t[m].fields |-> t[m].fields[k][2]]
  BY <1>1 DEF Lists
<1>4. \A n \in DOMAIN t : n \in 0..Len(t) /\ n # 0
  BY TreeNodes
<1>5. \A n \in DOMAIN t : f[n] = f[n - 1] \o Values(t[n])
  BY <1>3, <1>4 DEF Values
<1>6. f[0] = <<>>
  <2>1. 0 \in 0..Len(t) BY TreeNodes
  <2> QED BY <1>3, <2>1
<1> QED BY <1>2, <1>5, <1>6

LEMMA ValuesType ==
    ASSUME NEW t, Tree(t), NEW i \in DOMAIN t
    PROVE  /\ Values(t[i]) \in Seq(STRING) /\ Len(Values(t[i])) = Len(t[i].fields)
           /\ DOMAIN t[i].fields = 1..Len(t[i].fields) /\ Len(t[i].fields) \in Nat
           /\ \A k \in DOMAIN t[i].fields : Values(t[i])[k] = t[i].fields[k][2] /\ t[i].fields[k] \in STRING \X STRING
<1>1. t[i].fields \in Seq(STRING \X STRING)
  BY TreeNodes
<1> DEFINE fs == t[i].fields
<1>2. DOMAIN fs = 1..Len(fs) /\ Len(fs) \in Nat /\ \A k \in DOMAIN fs : fs[k] \in STRING \X STRING
  BY <1>1
<1>3. \A k \in DOMAIN fs : fs[k][2] \in STRING
  BY <1>2
<1>4. Values(t[i]) \in [1..Len(fs) -> STRING]
  BY <1>2, <1>3 DEF Values
<1>5. Values(t[i]) \in Seq(STRING) /\ Len(Values(t[i])) = Len(fs)
  BY <1>2, <1>4 DEF Values
<1> QED BY <1>2, <1>5 DEF Values

LEMMA ParamsType ==
    ASSUME NEW t, Tree(t), NEW n \in 0..Len(t)
    PROVE  ParamsUpTo(t, n) \in Seq(STRING)
<1> DEFINE T == {m \in Nat : m <= Len(t) => ParamsUpTo(t, m) \in Seq(STRING)}
<1>1. 0 \in T
  BY ParamsStep, EmptySeq
<1>2. \A m \in Nat : m \in T => m + 1 \in T
  <2> SUFFICES ASSUME NEW m \in Nat, m \in T, m + 1 <= Len(t) PROVE ParamsUpTo(t, m + 1) \in Seq(STRING)
    OBVIOUS
  <2>1. m <= Len(t) /\ m + 1 \in DOMAIN t /\ (m + 1) - 1 = m
    BY TreeNodes
  <2>2. ParamsUpTo(t, m + 1) = ParamsUpTo(t, m) \o Values(t[m + 1])
    BY <2>1, ParamsStep
  <2>3. ParamsUpTo(t, m) \in Seq(STRING) /\ Values(t[m + 1]) \in Seq(STRING)
    BY <2>1, ValuesType
  <2> QED BY <2>2, <2>3, ConcatProperties
<1> HIDE DEF T
<1>3. n \in T BY <1>1, <1>2, SetInduction, TreeNodes
<1> QED BY <1>3 DEF T

\* The value of a field stands where the fields before it end, in the parameters of
\* this and of every longer part of the text.
LEMMA ParamsHoldFields ==
    ASSUME NEW t, Tree(t), NEW i \in DOMAIN t, NEW n \in Nat, i <= n, n <= Len(t), NEW k \in DOMAIN t[i].fields
    PROVE  /\ Len(ParamsUpTo(t, i - 1)) \in Nat /\ k \in Nat
           /\ Len(ParamsUpTo(t, i - 1)) + k \in 1..Len(ParamsUpTo(t, n))
           /\ ParamsUpTo(t, n)[Len(ParamsUpTo(t, i - 1)) + k] = t[i].fields[k][2]
<1> DEFINE at == Len(ParamsUpTo(t, i - 1)) + k
           Holds(m) == at \in 1..Len(ParamsUpTo(t, m)) /\ ParamsUpTo(t, m)[at] = t[i].fields[k][2]
           T == {m \in Nat : i <= m /\ m <= Len(t) => Holds(m)}
<1>1. i \in Nat /\ i >= 1 /\ i - 1 \in 0..Len(t) /\ Len(t) \in Nat /\ DOMAIN t = 1..Len(t)
  BY TreeNodes
<1>2. \A m \in 0..Len(t) : ParamsUpTo(t, m) \in Seq(STRING) /\ Len(ParamsUpTo(t, m)) \in Nat
  BY ParamsType, LenProperties
<1>3. k \in Nat /\ k >= 1 /\ at \in Nat /\ at >= 1
  <2>1. k \in 1..Len(t[i].fields) /\ Len(t[i].fields) \in Nat
    BY ValuesType
  <2>2. Len(ParamsUpTo(t, i - 1)) \in Nat
    BY <1>1, <1>2
  <2> QED BY <2>1, <2>2
<1>4. 0 \in T
  BY <1>1
<1>5. \A m \in Nat : m \in T => m + 1 \in T
  <2> SUFFICES ASSUME NEW m \in Nat, m \in T, i <= m + 1, m + 1 <= Len(t) PROVE Holds(m + 1)
    OBVIOUS
  <2> DEFINE old == ParamsUpTo(t, m)
             new == Values(t[m + 1])
  <2>1. m + 1 \in DOMAIN t /\ (m + 1) - 1 = m /\ m \in 0..Len(t)
    BY <1>1
  <2>2. ParamsUpTo(t, m + 1) = old \o new
    BY <2>1, ParamsStep
  <2>3. old \in Seq(STRING) /\ new \in Seq(STRING) /\ Len(old) \in Nat /\ Len(new) \in Nat
    BY <1>2, <2>1, ValuesType, LenProperties
  <2>4. /\ Len(old \o new) = Len(old) + Len(new)
        /\ \A x \in 1..(Len(old) + Len(new)) : (old \o new)[x] = IF x <= Len(old) THEN old[x] ELSE new[x - Len(old)]
    BY <2>3, ConcatProperties
  <2>5. CASE i <= m
    <3>1. at \in 1..Len(old) /\ old[at] = t[i].fields[k][2]
      BY <2>5, <2>1, <1>1
    <3> HIDE DEF old, new, at
    <3>2. at \in 1..(Len(old) + Len(new)) /\ at <= Len(old)
      BY <3>1, <2>3
    <3>3. (old \o new)[at] = old[at]
      BY <2>4, <3>2
    <3>4. at \in 1..Len(ParamsUpTo(t, m + 1)) /\ ParamsUpTo(t, m + 1)[at] = t[i].fields[k][2]
      BY <2>2, <2>4, <3>1, <3>2, <3>3
    <3> QED BY <3>4 DEF at
  <2>6. CASE i = m + 1
    <3>1. at = Len(old) + k
      BY <2>6, <1>1
    <3>2. k \in 1..Len(new) /\ new[k] = t[i].fields[k][2]
      BY <2>6, ValuesType
    <3> HIDE DEF old, new, at
    <3>3. at \in 1..(Len(old) + Len(new)) /\ ~(at <= Len(old)) /\ at - Len(old) = k
      BY <3>1, <3>2, <2>3
    <3>4. (old \o new)[at] = new[k]
      BY <2>4, <3>3
    <3>5. at \in 1..Len(ParamsUpTo(t, m + 1)) /\ ParamsUpTo(t, m + 1)[at] = t[i].fields[k][2]
      BY <2>2, <2>4, <3>2, <3>3, <3>4
    <3> QED BY <3>5 DEF at
  <2> QED BY <2>5, <2>6, <1>1
<1>6. n \in T
  <2> HIDE DEF T
  <2> QED BY <1>4, <1>5, SetInduction
<1> QED BY <1>2, <1>1, <1>3, <1>6

\* Nodes without fields add no parameters.
LEMMA ParamsStand ==
    ASSUME NEW t, Tree(t), NEW m \in 0..Len(t), NEW n \in Nat, m <= n, n <= Len(t),
           \A j \in DOMAIN t : m < j => t[j].fields = <<>>
    PROVE  ParamsUpTo(t, n) = ParamsUpTo(t, m)
<1> DEFINE T == {x \in Nat : m <= x /\ x <= Len(t) => ParamsUpTo(t, x) = ParamsUpTo(t, m)}
<1>0. Len(t) \in Nat /\ DOMAIN t = 1..Len(t)
  BY TreeNodes
<1>1. 0 \in T
  BY <1>0
<1>2. \A x \in Nat : x \in T => x + 1 \in T
  <2> SUFFICES ASSUME NEW x \in Nat, x \in T, m <= x + 1, x + 1 <= Len(t) PROVE ParamsUpTo(t, x + 1) = ParamsUpTo(t, m)
    OBVIOUS
  <2>1. CASE x + 1 = m
    BY <2>1
  <2>2. CASE m <= x
    <3>1. x + 1 \in DOMAIN t /\ (x + 1) - 1 = x /\ m < x + 1 /\ x \in 0..Len(t)
      BY <1>0, <2>2
    <3>2. ParamsUpTo(t, x + 1) = ParamsUpTo(t, x) \o Values(t[x + 1])
      BY <3>1, ParamsStep
    <3>3. Values(t[x + 1]) = <<>>
      <4>1. t[x + 1].fields = <<>> BY <3>1
      <4>2. DOMAIN <<>> = {} OBVIOUS
      <4> QED BY <4>1, <4>2 DEF Values
    <3>4. ParamsUpTo(t, x) \in Seq(STRING)
      BY <3>1, ParamsType
    <3>5. ParamsUpTo(t, x + 1) = ParamsUpTo(t, x)
      BY <3>2, <3>3, <3>4, ConcatEmptySeq
    <3> QED BY <3>5, <2>2, <3>1
  <2> QED BY <2>1, <2>2
<1>3. n \in T
  <2> HIDE DEF T
  <2> QED BY <1>1, <1>2, SetInduction
<1> QED BY <1>3

LEMMA PlaceholdersBefore ==
    ASSUME NEW t, Tree(t), PlaceholderLast(t), count_not_in_commander_set(t) <= 1, NEW i \in DOMAIN t,
           t[i].fields # <<>> \/ i \in Placeholders(t), NEW cmdrs \in Seq(STRING)
    PROVE  Before(t, i, cmdrs) = Len(ParamsUpTo(t, i - 1))
<1>1. Len(t) \in Nat /\ DOMAIN t = 1..Len(t) /\ i \in Nat /\ i - 1 \in 0..Len(t)
  BY TreeNodes
<1>2. Placeholders(t) \subseteq 1..Len(t) /\ IsFiniteSet(1..Len(t))
  <2>1. 1 \in Int /\ Len(t) \in Int BY <1>1
  <2> QED BY <1>1, <2>1, FS_Interval DEF Placeholders
<1>3. IsFiniteSet(Placeholders(t))
  BY <1>2, FS_Subset
<1>4. {j \in Placeholders(t) : j < i} = {}
  <2>1. CASE t[i].fields # <<>>
    BY <2>1 DEF PlaceholderLast
  <2>2. CASE i \in Placeholders(t)
    <3>1. Cardinality(Placeholders(t) \ {i}) = Cardinality(Placeholders(t)) - 1 /\ IsFiniteSet(Placeholders(t) \ {i})
      BY <1>3, <2>2, FS_RemoveElement
    <3>2. Cardinality(Placeholders(t) \ {i}) \in Nat /\ Cardinality(Placeholders(t)) \in Nat
      BY <1>3, <3>1, FS_CardinalityType
    <3>3. Cardinality(Placeholders(t) \ {i}) = 0
      BY <3>1, <3>2 DEF count_not_in_commander_set
    <3>4. Placeholders(t) \ {i} = {}
      BY <3>1, <3>3, FS_EmptySet
    <3>5. \A j \in Placeholders(t) : ~(j < i)
      BY <3>4, <1>1
    <3> QED BY <3>5
  <2> QED BY <2>1, <2>2
<1>5. Cardinality({j \in Placeholders(t) : j < i}) = 0
  BY <1>4, FS_EmptySet
<1>6. Len(cmdrs) \in Nat /\ Len(ParamsUpTo(t, i - 1)) \in Nat
  BY <1>1, ParamsType, LenProperties
<1> QED BY <1>5, <1>6 DEF Before

\* Every "?" of a valid query gets the value that belongs to it.
LEMMA ParamsAreBound ==
    ASSUME NEW t, Tree(t), PlaceholderLast(t), count_not_in_commander_set(t) <= 1, NEW cmdrs \in Seq(STRING)
    PROVE  /\ \A i \in DOMAIN t : \A k \in DOMAIN t[i].fields :
                  resolve_sql(t, cmdrs)[Before(t, i, cmdrs) + k] = t[i].fields[k][2]
           /\ \A i \in Placeholders(t) :
                  {resolve_sql(t, cmdrs)[Before(t, i, cmdrs) + k] : k \in DOMAIN cmdrs} = ToSet(cmdrs)
<1> DEFINE static == static_params(t)
<1>1. Len(t) \in Nat /\ DOMAIN t = 1..Len(t)
  BY TreeNodes
<1>2. static \in Seq(STRING) /\ Len(static) \in Nat /\ Len(cmdrs) \in Nat /\ DOMAIN cmdrs = 1..Len(cmdrs)
  BY <1>1, ParamsType, LenProperties DEF static_params
<1>3. /\ Len(static \o cmdrs) = Len(static) + Len(cmdrs)
      /\ \A x \in 1..(Len(static) + Len(cmdrs)) :
            (static \o cmdrs)[x] = IF x <= Len(static) THEN static[x] ELSE cmdrs[x - Len(static)]
  BY <1>2, ConcatProperties
<1>4. resolve_sql(t, cmdrs) \in {static, static \o cmdrs}
  BY DEF resolve_sql
<1>5. ASSUME NEW i \in DOMAIN t, NEW k \in DOMAIN t[i].fields
      PROVE  resolve_sql(t, cmdrs)[Before(t, i, cmdrs) + k] = t[i].fields[k][2]
  <2> DEFINE at == Before(t, i, cmdrs) + k
  <2>1. t[i].fields # <<>>
    <3>1. DOMAIN <<>> = {} OBVIOUS
    <3> QED BY <3>1
  <2>2. Before(t, i, cmdrs) = Len(ParamsUpTo(t, i - 1))
    BY <2>1, PlaceholdersBefore
  <2>3. i <= Len(t)
    BY <1>1
  <2>4. at \in 1..Len(static) /\ static[at] = t[i].fields[k][2]
    BY <1>1, <2>2, <2>3, ParamsHoldFields DEF static_params
  <2> HIDE DEF at, static
  <2>5. at \in 1..(Len(static) + Len(cmdrs)) /\ at <= Len(static)
    BY <1>2, <2>4
  <2>6. (static \o cmdrs)[at] = static[at]
    BY <1>3, <2>5
  <2>7. resolve_sql(t, cmdrs)[at] = t[i].fields[k][2]
    BY <1>4, <2>4, <2>6
  <2> QED BY <2>7 DEF at
<1>6. ASSUME NEW i \in Placeholders(t)
      PROVE  {resolve_sql(t, cmdrs)[Before(t, i, cmdrs) + k] : k \in DOMAIN cmdrs} = ToSet(cmdrs)
  <2>1. i \in DOMAIN t /\ t[i].op = "not_in_commander_set"
    BY DEF Placeholders
  <2>2. t[i].fields = <<>> /\ i - 1 \in 0..Len(t) /\ i \in Nat /\ i - 1 <= Len(t)
    BY <1>1, <2>1 DEF Tree
  <2>3. \A j \in DOMAIN t : i - 1 < j => t[j].fields = <<>>
    <3>1. \A j \in DOMAIN t : i - 1 < j => j = i \/ i < j
      BY <1>1, <2>2
    <3> QED BY <3>1, <2>2 DEF PlaceholderLast
  <2>4. static = ParamsUpTo(t, i - 1)
    BY <1>1, <2>2, <2>3, ParamsStand DEF static_params
  <2>5. Before(t, i, cmdrs) = Len(static)
    BY <2>1, <2>4, PlaceholdersBefore
  <2>6. resolve_sql(t, cmdrs) = static \o cmdrs
    <3>1. count_not_in_commander_set(t) # 0
      <4>1. IsFiniteSet(Placeholders(t))
        <5>1. 1 \in Int /\ Len(t) \in Int BY <1>1
        <5>2. IsFiniteSet(1..Len(t)) /\ Placeholders(t) \subseteq 1..Len(t)
          BY <1>1, <5>1, FS_Interval DEF Placeholders
        <5> QED BY <5>2, FS_Subset
      <4> QED BY <4>1, FS_EmptySet DEF count_not_in_commander_set
    <3> QED BY <3>1 DEF resolve_sql
  <2> HIDE DEF static
  <2>7. \A k \in DOMAIN cmdrs : (static \o cmdrs)[Len(static) + k] = cmdrs[k]
    <3>1. \A k \in DOMAIN cmdrs : /\ Len(static) + k \in 1..(Len(static) + Len(cmdrs))
                                  /\ ~(Len(static) + k <= Len(static)) /\ (Len(static) + k) - Len(static) = k
      BY <1>2
    <3> QED BY <1>3, <3>1
  <2>8. {(static \o cmdrs)[Len(static) + k] : k \in DOMAIN cmdrs} = {cmdrs[k] : k \in DOMAIN cmdrs}
    BY <2>7
  <2> QED BY <2>5, <2>6, <2>8 DEF ToSet
<1> QED BY <1>5, <1>6

-----------------------------------------------------------------------------
\* The two compilers, node by node.
Accepts(p, field) ==
    IF field[1] = "filter" THEN field[1] \notin Unwritten(p.type) /\ Mentions(p.filter, field[2])
    ELSE Column(p, field[1]) = field[2]

GateNode(t, p, name, cmdrs, h, i) ==
    CASE t[i].op = "and" -> \A j \in Args(t, i) : h[j]
      [] t[i].op = "or"  -> \E j \in Args(t, i) : h[j]
      [] t[i].op = "not" -> ~h[CHOOSE j \in Args(t, i) : TRUE]
      [] t[i].op = "not_in_commander_set" -> name \notin cmdrs
      [] OTHER -> \A k \in DOMAIN t[i].fields : Accepts(p, t[i].fields[k])

LEMMA GateByNodes ==
    \A t, p, name, cmdrs : compile_gate_predicate(t, p, name, cmdrs) =
        (CHOOSE h : h = [i \in DOMAIN t |-> GateNode(t, p, name, cmdrs, h, i)])[1]
BY DEF compile_gate_predicate, GateNode, Accepts

Compared(port, col, bound) ==
    IF col \in Unwritten(port.type) THEN "N"
    ELSE SqlBool(IF col = "filter" THEN Mentions(LowerFilter(port.filter), Lower(bound)) ELSE Column(port, col) = bound)

SqlNode(t, row, cmdrs, params, v, i) ==
    CASE t[i].op = "and" -> SqlAnd({v[j] : j \in Args(t, i)})
      [] t[i].op = "or"  -> SqlOr({v[j] : j \in Args(t, i)})
      [] t[i].op = "not" -> SqlNot(CHOOSE x \in {v[j] : j \in Args(t, i)} : TRUE)
      [] t[i].op = "not_in_commander_set" ->
             SqlBool(row.name \notin {params[Before(t, i, cmdrs) + k] : k \in DOMAIN cmdrs})
      [] OTHER -> SqlAnd({Compared(row.port, t[i].fields[k][1], params[Before(t, i, cmdrs) + k])
                          : k \in DOMAIN t[i].fields})

LEMMA WhereByNodes ==
    \A t, row, cmdrs, params : Where(t, row, cmdrs, params) =
        (CHOOSE v : v = [i \in DOMAIN t |-> SqlNode(t, row, cmdrs, params, v, i)])[1]
BY DEF Where, SqlNode, Compared

\* From node Len(t) - n + 1 on, every node has its value.
SqlFrom(t, row, cmdrs, params, n, v) ==
    /\ v = [i \in DOMAIN t |-> v[i]]
    /\ \A i \in DOMAIN t : i > Len(t) - n => v[i] = SqlNode(t, row, cmdrs, params, v, i)

GateFrom(t, p, name, cmdrs, n, h) ==
    /\ h = [i \in DOMAIN t |-> h[i]]
    /\ \A i \in DOMAIN t : i > Len(t) - n => h[i] = GateNode(t, p, name, cmdrs, h, i)

LEMMA SqlNodeReadsArgs ==
    ASSUME NEW t, NEW row, NEW cmdrs, NEW params, NEW v, NEW w, NEW i, \A j \in Args(t, i) : v[j] = w[j]
    PROVE  SqlNode(t, row, cmdrs, params, v, i) = SqlNode(t, row, cmdrs, params, w, i)
<1>1. {v[j] : j \in Args(t, i)} = {w[j] : j \in Args(t, i)}
  OBVIOUS
<1> QED BY <1>1 DEF SqlNode

LEMMA GateNodeReadsArgs ==
    ASSUME NEW t, NEW p, NEW name, NEW cmdrs, NEW h, NEW g, NEW i, \A j \in Args(t, i) : h[j] = g[j],
           t[i].op = "not" => Args(t, i) # {}
    PROVE  GateNode(t, p, name, cmdrs, h, i) = GateNode(t, p, name, cmdrs, g, i)
<1>1. (\A j \in Args(t, i) : h[j]) = (\A j \in Args(t, i) : g[j])
  OBVIOUS
<1>2. (\E j \in Args(t, i) : h[j]) = (\E j \in Args(t, i) : g[j])
  OBVIOUS
<1>3. t[i].op = "not" => h[CHOOSE j \in Args(t, i) : TRUE] = g[CHOOSE j \in Args(t, i) : TRUE]
  OBVIOUS
<1> QED BY <1>1, <1>2, <1>3 DEF GateNode

LEMMA SqlExists ==
    ASSUME NEW t, Tree(t), NEW row, NEW cmdrs, NEW params
    PROVE  \E v : SqlFrom(t, row, cmdrs, params, Len(t), v)
<1> DEFINE T == {n \in Nat : \E v : SqlFrom(t, row, cmdrs, params, n, v)}
<1>0. Len(t) \in Nat /\ DOMAIN t = 1..Len(t)
  BY TreeNodes
<1>1. 0 \in T
  <2> DEFINE v == [i \in DOMAIN t |-> "N"]
  <2>1. v = [i \in DOMAIN t |-> v[i]] OBVIOUS
  <2>2. \A i \in DOMAIN t : ~(i > Len(t) - 0) BY <1>0
  <2>3. SqlFrom(t, row, cmdrs, params, 0, v) BY <2>1, <2>2 DEF SqlFrom
  <2> QED BY <2>3
<1>2. \A n \in Nat : n \in T => n + 1 \in T
  <2> SUFFICES ASSUME NEW n \in Nat, n \in T PROVE \E w : SqlFrom(t, row, cmdrs, params, n + 1, w)
    OBVIOUS
  <2>1. PICK v : SqlFrom(t, row, cmdrs, params, n, v) OBVIOUS
  <2> DEFINE w == [i \in DOMAIN t |-> IF i > Len(t) - n THEN v[i] ELSE SqlNode(t, row, cmdrs, params, v, i)]
  <2>2. w = [i \in DOMAIN t |-> w[i]] OBVIOUS
  <2>3. ASSUME NEW i \in DOMAIN t, i > Len(t) - (n + 1) PROVE w[i] = SqlNode(t, row, cmdrs, params, w, i)
    <3>1. w[i] = SqlNode(t, row, cmdrs, params, v, i)
      BY <2>1 DEF SqlFrom
    <3>2. \A j \in Args(t, i) : j \in DOMAIN t /\ j > Len(t) - n
      BY <1>0, <2>3, TreeNodes
    <3>3. \A j \in Args(t, i) : v[j] = w[j]
      BY <3>2
    <3> HIDE DEF w
    <3> QED BY <3>1, <3>3, SqlNodeReadsArgs
  <2> HIDE DEF w
  <2>4. SqlFrom(t, row, cmdrs, params, n + 1, w) BY <2>2, <2>3 DEF SqlFrom
  <2> QED BY <2>4
<1> HIDE DEF T
<1>3. Len(t) \in T BY <1>0, <1>1, <1>2, SetInduction
<1> QED BY <1>3 DEF T

LEMMA GateExists ==
    ASSUME NEW t, Tree(t), NEW p, NEW name, NEW cmdrs, \A i \in DOMAIN t : t[i].op = "not" => Args(t, i) # {}
    PROVE  \E h : GateFrom(t, p, name, cmdrs, Len(t), h)
<1> DEFINE T == {n \in Nat : \E h : GateFrom(t, p, name, cmdrs, n, h)}
<1>0. Len(t) \in Nat /\ DOMAIN t = 1..Len(t)
  BY TreeNodes
<1>1. 0 \in T
  <2> DEFINE h == [i \in DOMAIN t |-> TRUE]
  <2>1. h = [i \in DOMAIN t |-> h[i]] OBVIOUS
  <2>2. \A i \in DOMAIN t : ~(i > Len(t) - 0) BY <1>0
  <2>3. GateFrom(t, p, name, cmdrs, 0, h) BY <2>1, <2>2 DEF GateFrom
  <2> QED BY <2>3
<1>2. \A n \in Nat : n \in T => n + 1 \in T
  <2> SUFFICES ASSUME NEW n \in Nat, n \in T PROVE \E g : GateFrom(t, p, name, cmdrs, n + 1, g)
    OBVIOUS
  <2>1. PICK h : GateFrom(t, p, name, cmdrs, n, h) OBVIOUS
  <2> DEFINE g == [i \in DOMAIN t |-> IF i > Len(t) - n THEN h[i] ELSE GateNode(t, p, name, cmdrs, h, i)]
  <2>2. g = [i \in DOMAIN t |-> g[i]] OBVIOUS
  <2>3. ASSUME NEW i \in DOMAIN t, i > Len(t) - (n + 1) PROVE g[i] = GateNode(t, p, name, cmdrs, g, i)
    <3>1. g[i] = GateNode(t, p, name, cmdrs, h, i)
      BY <2>1 DEF GateFrom
    <3>2. \A j \in Args(t, i) : j \in DOMAIN t /\ j > Len(t) - n
      BY <1>0, <2>3, TreeNodes
    <3>3. \A j \in Args(t, i) : h[j] = g[j]
      BY <3>2
    <3> HIDE DEF g
    <3> QED BY <3>1, <3>3, GateNodeReadsArgs
  <2> HIDE DEF g
  <2>4. GateFrom(t, p, name, cmdrs, n + 1, g) BY <2>2, <2>3 DEF GateFrom
  <2> QED BY <2>4
<1> HIDE DEF T
<1>3. Len(t) \in T BY <1>0, <1>1, <1>2, SetInduction
<1> QED BY <1>3 DEF T

-----------------------------------------------------------------------------
\* What differs in case only stands for the same substring.
LEMMA WithinIgnoresCase == \A v, w : <<v, w>> \in Within => <<Lower(v), Lower(w)>> \in Within
<1> SUFFICES ASSUME NEW v, NEW w, <<v, w>> \in Within PROVE <<Lower(v), Lower(w)>> \in Within
  OBVIOUS
<1>1. CASE v = "Token"
  <2>1. w = "nonToken"
    BY <1>1 DEF Within
  <2>2. Lower(v) = "token" /\ Lower(w) = "nontoken"
    BY <1>1, <2>1 DEF Lower
  <2> QED BY <2>2 DEF Within
<1>2. CASE v # "Token"
  <2>1. v # "nonToken" /\ w # "Token" /\ w # "nonToken"
    BY <1>2 DEF Within
  <2>2. Lower(v) = v /\ Lower(w) = w
    BY <1>2, <2>1 DEF Lower
  <2> QED BY <2>2
<1> QED BY <1>1, <1>2

LEMMA LikeIsMentions ==
    ASSUME NEW f, NEW v,
           \A w \in Tokens(f) : /\ Lower(v) = Lower(w) => v = w
                                /\ <<Lower(v), Lower(w)>> \in Within => <<v, w>> \in Within
    PROVE  Mentions(LowerFilter(f), Lower(v)) <=> Mentions(f, v)
<1>1. Tokens(LowerFilter(f)) = {Lower(w) : w \in Tokens(f)}
  <2>1. \A x : x \in Tokens(f) <=> \E i \in DOMAIN f : \E j \in DOMAIN f[i] : x = f[i][j]
    BY DEF Tokens, ToSet
  <2>2. \A x : x \in Tokens(LowerFilter(f)) <=> \E i \in DOMAIN f : \E j \in DOMAIN f[i] : x = Lower(f[i][j])
    BY DEF Tokens, ToSet, LowerFilter
  <2> QED BY <2>1, <2>2
<1>2. Mentions(LowerFilter(f), Lower(v)) <=> \E w \in Tokens(f) : Lower(w) = Lower(v) \/ <<Lower(v), Lower(w)>> \in Within
  BY <1>1 DEF Mentions
<1>3. \A w \in Tokens(f) : (Lower(w) = Lower(v) \/ <<Lower(v), Lower(w)>> \in Within) <=> (w = v \/ <<v, w>> \in Within)
  <2> SUFFICES ASSUME NEW w \in Tokens(f)
               PROVE  (Lower(w) = Lower(v) \/ <<Lower(v), Lower(w)>> \in Within) <=> (w = v \/ <<v, w>> \in Within)
    OBVIOUS
  <2>1. Lower(w) = Lower(v) => w = v
    OBVIOUS
  <2>2. w = v => Lower(w) = Lower(v)
    OBVIOUS
  <2>3. <<Lower(v), Lower(w)>> \in Within => <<v, w>> \in Within
    OBVIOUS
  <2>4. <<v, w>> \in Within => <<Lower(v), Lower(w)>> \in Within
    BY WithinIgnoresCase
  <2> QED BY <2>1, <2>2, <2>3, <2>4
<1> QED BY <1>2, <1>3 DEF Mentions

-----------------------------------------------------------------------------
\* A value of SQL and one of Python say the same, and without NULL under a NOT.
Agree(under, x, b) == x \in {"T", "F", "N"} /\ b \in BOOLEAN /\ (x = "T" <=> b) /\ (under => x # "N")

LEMMA ComparisonsAgree ==
    ASSUME NEW port, NEW field, NEW under \in BOOLEAN,
           field[1] \in Unwritten(port.type) => ~under /\ field[2] # "",
           field[1] = "filter" =>
               \A w \in Tokens(port.filter) : /\ Lower(field[2]) = Lower(w) => field[2] = w
                                              /\ <<Lower(field[2]), Lower(w)>> \in Within => <<field[2], w>> \in Within
    PROVE  Agree(under, Compared(port, field[1], field[2]), Accepts(port, field))
<1>1. CASE field[1] \in Unwritten(port.type)
  <2>1. Compared(port, field[1], field[2]) = "N"
    BY <1>1 DEF Compared
  <2>2. ~Accepts(port, field) /\ Accepts(port, field) \in BOOLEAN
    <3>1. field[1] # "filter" => Column(port, field[1]) = ""
      BY <1>1 DEF Column
    <3> QED BY <1>1, <3>1 DEF Accepts
  <2> QED BY <1>1, <2>1, <2>2 DEF Agree
<1>2. CASE field[1] \notin Unwritten(port.type) /\ field[1] = "filter"
  <2>1. Mentions(LowerFilter(port.filter), Lower(field[2])) <=> Mentions(port.filter, field[2])
    BY <1>2, LikeIsMentions
  <2>2. Compared(port, field[1], field[2]) = SqlBool(Mentions(LowerFilter(port.filter), Lower(field[2])))
    BY <1>2 DEF Compared
  <2>3. Accepts(port, field) = Mentions(port.filter, field[2])
    BY <1>2 DEF Accepts, Mentions
  <2>4. Mentions(port.filter, field[2]) \in BOOLEAN
    BY DEF Mentions
  <2>5. Compared(port, field[1], field[2]) = IF Accepts(port, field) THEN "T" ELSE "F"
    BY <2>1, <2>2, <2>3 DEF SqlBool
  <2> HIDE DEF Compared, Accepts
  <2> QED BY <2>3, <2>4, <2>5 DEF Agree
<1>3. CASE field[1] \notin Unwritten(port.type) /\ field[1] # "filter"
  <2>1. Compared(port, field[1], field[2]) = IF Column(port, field[1]) = field[2] THEN "T" ELSE "F"
    BY <1>3 DEF Compared, SqlBool
  <2>2. Accepts(port, field) = (Column(port, field[1]) = field[2])
    BY <1>3 DEF Accepts
  <2> QED BY <2>1, <2>2 DEF Agree
<1> QED BY <1>1, <1>2, <1>3

LEMMA NodesAgree ==
    ASSUME NEW t, Tree(t), validate_gate_predicate(t, "candidate"), PlaceholderLast(t),
           NEW row, NullPlaysNoPart(t, row.port), CasePlaysNoPart(t, row.port),
           NEW cmdrs \in Seq(STRING), NEW v, NEW h, NEW i \in DOMAIN t,
           \A j \in Args(t, i) : Agree(UnderNot(t, j), v[j], h[j])
    PROVE  Agree(UnderNot(t, i), SqlNode(t, row, cmdrs, resolve_sql(t, cmdrs), v, i),
                 GateNode(t, row.port, row.name, ToSet(cmdrs), h, i))
<1> DEFINE x == SqlNode(t, row, cmdrs, resolve_sql(t, cmdrs), v, i)
           b == GateNode(t, row.port, row.name, ToSet(cmdrs), h, i)
           under == UnderNot(t, i)
           args == {v[j] : j \in Args(t, i)}
<1>0. under \in BOOLEAN
  BY UnderNotStep
<1>1. \A j \in Args(t, i) : (under \/ t[i].op = "not") => UnderNot(t, j)
  <2>1. \A j \in Args(t, i) : j \in DOMAIN t /\ t[j].parent = i /\ i # 0
    BY TreeNodes DEF Args
  <2> QED BY <2>1, UnderNotStep
<1>2. \A j \in Args(t, i) : v[j] \in {"T", "F", "N"} /\ h[j] \in BOOLEAN /\ (v[j] = "T" <=> h[j])
  BY DEF Agree
<1>3. \A j \in Args(t, i) : (under \/ t[i].op = "not") => v[j] # "N"
  BY <1>1 DEF Agree
<1>4. count_not_in_commander_set(t) <= 1
  BY DEF validate_gate_predicate
<1>5. CASE t[i].op = "and"
  <2>1. x = SqlAnd(args) /\ b = (\A j \in Args(t, i) : h[j])
    BY <1>5 DEF SqlNode, GateNode
  <2>2. x \in {"T", "F", "N"} /\ (x = "T" <=> "F" \notin args /\ "N" \notin args) /\ (x = "N" => "N" \in args)
    BY <2>1 DEF SqlAnd
  <2>3. ("F" \notin args /\ "N" \notin args) <=> \A j \in Args(t, i) : v[j] = "T"
    BY <1>2
  <2>4. (\A j \in Args(t, i) : v[j] = "T") <=> b
    BY <1>2, <2>1
  <2>5. under => "N" \notin args
    BY <1>3
  <2>6. b \in BOOLEAN
    BY <2>1
  <2> HIDE DEF x, b, under, args
  <2>7. Agree(under, x, b)
    BY <2>2, <2>3, <2>4, <2>5, <2>6 DEF Agree
  <2> QED BY <2>7 DEF x, b, under
<1>6. CASE t[i].op = "or"
  <2>1. x = SqlOr(args) /\ b = (\E j \in Args(t, i) : h[j])
    BY <1>6 DEF SqlNode, GateNode
  <2>2. x \in {"T", "F", "N"} /\ (x = "T" <=> "T" \in args) /\ (x = "N" => "N" \in args)
    BY <2>1 DEF SqlOr
  <2>3. "T" \in args <=> \E j \in Args(t, i) : v[j] = "T"
    OBVIOUS
  <2>4. (\E j \in Args(t, i) : v[j] = "T") <=> b
    BY <1>2, <2>1
  <2>5. under => "N" \notin args
    BY <1>3
  <2>6. b \in BOOLEAN
    BY <2>1
  <2> HIDE DEF x, b, under, args
  <2>7. Agree(under, x, b)
    BY <2>2, <2>3, <2>4, <2>5, <2>6 DEF Agree
  <2> QED BY <2>7 DEF x, b, under
<1>7. CASE t[i].op = "not"
  <2>1. Cardinality(Args(t, i)) = 1
    BY <1>7 DEF validate_gate_predicate
  <2>2. PICK j : Args(t, i) = {j}
    <3>1. Args(t, i) \subseteq 1..Len(t) /\ IsFiniteSet(1..Len(t))
      <4>1. 1 \in Int /\ Len(t) \in Int BY TreeNodes
      <4> QED BY <4>1, TreeNodes, FS_Interval DEF Args
    <3>2. IsFiniteSet(Args(t, i))
      BY <3>1, FS_Subset
    <3> QED BY <2>1, <3>2, FS_Singleton
  <2>3. args = {v[j]} /\ (CHOOSE y \in args : TRUE) = v[j] /\ (CHOOSE y \in Args(t, i) : TRUE) = j
    BY <2>2
  <2>4. x = SqlNot(v[j]) /\ b = ~h[j]
    BY <1>7, <2>3 DEF SqlNode, GateNode
  <2>5. v[j] \in {"T", "F"} /\ h[j] \in BOOLEAN /\ (v[j] = "T" <=> h[j])
    BY <1>2, <1>3, <1>7, <2>2
  <2>6. x = (IF v[j] = "T" THEN "F" ELSE "T")
    BY <2>4, <2>5 DEF SqlNot
  <2> HIDE DEF x, b, under, args
  <2>7. Agree(under, x, b)
    BY <2>4, <2>5, <2>6 DEF Agree
  <2> QED BY <2>7 DEF x, b, under
<1>8. CASE t[i].op = "not_in_commander_set"
  <2>1. i \in Placeholders(t) /\ ~under
    BY <1>8 DEF validate_gate_predicate, Placeholders
  <2>2. {resolve_sql(t, cmdrs)[Before(t, i, cmdrs) + k] : k \in DOMAIN cmdrs} = ToSet(cmdrs)
    BY <1>4, <2>1, ParamsAreBound
  <2>3. x = SqlBool(row.name \notin ToSet(cmdrs)) /\ b = (row.name \notin ToSet(cmdrs))
    BY <1>8, <2>2 DEF SqlNode, GateNode
  <2> HIDE DEF x, b, under
  <2>4. Agree(under, x, b)
    BY <2>1, <2>3 DEF Agree, SqlBool
  <2> QED BY <2>4 DEF x, b, under
<1>9. CASE t[i].op \notin {"and", "or", "not", "not_in_commander_set"}
  <2> DEFINE fs == t[i].fields
             tests == {Compared(row.port, fs[k][1], fs[k][2]) : k \in DOMAIN fs}
  <2>1. \A k \in DOMAIN fs : resolve_sql(t, cmdrs)[Before(t, i, cmdrs) + k] = fs[k][2]
    BY <1>4, ParamsAreBound
  <2>2. {Compared(row.port, fs[k][1], resolve_sql(t, cmdrs)[Before(t, i, cmdrs) + k]) : k \in DOMAIN fs} = tests
    BY <2>1
  <2>3. x = SqlAnd(tests)
    BY <1>9, <2>2 DEF SqlNode
  <2>4. b = (\A k \in DOMAIN fs : Accepts(row.port, fs[k]))
    BY <1>9 DEF GateNode
  <2>5. \A k \in DOMAIN fs : Agree(under, Compared(row.port, fs[k][1], fs[k][2]), Accepts(row.port, fs[k]))
    <3> SUFFICES ASSUME NEW k \in DOMAIN fs
                 PROVE  Agree(under, Compared(row.port, fs[k][1], fs[k][2]), Accepts(row.port, fs[k]))
      OBVIOUS
    <3>1. fs[k][1] \in Unwritten(row.port.type) => ~under /\ fs[k][2] # ""
      BY DEF NullPlaysNoPart
    <3>2. fs[k][1] = "filter" =>
              \A w \in Tokens(row.port.filter) : /\ Lower(fs[k][2]) = Lower(w) => fs[k][2] = w
                                                 /\ <<Lower(fs[k][2]), Lower(w)>> \in Within => <<fs[k][2], w>> \in Within
      BY DEF CasePlaysNoPart
    <3> HIDE DEF under, fs
    <3> QED BY <1>0, <3>1, <3>2, ComparisonsAgree
  <2>6. x \in {"T", "F", "N"} /\ (x = "T" <=> "F" \notin tests /\ "N" \notin tests) /\ (x = "N" => "N" \in tests)
    BY <2>3 DEF SqlAnd
  <2> HIDE DEF fs, under, x, b
  <2>7. ("F" \notin tests /\ "N" \notin tests) <=> b
    BY <2>4, <2>5 DEF Agree
  <2>8. under => "N" \notin tests
    BY <2>5 DEF Agree
  <2>9. b \in BOOLEAN
    BY <2>4
  <2> HIDE DEF tests
  <2>10. Agree(under, x, b)
    BY <2>6, <2>7, <2>8, <2>9 DEF Agree
  <2> QED BY <2>10 DEF x, b, under
<1> QED BY <1>5, <1>6, <1>7, <1>8, <1>9

\* The query of a valid predicate selects a row exactly if its gate accepts the row's
\* port, for every tree, however deep and wide.
THEOREM TreesAgree ==
    ASSUME NEW t, Tree(t), t # <<>>, validate_gate_predicate(t, "candidate"), PlaceholderLast(t),
           NEW row, NullPlaysNoPart(t, row.port), CasePlaysNoPart(t, row.port), NEW cmdrs \in Seq(STRING)
    PROVE  Where(t, row, cmdrs, resolve_sql(t, cmdrs)) = "T"
               <=> compile_gate_predicate(t, row.port, row.name, ToSet(cmdrs))
<1> DEFINE params == resolve_sql(t, cmdrs)
           Sql(v) == v = [i \in DOMAIN t |-> SqlNode(t, row, cmdrs, params, v, i)]
           Gated(h) == h = [i \in DOMAIN t |-> GateNode(t, row.port, row.name, ToSet(cmdrs), h, i)]
           v == CHOOSE x : Sql(x)
           h == CHOOSE x : Gated(x)
<1>0. Len(t) \in Nat /\ DOMAIN t = 1..Len(t)
  BY TreeNodes
<1>1. Sql(v)
  <2>1. PICK x : SqlFrom(t, row, cmdrs, params, Len(t), x)
    BY SqlExists
  <2>2. \A i \in DOMAIN t : i > Len(t) - Len(t)
    BY <1>0
  <2>3. x = [i \in DOMAIN t |-> x[i]] /\ \A i \in DOMAIN t : x[i] = SqlNode(t, row, cmdrs, params, x, i)
    BY <2>1, <2>2 DEF SqlFrom
  <2> HIDE DEF params
  <2>4. Sql(x)
    BY <2>3
  <2> HIDE DEF Sql
  <2> QED BY <2>4
<1>2. Gated(h)
  <2>1. \A i \in DOMAIN t : t[i].op = "not" => Args(t, i) # {}
    <3>1. \A i \in DOMAIN t : t[i].op = "not" => Cardinality(Args(t, i)) = 1
      BY DEF validate_gate_predicate
    <3>2. \A i \in DOMAIN t : Args(t, i) = {} => Cardinality(Args(t, i)) = 0
      BY FS_EmptySet
    <3> QED BY <3>1, <3>2
  <2>2. PICK x : GateFrom(t, row.port, row.name, ToSet(cmdrs), Len(t), x)
    BY <2>1, GateExists
  <2>3. \A i \in DOMAIN t : i > Len(t) - Len(t)
    BY <1>0
  <2>4. x = [i \in DOMAIN t |-> x[i]] /\ \A i \in DOMAIN t : x[i] = GateNode(t, row.port, row.name, ToSet(cmdrs), x, i)
    BY <2>2, <2>3 DEF GateFrom
  <2>5. Gated(x)
    BY <2>4
  <2> HIDE DEF Gated
  <2> QED BY <2>5
<1>3. Where(t, row, cmdrs, params) = v[1]
  BY WhereByNodes
<1>4. compile_gate_predicate(t, row.port, row.name, ToSet(cmdrs)) = h[1]
  BY GateByNodes
<1> HIDE DEF v, h
<1>5. \A i \in DOMAIN t : /\ v[i] = SqlNode(t, row, cmdrs, resolve_sql(t, cmdrs), v, i)
                          /\ h[i] = GateNode(t, row.port, row.name, ToSet(cmdrs), h, i)
  BY <1>1, <1>2
<1> DEFINE T == {n \in Nat : \A i \in DOMAIN t : i > Len(t) - n => Agree(UnderNot(t, i), v[i], h[i])}
<1>6. 0 \in T
  BY <1>0
<1>7. \A n \in Nat : n \in T => n + 1 \in T
  <2> SUFFICES ASSUME NEW n \in Nat, n \in T, NEW i \in DOMAIN t, i > Len(t) - (n + 1)
               PROVE  Agree(UnderNot(t, i), v[i], h[i])
    OBVIOUS
  <2>1. \A j \in Args(t, i) : j \in DOMAIN t /\ j > Len(t) - n
    BY <1>0, TreeNodes
  <2>2. \A j \in Args(t, i) : Agree(UnderNot(t, j), v[j], h[j])
    BY <2>1
  <2>3. Agree(UnderNot(t, i), SqlNode(t, row, cmdrs, resolve_sql(t, cmdrs), v, i),
              GateNode(t, row.port, row.name, ToSet(cmdrs), h, i))
    BY <2>2, NodesAgree
  <2> QED BY <1>5, <2>3
<1>8. Len(t) \in T
  <2> HIDE DEF T
  <2> QED BY <1>0, <1>6, <1>7, SetInduction
<1>9. 1 \in DOMAIN t /\ 1 > Len(t) - Len(t)
  BY <1>0, EmptySeq DEF Tree
<1>10. Agree(UnderNot(t, 1), v[1], h[1])
  BY <1>8, <1>9
<1> QED BY <1>3, <1>4, <1>10 DEF Agree

\* What is written is a tree, and the open lists belong to nodes of it.
QueryInv ==
    q.kind = "query" =>
        /\ q = [kind |-> "query", tree |-> q.tree, open |-> q.open]
        /\ Tree(q.tree) /\ q.open \in Seq(Nat)
        /\ \A k \in DOMAIN q.open : q.open[k] <= Len(q.tree)

LEMMA TreeGrows ==
    ASSUME NEW t, Tree(t), NEW node, node.parent \in Nat, node.parent <= Len(t), node.fields \in Seq(STRING \X STRING),
           node.op \in Connectives \cup {"not_in_commander_set"} => node.fields = <<>>
    PROVE  Tree(Append(t, node)) /\ Len(Append(t, node)) = Len(t) + 1
<1>0. PICK R : t \in Seq(R)
  BY DEF Tree
<1> DEFINE S == R \cup {node}
           u == Append(t, node)
<1>1. t \in Seq(S) /\ node \in S
  <2>1. R \subseteq S OBVIOUS
  <2> QED BY <1>0, <2>1, SeqMonotonic
<1>2. Len(t) \in Nat /\ DOMAIN t = 1..Len(t)
  BY TreeNodes
<1> HIDE DEF S
<1>3. u \in Seq(S) /\ Len(u) = Len(t) + 1 /\ DOMAIN u = 1..(Len(t) + 1)
  BY <1>1, <1>2
<1>4. \A i \in DOMAIN u : u[i] = IF i = Len(t) + 1 THEN node ELSE t[i]
  BY <1>1, <1>2
<1>5. \A i \in DOMAIN u : i = Len(t) + 1 \/ i \in DOMAIN t
  BY <1>2, <1>3
<1>7. node.parent < Len(t) + 1
  BY <1>2
<1> HIDE DEF u
<1>8. \A i \in DOMAIN u : /\ u[i].parent \in Nat /\ u[i].parent < i /\ u[i].fields \in Seq(STRING \X STRING)
                          /\ u[i].op \in Connectives \cup {"not_in_commander_set"} => u[i].fields = <<>>
  <2> SUFFICES ASSUME NEW i \in DOMAIN u
               PROVE  /\ u[i].parent \in Nat /\ u[i].parent < i /\ u[i].fields \in Seq(STRING \X STRING)
                      /\ u[i].op \in Connectives \cup {"not_in_commander_set"} => u[i].fields = <<>>
    OBVIOUS
  <2>1. CASE i = Len(t) + 1 BY <1>4, <1>7, <2>1
  <2>2. CASE i # Len(t) + 1
    <3>1. i \in DOMAIN t /\ u[i] = t[i] BY <1>4, <1>5, <2>2
    <3> QED BY <3>1 DEF Tree
  <2> QED BY <2>1, <2>2
<1>9. Tree(u)
  BY <1>3, <1>8 DEF Tree
<1> QED BY <1>3, <1>9 DEF u

LEMMA ParentIsOpen ==
    ASSUME QueryInv, q.kind = "query"
    PROVE  Parent \in Nat /\ Parent <= Len(q.tree)
<1>1. q.open \in Seq(Nat) /\ Len(q.tree) \in Nat /\ \A k \in DOMAIN q.open : q.open[k] <= Len(q.tree)
  BY TreeNodes DEF QueryInv
<1>2. CASE q.open = <<>>
  BY <1>1, <1>2 DEF Parent
<1>3. CASE q.open # <<>>
  <2>1. Len(q.open) \in DOMAIN q.open /\ q.open[Len(q.open)] \in Nat
    BY <1>1, <1>3
  <2>2. Parent = q.open[Len(q.open)]
    BY <1>3 DEF Parent, Last
  <2> QED BY <1>1, <2>1, <2>2
<1> QED BY <1>2, <1>3

LEMMA QueriesAreTrees == QuerySpec => []QueryInv
<1>1. QueryInit => QueryInv
  <2> SUFFICES ASSUME QueryInit PROVE QueryInv
    OBVIOUS
  <2>1. q = [kind |-> "query", tree |-> <<>>, open |-> <<>>]
    BY DEF QueryInit
  <2>2. Tree(<<>>)
    BY EmptySeq DEF Tree
  <2>3. <<>> \in Seq(Nat) /\ DOMAIN <<>> = {}
    OBVIOUS
  <2> QED BY <2>1, <2>2, <2>3 DEF QueryInv
<1>2. QueryInv /\ [QueryNext]_vars => QueryInv'
  <2> SUFFICES ASSUME QueryInv, [QueryNext]_vars PROVE QueryInv'
    OBVIOUS
  <2>1. q.kind = "query" => /\ q = [kind |-> "query", tree |-> q.tree, open |-> q.open] /\ Tree(q.tree) /\ q.open \in Seq(Nat)
                            /\ Len(q.tree) \in Nat /\ \A k \in DOMAIN q.open : q.open[k] <= Len(q.tree)
    BY TreeNodes DEF QueryInv
  <2>2. ASSUME NEW op \in Connectives, Open(op) PROVE QueryInv'
    <3> DEFINE node == Node(op, Parent, <<>>)
               u == Append(q.tree, node)
               opened == Append(q.open, Len(q.tree) + 1)
    <3>1. q.kind = "query" /\ q' = [q EXCEPT !.tree = u, !.open = opened]
      BY <2>2 DEF Open
    <3>2. q' = [kind |-> "query", tree |-> u, open |-> opened]
      BY <2>1, <3>1
    <3>3. node.parent \in Nat /\ node.parent <= Len(q.tree) /\ node.fields = <<>> /\ <<>> \in Seq(STRING \X STRING)
      BY <3>1, ParentIsOpen, EmptySeq DEF Node
    <3>4. Tree(u) /\ Len(u) = Len(q.tree) + 1
      <4> HIDE DEF node
      <4> QED BY <2>1, <3>1, <3>3, TreeGrows
    <3>5. opened \in Seq(Nat) /\ \A k \in DOMAIN opened : opened[k] <= Len(q.tree) + 1
      BY <2>1, <3>1
    <3> HIDE DEF u, opened
    <3> QED BY <3>2, <3>4, <3>5 DEF QueryInv
  <2>3. ASSUME NEW leaf \in Leaves, Compare(leaf) PROVE QueryInv'
    <3> DEFINE node == Node(leaf.op, Parent, leaf.fields)
               u == Append(q.tree, node)
    <3>1. q.kind = "query" /\ q' = [q EXCEPT !.tree = u]
      BY <2>3 DEF Compare
    <3>2. q' = [kind |-> "query", tree |-> u, open |-> q.open]
      BY <2>1, <3>1
    <3>3. /\ node.parent \in Nat /\ node.parent <= Len(q.tree) /\ node.fields \in Seq(STRING \X STRING)
          /\ node.op \in Connectives \cup {"not_in_commander_set"} => node.fields = <<>>
      BY <3>1, ParentIsOpen, InterpreterAssumption DEF Node
    <3>4. Tree(u) /\ Len(u) = Len(q.tree) + 1
      <4> HIDE DEF node
      <4> QED BY <2>1, <3>1, <3>3, TreeGrows
    <3>5. \A k \in DOMAIN q.open : q.open[k] \in Nat /\ q.open[k] <= Len(q.tree) + 1
      BY <2>1, <3>1
    <3> HIDE DEF u
    <3> QED BY <2>1, <3>1, <3>2, <3>4, <3>5 DEF QueryInv
  <2>4. ASSUME Close PROVE QueryInv'
    <3> DEFINE rest == Front(q.open)
    <3>1. q.kind = "query" /\ q.open # <<>> /\ q' = [q EXCEPT !.open = rest]
      BY <2>4 DEF Close
    <3>2. q' = [kind |-> "query", tree |-> q.tree, open |-> rest]
      BY <2>1, <3>1
    <3>3. rest \in Seq(Nat) /\ \A k \in DOMAIN rest : rest[k] <= Len(q.tree)
      BY <2>1, <3>1 DEF Front
    <3> HIDE DEF rest
    <3> QED BY <2>1, <3>1, <3>2, <3>3 DEF QueryInv
  <2>5. CASE UNCHANGED vars
    BY <2>5 DEF vars, QueryInv
  <2> QED BY <2>2, <2>3, <2>4, <2>5 DEF QueryNext
<1> QED BY <1>1, <1>2, PTL DEF QuerySpec

\* One grammar, two compilers: the query of every valid candidate predicate selects the
\* rows its gate accepts, for every database and every set of commanders.
THEOREM CompilersDoAgree == QuerySpec => []CompilersAgree
<1>1. QueryInv => CompilersAgree
  <2> SUFFICES ASSUME QueryInv, q.kind = "query", Written, validate_gate_predicate(q.tree, "candidate"), PlaceholderLast(q.tree),
                      NEW cmdrs \in CommanderSets
               PROVE  LET rows == {row \in QueryRows : NullPlaysNoPart(q.tree, row.port) /\ CasePlaysNoPart(q.tree, row.port)}
                      IN  find_candidates(q.tree, rows, cmdrs)
                    = {row.name : row \in {x \in rows : compile_gate_predicate(q.tree, x.port, x.name, ToSet(cmdrs))}} \ ToSet(cmdrs)
    BY DEF CompilersAgree
  <2> DEFINE t == q.tree
             rows == {row \in QueryRows : NullPlaysNoPart(t, row.port) /\ CasePlaysNoPart(t, row.port)}
  <2>1. Tree(t) /\ t # <<>> /\ cmdrs \in Seq(STRING)
    BY InterpreterAssumption DEF QueryInv, Written
  <2>2. ~(count_not_in_commander_set(t) > 1)
    <3>1. count_not_in_commander_set(t) <= 1
      BY DEF validate_gate_predicate
    <3>2. count_not_in_commander_set(t) \in Nat
      <4>1. 1 \in Int /\ Len(t) \in Int BY <2>1, TreeNodes
      <4>2. IsFiniteSet(1..Len(t)) /\ Placeholders(t) \subseteq 1..Len(t)
        BY <2>1, <4>1, TreeNodes, FS_Interval DEF Placeholders
      <4>3. IsFiniteSet(Placeholders(t))
        BY <4>2, FS_Subset
      <4> QED BY <4>3, FS_CardinalityType DEF count_not_in_commander_set
    <3> QED BY <3>1, <3>2
  <2> HIDE DEF t
  <2>3. \A row \in rows : Where(t, row, cmdrs, resolve_sql(t, cmdrs)) = "T"
                             <=> compile_gate_predicate(t, row.port, row.name, ToSet(cmdrs))
    BY <2>1, TreesAgree DEF t
  <2> HIDE DEF rows
  <2>4. {r \in rows : Where(t, r, cmdrs, resolve_sql(t, cmdrs)) = "T"}
            = {x \in rows : compile_gate_predicate(t, x.port, x.name, ToSet(cmdrs))}
    BY <2>3
  <2>5. find_candidates(t, rows, cmdrs)
            = {row.name : row \in {x \in rows : compile_gate_predicate(t, x.port, x.name, ToSet(cmdrs))}} \ ToSet(cmdrs)
    BY <2>2, <2>4 DEF find_candidates
  <2> QED BY <2>5 DEF rows, t
<1> QED BY <1>1, QueriesAreTrees, PTL
=============================================================================
