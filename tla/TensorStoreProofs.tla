------------------------- MODULE TensorStoreProofs -------------------------
(* Proofs about TensorStore for any processes, fixtures, rules and hashes.    *)
(* A repin holds a commander from its start to its commit.  While one repin   *)
(* has a commander to itself, what its connection sees and what its buffer    *)
(* holds make up the rows of the build it imported; and whoever pinned the    *)
(* commander before did so from that build or from an earlier one.            *)
EXTENDS TensorStore, TLAPS

Rows     == {HashOf[b] : b \in Builds} \X Commanders \X Rules \X Builds
Mine(p)  == Members(fix[p])
Scored(p) == {List[fix[p]][i] : i \in 1..done[p]}

\* A key of the rows p may change.
OwnKey(p, h, c) == h = Hash(p) /\ c \in Mine(p)
Others(p, t) == {row \in t : row[1] # Hash(p) \/ row[2] \notin Mine(p)}

ProcType(p) ==
    /\ pc[p] \in {"idle", "evict", "score", "write"}
    /\ mine[p] \in 1..build /\ done[p] \in Nat
    /\ pc[p] # "idle" => fix[p] \in Fixtures
    /\ pc[p] = "evict" => done[p] = 0
    /\ pc[p] = "score" => done[p] <= Len(List[fix[p]])
    /\ pc[p] # "score" => buffer[p] = {}

FileType ==
    /\ DOMAIN file = Fixtures
    /\ \A f \in Fixtures : DOMAIN file[f] = {"ok", "build", "gem"}

TypeInv ==
    /\ build \in Builds
    /\ table \subseteq Rows /\ txn \subseteq Rows /\ holder \in Procs \cup {None}
    /\ FileType /\ \A f \in Fixtures : file[f].build \in 0..build
    /\ DOMAIN pc = Procs /\ DOMAIN fix = Procs /\ DOMAIN mine = Procs
    /\ DOMAIN done = Procs /\ DOMAIN buffer = Procs
    /\ \A p \in Procs : ProcType(p) /\ buffer[p] \subseteq Rows
    /\ holder \in Procs => pc[holder] = "score"

\* A transaction differs from the table in its own rows only.
TxnInv == holder \in Procs => Others(holder, txn) = Others(holder, table)

BufferInv == \A p \in Procs : \A row \in buffer[p] : OwnKey(p, row[1], row[2])

CrossedInv ==
    \A p, q \in Procs : p # q => InHand(p) \cap InHand(q) \subseteq crossed

\* A commander in hand was pinned by earlier builds only.
NewestInv ==
    \A p \in Procs : \A c \in InHand(p) \ crossed :
        /\ \A f \in Fixtures : c \in Members(f) => file[f].build <= mine[p]
        /\ \A q \in Procs : pc[q] = "write" /\ c \in Mine(q) => mine[q] <= mine[p]

\* What a scoring repin sees and what it has in its buffer.
ScoreInv ==
    \A p \in Procs : pc[p] = "score" => \A c \in Mine(p) \ crossed :
        /\ RowsAt(table, Hash(p), c) = {} /\ <<Hash(p), c>> \in lost
        /\ RowsAt(Seen(p), Hash(p), c) \cup RowsAt(buffer[p], Hash(p), c) =
              IF c \in Scored(p) THEN RowsOf(mine[p], c) ELSE {}

\* The rows of a key are of one build, and none after an eviction.
WholeInv ==
    \A b \in Builds, c \in Commanders \ crossed :
        LET rows == RowsAt(table, HashOf[b], c)
        IN  /\ <<HashOf[b], c>> \in lost => rows = {}
            /\ rows # {} => \E d \in Builds : rows = RowsOf(d, c)

\* The rows behind what was or will be pinned by build b.
Backed(b, c) ==
    b > 0 /\ <<HashOf[b], c>> \notin lost =>
        \E d \in b..LastBuild : HashOf[d] = HashOf[b] /\ RowsAt(table, HashOf[b], c) = RowsOf(d, c)

BackedInv ==
    /\ \A f \in Fixtures : \A c \in Members(f) \ crossed : Backed(file[f].build, c)
    /\ \A p \in Procs : pc[p] = "write" => \A c \in Mine(p) \ crossed : Backed(mine[p], c)

TableInv == TypeInv /\ TxnInv /\ BufferInv /\ CrossedInv /\ NewestInv /\ ScoreInv /\ WholeInv /\ BackedInv

\* The gem keys of the commanders scored so far are of the data that was opened.
GemInv ==
    /\ edhrec.epoch \in Nat \ {0}
    /\ FileType /\ DOMAIN pc = Procs /\ DOMAIN fix = Procs
    /\ DOMAIN done = Procs /\ DOMAIN gem = Procs /\ DOMAIN opened = Procs
    /\ \A f \in Fixtures : DOMAIN file[f].gem = Members(f)
    /\ \A p \in Procs :
         /\ opened[p] \in 1..edhrec.epoch
         /\ pc[p] # "idle" => fix[p] \in Fixtures /\ DOMAIN gem[p] = Mine(p)
         /\ pc[p] \in {"evict", "score", "write"} => done[p] \in 0..Len(List[fix[p]])
         /\ pc[p] = "evict" => done[p] = 0
         /\ pc[p] = "write" => done[p] = Len(List[fix[p]])
         /\ pc[p] \in {"score", "write"} /\ opened[p] = edhrec.epoch =>
              \A c \in Scored(p) \cap edhrec.covered : gem[p][c] = opened[p]

-----------------------------------------------------------------------------
(* Rows and tables                                                          *)

LEMMA ListedCommander ==
    ASSUME NEW f \in Fixtures
    PROVE  /\ Len(List[f]) \in Nat /\ DOMAIN List[f] = 1..Len(List[f])
           /\ \A i \in 1..Len(List[f]) : List[f][i] \in Members(f)
           /\ Members(f) \subseteq Commanders
BY StoreAssumption DEF Members

LEMMA RowsOfType ==
    ASSUME NEW b \in Builds, NEW c \in Commanders
    PROVE  RowsOf(b, c) \subseteq Rows
BY StoreAssumption DEF RowsOf, Rows

LEMMA RowsOfAt ==
    ASSUME NEW b, NEW c
    PROVE  /\ RowsAt(RowsOf(b, c), HashOf[b], c) = RowsOf(b, c)
           /\ \A h, d : h # HashOf[b] \/ d # c => RowsAt(RowsOf(b, c), h, d) = {}
BY DEF RowsOf, RowsAt

LEMMA UnionAt ==
    ASSUME NEW t, NEW u, NEW h, NEW c
    PROVE  RowsAt(t \cup u, h, c) = RowsAt(t, h, c) \cup RowsAt(u, h, c)
BY DEF RowsAt

\* A key sees of an insertion only the new rows under the same key.
LEMMA InsertAt ==
    ASSUME NEW t, NEW R, NEW h, NEW c
    PROVE  RowsAt(Insert(t, R), h, c) = Insert(RowsAt(t, h, c), RowsAt(R, h, c))
BY DEF RowsAt, Insert

LEMMA InsertNone == ASSUME NEW t PROVE Insert(t, {}) = t
BY DEF Insert

\* Rows of one build and commander replace only themselves.
LEMMA InsertSame ==
    ASSUME NEW b, NEW c, NEW X \in SUBSET RowsOf(b, c), NEW Y \in SUBSET RowsOf(b, c)
    PROVE  Insert(X, Y) = X \cup Y
BY DEF RowsOf, Insert

LEMMA InsertType ==
    ASSUME NEW t \in SUBSET Rows, NEW R \in SUBSET Rows
    PROVE  Insert(t, R) \subseteq Rows
BY DEF Insert

LEMMA OthersAt ==
    ASSUME NEW p, NEW t, NEW u, Others(p, t) = Others(p, u), NEW h, NEW c, ~OwnKey(p, h, c)
    PROVE  RowsAt(t, h, c) = RowsAt(u, h, c)
BY DEF Others, RowsAt, OwnKey

\* Inserting own rows changes no others.
LEMMA InsertOwn ==
    ASSUME NEW p, NEW t, NEW R, \A row \in R : OwnKey(p, row[1], row[2])
    PROVE  Others(p, Insert(t, R)) = Others(p, t)
BY DEF Others, Insert, OwnKey

LEMMA EvictedOthers ==
    ASSUME NEW p, NEW t
    PROVE  /\ Others(p, Evicted(t, Hash(p), Mine(p))) = Others(p, t)
           /\ \A c \in Mine(p) : RowsAt(Evicted(t, Hash(p), Mine(p)), Hash(p), c) = {}
BY DEF Others, Evicted, RowsAt

-----------------------------------------------------------------------------
(* The table, step by step                                                  *)

\* A truncated write leaves the pin as it was.
LEMMA FileMarked ==
    ASSUME FileType, NEW x, file' = [file EXCEPT ![x].ok = FALSE]
    PROVE  /\ FileType'
           /\ \A f \in Fixtures : file'[f].build = file[f].build /\ file'[f].gem = file[f].gem
BY DEF FileType

LEMMA TableInit == Init => TableInv
<1> SUFFICES ASSUME Init PROVE TableInv
  OBVIOUS
<1> USE DEF Init
<1>1. TypeInv
  BY StoreAssumption DEF TypeInv, ProcType, FileType, Builds
<1>2. TxnInv /\ BufferInv /\ CrossedInv /\ NewestInv /\ ScoreInv
  BY StoreAssumption DEF TxnInv, BufferInv, CrossedInv, NewestInv, ScoreInv, InHand
<1>3. WholeInv
  BY DEF WholeInv, RowsAt
<1>4. BackedInv
  BY DEF BackedInv, Backed
<1> QED BY <1>1, <1>2, <1>3, <1>4 DEF TableInv

\* What neither the source nor the reference data change.
LEMMA SourceEdited ==
    ASSUME TableInv, UNCHANGED <<store, file, procs, ghosts>>, build' \in build..LastBuild
    PROVE  TableInv'
<1> USE DEF TableInv, store, procs, ghosts
<1>1. TypeInv'
  <2>1. build' \in Builds /\ 1..build \subseteq 1..build' /\ 0..build \subseteq 0..build'
    BY StoreAssumption DEF TypeInv, Builds
  <2> QED BY <2>1 DEF TypeInv, ProcType, FileType
<1>2. TxnInv' /\ BufferInv' /\ CrossedInv'
  BY DEF TxnInv, BufferInv, CrossedInv, InHand, Others, OwnKey, Hash, Mine
<1>3. NewestInv' /\ ScoreInv'
  BY DEF NewestInv, ScoreInv, InHand, Mine, Hash, Scored, Seen, RowsAt
<1>4. WholeInv' /\ BackedInv'
  BY DEF WholeInv, BackedInv, Backed, RowsAt, Mine
<1> QED BY <1>1, <1>2, <1>3, <1>4

LEMMA StartTable ==
    ASSUME TableInv, NEW p \in Procs, NEW f \in Fixtures, Start(p, f)
    PROVE  TableInv'
<1> USE DEF TableInv, store
<1>1. /\ \A q \in Procs \ {p} : pc'[q] = pc[q] /\ fix'[q] = fix[q] /\ mine'[q] = mine[q] /\ done'[q] = done[q]
      /\ pc'[p] = "evict" /\ fix'[p] = f /\ mine'[p] = build /\ done'[p] = 0 /\ pc[p] = "idle"
      /\ crossed \subseteq crossed'
      /\ UNCHANGED <<build, table, holder, txn, file, buffer, lost>>
  BY DEF Start, TypeInv
<1>2. holder # p
  BY <1>1 DEF TypeInv
<1>3. TypeInv'
  <2>1. build \in Nat /\ build > 0
    BY StoreAssumption DEF TypeInv, Builds
  <2> QED BY <1>1, <1>2, <2>1 DEF TypeInv, ProcType, FileType, Start
<1>4. TxnInv' /\ BufferInv'
  <2>1. buffer[p] = {}
    BY <1>1 DEF TypeInv, ProcType, FileType
  <2> QED BY <1>1, <1>2, <2>1 DEF TxnInv, BufferInv, Others, OwnKey, Hash, Mine, TypeInv
<1>5. CrossedInv'
  <2> SUFFICES ASSUME NEW x \in Procs, NEW q \in Procs, x # q
               PROVE  InHand(x)' \cap InHand(q)' \subseteq crossed'
    BY DEF CrossedInv
  <2>1. crossed' = crossed \cup (Members(f) \cap UNION {InHand(y) : y \in Procs \ {p}})
    BY DEF Start
  <2>2. InHand(p)' = Members(f) /\ \A y \in Procs \ {p} : InHand(y)' = InHand(y)
    BY <1>1 DEF InHand
  <2> QED BY <2>1, <2>2 DEF CrossedInv
<1>6. NewestInv'
  <2> SUFFICES ASSUME NEW x \in Procs, NEW c \in InHand(x)' \ crossed'
               PROVE  /\ \A g \in Fixtures : c \in Members(g) => file'[g].build <= mine'[x]
                      /\ \A q \in Procs : pc'[q] = "write" /\ c \in Mine(q)' => mine'[q] <= mine'[x]
    BY DEF NewestInv
  <2>1. CASE x = p
    BY <1>1, <2>1 DEF TypeInv, ProcType, FileType
  <2>2. CASE x # p
    BY <1>1, <2>2 DEF NewestInv, InHand, Mine
  <2> QED BY <2>1, <2>2
<1>7. ScoreInv'
  BY <1>1, <1>2 DEF ScoreInv, Mine, Hash, Scored, Seen, RowsAt
<1>8. WholeInv' /\ BackedInv'
  BY <1>1 DEF WholeInv, BackedInv, Backed, RowsAt, Mine
<1> QED BY <1>3, <1>4, <1>5, <1>6, <1>7, <1>8

LEMMA EvictTable ==
    ASSUME TableInv, NEW p \in Procs, Evict(p)
    PROVE  TableInv'
<1> USE DEF TableInv
<1>1. /\ \A q \in Procs \ {p} : pc'[q] = pc[q]
      /\ DOMAIN pc' = Procs /\ pc'[p] = "score" /\ pc[p] = "evict" /\ holder = None
      /\ UNCHANGED <<build, holder, txn, file, fix, mine, done, buffer, crossed>>
      /\ table' = Evicted(table, Hash(p), Mine(p))
      /\ lost' = lost \cup {<<Hash(p), c>> : c \in Mine(p)}
  BY DEF Evict, TypeInv, CanWrite, Mine
<1>2. \A h, c : ~OwnKey(p, h, c) => RowsAt(table', h, c) = RowsAt(table, h, c)
  BY <1>1, EvictedOthers, OthersAt
<1>3. \A c \in Mine(p) : RowsAt(table', Hash(p), c) = {}
  BY <1>1, EvictedOthers
<1>4. TypeInv' /\ TxnInv' /\ BufferInv'
  <2>1. pc[p] # "idle" /\ done[p] = 0 /\ fix[p] \in Fixtures /\ table' \subseteq Rows
    BY <1>1 DEF TypeInv, ProcType, FileType, Evicted
  <2>2. done[p] <= Len(List[fix[p]])
    BY <2>1, ListedCommander
  <2>3. TypeInv'
    BY <1>1, <2>1, <2>2, StoreAssumption DEF TypeInv, ProcType, FileType
  <2>4. TxnInv' /\ BufferInv'
    BY <1>1, StoreAssumption DEF TxnInv, BufferInv, OwnKey, Hash, Mine
  <2> QED BY <2>3, <2>4
<1>5. \A q \in Procs : InHand(q)' = InHand(q)
  BY <1>1 DEF InHand
<1>6. CrossedInv'
  BY <1>1, <1>5 DEF CrossedInv
<1>7. NewestInv'
  BY <1>1, <1>5 DEF NewestInv, Mine
<1>8. ScoreInv'
  <2> SUFFICES ASSUME NEW q \in Procs, pc'[q] = "score", NEW c \in Mine(q) \ crossed
               PROVE  /\ RowsAt(table', Hash(q), c) = {} /\ <<Hash(q), c>> \in lost'
                      /\ RowsAt(table', Hash(q), c) \cup RowsAt(buffer[q], Hash(q), c) =
                            IF c \in Scored(q) THEN RowsOf(mine[q], c) ELSE {}
    BY <1>1, StoreAssumption DEF ScoreInv, Mine, Hash, Seen, Scored, RowsAt, RowsOf
  <2>1. CASE q = p
    <3>1. buffer[p] = {} /\ done[p] = 0
      BY <1>1 DEF TypeInv, ProcType, FileType
    <3> QED BY <1>1, <1>3, <2>1, <3>1 DEF Scored, RowsAt
  <2>2. CASE q # p
    <3>1. pc[q] = "score"
      BY <1>1, <2>2
    <3>2. c \notin Mine(p)
      BY <1>1, <2>2, <3>1 DEF CrossedInv, InHand, Mine
    <3>3. RowsAt(table', Hash(q), c) = RowsAt(table, Hash(q), c)
      BY <1>2, <3>2 DEF OwnKey
    <3>4. Seen(q) = table
      BY <1>1, StoreAssumption DEF Seen
    <3> QED BY <1>1, <3>1, <3>3, <3>4 DEF ScoreInv
  <2> QED BY <2>1, <2>2
<1>9. WholeInv'
  <2> SUFFICES ASSUME NEW b \in Builds, NEW c \in Commanders \ crossed
               PROVE  /\ <<HashOf[b], c>> \in lost' => RowsAt(table', HashOf[b], c) = {}
                      /\ RowsAt(table', HashOf[b], c) # {} =>
                           \E d \in Builds : RowsAt(table', HashOf[b], c) = RowsOf(d, c)
    BY <1>1 DEF WholeInv, RowsAt
  <2>1. CASE OwnKey(p, HashOf[b], c)
    BY <1>3, <2>1 DEF OwnKey
  <2>2. CASE ~OwnKey(p, HashOf[b], c)
    BY <1>1, <1>2, <2>2 DEF WholeInv, OwnKey
  <2> QED BY <2>1, <2>2
<1>10. \A b \in Nat, c \in Commanders : Backed(b, c) => Backed(b, c)'
  <2> SUFFICES ASSUME NEW b \in Nat, NEW c \in Commanders, Backed(b, c), b > 0, <<HashOf[b], c>> \notin lost'
               PROVE  \E d \in b..LastBuild : HashOf[d] = HashOf[b] /\ RowsAt(table', HashOf[b], c) = RowsOf(d, c)
    BY DEF Backed, RowsAt
  <2>1. ~OwnKey(p, HashOf[b], c)
    BY <1>1 DEF OwnKey
  <2> QED BY <1>1, <1>2, <2>1 DEF Backed
<1>11. BackedInv'
  <2>1. \A f \in Fixtures : file[f].build \in Nat /\ Members(f) \subseteq Commanders
    BY ListedCommander DEF TypeInv, Builds
  <2>2. \A q \in Procs : pc[q] = "write" => mine[q] \in Nat /\ Mine(q) \subseteq Commanders
    BY ListedCommander DEF TypeInv, ProcType, FileType, Mine, Builds
  <2>3. \A q \in Procs : pc'[q] = "write" => pc[q] = "write"
    BY <1>1
  <2>4. \A f \in Fixtures : \A c \in Members(f) \ crossed : Backed(file[f].build, c)'
    BY <1>1, <1>10, <2>1 DEF BackedInv, Backed, RowsAt
  <2>5. \A q \in Procs : pc'[q] = "write" => \A c \in Mine(q) \ crossed : Backed(mine[q], c)'
    BY <1>1, <1>10, <2>2, <2>3 DEF BackedInv
  <2> QED BY <1>1, <2>4, <2>5 DEF BackedInv, Backed, RowsAt, Mine
<1> QED BY <1>4, <1>6, <1>7, <1>8, <1>9, <1>11

LEMMA ScoreTable ==
    ASSUME TableInv, NEW p \in Procs, Score(p)
    PROVE  TableInv'
<1> DEFINE c0   == Upcoming(p)
           rows == buffer[p] \cup RowsOf(mine[p], c0)
<1> USE DEF TableInv
<1>1. /\ pc[p] = "score" /\ fix[p] \in Fixtures /\ mine[p] \in Builds /\ done[p] \in Nat
      /\ done[p] < Len(List[fix[p]])
      /\ done' = [done EXCEPT ![p] = @ + 1]
      /\ UNCHANGED <<build, table, file, pc, fix, mine, lost, crossed>>
  BY StoreAssumption DEF Score, TypeInv, ProcType, FileType, Builds
<1>2. c0 \in Mine(p) /\ Mine(p) \subseteq Commanders
  BY <1>1, ListedCommander DEF Upcoming, Mine
<1>3. rows \subseteq Rows /\ \A row \in rows : OwnKey(p, row[1], row[2])
  <2>1. rows \subseteq Rows
    BY <1>1, <1>2, RowsOfType DEF TypeInv
  <2>2. \A row \in RowsOf(mine[p], c0) : OwnKey(p, row[1], row[2])
    BY <1>2 DEF RowsOf, OwnKey, Hash
  <2> QED BY <2>1, <2>2 DEF BufferInv
<1>4. \/ buffer' = [buffer EXCEPT ![p] = rows] /\ UNCHANGED <<holder, txn>>
      \/ CanWrite(p) /\ holder' = p /\ txn' = Insert(Seen(p), rows) /\ buffer' = [buffer EXCEPT ![p] = {}]
  BY DEF Score
<1>5. Seen(p) \subseteq Rows /\ Others(p, Seen(p)) = Others(p, table)
  BY DEF Seen, TypeInv, TxnInv
<1>6. Scored(p)' = Scored(p) \cup {c0}
  <2>1. done'[p] = done[p] + 1 /\ 1..(done[p] + 1) = 1..done[p] \cup {done[p] + 1}
    BY <1>1 DEF TypeInv
  <2> QED BY <1>1, <2>1 DEF Scored, Upcoming
<1>7. TypeInv'
  <2>1. Insert(Seen(p), rows) \subseteq Rows
    BY <1>3, <1>5, InsertType
  <2>2. done'[p] \in Nat /\ done'[p] <= Len(List[fix[p]])
    BY <1>1, ListedCommander DEF TypeInv
  <2> QED BY <1>1, <1>3, <1>4, <2>1, <2>2 DEF TypeInv, ProcType, FileType
<1>8. TxnInv'
  <2>1. CASE UNCHANGED <<holder, txn>>
    BY <1>1, <2>1 DEF TxnInv, Others, Hash, Mine
  <2>2. CASE holder' = p /\ txn' = Insert(Seen(p), rows)
    <3>1. Others(p, txn') = Others(p, table)
      BY <1>3, <1>5, <2>2, InsertOwn
    <3> QED BY <1>1, <2>2, <3>1 DEF TxnInv, Others, Hash, Mine
  <2> QED BY <1>4, <2>1, <2>2
<1>9. BufferInv' /\ CrossedInv' /\ NewestInv'
  BY <1>1, <1>3, <1>4 DEF BufferInv, CrossedInv, NewestInv, OwnKey, Hash, Mine, InHand, TypeInv
<1>10. ScoreInv'
  <2> SUFFICES ASSUME NEW q \in Procs, pc[q] = "score", NEW c \in Mine(q) \ crossed
               PROVE  RowsAt(Seen(q)', Hash(q), c) \cup RowsAt(buffer'[q], Hash(q), c) =
                            IF c \in Scored(q)' THEN RowsOf(mine[q], c) ELSE {}
    BY <1>1 DEF ScoreInv, Mine, Hash, RowsAt, RowsOf
  <2>1. RowsAt(Seen(q), Hash(q), c) \cup RowsAt(buffer[q], Hash(q), c) =
            IF c \in Scored(q) THEN RowsOf(mine[q], c) ELSE {}
    BY DEF ScoreInv
  <2>2. CASE q # p
    <3>1. Seen(q)' = Seen(q)
      BY <1>1, <1>4, <2>2, StoreAssumption DEF Seen, CanWrite
    <3>2. buffer'[q] = buffer[q] /\ Scored(q)' = Scored(q)
      BY <1>1, <1>4, <2>2 DEF TypeInv, Scored
    <3> QED BY <2>1, <3>1, <3>2
  <2>3. CASE q = p
    <3> DEFINE X == RowsAt(Seen(p), Hash(p), c)
               Y == RowsAt(rows, Hash(p), c)
    <3>1. Y = RowsAt(buffer[p], Hash(p), c) \cup (IF c = c0 THEN RowsOf(mine[p], c) ELSE {})
      <4>1. RowsAt(RowsOf(mine[p], c0), Hash(p), c) = IF c = c0 THEN RowsOf(mine[p], c) ELSE {}
        BY RowsOfAt DEF Hash
      <4>2. Y = RowsAt(buffer[p], Hash(p), c) \cup RowsAt(RowsOf(mine[p], c0), Hash(p), c)
        BY UnionAt
      <4> QED BY <4>1, <4>2
    <3>2. X \cup Y = IF c \in Scored(p)' THEN RowsOf(mine[p], c) ELSE {}
      BY <1>6, <2>1, <2>3, <3>1
    <3>3. CASE buffer' = [buffer EXCEPT ![p] = rows] /\ UNCHANGED <<holder, txn>>
      <4>1. Seen(p)' = Seen(p) /\ buffer'[p] = rows
        BY <1>1, <3>3 DEF Seen, TypeInv
      <4> QED BY <2>3, <3>2, <4>1
    <3>4. CASE holder' = p /\ txn' = Insert(Seen(p), rows) /\ buffer' = [buffer EXCEPT ![p] = {}]
      <4>1. Seen(p)' = Insert(Seen(p), rows) /\ buffer'[p] = {}
        BY <1>1, <3>4 DEF Seen, TypeInv
      <4>2. RowsAt(Seen(p)', Hash(p), c) = Insert(X, Y)
        BY <4>1, InsertAt
      <4>3. Insert(X, Y) = X \cup Y
        BY <3>2, InsertSame
      <4> QED BY <2>3, <3>2, <4>1, <4>2, <4>3 DEF RowsAt
    <3> QED BY <1>4, <3>3, <3>4
  <2> QED BY <2>2, <2>3
<1>11. WholeInv' /\ BackedInv'
  BY <1>1 DEF WholeInv, BackedInv, Backed, RowsAt, Mine
<1> QED BY <1>7, <1>8, <1>9, <1>10, <1>11

LEMMA CommitTable ==
    ASSUME TableInv, NEW p \in Procs, Commit(p)
    PROVE  TableInv'
<1> USE DEF TableInv
<1>1. /\ pc[p] = "score" /\ fix[p] \in Fixtures /\ mine[p] \in Builds /\ mine[p] \in 1..build
      /\ done[p] = Len(List[fix[p]])
      /\ \A q \in Procs \ {p} : pc'[q] = pc[q] /\ buffer'[q] = buffer[q]
      /\ DOMAIN pc' = Procs /\ DOMAIN buffer' = Procs /\ pc'[p] = "write" /\ buffer'[p] = {}
      /\ UNCHANGED <<build, file, fix, mine, done, crossed>>
      /\ lost' = lost \ {<<Hash(p), c>> : c \in Mine(p)}
  BY StoreAssumption DEF Commit, TypeInv, ProcType, FileType, Builds, Mine
<1>2. /\ holder' = IF holder = p THEN None ELSE holder
      /\ txn' = IF holder = p THEN {} ELSE txn
      /\ table' = IF CanWrite(p) THEN Insert(Seen(p), buffer[p]) ELSE table
      /\ buffer[p] # {} => CanWrite(p)
  BY DEF Commit
<1>3. Mine(p) \subseteq Commanders /\ Scored(p) = Mine(p)
  BY <1>1, ListedCommander DEF Mine, Members, Scored
<1>4. Seen(p) \subseteq Rows /\ Others(p, Seen(p)) = Others(p, table)
  BY DEF Seen, TypeInv, TxnInv
<1>5. Others(p, table') = Others(p, table) /\ table' \subseteq Rows
  BY <1>2, <1>4, InsertOwn, InsertType DEF BufferInv, TypeInv
<1>6. \A h, c : ~OwnKey(p, h, c) => RowsAt(table', h, c) = RowsAt(table, h, c)
  BY <1>5, OthersAt
<1>7. \A c \in Mine(p) \ crossed : RowsAt(table', Hash(p), c) = RowsOf(mine[p], c)
  <2> SUFFICES ASSUME NEW c \in Mine(p) \ crossed
               PROVE  RowsAt(table', Hash(p), c) = RowsOf(mine[p], c)
    OBVIOUS
  <2> DEFINE X == RowsAt(Seen(p), Hash(p), c)
             Y == RowsAt(buffer[p], Hash(p), c)
  <2>1. X \cup Y = RowsOf(mine[p], c) /\ RowsAt(table, Hash(p), c) = {}
    BY <1>1, <1>3 DEF ScoreInv
  <2>2. CASE CanWrite(p)
    <3>1. RowsAt(table', Hash(p), c) = Insert(X, Y)
      BY <1>2, <2>2, InsertAt
    <3> QED BY <2>1, <3>1, InsertSame
  <2>3. CASE ~CanWrite(p)
    <3>1. table' = table /\ Seen(p) = table /\ buffer[p] = {}
      BY <1>2, <2>3 DEF CanWrite, Seen
    <3> QED BY <2>1, <3>1 DEF RowsAt
  <2> QED BY <2>2, <2>3
<1>8. TypeInv'
  <2>1. txn' \subseteq Rows /\ holder' \in Procs \cup {None} /\ (holder' \in Procs => holder' # p /\ holder' = holder)
    BY <1>2, StoreAssumption DEF TypeInv
  <2> QED BY <1>1, <1>5, <2>1 DEF TypeInv, ProcType, FileType
<1>9. TxnInv' /\ BufferInv'
  BY <1>1, <1>2, StoreAssumption DEF TxnInv, BufferInv, TypeInv, OwnKey, Others, Hash, Mine, CanWrite
<1>10. InHand(p)' = {} /\ \A q \in Procs \ {p} : InHand(q)' = InHand(q)
  BY <1>1 DEF InHand
<1>11. CrossedInv'
  BY <1>1, <1>10 DEF CrossedInv
<1>12. \A q \in Procs \ {p} : InHand(q) \cap Mine(p) \subseteq crossed
  BY <1>1 DEF CrossedInv, InHand, Mine
<1>13. NewestInv'
  BY <1>1, <1>10, <1>12 DEF NewestInv, Mine
<1>14. ScoreInv'
  <2> SUFFICES ASSUME NEW q \in Procs \ {p}, pc[q] = "score", NEW c \in Mine(q) \ crossed
               PROVE  /\ RowsAt(table', Hash(q), c) = {} /\ <<Hash(q), c>> \in lost'
                      /\ RowsAt(Seen(q)', Hash(q), c) \cup RowsAt(buffer[q], Hash(q), c) =
                            IF c \in Scored(q) THEN RowsOf(mine[q], c) ELSE {}
    BY <1>1 DEF ScoreInv, Mine, Hash, Seen, Scored, RowsAt, RowsOf
  <2>1. c \notin Mine(p)
    BY <1>12 DEF InHand, Mine
  <2>2. RowsAt(table', Hash(q), c) = RowsAt(table, Hash(q), c)
    BY <1>6, <2>1 DEF OwnKey
  <2>3. <<Hash(q), c>> \in lost'
    BY <1>1, <2>1 DEF ScoreInv
  <2>4. RowsAt(Seen(q)', Hash(q), c) = RowsAt(Seen(q), Hash(q), c)
    BY <1>2, <2>2, StoreAssumption DEF Seen
  <2> QED BY <2>2, <2>3, <2>4 DEF ScoreInv
<1>15. WholeInv'
  <2> SUFFICES ASSUME NEW b \in Builds, NEW c \in Commanders \ crossed
               PROVE  /\ <<HashOf[b], c>> \in lost' => RowsAt(table', HashOf[b], c) = {}
                      /\ RowsAt(table', HashOf[b], c) # {} =>
                           \E d \in Builds : RowsAt(table', HashOf[b], c) = RowsOf(d, c)
    BY <1>1 DEF WholeInv, RowsAt
  <2>1. CASE OwnKey(p, HashOf[b], c)
    BY <1>1, <1>7, <2>1 DEF OwnKey
  <2>2. CASE ~OwnKey(p, HashOf[b], c)
    BY <1>1, <1>6, <2>2 DEF WholeInv
  <2> QED BY <2>1, <2>2
\* Older pins of a commander are backed by the rows that replace theirs.
<1>16. \A b \in Nat, c \in Commanders \ crossed :
          Backed(b, c) /\ (c \in Mine(p) => b <= mine[p]) => Backed(b, c)'
  <2> SUFFICES ASSUME NEW b \in Nat, NEW c \in Commanders \ crossed, Backed(b, c),
                      c \in Mine(p) => b <= mine[p], b > 0, <<HashOf[b], c>> \notin lost'
               PROVE  \E d \in b..LastBuild : HashOf[d] = HashOf[b] /\ RowsAt(table', HashOf[b], c) = RowsOf(d, c)
    BY DEF Backed, RowsAt
  <2>1. CASE OwnKey(p, HashOf[b], c)
    <3>1. mine[p] \in b..LastBuild /\ HashOf[mine[p]] = HashOf[b]
      BY <1>1, <2>1, StoreAssumption DEF OwnKey, Hash, Builds
    <3>2. RowsAt(table', HashOf[b], c) = RowsOf(mine[p], c)
      BY <1>7, <2>1 DEF OwnKey
    <3> QED BY <3>1, <3>2
  <2>2. CASE ~OwnKey(p, HashOf[b], c)
    <3>1. <<HashOf[b], c>> \notin lost
      BY <1>1, <2>2 DEF OwnKey
    <3> QED BY <1>6, <2>2, <3>1 DEF Backed
  <2> QED BY <2>1, <2>2
<1>17. BackedInv'
  <2>1. \A f \in Fixtures : file[f].build \in Nat /\ Members(f) \subseteq Commanders
    BY ListedCommander DEF TypeInv, Builds
  <2>2. \A q \in Procs : pc[q] # "idle" => mine[q] \in Nat /\ Mine(q) \subseteq Commanders
    BY ListedCommander DEF TypeInv, ProcType, FileType, Mine, Builds
  <2>3. InHand(p) = Mine(p)
    BY <1>1 DEF InHand, Mine
  <2>4. \A f \in Fixtures : \A c \in Members(f) \ crossed : Backed(file[f].build, c)'
    <3> SUFFICES ASSUME NEW f \in Fixtures, NEW c \in Members(f) \ crossed
                 PROVE  Backed(file[f].build, c)'
      OBVIOUS
    <3>1. c \in Mine(p) => file[f].build <= mine[p]
      BY <2>3 DEF NewestInv
    <3> QED BY <1>1, <1>16, <2>1, <3>1 DEF BackedInv
  <2>5. \A q \in Procs \ {p} : pc[q] = "write" => \A c \in Mine(q) \ crossed : Backed(mine[q], c)'
    <3> SUFFICES ASSUME NEW q \in Procs \ {p}, pc[q] = "write", NEW c \in Mine(q) \ crossed
                 PROVE  Backed(mine[q], c)'
      OBVIOUS
    <3>1. c \in Mine(p) => mine[q] <= mine[p]
      BY <2>3 DEF NewestInv
    <3> QED BY <1>1, <1>16, <2>2, <3>1 DEF BackedInv
  <2>6. \A c \in Mine(p) \ crossed : Backed(mine[p], c)'
    <3> SUFFICES ASSUME NEW c \in Mine(p) \ crossed
                 PROVE  \E d \in mine[p]..LastBuild : HashOf[d] = HashOf[mine[p]] /\ RowsAt(table', HashOf[mine[p]], c) = RowsOf(d, c)
      BY <1>1 DEF Backed, RowsAt
    <3> QED BY <1>1, <1>7, StoreAssumption DEF Hash, Builds
  <2> QED BY <1>1, <2>4, <2>5, <2>6 DEF BackedInv, Mine
<1> QED BY <1>8, <1>9, <1>11, <1>13, <1>14, <1>15, <1>17

LEMMA WriteTable ==
    ASSUME TableInv, NEW p \in Procs, Write(p)
    PROVE  TableInv'
<1> USE DEF TableInv, store, ghosts
<1>1. /\ pc[p] = "write" /\ fix[p] \in Fixtures /\ mine[p] \in 1..build /\ buffer[p] = {}
      /\ \A q \in Procs \ {p} : pc'[q] = pc[q]
      /\ DOMAIN pc' = Procs /\ pc'[p] = "idle"
      /\ FileType'
      /\ \A f \in Fixtures : file'[f].build = IF f = fix[p] THEN mine[p] ELSE file[f].build
      /\ UNCHANGED <<build, table, holder, txn, fix, mine, done, buffer, lost, crossed>>
  BY DEF Write, TypeInv, ProcType, FileType
<1>2. TypeInv'
  <2>1. mine[p] \in 0..build
    BY <1>1
  <2> QED BY <1>1, <2>1 DEF TypeInv, ProcType, FileType
<1>3. TxnInv' /\ BufferInv'
  BY <1>1 DEF TxnInv, BufferInv, OwnKey, Others, Hash, Mine
<1>4. \A q \in Procs : InHand(q)' = InHand(q)
  BY <1>1 DEF InHand
<1>5. CrossedInv'
  BY <1>1, <1>4 DEF CrossedInv
<1>6. NewestInv'
  BY <1>1, <1>4 DEF NewestInv, Mine
<1>7. ScoreInv' /\ WholeInv'
  BY <1>1 DEF ScoreInv, WholeInv, Mine, Hash, Seen, Scored, RowsAt
<1>8. BackedInv'
  <2>1. \A f \in Fixtures : \A c \in Members(f) \ crossed : Backed(file'[f].build, c)
    BY <1>1 DEF BackedInv, Mine
  <2> QED BY <1>1, <2>1 DEF BackedInv, Backed, RowsAt, Mine
<1> QED BY <1>2, <1>3, <1>5, <1>6, <1>7, <1>8

\* A repin that ends early leaves what it evicted in lost.
LEMMA AbandonTable ==
    ASSUME TableInv, NEW p \in Procs, pc[p] # "idle", Abandon(p), FileType',
           \A f \in Fixtures : file'[f].build = file[f].build
    PROVE  TableInv'
<1> USE DEF TableInv
<1>1. /\ \A q \in Procs \ {p} : pc'[q] = pc[q] /\ buffer'[q] = buffer[q]
      /\ DOMAIN pc' = Procs /\ pc'[p] = "idle"
      /\ DOMAIN buffer' = Procs /\ buffer'[p] = {}
      /\ holder' = IF holder = p THEN None ELSE holder
      /\ txn' = IF holder = p THEN {} ELSE txn
      /\ UNCHANGED <<build, table, fix, mine, done, lost, crossed>>
  BY DEF Abandon, TypeInv
<1>2. TypeInv'
  <2>1. txn' \subseteq Rows /\ holder' \in Procs \cup {None} /\ (holder' \in Procs => holder' # p /\ holder' = holder)
    BY <1>1, StoreAssumption DEF TypeInv
  <2> QED BY <1>1, <2>1 DEF TypeInv, ProcType, FileType
<1>3. TxnInv' /\ BufferInv'
  BY <1>1, StoreAssumption DEF TxnInv, BufferInv, OwnKey, Others, Hash, Mine
<1>4. InHand(p)' = {} /\ \A q \in Procs \ {p} : InHand(q)' = InHand(q)
  BY <1>1 DEF InHand
<1>5. CrossedInv'
  BY <1>1, <1>4 DEF CrossedInv
<1>6. NewestInv'
  BY <1>1, <1>4 DEF NewestInv, Mine
<1>7. ScoreInv' /\ WholeInv'
  <2>1. WholeInv'
    BY <1>1 DEF WholeInv, RowsAt
  <2>2. \A q \in Procs \ {p} : Seen(q)' = Seen(q)
    BY <1>1, StoreAssumption DEF Seen
  <2> QED BY <1>1, <2>1, <2>2 DEF ScoreInv, Mine, Hash, Scored, RowsAt
<1>8. BackedInv'
  BY <1>1 DEF BackedInv, Backed, RowsAt, Mine
<1> QED BY <1>2, <1>3, <1>5, <1>6, <1>7, <1>8

LEMMA TableStep == TableInv /\ [Next]_vars => TableInv'
<1> SUFFICES ASSUME TableInv, [Next]_vars PROVE TableInv'
  OBVIOUS
<1>1. build \in build..LastBuild
  BY StoreAssumption DEF TableInv, TypeInv, Builds
<1>2. CASE Edit
  <2>1. build' \in build..LastBuild
    BY <1>1, <1>2, StoreAssumption DEF Edit
  <2> QED BY <1>2, <2>1, SourceEdited DEF Edit
<1>3. CASE Refresh
  BY <1>1, <1>3, SourceEdited DEF Refresh
<1>4. ASSUME NEW p \in Procs, \E f \in Fixtures : Start(p, f) PROVE TableInv'
  BY <1>4, StartTable
<1>5. ASSUME NEW p \in Procs, Locked(p) PROVE TableInv'
  <2>1. pc[p] # "idle" /\ Abandon(p) /\ file' = file
    BY <1>5 DEF Locked
  <2>2. FileType'
    BY <2>1 DEF TableInv, TypeInv, FileType
  <2> QED BY <2>1, <2>2, AbandonTable
<1>6. ASSUME NEW p \in Procs, Die(p) PROVE TableInv'
  <2>1. pc[p] # "idle" /\ Abandon(p)
    BY <1>6 DEF Die
  <2>2. FileType' /\ \A f \in Fixtures : file'[f].build = file[f].build
    BY <1>6, FileMarked DEF Die, TableInv, TypeInv, FileType
  <2> QED BY <2>1, <2>2, AbandonTable
<1>7. CASE UNCHANGED vars
  BY <1>1, <1>7, SourceEdited DEF vars
<1> QED BY <1>2, <1>3, <1>4, <1>5, <1>6, <1>7, EvictTable, ScoreTable, CommitTable, WriteTable DEF Next

LEMMA TableInvariant == Spec => []TableInv
BY TableInit, TableStep, PTL DEF Spec

\* "Partial tensors never land": whatever the interleaving of the repins, their
\* crashes and the edits between them, a commander that was never in two hands at
\* once has the rows of one build or none.
THEOREM WholeTensors == Spec => []WholeOrAbsent
<1>1. TableInv => WholeOrAbsent
  BY DEF TableInv, WholeInv, WholeOrAbsent
<1> QED BY <1>1, TableInvariant, PTL

\* Every fixture on disk has the tensor rows it was computed from, or newer ones
\* under the same hash, for all commanders it does not share with a failed
\* or overlapping repin.
THEOREM FixturesBacked == Spec => []FixtureBacked
<1>1. TableInv => FixtureBacked
  BY DEF TableInv, BackedInv, Backed, FixtureBacked
<1> QED BY <1>1, TableInvariant, PTL

\* Additive repins: no step of one touches the committed rows of a commander
\* outside its fixture or under another hash.
THEOREM RepinsKeepOthers == Spec => OnlyOwnRows
<1> DEFINE Touch ==
      table' # table =>
        \E p \in Procs :
            /\ pc[p] \in {"evict", "score"} /\ pc'[p] # pc[p]
            /\ LET Rest(t) == {row \in t : row[1] # Hash(p) \/ row[2] \notin Members(fix[p])}
               IN  Rest(table') = Rest(table)
<1>1. TableInv /\ [Next]_vars => Touch
  <2> SUFFICES ASSUME TableInv, [Next]_vars, table' # table PROVE Touch
    OBVIOUS
  <2>1. PICK p \in Procs : Evict(p) \/ Commit(p)
    BY DEF Next, vars, store, Edit, Refresh, Start, Score, Write, Locked, Die, Abandon
  <2>2. CASE Evict(p)
    <3>1. Others(p, table') = Others(p, table)
      BY <2>2, EvictedOthers DEF Evict, Mine
    <3> QED BY <2>2, <3>1 DEF Evict, Others, Mine, TableInv, TypeInv
  <2>3. CASE Commit(p)
    <3>1. Others(p, Seen(p)) = Others(p, table)
      BY DEF TableInv, TxnInv, Seen
    <3>2. Others(p, table') = Others(p, table)
      BY <2>3, <3>1, InsertOwn DEF Commit, TableInv, BufferInv
    <3> QED BY <2>3, <3>2 DEF Commit, Others, Mine, TableInv, TypeInv
  <2> QED BY <2>1, <2>2, <2>3
<1> QED BY <1>1, TableInvariant, PTL DEF Spec, OnlyOwnRows

-----------------------------------------------------------------------------
(* The gem keys                                                             *)

LEMMA GemInit == Init => GemInv
<1> SUFFICES ASSUME Init PROVE GemInv
  OBVIOUS
<1>1. FileType /\ \A f \in Fixtures : DOMAIN file[f].gem = Members(f)
  BY DEF Init, FileType
<1>2. \A p \in Procs : pc[p] = "idle" /\ opened[p] = 1
  BY DEF Init
<1>3. edhrec.epoch = 1
  BY DEF Init
<1> QED BY <1>1, <1>2, <1>3 DEF Init, GemInv

LEMMA GemStep == GemInv /\ [Next]_vars => GemInv'
<1> SUFFICES ASSUME GemInv, [Next]_vars PROVE GemInv'
  OBVIOUS
<1> USE DEF GemInv, FileType, store, procs, ghosts
<1>1. CASE UNCHANGED <<edhrec, file, procs, opened>>
  BY <1>1 DEF Scored, Mine
\* Keys of older data are no longer claimed to be of the data opened.
<1>2. CASE Refresh
  <2>1. edhrec'.epoch = edhrec.epoch + 1
    BY <1>2 DEF Refresh
  <2>2. \A p \in Procs : opened[p] # edhrec'.epoch /\ opened[p] \in 1..edhrec'.epoch
    BY <2>1
  <2> QED BY <1>2, <2>1, <2>2 DEF Refresh, Scored, Mine
<1>3. ASSUME NEW p \in Procs, NEW f \in Fixtures, Start(p, f) PROVE GemInv'
  <2>1. edhrec.epoch \in 1..edhrec.epoch /\ 0 \in 0..Len(List[f])
    BY ListedCommander
  <2> QED BY <1>3, <2>1 DEF Start, Scored, Mine
<1>4. ASSUME NEW p \in Procs, Evict(p) PROVE GemInv'
  <2>1. Scored(p)' = {}
    BY <1>4 DEF Evict, Scored
  <2> QED BY <1>4, <2>1 DEF Evict, Scored, Mine
<1>5. ASSUME NEW p \in Procs, Score(p) PROVE GemInv'
  <2> DEFINE c0 == Upcoming(p)
  <2>1. /\ pc[p] = "score" /\ fix[p] \in Fixtures /\ done[p] < Len(List[fix[p]])
        /\ done' = [done EXCEPT ![p] = @ + 1]
        /\ gem' = [gem EXCEPT ![p][c0] = GemOf(p, c0)]
        /\ UNCHANGED <<edhrec, file, pc, fix, opened>>
    BY <1>5 DEF Score
  <2>2. done'[p] \in 0..Len(List[fix[p]]) /\ c0 \in Mine(p) /\ done[p] \in Nat
    BY <2>1, ListedCommander DEF Upcoming, Mine
  <2>3. Scored(p)' = Scored(p) \cup {c0}
    <3>1. done'[p] = done[p] + 1 /\ 1..(done[p] + 1) = 1..done[p] \cup {done[p] + 1}
      BY <2>1, <2>2
    <3>2. Scored(p)' = {List[fix[p]][i] : i \in 1..done[p] \cup {done[p] + 1}}
      BY <2>1, <3>1 DEF Scored
    <3> QED BY <3>2 DEF Scored, Upcoming
  <2>4. \A c \in Mine(p) : gem'[p][c] = IF c = c0 THEN GemOf(p, c0) ELSE gem[p][c]
    BY <2>1, <2>2
  <2>5. DOMAIN gem'[p] = Mine(p) /\ DOMAIN gem' = Procs /\ \A q \in Procs \ {p} : gem'[q] = gem[q] /\ done'[q] = done[q]
    BY <2>1
  <2>6. Scored(p)' \subseteq Mine(p)
    BY <2>1, <2>2, ListedCommander DEF Scored, Mine
  <2>7. opened[p] = edhrec.epoch => \A c \in Scored(p)' \cap edhrec.covered : gem'[p][c] = opened[p]
    BY <2>1, <2>3, <2>4, <2>6 DEF GemOf
  <2>8. \A q \in Procs \ {p} : Scored(q)' = Scored(q)
    BY <2>1, <2>5 DEF Scored
  <2> QED BY <2>1, <2>2, <2>5, <2>7, <2>8 DEF Mine
<1>6. ASSUME NEW p \in Procs, Commit(p) PROVE GemInv'
  BY <1>6 DEF Commit, Scored, Mine
<1>7. ASSUME NEW p \in Procs, Write(p) PROVE GemInv'
  BY <1>7 DEF Write, Scored, Mine
<1>8. ASSUME NEW p \in Procs, Abandon(p), FileType', \A f \in Fixtures : file'[f].gem = file[f].gem
      PROVE  GemInv'
  BY <1>8 DEF Abandon, Scored, Mine
<1>9. ASSUME NEW p \in Procs, Die(p) PROVE GemInv'
  <2>1. FileType' /\ \A f \in Fixtures : file'[f].gem = file[f].gem
    BY <1>9, FileMarked DEF Die
  <2> QED BY <1>8, <1>9, <2>1 DEF Die
<1>10. ASSUME NEW p \in Procs, Locked(p) PROVE GemInv'
  BY <1>8, <1>10 DEF Locked
<1>11. Edit => UNCHANGED <<edhrec, file, procs, opened>>
  BY DEF Edit
<1>12. UNCHANGED vars => UNCHANGED <<edhrec, file, procs, opened>>
  BY DEF vars
<1> QED BY <1>1, <1>2, <1>3, <1>4, <1>5, <1>6, <1>7, <1>9, <1>10, <1>11, <1>12 DEF Next

\* A fixture that is about to be written carries, for every commander with
\* reference data, gem keys of the data its repin opened, unless an import of
\* the reference data overtook it.
THEOREM GemsAreCurrent == Spec => []GemsOfCoveredCommanders
<1>1. GemInv => GemsOfCoveredCommanders
  <2> SUFFICES ASSUME GemInv, NEW p \in Procs, pc[p] = "write", opened[p] = edhrec.epoch,
                      NEW c \in Members(fix[p]) \cap edhrec.covered
               PROVE  gem[p][c] = opened[p]
    BY DEF GemsOfCoveredCommanders
  <2>1. Members(fix[p]) = Scored(p)
    BY ListedCommander DEF GemInv, Scored, Members
  <2> QED BY <2>1 DEF GemInv
<1> QED BY <1>1, GemInit, GemStep, PTL DEF Spec
=============================================================================
