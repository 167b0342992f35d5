------------------------- MODULE ForensicsRunProofs -------------------------
(* Proofs about SynergyEngine and ForensicsRun, for every card, rule, label  *)
(* and history of the database.  The first part shows that a page is a       *)
(* ranking: totals are integers, its sort keys are a strict order, and each  *)
(* legal card has exactly one rank.                                          *)
EXTENDS ForensicsRun, FiniteSetTheorems, TLAPS

-----------------------------------------------------------------------------
(* Sums are defined by recursion over a finite set.  The library states      *)
(* induction for predicates; here the induction hypothesis is a set.         *)

LEMMA LeastNat == ASSUME NEW T \in SUBSET Nat, T # {} PROVE \E n \in T : \A m \in T : n <= m
<1> DEFINE R == OpToRel(<, Nat)
<1>1. \E x \in T : \A y \in T : ~ (<<y, x>> \in R)
  BY NatLessThanWellFounded, WFMin
<1>2. R = {ss \in Nat \X Nat : ss[1] < ss[2]}
  BY DEF OpToRel
<1> HIDE DEF R
<1>3. \A x, y \in Nat : y < x => <<y, x>> \in R
  BY <1>2
<1>4. PICK n \in T : \A y \in T : <<y, n>> \notin R
  BY <1>1
<1>5. ASSUME NEW m \in T PROVE n <= m
  <2>1. ~ (m < n) BY <1>3, <1>4
  <2> QED BY <2>1
<1> QED BY <1>5

LEMMA SetInduction ==
    ASSUME NEW T, 0 \in T, \A n \in Nat : n \in T => n + 1 \in T
    PROVE  Nat \subseteq T
<1> SUFFICES ASSUME Nat \ T # {} PROVE FALSE
  OBVIOUS
<1>1. PICK n \in Nat \ T : \A m \in Nat \ T : n <= m
  BY LeastNat
<1>2. n # 0 /\ n - 1 \in Nat
  BY <1>1
<1>3. n - 1 \in T
  BY <1>1, <1>2
<1> QED BY <1>1, <1>2, <1>3

\* g adds up f over every subset of its domain, one chosen element after the other.
Chosen(D) == CHOOSE x \in D : TRUE
Adds(f, g) == g = [D \in SUBSET DOMAIN f |->
    IF D = {} THEN 0 ELSE f[Chosen(D)] + g[D \ {Chosen(D)}]]

LEMMA SumByParts == ASSUME NEW f PROVE Added(f) = (CHOOSE g : Adds(f, g))[DOMAIN f]
BY DEF Added, Adds, Chosen

\* The sum of integers over a finite set is an integer.
LEMMA SumIsInteger ==
    ASSUME NEW D, IsFiniteSet(D), NEW f \in [D -> Int]
    PROVE  Added(f) \in Int
<1> DEFINE Small(n) == {E \in SUBSET D : Cardinality(E) <= n}
           Part(n, g) == /\ g \in [Small(n) -> Int]
                         /\ \A E \in Small(n) : g[E] = IF E = {} THEN 0 ELSE f[Chosen(E)] + g[E \ {Chosen(E)}]
           T == {n \in Nat : \E g : Part(n, g)}
<1>1. \A E \in SUBSET D : /\ IsFiniteSet(E) /\ Cardinality(E) \in Nat /\ Cardinality(E) <= Cardinality(D)
                          /\ (Cardinality(E) = 0 <=> E = {})
  BY FS_Subset, FS_CardinalityType, FS_EmptySet
<1>2. \A E \in SUBSET D : E # {} =>
          /\ Chosen(E) \in E /\ E \ {Chosen(E)} \in SUBSET D
          /\ Cardinality(E \ {Chosen(E)}) = Cardinality(E) - 1
  BY <1>1, FS_RemoveElement DEF Chosen
<1> HIDE DEF Chosen
<1>3. 0 \in T
  <2> DEFINE g == [E \in Small(0) |-> 0]
  <2>1. \A E \in Small(0) : E = {} BY <1>1
  <2>2. Part(0, g) BY <2>1
  <2> QED BY <2>2
<1>4. \A n \in Nat : n \in T => n + 1 \in T
  <2> SUFFICES ASSUME NEW n \in Nat, n \in T PROVE n + 1 \in T
    OBVIOUS
  <2>1. PICK g : Part(n, g) OBVIOUS
  <2> DEFINE h == [E \in Small(n + 1) |-> IF E = {} THEN 0 ELSE f[Chosen(E)] + g[E \ {Chosen(E)}]]
  <2>2. \A E \in Small(n + 1) : E # {} => E \ {Chosen(E)} \in Small(n)
    BY <1>1, <1>2
  <2>3. h \in [Small(n + 1) -> Int]
    BY <1>2, <2>1, <2>2
  <2>4. \A E \in Small(n) : h[E] = g[E]
    BY <1>1, <2>1
  <2>5. \A E \in Small(n + 1) : h[E] = IF E = {} THEN 0 ELSE f[Chosen(E)] + h[E \ {Chosen(E)}]
    BY <2>2, <2>4
  <2>6. Part(n + 1, h) BY <2>3, <2>5
  <2> HIDE DEF Part
  <2> QED BY <2>6
<1>5. Nat \subseteq T
  <2> HIDE DEF T
  <2> QED BY <1>3, <1>4, SetInduction
<1>6. Cardinality(D) \in Nat /\ Small(Cardinality(D)) = SUBSET D
  BY <1>1
<1>7. PICK g : Part(Cardinality(D), g)
  BY <1>5, <1>6
<1>8. Adds(f, g)
  BY <1>6, <1>7 DEF Adds
<1> DEFINE s == CHOOSE t : Adds(f, t)
<1>9. Adds(f, s)
  BY <1>8
<1> HIDE DEF s
<1> DEFINE U == {n \in Nat : \A E \in Small(n) : s[E] \in Int}
<1>10. 0 \in U
  BY <1>1, <1>9 DEF Adds
<1>11. \A n \in Nat : n \in U => n + 1 \in U
  <2> SUFFICES ASSUME NEW n \in Nat, n \in U, NEW E \in Small(n + 1) PROVE s[E] \in Int
    OBVIOUS
  <2>1. CASE E = {} BY <1>9, <2>1 DEF Adds
  <2>2. CASE E # {}
    <3>1. E \ {Chosen(E)} \in Small(n) BY <1>1, <1>2, <2>2
    <3>2. s[E \ {Chosen(E)}] \in Int /\ f[Chosen(E)] \in Int BY <1>2, <2>2, <3>1
    <3>3. s[E] = f[Chosen(E)] + s[E \ {Chosen(E)}] BY <1>9, <2>2 DEF Adds
    <3> QED BY <3>2, <3>3
  <2> QED BY <2>1, <2>2
<1>12. Nat \subseteq U
  <2> HIDE DEF U
  <2> QED BY <1>10, <1>11, SetInduction
<1>13. s[D] \in Int
  BY <1>6, <1>12
<1> QED BY <1>13, SumByParts DEF s
-----------------------------------------------------------------------------
(* Totals                                                                   *)

LEMMA Versions ==
    ASSUME history \in Histories
    PROVE  /\ Len(history) \in Nat \ {0} /\ DOMAIN history = 1..Len(history)
           /\ \A v \in 1..Len(history) : DOMAIN In(v).card \subseteq Names
BY HistoryAssumption DEF In

\* The sort keys of a page are integers.
LEMMA KeysAreIntegers ==
    ASSUME history \in Histories, NEW v \in 1..Len(history), NEW n
    PROVE  Cmc(v, n) \in Int /\ Rank(v, n) \in Int
BY Versions, HistoryAssumption DEF In, Cmc, Rank

\* A rule that reaches a card has at most as many candidates as there are names.
LEMMA IdfIsNatural ==
    ASSUME NEW M, \A m \in M : m[1] \in Names, NEW m \in M
    PROVE  IdfWeight(m[2], M) \in Nat
<1> DEFINE S == {x[1] : x \in {y \in M : y[2] = m[2]}}
<1>1. S \subseteq Names /\ S # {}
  OBVIOUS
<1>2. IsFiniteSet(S) /\ Cardinality(S) <= Cardinality(Names)
  BY <1>1, EngineAssumption, FS_Subset
<1> HIDE DEF S
<1>3. Cardinality(S) \in Nat /\ Cardinality(S) # 0 /\ Cardinality(Names) \in Nat
  BY <1>1, <1>2, EngineAssumption, FS_CardinalityType, FS_EmptySet
<1>4. Cardinality(S) \in 1..Len(Weight)
  BY <1>2, <1>3, EngineAssumption
<1>5. Weight[Cardinality(S)] \in Nat
  BY <1>4, EngineAssumption
<1> QED BY <1>5 DEF IdfWeight, S

LEMMA TotalIsInteger ==
    ASSUME history \in Histories, NEW s, s.rows \in 1..Len(history), NEW deck, NEW n
    PROVE  Total(n, deck, s, Matches(deck, s)) \in Int
<1> DEFINE M == Matches(deck, s)
           rules == {r \in Rules : <<n, r, "synergy">> \in M}
           net == [r \in Rules |-> Net(n, r, M)]
<1>1. \A m \in M : m[1] \in Names
  BY DEF Matches
<1> HIDE DEF M
<1>2. ASSUME NEW r \in Rules PROVE Net(n, r, M) \in Int
  <2>1. ASSUME NEW d \in Directions, <<n, r, d>> \in M PROVE IdfWeight(r, M) \in Nat
    <3>1. <<n, r, d>>[2] = r OBVIOUS
    <3> QED BY <1>1, <2>1, <3>1, IdfIsNatural
  <2> QED BY <2>1 DEF Net, Directions
<1>3. Added(net) \in Int
  <2>1. net \in [Rules -> Int] BY <1>2
  <2> HIDE DEF net
  <2> QED BY <2>1, EngineAssumption, SumIsInteger
<1>4. StapleBonus(n, deck, s) \in Int
  BY SMT DEF StapleBonus
<1>5. \A i \in Int : Floor(i) \in Int
  BY DEF Floor
<1>6. Breadth(n, M) \in Int
  <2>1. Cardinality(rules) \in Int
    <3>1. IsFiniteSet(Rules) /\ rules \subseteq Rules BY EngineAssumption
    <3> HIDE DEF rules
    <3> QED BY <3>1, FS_Subset, FS_CardinalityType
  <2> QED BY SMT, <1>5, <2>1 DEF Breadth
<1>7. CmcBonus(s.rows, n) \in Int /\ RankBonus(s.rows, n) \in Int
  <2>1. Cmc(s.rows, n) \in Int /\ Rank(s.rows, n) \in Int
    BY KeysAreIntegers
  <2>2. Floor(7 - Cmc(s.rows, n)) \in Int /\ Floor(30000 - Rank(s.rows, n)) \in Int
    BY SMT, <2>1 DEF Floor
  <2> QED BY SMT, <2>2 DEF CmcBonus, RankBonus
<1>8. Total(n, deck, s, M) = 420000 * Added(net) + StapleBonus(n, deck, s) + Breadth(n, M)
                             + CmcBonus(s.rows, n) + RankBonus(s.rows, n)
  BY SMT DEF Total
<1> HIDE DEF net
<1> QED BY SMT, <1>3, <1>4, <1>6, <1>7, <1>8 DEF M
-----------------------------------------------------------------------------
(* Pages are rankings                                                       *)

\* The sort key of page() orders cards strictly and totally, the name deciding in
\* the end.
LEMMA KeyOrder ==
    ASSUME history \in Histories, NEW v \in 1..Len(history), NEW T,
           NEW S \in SUBSET Names, \A n \in S : T[n] \in Int
    PROVE  \A k, m, n \in S :
               /\ ~ Before(n, n, T, v)
               /\ Before(k, m, T, v) /\ Before(m, n, T, v) => Before(k, n, T, v)
               /\ m # n => Before(m, n, T, v) \/ Before(n, m, T, v)
<1> TAKE k, m, n \in S
<1>1. /\ T[k] \in Int /\ T[m] \in Int /\ T[n] \in Int
      /\ Order[k] \in Nat /\ Order[m] \in Nat /\ Order[n] \in Nat
      /\ m # n => Order[m] # Order[n]
  BY EngineAssumption
<1>2. /\ Cmc(v, k) \in Int /\ Cmc(v, m) \in Int /\ Cmc(v, n) \in Int
      /\ Rank(v, k) \in Int /\ Rank(v, m) \in Int /\ Rank(v, n) \in Int
  BY KeysAreIntegers
<1>3. ~ Before(n, n, T, v)
  BY <1>1, <1>2 DEF Before
<1>4. Before(k, m, T, v) /\ Before(m, n, T, v) => Before(k, n, T, v)
  BY SMTT(60), <1>1, <1>2 DEF Before
<1>5. m # n => Before(m, n, T, v) \/ Before(n, m, T, v)
  BY <1>1, <1>2 DEF Before
<1> QED BY <1>3, <1>4, <1>5

Place(n, S, T, v) == Cardinality({m \in S : Before(m, n, T, v)})

\* Each card of a page has one rank, and each rank up to their number has one card.
LEMMA SortedRanks ==
    ASSUME history \in Histories, NEW v \in 1..Len(history), NEW T,
           NEW S \in SUBSET Names, \A n \in S : T[n] \in Int
    PROVE  LET ranked == Sorted(S, T, v)
           IN  /\ Cardinality(S) \in Nat /\ DOMAIN ranked = 1..Cardinality(S)
               /\ \A i \in 1..Cardinality(S) : ranked[i] \in S
               /\ \A i, j \in 1..Cardinality(S) : ranked[i] = ranked[j] => i = j
               /\ \A n \in S : \E i \in 1..Cardinality(S) : ranked[i] = n
<1> DEFINE N == Cardinality(S)
           Ahead(n) == {m \in S : Before(m, n, T, v)}
           place == [n \in S |-> Place(n, S, T, v)]
<1>1. IsFiniteSet(S) /\ N \in Nat
  BY EngineAssumption, FS_Subset, FS_CardinalityType
<1>2. \A n \in S : IsFiniteSet(Ahead(n)) /\ Cardinality(Ahead(n)) \in Nat
  <2> TAKE n \in S
  <2>1. Ahead(n) \subseteq S OBVIOUS
  <2> HIDE DEF Ahead
  <2> QED BY <1>1, <2>1, FS_Subset, FS_CardinalityType
<1>3. \A n \in S : n \notin Ahead(n)
  BY KeyOrder
<1>4. \A m, n \in S : m \in Ahead(n) => Ahead(m) \cup {m} \subseteq Ahead(n)
  BY KeyOrder
<1>5. \A m, n \in S : m # n => m \in Ahead(n) \/ n \in Ahead(m)
  BY KeyOrder
<1>6. \A n \in S : Cardinality(Ahead(n)) < N
  <2> TAKE n \in S
  <2>1. Ahead(n) \in SUBSET S /\ Ahead(n) # S BY <1>3
  <2> HIDE DEF Ahead
  <2>2. Cardinality(Ahead(n)) <= N /\ Cardinality(Ahead(n)) # N
    BY <1>1, <2>1, FS_Subset
  <2> QED BY <1>1, <1>2, <2>2
<1>7. \A m, n \in S : m \in Ahead(n) => Cardinality(Ahead(m)) < Cardinality(Ahead(n))
  <2> SUFFICES ASSUME NEW m \in S, NEW n \in S, m \in Ahead(n)
               PROVE  Cardinality(Ahead(m)) < Cardinality(Ahead(n))
    OBVIOUS
  <2>1. Ahead(m) \cup {m} \in SUBSET Ahead(n) /\ m \notin Ahead(m) BY <1>3, <1>4
  <2> HIDE DEF Ahead
  <2>2. Cardinality(Ahead(m) \cup {m}) = Cardinality(Ahead(m)) + 1
    BY <1>2, <2>1, FS_AddElement
  <2>3. Cardinality(Ahead(m) \cup {m}) <= Cardinality(Ahead(n))
    BY <1>2, <2>1, FS_Subset
  <2> QED BY <1>2, <2>2, <2>3
<1>8. \A n \in S : place[n] = Cardinality(Ahead(n))
  BY DEF Place
<1> HIDE DEF Ahead, place
<1>9. \A m, n \in S : place[m] = place[n] => m = n
  BY <1>2, <1>5, <1>7, <1>8
<1>10. place \in [S -> 0..(N - 1)]
  <2>1. \A n \in S : place[n] \in 0..(N - 1) BY <1>1, <1>2, <1>6, <1>8
  <2> QED BY <2>1 DEF place
<1>11. \A i \in 1..N : \E n \in S : place[n] = i - 1
  <2>1. place \in Injection(S, 0..(N - 1))
    BY <1>9, <1>10 DEF Injection, IsInjective
  <2>2. IsFiniteSet(0..(N - 1)) /\ Cardinality(0..(N - 1)) = N
    <3>1. 0 \in Int /\ N - 1 \in Int /\ (N - 1) - 0 + 1 = N /\ (0 > N - 1 => N = 0) BY <1>1
    <3> HIDE DEF N
    <3> QED BY <3>1, FS_Interval
  <2>3. place \in Surjection(S, 0..(N - 1))
    BY <2>1, <2>2, FS_Injection
  <2> QED BY <1>1, <2>3 DEF Surjection
<1> DEFINE ranked == Sorted(S, T, v)
<1>12. /\ DOMAIN ranked = 1..N
       /\ \A i \in 1..N : ranked[i] = CHOOSE n \in S : place[n] = i - 1
  BY <1>8 DEF Sorted, Ahead
<1> HIDE DEF ranked
<1>13. \A i \in 1..N : ranked[i] \in S /\ place[ranked[i]] = i - 1
  BY <1>11, <1>12
<1>14. \A i, j \in 1..N : ranked[i] = ranked[j] => i = j
  BY <1>1, <1>13
<1>15. \A n \in S : \E i \in 1..N : ranked[i] = n
  <2> TAKE n \in S
  <2>1. place[n] + 1 \in 1..N /\ (place[n] + 1) - 1 = place[n] BY <1>1, <1>10
  <2>2. ranked[place[n] + 1] = n BY <1>9, <1>13, <2>1
  <2> QED BY <2>1, <2>2
<1> QED BY <1>1, <1>12, <1>13, <1>14, <1>15 DEF ranked

\* The cards that page() ranks.
Eligible(e, deck, identity) == Legal(e, deck, identity) \cap DOMAIN Scored(deck, e.scores[deck])

\* What page() ranks is well defined, whatever versions its caches come from.
LEMMA RankedCards ==
    ASSUME history \in Histories, NEW e, NEW deck, NEW identity,
           e.rows \in 1..Len(history), e.scores[deck].rows \in 1..Len(history)
    PROVE  LET S == Eligible(e, deck, identity)
               ranked == Ranked(e, deck, identity)
           IN  /\ S \in SUBSET Names
               /\ Cardinality(S) \in Nat /\ DOMAIN ranked = 1..Cardinality(S)
               /\ \A i \in 1..Cardinality(S) : ranked[i] \in S
               /\ \A i, j \in 1..Cardinality(S) : ranked[i] = ranked[j] => i = j
               /\ \A n \in S : \E i \in 1..Cardinality(S) : ranked[i] = n
<1> DEFINE T == Scored(deck, e.scores[deck])
           S == Legal(e, deck, identity) \cap DOMAIN T
<1>1. S \in SUBSET Names
  BY Versions DEF Legal
<1>2. \A n \in S : T[n] \in Int
  <2>1. \A n \in DOMAIN T : T[n] = Total(n, deck, e.scores[deck], Matches(deck, e.scores[deck]))
    BY DEF Scored
  <2> QED BY <2>1, TotalIsInteger
<1>3. Ranked(e, deck, identity) = Sorted(S, T, e.rows)
  BY DEF Ranked
<1> DEFINE v == e.rows
           ranked == Sorted(S, T, v)
<1> HIDE DEF S, T, v
<1>v. v \in 1..Len(history)
  BY DEF v
<1>4. /\ Cardinality(S) \in Nat /\ DOMAIN ranked = 1..Cardinality(S)
      /\ \A i \in 1..Cardinality(S) : ranked[i] \in S
      /\ \A i, j \in 1..Cardinality(S) : ranked[i] = ranked[j] => i = j
      /\ \A n \in S : \E i \in 1..Cardinality(S) : ranked[i] = n
  BY <1>v, <1>1, <1>2, SortedRanks
<1>5. Ranked(e, deck, identity) = ranked
  BY <1>3 DEF v
<1> HIDE DEF ranked
<1>6. Eligible(e, deck, identity) = S
  BY DEF Eligible, S, T
<1> HIDE DEF S
<1> QED BY <1>1, <1>4, <1>5, <1>6

-----------------------------------------------------------------------------
(* The engine and its caches                                                *)

\* An engine's caches hold versions there have been, and its scores were computed
\* over its rows.
EngineType(e) ==
    /\ DOMAIN e = {"file", "rows", "ports", "scores"}
    /\ e.file \in Files /\ e.rows \in 0..now /\ e.ports \in [Decks -> 0..now]
    /\ e.scores \in [Decks -> [cmdr : 0..now, cand : 0..now, rows : 0..now]]
    /\ \A d \in Decks : e.scores[d] # NoScores =>
          e.scores[d].cmdr > 0 /\ e.scores[d].cand > 0 /\ e.scores[d].rows = e.rows /\ e.rows > 0

WorldInv ==
    /\ history \in Histories
    /\ now \in 1..Len(history)
    /\ head \in Seq(1..now) /\ head # <<>>
    /\ EngineType(engine)

LEMMA WorldFacts ==
    ASSUME WorldInv
    PROVE  /\ Len(history) \in Nat /\ now \in Nat /\ now >= 1 /\ now <= Len(history)
           /\ Len(head) \in Nat /\ Len(head) >= 1 /\ Path \in Files /\ DOMAIN head = Files
           /\ \A f \in Files : head[f] \in 1..now
BY Versions DEF WorldInv, Path, Files

LEMMA NewEngineTyped == ASSUME WorldInv, NEW f \in Files PROVE EngineType(NewEngine(f))
BY WorldFacts DEF EngineType, NewEngine, NoScores

LEMMA ClearedTyped == ASSUME WorldInv PROVE EngineType(Cleared(engine))
<1>1. NoScores \in [cmdr : 0..now, cand : 0..now, rows : 0..now]
  BY WorldFacts DEF NoScores
<1> QED BY <1>1 DEF WorldInv, EngineType, Cleared

LEMMA WithRowsTyped ==
    ASSUME WorldInv
    PROVE  LET e == WithRows(engine)
           IN  /\ EngineType(e) /\ e.rows > 0
               /\ e.file = engine.file /\ e.ports = engine.ports /\ e.scores = engine.scores
               /\ e.rows \in {engine.rows, head[engine.file]}
               /\ engine.rows # 0 => e = engine
<1>1. CASE engine.rows = 0
  <2>1. WithRows(engine) = [engine EXCEPT !.rows = head[engine.file]] BY <1>1 DEF WithRows
  <2>2. head[engine.file] \in 1..now BY WorldFacts DEF WorldInv, EngineType
  <2>3. \A d \in Decks : engine.scores[d] = NoScores BY <1>1 DEF WorldInv, EngineType
  <2> DEFINE e == WithRows(engine)
  <2>4. /\ DOMAIN e = DOMAIN engine /\ e.rows = head[engine.file] /\ e.rows > 0 /\ e.rows \in 0..now
        /\ e.file = engine.file /\ e.ports = engine.ports /\ e.scores = engine.scores
    BY <2>1, <2>2 DEF WorldInv, EngineType
  <2> HIDE DEF e
  <2>5. EngineType(e) BY <2>3, <2>4 DEF WorldInv, EngineType
  <2> QED BY <1>1, <2>4, <2>5 DEF e
<1>2. CASE engine.rows # 0
  <2>1. WithRows(engine) = engine BY <1>2 DEF WithRows
  <2>2. engine.rows \in 0..now BY DEF WorldInv, EngineType
  <2> QED BY <1>2, <2>1, <2>2 DEF WorldInv
<1> QED BY <1>1, <1>2

LEMMA WithScoresTyped ==
    ASSUME WorldInv, engine.rows > 0, NEW deck \in Decks
    PROVE  LET e == WithScores(engine, deck)
           IN  /\ EngineType(e)
               /\ e.file = engine.file /\ e.rows = engine.rows /\ e.scores[deck] # NoScores
               /\ \A d \in Decks : engine.scores[d] # NoScores => e.scores[d] = engine.scores[d]
               /\ \A d \in Decks : e.scores[d] # engine.scores[d] => d = deck /\ engine.scores[d] = NoScores
               /\ \A d \in Decks : e.ports[d] \in {engine.ports[d], head[engine.file]}
               /\ engine.scores[deck] = NoScores =>
                     /\ e.scores[deck].cand = head[engine.file]
                     /\ e.scores[deck].cmdr \in {engine.ports[deck], head[engine.file]} \ {0}
                     /\ e.scores[deck].rows = engine.rows
<1> DEFINE p == IF engine.ports[deck] = 0 THEN head[engine.file] ELSE engine.ports[deck]
           s == [cmdr |-> p, cand |-> head[engine.file], rows |-> engine.rows]
<1>1. CASE engine.scores[deck] # NoScores
  <2>1. WithScores(engine, deck) = engine BY <1>1 DEF WithScores
  <2> QED BY <1>1, <2>1 DEF WorldInv
<1>2. CASE engine.scores[deck] = NoScores
  <2>1. WithScores(engine, deck) = [engine EXCEPT !.ports[deck] = p, !.scores[deck] = s]
    BY <1>2 DEF WithScores
  <2>2. head[engine.file] \in 1..now /\ p \in 1..now
    BY WorldFacts DEF WorldInv, EngineType
  <2>3. s \in [cmdr : 0..now, cand : 0..now, rows : 0..now] /\ s # NoScores
    BY <2>2 DEF WorldInv, EngineType, NoScores
  <2>4. p \in {engine.ports[deck], head[engine.file]} \ {0}
    BY <2>2
  <2>5. s.cmdr = p /\ s.cand = head[engine.file] /\ s.rows = engine.rows
    OBVIOUS
  <2> HIDE DEF p, s
  <2> DEFINE e == WithScores(engine, deck)
  <2>6. /\ e.file = engine.file /\ e.rows = engine.rows
        /\ e.ports = [engine.ports EXCEPT ![deck] = p]
        /\ e.scores = [engine.scores EXCEPT ![deck] = s]
    BY <2>1 DEF WorldInv, EngineType
  <2>7. /\ DOMAIN e = {"file", "rows", "ports", "scores"}
        /\ e.file \in Files /\ e.rows \in 0..now /\ e.ports \in [Decks -> 0..now]
        /\ e.scores \in [Decks -> [cmdr : 0..now, cand : 0..now, rows : 0..now]]
    BY <2>1, <2>2, <2>3, <2>6 DEF WorldInv, EngineType
  <2>8. \A d \in Decks : /\ e.scores[d] = IF d = deck THEN s ELSE engine.scores[d]
                         /\ e.ports[d] = IF d = deck THEN p ELSE engine.ports[d]
    BY <2>6 DEF WorldInv, EngineType
  <2> HIDE DEF e
  <2>9. EngineType(e)
    <3>1. ASSUME NEW d \in Decks, e.scores[d] # NoScores
          PROVE  e.scores[d].cmdr > 0 /\ e.scores[d].cand > 0 /\ e.scores[d].rows = e.rows /\ e.rows > 0
      <4>1. CASE d = deck
        <5>1. e.scores[d] = s BY <2>8, <4>1
        <5> QED BY <2>2, <2>5, <2>6, <5>1
      <4>2. CASE d # deck
        <5>1. e.scores[d] = engine.scores[d] BY <2>8, <4>2
        <5> QED BY <2>6, <3>1, <5>1 DEF WorldInv, EngineType
      <4> QED BY <4>1, <4>2
    <3> QED BY <2>7, <3>1 DEF EngineType
  <2> QED BY <1>2, <2>3, <2>4, <2>5, <2>6, <2>8, <2>9 DEF e
<1> QED BY <1>1, <1>2

-----------------------------------------------------------------------------
(* The inductive invariant                                                  *)

Whole(v) == [cmdr |-> v, cand |-> v, rows |-> v]

\* What an engine that has read nothing but version v ranks for commander c.
OneVersion(c, v) == [rows |-> v, scores |-> [d \in {<<c>>} |-> Whole(v)]]
PageAt(c, v, limit) == Items(OneVersion(c, v), <<c>>, In(v).card[c].pips, 0, limit)

\* The candidates a rule of version v credits.
Credited(c, v) == {n \in Names : \E r \in Rules : Net(n, r, Matches(<<c>>, Whole(v))) # 0}

First(left) == CHOOSE x \in left : \A y \in left : Order[x] <= Order[y]

InCommander == pc \in {"score", "window", "tensor", "cards", "ports"}
Unopened    == pc \in {"start", "opened", "refused"}

\* Where the pass is, and that nobody has asked the engine anything in a pass.
PassInv ==
    /\ mode \in {"client", "pass"} /\ (mode = "client" => pc = "start")
    /\ mode = "pass" => answers = {} /\ pending = Null
    /\ DOMAIN read = {"conn", "k", "known", "identity", "ranking", "tensor", "cards", "left"}
    /\ read.k \in Nat \ {0} /\ (InCommander => read.k \in DOMAIN Fixture)
    /\ read.left \subseteq Sampled /\ (pc = "check_score" => read.left # {})
    /\ pc # "start" => read.conn \in Files
    /\ pc \in {"score", "window", "check_score"} => engine.rows > 0
    /\ pending # Null => pending.deck \in Decks /\ engine.rows > 0
    /\ Unopened => seen = {} /\ entries = {} /\ recon = {}

\* An answer is what the engine's caches still say.
Justified(a) ==
    LET T      == Scored(a.deck, engine.scores[a.deck])
        ranked == Ranked(engine, a.deck, a.identity)
    IN  /\ a.deck \in Decks /\ engine.scores[a.deck] # NoScores
        /\ a.total = IF a.card \in DOMAIN T THEN T[a.card] ELSE 0
        /\ a.rank = 0 \/ (a.rank \in DOMAIN ranked /\ ranked[a.rank] = a.card)

AnswersInv == \A a \in answers : Justified(a)

\* The caches of an engine hold version now or nothing.
Cached(e) ==
    /\ e.file = Path /\ e.rows \in {0, now}
    /\ \A d \in Decks : e.ports[d] \in {0, now} /\ e.scores[d] \in {NoScores, Whole(now)}

\* What was reconciled is what version now ranks.
Reconciled(x) ==
    /\ x.live = x.window
    /\ DOMAIN Labels[x.commander] # {} => x.live = Dcg(x.commander, PageAt(x.commander, now, TopN))

Holds(c) == read.identity = In(now).card[c].pips

\* While nothing was imported since the start, the engine and all that was
\* reconciled are of the one version there is.
UndisturbedInv ==
    /\ begun \in 0..now /\ head[Path] = now
    /\ begun = now /\ pc # "start" =>
        /\ pc # "raised"
        /\ ~ Unopened => Cached(engine)
        /\ pc = "score" => Holds(Commander)
        /\ pc = "window" => engine.scores[Deck] = Whole(now) /\ read.ranking = PageAt(Commander, now, Everything)
        /\ pc = "check_score" => Holds(First(read.left))
        /\ \A x \in recon : Reconciled(x)

\* A tag of version v tells the truth.
TagTrue(e, v) ==
    LET dropped == e.card \notin Legal([rows |-> v], <<e.commander>>, In(v).card[e.commander].pips)
    IN  /\ e.bucket = "FILTERED" <=> e.credited /\ dropped
        /\ e.reason # "filter_reason_unknown"
        /\ e.bucket \in {"NEAR_MISS", "OUTRANKED"} => ~ dropped

\* What the pass holds is what version v says, and every entry is true of v.
OfVersion(v) ==
    /\ read.known = DOMAIN In(v).card
    /\ InCommander => Commander \in DOMAIN In(v).card
    /\ pc = "score" => engine.rows = v /\ read.identity = In(v).card[Commander].pips
    /\ InCommander /\ pc # "score" => read.ranking = PageAt(Commander, v, Everything)
    /\ pc \in {"cards", "ports"} => read.tensor = Credited(Commander, v)
    /\ pc = "ports" => read.cards = v
    /\ \A e \in entries : TagTrue(e, v)

ReadInv ==
    /\ IsFiniteSet(seen) /\ (~ Unopened => \E v \in seen : v \in 1..now)
    /\ \A v \in 1..now : seen = {v} => OfVersion(v)

Inv == WorldInv /\ PassInv /\ AnswersInv /\ UndisturbedInv /\ ReadInv

-----------------------------------------------------------------------------
(* What a step leaves alone                                                 *)

\* Pages and scores are read from the history, which no step rewrites.
LEMMA ScoresFrame ==
    ASSUME history' = history, NEW d, NEW i,
           engine'.rows = engine.rows, engine'.scores[d] = engine.scores[d]
    PROVE  /\ Ranked(engine, d, i)' = Ranked(engine, d, i)
           /\ Scored(d, engine.scores[d])' = Scored(d, engine.scores[d])
BY SMT DEF Ranked, Sorted, Legal, Before, Cmc, Rank, In, Scored, Total, Matches, StapleNames, Net,
           IdfWeight, StapleBonus, Breadth, CmcBonus, RankBonus, Floor, Added

LEMMA VersionFrame ==
    ASSUME history' = history, NEW c, NEW v, NEW l, NEW e
    PROVE  /\ In(v)' = In(v) /\ PageAt(c, v, l)' = PageAt(c, v, l) /\ Credited(c, v)' = Credited(c, v)
           /\ TagTrue(e, v)' <=> TagTrue(e, v)
<1>1. In(v)' = In(v)
  BY DEF In
<1>2. PageAt(c, v, l)' = PageAt(c, v, l)
  <2>1. Ranked(OneVersion(c, v), <<c>>, In(v).card[c].pips)' = Ranked(OneVersion(c, v), <<c>>, In(v).card[c].pips)
    BY SMT DEF Ranked, Sorted, Legal, Before, Cmc, Rank, In, Scored, Total, Matches, StapleNames, Net,
               IdfWeight, StapleBonus, Breadth, CmcBonus, RankBonus, Floor, Added
  <2>2. Scored(<<c>>, OneVersion(c, v).scores[<<c>>])' = Scored(<<c>>, OneVersion(c, v).scores[<<c>>])
    BY SMT DEF Cmc, Rank, In, Scored, Total, Matches, StapleNames, Net, IdfWeight, StapleBonus, Breadth,
               CmcBonus, RankBonus, Floor, Added
  <2> QED BY <2>1, <2>2 DEF PageAt, Items, In
<1>3. Credited(c, v)' = Credited(c, v)
  BY SMT DEF Credited, Net, IdfWeight, Matches, In
<1>4. TagTrue(e, v)' <=> TagTrue(e, v)
  BY SMT DEF TagTrue, Legal, In
<1> QED BY <1>1, <1>2, <1>3, <1>4

LEMMA FixtureFacts ==
    /\ \A k \in DOMAIN Fixture : Fixture[k] \in Names /\ <<Fixture[k]>> \in Decks
    /\ \A left : left \subseteq Sampled /\ left # {} =>
          First(left) \in left /\ <<First(left)>> \in Decks /\ DOMAIN Labels[First(left)] # {}
<1>1. \A k \in DOMAIN Fixture : Fixture[k] \in Names /\ <<Fixture[k]>> \in Decks
  BY ForensicsAssumption
<1>2. \A c \in Sampled : Order[c] \in Nat /\ <<c>> \in Decks /\ DOMAIN Labels[c] # {}
  BY <1>1, EngineAssumption DEF Sampled, Range
<1>3. ASSUME NEW left, left \subseteq Sampled, left # {}
      PROVE  First(left) \in left
  <2> DEFINE places == {Order[x] : x \in left}
  <2>1. places \in SUBSET Nat /\ places # {} BY <1>2, <1>3
  <2> HIDE DEF places
  <2>2. PICK n \in places : \A m \in places : n <= m BY <2>1, LeastNat
  <2>3. \E x \in left : \A y \in left : Order[x] <= Order[y] BY <2>2 DEF places
  <2> QED BY <2>3 DEF First
<1> QED BY <1>1, <1>2, <1>3

\* What a step does to the database and to the engine.
LEMMA EngineSteps ==
    ASSUME WorldInv, PassInv, [Next]_vars
    PROVE  /\ history' = history
           /\ \/ /\ UNCHANGED <<head, now>>
                 /\ \/ engine' = engine \/ engine' = NewEngine(Path) \/ engine' = WithRows(engine)
                    \/ engine' = Cleared(engine)
                    \/ engine.rows > 0 /\ \E d \in Decks : engine' = WithScores(engine, d)
              \/ /\ UNCHANGED engine /\ now' = now + 1 /\ now < Len(history)
                 /\ head' = [head EXCEPT ![Path] = now + 1] \/ head' = Append(head, now + 1)
<1> USE DEF world, client
<1>1. CASE Client
  <2>1. CASE \E d \in Decks, w \in Windows : Page(d, w) BY <2>1 DEF Page
  <2>2. CASE \E d \in Decks, n \in Names : ScoreOne(d, n) BY <2>2 DEF ScoreOne
  <2>3. CASE Answer BY <2>3 DEF Answer, PassInv
  <2> QED BY <1>1, <2>1, <2>2, <2>3 DEF Client
<1>2. CASE Begin BY <1>2 DEF Begin, Quiet
<1>3. CASE Open BY <1>3 DEF Open, Quiet
<1>4. CASE SkipCommander BY <1>4 DEF SkipCommander, Quiet
<1>5. CASE LoadRanking BY <1>5 DEF LoadRanking, Quiet
<1>6. CASE ScoreRanking
  <2>1. Deck \in Decks BY <1>6, FixtureFacts DEF ScoreRanking, PassInv, InCommander, Deck, Commander
  <2>2. engine' = WithScores(engine, Deck) /\ UNCHANGED world /\ pc = "score"
    BY <1>6 DEF ScoreRanking, Quiet
  <2> QED BY <2>1, <2>2 DEF PassInv
<1>7. CASE Window BY <1>7 DEF Window, Quiet
<1>8. CASE ReadTensor BY <1>8 DEF ReadTensor, Quiet
<1>9. CASE ReadCards BY <1>9 DEF ReadCards, Quiet
<1>10. CASE Classify BY <1>10 DEF Classify, Quiet
<1>11. CASE Reconcile BY <1>11 DEF Reconcile, Quiet
<1>12. CASE CheckLoad BY <1>12 DEF CheckLoad, Quiet
<1>13. CASE CheckScore
  <2>1. <<First(read.left)>> \in Decks BY <1>13, FixtureFacts DEF CheckScore, PassInv
  <2>2. engine' = WithScores(engine, <<First(read.left)>>) /\ UNCHANGED world /\ pc = "check_score"
    BY <1>13 DEF CheckScore, Quiet, First
  <2> QED BY <2>1, <2>2 DEF PassInv
<1>14. CASE Repin BY <1>14 DEF Repin
<1>15. CASE Import BY <1>15 DEF Import, ImportInPlace, Rebuild
<1>16. CASE UNCHANGED vars BY <1>16 DEF vars
<1> QED
  BY <1>1, <1>2, <1>3, <1>4, <1>5, <1>6, <1>7, <1>8, <1>9, <1>10, <1>11, <1>12, <1>13, <1>14, <1>15, <1>16
  DEF Next, Pass

LEMMA WorldStep == ASSUME WorldInv, PassInv, [Next]_vars PROVE WorldInv'
<1>1. CASE UNCHANGED <<history, head, now>> /\ EngineType(engine')
  <2>1. EngineType(engine)' BY <1>1 DEF EngineType, Files
  <2> QED BY <1>1, <2>1 DEF WorldInv
<1>2. CASE /\ UNCHANGED <<history, engine>> /\ now' = now + 1 /\ now < Len(history)
           /\ head' = [head EXCEPT ![Path] = now + 1] \/ head' = Append(head, now + 1)
  <2>1. now' \in 1..Len(history') /\ now \in Nat /\ Len(history) \in Nat
    BY <1>2, WorldFacts DEF WorldInv
  <2>2. head' \in Seq(1..now') /\ head' # <<>> /\ Files \subseteq Files'
    <3>1. head \in Seq(1..now') /\ now + 1 \in 1..now' /\ Path \in DOMAIN head
      BY <1>2, <2>1, WorldFacts DEF WorldInv, Files
    <3>2. CASE head' = Append(head, now + 1)
      BY <3>1, <3>2 DEF Files
    <3>3. CASE head' = [head EXCEPT ![Path] = now + 1]
      <4>1. Len(head') = Len(head) /\ head' \in Seq(1..now') BY <3>1, <3>3
      <4> QED BY <4>1, WorldFacts DEF Files
    <3> QED BY <1>2, <3>2, <3>3
  <2>3. EngineType(engine)'
    BY <1>2, <2>1, <2>2 DEF WorldInv, EngineType
  <2> QED BY <1>2, <2>1, <2>2, <2>3 DEF WorldInv
<1>3. \A f \in Files : EngineType(NewEngine(f))
  BY NewEngineTyped
<1>4. EngineType(engine) /\ EngineType(Cleared(engine)) /\ EngineType(WithRows(engine))
  BY ClearedTyped, WithRowsTyped DEF WorldInv
<1>5. engine.rows > 0 => \A d \in Decks : EngineType(WithScores(engine, d))
  BY WithScoresTyped
<1> QED BY <1>1, <1>2, <1>3, <1>4, <1>5, EngineSteps, WorldFacts

\* A step of a commander's classification, or of the reconciliation, keeps the
\* pass where it says it is.
LEMMA PassStep == ASSUME WorldInv, PassInv, [Next]_vars PROVE PassInv'
<1> USE DEF world, client, PassInv, InCommander, Unopened, Goto
<1>f. Files \subseteq Files'
  BY EngineSteps, WorldFacts DEF WorldInv, Path, Files
<1>e. WithRows(engine).rows > 0
  BY WithRowsTyped
<1>1. CASE mode = "client" /\ Client /\ UNCHANGED run
  <2>1. CASE \E d \in Decks, w \in Windows : Page(d, w)
    <3>1. PICK d \in Decks, w \in Windows : Page(d, w) BY <2>1
    <3>2. pending'.deck = d /\ pending' # Null => pending'.deck \in Decks BY <3>1 DEF Page
    <3> QED BY <1>1, <1>e, <1>f, <3>1, <3>2 DEF Page, run
  <2>2. CASE \E d \in Decks, n \in Names : ScoreOne(d, n)
    <3>1. PICK d \in Decks, n \in Names : ScoreOne(d, n) BY <2>2
    <3>2. pending'.deck = d BY <3>1 DEF ScoreOne
    <3>3. engine'.rows > 0 BY <1>e, <3>1 DEF ScoreOne, WorldInv, EngineType
    <3> QED BY <1>1, <1>f, <3>1, <3>2, <3>3 DEF ScoreOne, run
  <2>3. CASE Answer BY <1>1, <1>f, <2>3 DEF Answer, run
  <2> QED BY <1>1, <2>1, <2>2, <2>3 DEF Client
<1>2. CASE Begin BY <1>2, <1>f, WorldFacts DEF Begin, Quiet
<1>3. CASE Open BY <1>3, <1>f DEF Open, Quiet
<1>4. CASE SkipCommander BY <1>4, <1>f DEF SkipCommander, Quiet
<1>k. read.k <= Len(Fixture) => read.k \in DOMAIN Fixture
  BY ForensicsAssumption
<1>5. CASE LoadRanking BY <1>5, <1>f, <1>e, <1>k DEF LoadRanking, Quiet
<1>6. CASE ScoreRanking
  <2>1. Deck \in Decks BY <1>6, FixtureFacts DEF ScoreRanking, Deck, Commander
  <2>2. engine' = WithScores(engine, Deck) /\ engine'.rows > 0
    BY <1>6, <2>1, WithScoresTyped DEF ScoreRanking
  <2> QED BY <1>6, <1>f, <2>2 DEF ScoreRanking, Quiet
<1>7. CASE Window BY <1>7, <1>f DEF Window, Quiet
<1>8. CASE ReadTensor BY <1>8, <1>f DEF ReadTensor, Quiet
<1>9. CASE ReadCards BY <1>9, <1>f DEF ReadCards, Quiet
<1>10. CASE Classify BY <1>10, <1>f DEF Classify, Quiet
<1>11. CASE Reconcile BY <1>11, <1>f DEF Reconcile, Quiet
<1>12. CASE CheckLoad BY <1>12, <1>f, <1>e DEF CheckLoad, Quiet
<1>13. CASE CheckScore BY <1>13, <1>f DEF CheckScore, Quiet
<1>14. CASE Repin BY <1>14, <1>f DEF Repin
<1>15. CASE Import BY <1>15, <1>f DEF Import, ImportInPlace, Rebuild, run
<1>16. CASE UNCHANGED vars BY <1>16, <1>f DEF vars, run
<1> QED
  BY <1>1, <1>2, <1>3, <1>4, <1>5, <1>6, <1>7, <1>8, <1>9, <1>10, <1>11, <1>12, <1>13, <1>14, <1>15, <1>16
  DEF Next, Pass

-----------------------------------------------------------------------------
(* An engine says again what it said                                        *)

LEMMA AnswersStep == ASSUME WorldInv, PassInv, AnswersInv, [Next]_vars PROVE AnswersInv'
<1>h. history' = history
  BY EngineSteps
\* A cached score and its rows survive every step of a client.
<1>s. ASSUME mode = "client", NEW d \in Decks, engine.scores[d] # NoScores
      PROVE  engine'.rows = engine.rows /\ engine'.scores[d] = engine.scores[d]
  <2>1. engine.rows # 0 BY <1>s DEF WorldInv, EngineType
  <2>2. WithRows(engine) = engine BY <2>1, WithRowsTyped
  <2>3. CASE Client
    <3>1. CASE \E dd \in Decks, w \in Windows : Page(dd, w) BY <2>2, <3>1 DEF Page
    <3>2. CASE \E dd \in Decks, n \in Names : ScoreOne(dd, n) BY <2>2, <3>2 DEF ScoreOne
    <3>3. CASE Answer BY <1>s, <3>3, WithScoresTyped DEF Answer, PassInv
    <3> QED BY <2>3, <3>1, <3>2, <3>3 DEF Client
  <2>4. CASE Begin \/ Repin \/ Import \/ UNCHANGED vars
    BY <2>4 DEF Begin, Repin, Import, ImportInPlace, Rebuild, vars, client, Quiet
  <2>5. pc = "start" BY <1>s DEF PassInv
  <2>6. Pass => Begin
    BY <2>5 DEF Pass, Open, SkipCommander, LoadRanking, ScoreRanking, Window, ReadTensor, ReadCards, Classify,
                Reconcile, CheckLoad, CheckScore
  <2> QED BY <2>3, <2>4, <2>6 DEF Next
<1>old. ASSUME mode = "client", NEW a \in answers PROVE Justified(a)'
  <2>1. a.deck \in Decks /\ engine.scores[a.deck] # NoScores /\ Justified(a)
    BY <1>old DEF AnswersInv, Justified
  <2>2. engine'.rows = engine.rows /\ engine'.scores[a.deck] = engine.scores[a.deck]
    BY <1>old, <1>s, <2>1
  <2>3. /\ Ranked(engine, a.deck, a.identity)' = Ranked(engine, a.deck, a.identity)
        /\ Scored(a.deck, engine.scores[a.deck])' = Scored(a.deck, engine.scores[a.deck])
    BY <1>h, <2>2, ScoresFrame
  <2> QED BY <2>1, <2>2, <2>3 DEF Justified
<1>1. CASE mode = "client" /\ Answer /\ UNCHANGED run
  <2> DEFINE d == pending.deck
             e == WithScores(engine, d)
             T == Scored(d, e.scores[d])
             one == [card |-> pending.card, rank |-> 0,
                     total |-> IF pending.card \in DOMAIN T THEN T[pending.card] ELSE 0]
             w == pending.window
             items == IF pending.card # Null THEN {one} ELSE Items(e, d, pending.identity, w[1], w[2])
  <2>1. d \in Decks /\ engine.rows > 0 BY <1>1 DEF Answer, PassInv
  <2>2. engine' = e /\ answers' = answers \cup Told(d, pending.identity, items) BY <1>1 DEF Answer
  <2>3. EngineType(e) /\ e.rows = engine.rows /\ e.scores[d] # NoScores BY <2>1, WithScoresTyped
  <2>4. \A i \in items : /\ i.total = IF i.card \in DOMAIN T THEN T[i.card] ELSE 0
                         /\ \/ i.rank = 0
                            \/ /\ i.rank \in DOMAIN Ranked(e, d, pending.identity)
                               /\ Ranked(e, d, pending.identity)[i.rank] = i.card
    <3>1. CASE pending.card # Null BY <3>1
    <3>2. CASE pending.card = Null
      <4> DEFINE ranked == Ranked(e, d, pending.identity)
      <4>1. \A j \in DOMAIN ranked : ranked[j] \in DOMAIN T
        <5> HIDE DEF e, d
        <5>1. /\ history \in Histories /\ e.rows \in 1..Len(history) /\ e.scores[d].rows \in 1..Len(history)
          <6>1. e.rows \in 0..now /\ e.rows > 0 BY <2>1, <2>3 DEF EngineType
          <6>2. e.scores[d].rows = e.rows BY <2>1, <2>3 DEF EngineType
          <6> QED BY <6>1, <6>2, WorldFacts DEF WorldInv
        <5> DEFINE S == Eligible(e, d, pending.identity)
        <5>2. DOMAIN ranked = 1..Cardinality(S) /\ \A j \in 1..Cardinality(S) : ranked[j] \in S
          BY <5>1, RankedCards
        <5> QED BY <5>2 DEF Eligible
      <4> HIDE DEF ranked, T, e
      <4>2. items = {[card |-> ranked[i], rank |-> i, total |-> T[ranked[i]]] :
                        i \in {j \in DOMAIN ranked : w[1] < j /\ j <= w[1] + w[2]}}
        BY <3>2 DEF Items, ranked, T
      <4> HIDE DEF items
      <4> QED BY <4>1, <4>2 DEF ranked
    <3> QED BY <3>1, <3>2
  <2> HIDE DEF items
  <2>5. ASSUME NEW a \in answers' PROVE Justified(a)'
    <3>1. CASE a \in answers BY <1>1, <1>old, <3>1
    <3>2. CASE a \in Told(d, pending.identity, items)
      <4>1. PICK i \in items : a = [deck |-> d, identity |-> pending.identity, card |-> i.card,
                                    rank |-> i.rank, total |-> i.total]
        BY <3>2 DEF Told
      <4>2. a.deck = d /\ a.identity = pending.identity /\ a.card = i.card /\ a.rank = i.rank /\ a.total = i.total
        BY <4>1
      <4>3. engine' = e /\ Scored(a.deck, engine.scores[a.deck])' = T
            /\ Ranked(engine, a.deck, a.identity)' = Ranked(e, d, pending.identity)
        <5>1. engine' = e /\ history' = history /\ a.deck = d /\ a.identity = pending.identity
          BY <1>h, <2>2, <4>2
        <5> HIDE DEF e, d
        <5>2. Scored(a.deck, engine.scores[a.deck])' = Scored(d, e.scores[d])
          BY SMTT(30), <5>1 DEF Scored, Total, Cmc, Rank, In, Matches, StapleNames,
                    Net, IdfWeight, StapleBonus, Breadth, CmcBonus, RankBonus, Floor, Added
        <5>3. Ranked(engine, a.deck, a.identity)' = Ranked(e, d, pending.identity)
          BY SMTT(30), <5>1 DEF Ranked, Sorted, Legal, Before, Cmc, Rank, In, Scored, Total, Matches, StapleNames,
                    Net, IdfWeight, StapleBonus, Breadth, CmcBonus, RankBonus, Floor, Added
        <5> QED BY <5>1, <5>2, <5>3
      <4> HIDE DEF e, d, T
      <4> QED BY <2>1, <2>2, <2>3, <2>4, <4>2, <4>3 DEF Justified
    <3> QED BY <2>2, <3>1, <3>2
  <2> QED BY <2>5 DEF AnswersInv
<1>2. CASE mode = "client" /\ answers' = answers
  BY <1>2, <1>old DEF AnswersInv
<1>3. CASE mode = "pass"
  <2>1. answers = {} /\ answers' = answers
    BY <1>3 DEF PassInv, Next, Pass, Begin, Open, SkipCommander, LoadRanking, ScoreRanking, Window, ReadTensor,
                ReadCards, Classify, Reconcile, CheckLoad, CheckScore, Quiet, Repin, Import, ImportInPlace,
                Rebuild, client, vars
  <2> QED BY <2>1 DEF AnswersInv
<1>4. CASE mode = "client" /\ answers' # answers
  <2>1. Client /\ UNCHANGED run
    BY <1>4 DEF Next, Pass, Begin, Open, SkipCommander, LoadRanking, ScoreRanking, Window, ReadTensor,
                ReadCards, Classify, Reconcile, CheckLoad, CheckScore, Quiet, Repin, Import, ImportInPlace,
                Rebuild, client, vars
  <2>2. Answer BY <1>4, <2>1 DEF Client, Page, ScoreOne
  <2> QED BY <1>1, <1>4, <2>1, <2>2
<1> QED BY <1>2, <1>3, <1>4 DEF PassInv

-----------------------------------------------------------------------------
(* Two pages of one version agree                                           *)

LEMMA PageOfOneVersion ==
    ASSUME NEW e, NEW c, NEW v, NEW l, e.rows = v, e.scores[<<c>>] = Whole(v)
    PROVE  Items(e, <<c>>, In(v).card[c].pips, 0, l) = PageAt(c, v, l)
<1> DEFINE o == OneVersion(c, v)
<1>1. o.rows = v /\ o.scores[<<c>>] = Whole(v)
  BY DEF OneVersion
<1> HIDE DEF o
<1>2. Ranked(e, <<c>>, In(v).card[c].pips) = Ranked(o, <<c>>, In(v).card[c].pips)
  BY <1>1 DEF Ranked, Legal
<1>3. Items(e, <<c>>, In(v).card[c].pips, 0, l) = Items(o, <<c>>, In(v).card[c].pips, 0, l)
  BY <1>1, <1>2 DEF Items
<1> QED BY <1>3 DEF PageAt, o

Listed(c, v)  == Legal(OneVersion(c, v), <<c>>, In(v).card[c].pips) \cap DOMAIN Scored(<<c>>, Whole(v))
Listing(c, v) == Ranked(OneVersion(c, v), <<c>>, In(v).card[c].pips)
Entry(c, v, i) == [card |-> Listing(c, v)[i], rank |-> i, total |-> Scored(<<c>>, Whole(v))[Listing(c, v)[i]]]

\* The cards of a page of one version, and that its ranks are theirs alone.
LEMMA PageRanks ==
    ASSUME history \in Histories, NEW v \in 1..Len(history), NEW c
    PROVE  /\ Listed(c, v) \in SUBSET Names /\ Cardinality(Listed(c, v)) \in Nat
           /\ \A i \in 1..Cardinality(Listed(c, v)) : Listing(c, v)[i] \in Listed(c, v)
           /\ \A i, j \in 1..Cardinality(Listed(c, v)) : Listing(c, v)[i] = Listing(c, v)[j] => i = j
           /\ \A n \in Listed(c, v) : \E i \in 1..Cardinality(Listed(c, v)) : Listing(c, v)[i] = n
           /\ \A l \in Nat : PageAt(c, v, l) = {Entry(c, v, i) : i \in {j \in 1..Cardinality(Listed(c, v)) : j <= l}}
<1> DEFINE o == OneVersion(c, v)
           deck == <<c>>
           identity == In(v).card[c].pips
           S == Eligible(o, deck, identity)
           ranked == Ranked(o, deck, identity)
<1>1. o.rows = v /\ o.scores[deck] = Whole(v)
  BY DEF OneVersion
<1>2. o.rows \in 1..Len(history) /\ o.scores[deck].rows \in 1..Len(history)
  BY <1>1 DEF Whole
<1>3. S = Listed(c, v) /\ ranked = Listing(c, v)
  BY <1>1 DEF Listed, Listing, Eligible
<1>4. \A l : PageAt(c, v, l) = Items(o, deck, identity, 0, l)
  BY DEF PageAt
<1> HIDE DEF o, deck, identity
<1>5. /\ S \in SUBSET Names
      /\ Cardinality(S) \in Nat /\ DOMAIN ranked = 1..Cardinality(S)
      /\ \A i \in 1..Cardinality(S) : ranked[i] \in S
      /\ \A i, j \in 1..Cardinality(S) : ranked[i] = ranked[j] => i = j
      /\ \A n \in S : \E i \in 1..Cardinality(S) : ranked[i] = n
  BY <1>2, RankedCards
<1>6. ASSUME NEW l \in Nat
      PROVE  PageAt(c, v, l) = {Entry(c, v, i) : i \in {j \in 1..Cardinality(Listed(c, v)) : j <= l}}
  <2>1. Items(o, deck, identity, 0, l) =
          {[card |-> ranked[i], rank |-> i, total |-> Scored(deck, o.scores[deck])[ranked[i]]] :
              i \in {j \in DOMAIN ranked : 0 < j /\ j <= 0 + l}}
    BY DEF Items
  <2> HIDE DEF ranked, S
  <2>2. {j \in DOMAIN ranked : 0 < j /\ j <= 0 + l} = {j \in 1..Cardinality(S) : j <= l}
    BY <1>5
  <2>3. \A i : [card |-> ranked[i], rank |-> i, total |-> Scored(deck, o.scores[deck])[ranked[i]]] = Entry(c, v, i)
    BY <1>1, <1>3 DEF Entry, deck
  <2> QED BY <1>3, <1>4, <2>1, <2>2, <2>3
<1> HIDE DEF S, ranked
<1> QED BY <1>3, <1>5, <1>6

LEMMA EverythingIsWide == Everything \in Nat /\ TopN \in Nat /\ TopN <= Everything /\ Cardinality(Names) <= Everything
BY SMT, ForensicsAssumption, EngineAssumption DEF Everything

\* The first TopN cards decide the DCG.
LEMMA WindowIsPrefix ==
    ASSUME history \in Histories, NEW v \in 1..Len(history), NEW c
    PROVE  Dcg(c, PageAt(c, v, Everything)) = Dcg(c, PageAt(c, v, TopN))
<1> DEFINE N == Cardinality(Listed(c, v))
           Of(l) == {Entry(c, v, i) : i \in {j \in 1..N : j <= l}}
<1>1. N \in Nat /\ \A l \in Nat : PageAt(c, v, l) = Of(l)
  BY PageRanks
<1> HIDE DEF N
<1>2. ASSUME NEW i \in 1..TopN
      PROVE  {y \in Of(Everything) : y.rank = i} = {y \in Of(TopN) : y.rank = i}
  <2>1. \A j : Entry(c, v, j).rank = j BY DEF Entry
  <2>2. \A l \in Nat : \A y : y \in Of(l) /\ y.rank = i <=> i \in 1..N /\ i <= l /\ y = Entry(c, v, i)
    BY <2>1
  <2>3. i <= Everything /\ i <= TopN BY EverythingIsWide
  <2> HIDE DEF Of
  <2> QED BY <2>2, <2>3, EverythingIsWide
<1> HIDE DEF Of
<1>3. ASSUME NEW i \in 1..TopN
      PROVE  {y \in PageAt(c, v, Everything) : y.rank = i} = {y \in PageAt(c, v, TopN) : y.rank = i}
  BY <1>1, <1>2, EverythingIsWide
<1> QED BY <1>3 DEF Dcg

\* One commander's colours are those of its row, if it has one.
LEMMA ColoursOfOne ==
    ASSUME NEW e, NEW c, Known(e, <<c>>)
    PROVE  c \in DOMAIN In(head[e.file]).card /\ Identity(e, <<c>>) = In(head[e.file]).card[c].pips
<1>1. {<<c>>[i] : i \in DOMAIN <<c>>} = {c}
  OBVIOUS
<1>2. c \in DOMAIN In(head[e.file]).card
  BY DEF Known
<1> DEFINE cards == In(head[e.file]).card
<1>3. {cards[x].pips : x \in {<<c>>[i] : i \in DOMAIN <<c>>} \cap DOMAIN cards} = {cards[c].pips}
  BY <1>1, <1>2
<1>4. Identity(e, <<c>>) = UNION {cards[c].pips}
  BY <1>3 DEF Identity
<1> QED BY <1>2, <1>4

-----------------------------------------------------------------------------
(* An undisturbed pass reconciles                                           *)

LEMMA NowFrame ==
    ASSUME history' = history, now' = now, NEW c, NEW l
    PROVE  In(now)' = In(now) /\ PageAt(c, now, l)' = PageAt(c, now, l)
<1>1. PICK v : v = now
  OBVIOUS
<1>2. In(v)' = In(v) /\ PageAt(c, v, l)' = PageAt(c, v, l)
  BY VersionFrame
<1>3. In(now)' = In(v)' /\ PageAt(c, now, l)' = PageAt(c, v, l)'
  BY <1>1
<1> QED BY <1>1, <1>2, <1>3

\* What an engine over the file at the path reads is version now.
LEMMA CachedSteps ==
    ASSUME WorldInv, head[Path] = now
    PROVE  /\ Cached(NewEngine(Path))
           /\ Cached(engine) =>
                 /\ Cached(Cleared(engine))
                 /\ Cached(WithRows(engine)) /\ WithRows(engine).rows = now
                 /\ engine.rows > 0 => \A d \in Decks : /\ Cached(WithScores(engine, d))
                                                        /\ WithScores(engine, d).rows = now
                                                        /\ WithScores(engine, d).scores[d] = Whole(now)
<1>1. Cached(NewEngine(Path))
  BY DEF Cached, NewEngine
<1>2. ASSUME Cached(engine) PROVE Cached(Cleared(engine))
  BY <1>2 DEF WorldInv, EngineType, Cached, Cleared
<1>3. ASSUME Cached(engine) PROVE Cached(WithRows(engine)) /\ WithRows(engine).rows = now
  <2>1. WithRows(engine).rows \in {0, now} BY <1>3, WithRowsTyped DEF Cached
  <2> QED BY <1>3, <2>1, WithRowsTyped DEF Cached
<1>4. ASSUME Cached(engine), engine.rows > 0, NEW d \in Decks
      PROVE  /\ Cached(WithScores(engine, d)) /\ WithScores(engine, d).rows = now
             /\ WithScores(engine, d).scores[d] = Whole(now)
  <2> DEFINE e == WithScores(engine, d)
  <2>1. /\ EngineType(e) /\ e.file = Path /\ e.rows = now /\ e.scores[d] # NoScores
        /\ \A dd \in Decks : e.scores[dd] # engine.scores[dd] => dd = d /\ engine.scores[dd] = NoScores
        /\ \A dd \in Decks : e.ports[dd] \in {0, now}
        /\ engine.scores[d] = NoScores => e.scores[d].cand = now /\ e.scores[d].cmdr = now /\ e.scores[d].rows = now
    <3>1. engine.file = Path /\ engine.rows = now /\ \A dd \in Decks : engine.ports[dd] \in {0, now}
      BY <1>4, WorldFacts DEF Cached
    <3> QED BY <1>4, <3>1, WithScoresTyped
  <2> HIDE DEF e
  <2>2. e.scores[d] = Whole(now)
    <3>1. CASE engine.scores[d] # NoScores
      BY <1>4, <2>1, <3>1 DEF Cached
    <3>2. CASE engine.scores[d] = NoScores
      <4>1. e.scores[d] \in [cmdr : 0..now, cand : 0..now, rows : 0..now]
        BY <2>1 DEF EngineType
      <4> QED BY <2>1, <3>2, <4>1 DEF Whole
    <3> QED BY <3>1, <3>2
  <2>3. \A dd \in Decks : e.scores[dd] \in {NoScores, Whole(now)}
    BY <1>4, <2>1, <2>2 DEF Cached
  <2>4. Cached(e)
    BY <2>1, <2>3 DEF Cached
  <2> QED BY <2>1, <2>2, <2>4 DEF e
<1> QED BY <1>1, <1>2, <1>3, <1>4

LEMMA UndisturbedStep ==
    ASSUME WorldInv, PassInv, UndisturbedInv, [Next]_vars
    PROVE  UndisturbedInv'
<1> USE DEF world, client, Unopened, Goto, Quiet
<1>1. CASE Import
  <2>1. /\ now' = now + 1 /\ begun' = begun
        /\ head' = [head EXCEPT ![Path] = now + 1] \/ head' = Append(head, now + 1)
    BY <1>1 DEF Import, ImportInPlace, Rebuild, run
  <2>2. head'[Path'] = now'
    BY <2>1, WorldFacts DEF Path, Files
  <2> QED BY <2>1, <2>2, WorldFacts DEF UndisturbedInv
<1>2. CASE /\ UNCHANGED <<history, head, now>>
           /\ Begin \/ (begun' = begun /\ ~ (begun = now /\ pc # "start"))
  <2>1. CASE Begin
    <3>1. UNCHANGED <<engine, recon>> /\ begun' = now /\ pc' \in {"refused", "opened"} /\ recon = {}
      BY <2>1 DEF Begin, PassInv
    <3> QED BY <1>2, <3>1, WorldFacts DEF UndisturbedInv, Path
  <2>2. CASE ~ Begin
    <3>1. ~ Import BY <1>2, WorldFacts DEF Import, ImportInPlace, Rebuild
    <3>2. begun' = begun /\ (begun = now => pc' = "start")
      BY <1>2, <2>2, <3>1
      DEF Next, Pass, Open, SkipCommander, LoadRanking, ScoreRanking, Window, ReadTensor, ReadCards, Classify,
          Reconcile, CheckLoad, CheckScore, Repin, run, vars
    <3> QED BY <1>2, <2>2, <3>2 DEF UndisturbedInv, Path
  <2> QED BY <1>2, <2>1, <2>2
<1>3. CASE ~ Import /\ ~ Begin
  <2>1. UNCHANGED <<history, head, now, begun>>
    BY <1>3 DEF Next, Pass, Open, SkipCommander, LoadRanking, ScoreRanking, Window, ReadTensor, ReadCards,
        Classify, Reconcile, CheckLoad, CheckScore, Repin, run, vars, Client, Page, ScoreOne, Answer
  <2>2. CASE ~ (begun = now /\ pc # "start") BY <1>2, <2>1, <2>2
  <2>3. CASE begun = now /\ pc # "start"
    <3> USE DEF UndisturbedInv
    <3>p. Path' = Path /\ In(now)' = In(now) /\ \A c, l : PageAt(c, now, l)' = PageAt(c, now, l)
      BY <2>1, NowFrame DEF Path
    <3>x. \A x : Reconciled(x) => Reconciled(x)'
      BY <3>p DEF Reconciled
    <3>c. \A e : Cached(e) /\ engine' = e => Cached(engine)'
      BY <2>1, <3>p DEF Cached
    <3>s. head[Path] = now /\ Cached(NewEngine(Path)) /\ (~ Unopened => Cached(engine))
      BY <2>3, CachedSteps
    <3>1. CASE mode = "client" /\ Client BY <1>3, <2>3, <3>1 DEF PassInv
    <3>2. CASE Open
      BY <2>1, <2>3, <3>2, <3>c, <3>p, <3>s DEF Open, PassInv
    <3>3. CASE SkipCommander
      <4>1. Reconciled([commander |-> Commander, live |-> 0, window |-> 0]) BY <3>3 DEF SkipCommander, Reconciled
      <4> QED BY <2>1, <2>3, <3>3, <3>c, <3>p, <3>s, <3>x, <4>1 DEF SkipCommander
    <3>4. CASE LoadRanking
      <4>1. Cached(WithRows(engine)) BY <3>4, <3>s, CachedSteps DEF LoadRanking
      <4>2. Known(engine, Deck) => Identity(engine, Deck) = In(now).card[Commander].pips
        BY <3>4, <3>s, ColoursOfOne DEF LoadRanking, Cached, Deck
      <4> QED BY <2>1, <2>3, <3>4, <3>c, <3>p, <3>s, <3>x, <4>1, <4>2 DEF LoadRanking, Holds, Commander, PassInv
    <3>5. CASE ScoreRanking
      <4> DEFINE e == WithScores(engine, Deck)
      <4>1. Deck \in Decks /\ engine.rows > 0
        BY <3>5, FixtureFacts DEF ScoreRanking, PassInv, InCommander, Deck, Commander
      <4>2. Cached(e) /\ e.rows = now /\ e.scores[Deck] = Whole(now)
        BY <3>5, <3>s, <4>1, CachedSteps DEF ScoreRanking
      <4>3. Items(e, Deck, read.identity, 0, Everything) = PageAt(Commander, now, Everything)
        <5>1. read.identity = In(now).card[Commander].pips BY <2>3, <3>5 DEF ScoreRanking, Holds
        <5> HIDE DEF e
        <5> QED BY <4>2, <5>1, PageOfOneVersion DEF Deck
      <4> QED BY <2>1, <2>3, <3>5, <3>c, <3>p, <3>s, <3>x, <4>2, <4>3 DEF ScoreRanking, Commander, Deck, PassInv, Whole
    <3>6. CASE Window
      <4>1. Cached(Cleared(engine)) /\ engine.rows = now
        BY <3>6, <3>s, CachedSteps DEF Window, Cached, PassInv
      <4>2. Known(engine, Deck) => Identity(engine, Deck) = In(now).card[Commander].pips
        BY <3>6, <3>s, ColoursOfOne DEF Window, Cached, Deck
      <4>3. Items(engine, Deck, In(now).card[Commander].pips, 0, TopN) = PageAt(Commander, now, TopN)
        BY <2>3, <3>6, <4>1, PageOfOneVersion DEF Window, Deck
      <4>4. Dcg(Commander, read.ranking) = Dcg(Commander, PageAt(Commander, now, TopN))
        BY <2>3, <3>6, WindowIsPrefix, WorldFacts DEF Window, WorldInv
      <4> DEFINE x == [commander |-> Commander, live |-> Dcg(Commander, read.ranking),
                       window |-> Dcg(Commander, Items(engine, Deck, Identity(engine, Deck), 0, TopN))]
      <4>5. Known(engine, Deck) => Reconciled(x)
        BY <4>2, <4>3, <4>4 DEF Reconciled
      <4>6. Known(engine, Deck) => recon' = recon \cup {x}
        BY <3>6 DEF Window
      <4> HIDE DEF x
      <4> QED BY <2>1, <2>3, <3>6, <3>c, <3>p, <3>s, <3>x, <4>1, <4>5, <4>6 DEF Window, Path
    <3>7. CASE ReadTensor \/ ReadCards \/ Classify
      BY <2>1, <2>3, <3>7, <3>c, <3>p, <3>s, <3>x DEF ReadTensor, ReadCards, Classify
    <3>8. CASE Reconcile
      <4>1. [x \in recon |-> x.live] = [x \in recon |-> x.window]
        BY <2>3 DEF Reconciled
      <4> QED BY <2>1, <2>3, <3>8, <3>c, <3>p, <3>s, <3>x, <4>1 DEF Reconcile
    <3>9. CASE CheckLoad
      <4> DEFINE c == First(read.left)
      <4>1. Cached(WithRows(engine)) BY <3>9, <3>s, CachedSteps DEF CheckLoad
      <4>2. Known(engine, <<c>>) => Identity(engine, <<c>>) = In(now).card[c].pips
        BY <3>9, <3>s, ColoursOfOne DEF CheckLoad, Cached
      <4> QED BY <2>1, <2>3, <3>9, <3>c, <3>p, <3>s, <3>x, <4>1, <4>2 DEF CheckLoad, Holds, First, PassInv
    <3>10. CASE CheckScore
      <4> DEFINE c == First(read.left)
                 e == WithScores(engine, <<c>>)
      <4>1. <<c>> \in Decks /\ engine.rows > 0 /\ DOMAIN Labels[c] # {}
        BY <3>10, FixtureFacts DEF CheckScore, PassInv
      <4>2. Cached(e) /\ e.rows = now /\ e.scores[<<c>>] = Whole(now)
        BY <3>10, <3>s, <4>1, CachedSteps DEF CheckScore
      <4>3. read.identity = In(now).card[c].pips BY <2>3, <3>10 DEF CheckScore, Holds
      <4>4. Items(e, <<c>>, read.identity, 0, TopN) = PageAt(c, now, TopN)
        <5> HIDE DEF e, c
        <5> QED BY <4>2, <4>3, PageOfOneVersion
      <4>5. \A x \in recon : x.commander = c => x.live = Dcg(c, Items(e, <<c>>, read.identity, 0, TopN))
        BY <2>3, <4>1, <4>4 DEF Reconciled
      <4>6. engine' = e /\ pc' \in {"reported", "check"} /\ recon' = recon
        BY <3>10, <4>5 DEF CheckScore, First
      <4> HIDE DEF e, c
      <4> QED BY <2>1, <2>3, <3>c, <3>p, <3>s, <3>x, <4>2, <4>6
    <3>11. CASE Repin \/ UNCHANGED vars
      BY <2>1, <2>3, <3>11, <3>c, <3>p, <3>s, <3>x DEF Repin, vars, run, Holds, Commander, Deck
    <3> QED BY <1>3, <3>1, <3>2, <3>3, <3>4, <3>5, <3>6, <3>7, <3>8, <3>9, <3>10, <3>11 DEF Next, Pass
  <2> QED BY <2>2, <2>3
<1> QED
  <2>1. Begin => UNCHANGED <<history, head, now>> BY DEF Begin
  <2> QED BY <1>1, <1>2, <1>3, <2>1

-----------------------------------------------------------------------------
(* What one version says of a card                                          *)

\* A card has a rank exactly if it is listed.
LEMMA RankOfListed ==
    ASSUME history \in Histories, NEW v \in 1..Len(history), NEW c, NEW n
    PROVE  LET r == RankOf(n, PageAt(c, v, Everything))
           IN  r \in Nat /\ (r > 0 <=> n \in Listed(c, v))
<1> DEFINE N == Cardinality(Listed(c, v))
           P == PageAt(c, v, Everything)
<1>1. N \in Nat /\ N <= Everything
  BY PageRanks, EngineAssumption, EverythingIsWide, FS_Subset, FS_CardinalityType
<1>2. P = {Entry(c, v, i) : i \in {j \in 1..N : j <= Everything}}
  BY PageRanks, EverythingIsWide
<1>3. {j \in 1..N : j <= Everything} = 1..N
  BY <1>1, EverythingIsWide
<1>4. P = {Entry(c, v, i) : i \in 1..N}
  BY <1>2, <1>3
<1>5. \A i : Entry(c, v, i).card = Listing(c, v)[i] /\ Entry(c, v, i).rank = i
  BY DEF Entry
<1> HIDE DEF P
<1>6. CASE n \in Listed(c, v)
  <2>1. PICK i \in 1..N : Listing(c, v)[i] = n BY <1>6, PageRanks
  <2>2. \E x \in P : x.card = n BY <1>4, <1>5, <2>1
  <2>3. \A x \in P : x.rank \in 1..N BY <1>4, <1>5
  <2>4. RankOf(n, P) \in 1..N BY <2>2, <2>3 DEF RankOf
  <2> QED BY <1>1, <1>6, <2>4 DEF P
<1>7. CASE n \notin Listed(c, v)
  <2>1. \A i \in 1..N : Listing(c, v)[i] \in Listed(c, v) BY PageRanks
  <2>2. ~ \E x \in P : x.card = n BY <1>4, <1>5, <1>7, <2>1
  <2>3. RankOf(n, P) = 0 BY <2>2 DEF RankOf
  <2> QED BY <1>7, <2>3 DEF P
<1> QED BY <1>6, <1>7

\* A rule that puts something into a card's tensor row scores the card.
LEMMA CreditedIsScored ==
    ASSUME NEW v, NEW c, NEW n \in Credited(c, v)
    PROVE  n \in Names /\ n # c /\ n \in DOMAIN Scored(<<c>>, Whole(v))
<1> DEFINE M == Matches(<<c>>, Whole(v))
<1>1. PICK r \in Rules : Net(n, r, M) # 0
  BY DEF Credited
<1>2. \E d \in Directions : <<n, r, d>> \in M
  <2> HIDE DEF M
  <2>1. CASE <<n, r, "synergy">> \in M BY <2>1 DEF Directions
  <2>2. CASE <<n, r, "anti_synergy">> \in M BY <2>2 DEF Directions
  <2>3. CASE <<n, r, "synergy">> \notin M /\ <<n, r, "anti_synergy">> \notin M
    <3>1. Net(n, r, M) = 0 BY <2>3 DEF Net
    <3> QED BY <1>1, <3>1
  <2> QED BY <2>1, <2>2, <2>3
<1>3. PICK d \in Directions : <<n, r, d>> \in M
  BY <1>2
<1>4. <<n, r, d>>[1] = n /\ <<c>>[1] = c /\ 1 \in DOMAIN <<c>>
  OBVIOUS
<1>5. \A m \in M : m[1] \in Names /\ m[1] # c
  BY <1>4 DEF Matches
<1>6. n \in {m[1] : m \in M}
  BY <1>3, <1>4
<1>7. n \in Names /\ n # c
  BY <1>3, <1>4, <1>5
<1>8. {m[1] : m \in M} \subseteq DOMAIN Scored(<<c>>, Whole(v))
  BY DEF Scored
<1> QED BY <1>6, <1>7, <1>8

\* A card that page() drops fails one of the predicates the classifier knows.
LEMMA DropHasReason ==
    ASSUME NEW v, NEW c, NEW n \in DOMAIN In(v).card, n # c, NEW identity,
           n \notin Legal([rows |-> v], <<c>>, identity)
    PROVE  FirstFilterReason(c, n, identity, v) # "filter_reason_unknown"
<1> DEFINE card == In(v).card
           failed == <<n \in DOMAIN card /\ ~ card[n].pips \subseteq identity,
                       n \in DOMAIN card /\ card[n].legal = 0,
                       n \in DOMAIN card /\ card[n].types = "none",
                       n \in DOMAIN card /\ card[n].types = "non_edh",
                       n \in DOMAIN card /\ n = c, TRUE>>
           name == <<"color_illegal", "not_legal", "empty_types", "non_edh_type", "is_commander",
                     "filter_reason_unknown">>
           First1(i) == failed[i] /\ \A j \in 1..(i - 1) : ~ failed[j]
<1>1. {<<c>>[i] : i \in DOMAIN <<c>>} = {c}
  OBVIOUS
<1>2. failed[1] \/ failed[2] \/ failed[3] \/ failed[4]
  BY <1>1 DEF Legal
<1>3. FirstFilterReason(c, n, identity, v) = name[CHOOSE i \in 1..6 : First1(i)]
  BY DEF FirstFilterReason
<1> HIDE DEF failed
<1>4. \E i \in 1..4 : First1(i)
  <2>1. CASE failed[1] BY <2>1
  <2>2. CASE ~ failed[1] /\ failed[2] BY <2>2
  <2>3. CASE ~ failed[1] /\ ~ failed[2] /\ failed[3] BY <2>3
  <2>4. CASE ~ failed[1] /\ ~ failed[2] /\ ~ failed[3] /\ failed[4] BY <2>4
  <2> QED BY <1>2, <2>1, <2>2, <2>3, <2>4
<1>5. PICK k \in 1..4 : First1(k)
  BY <1>4
<1>6. \A i \in 1..6 : First1(i) => i \in 1..4
  BY <1>5
<1> DEFINE i == CHOOSE i \in 1..6 : First1(i)
<1>7. i \in 1..6 /\ First1(i)
  BY <1>5
<1> HIDE DEF i
<1>8. i \in 1..4
  BY <1>6, <1>7
<1>9. name[i] # "filter_reason_unknown"
  BY <1>8
<1> QED BY <1>3, <1>9 DEF i

\* The bucket of a resolved label, when ranking, tensor, row and ports are one version's.
LEMMA ClassifiedTruly ==
    ASSUME history \in Histories, NEW v \in 1..Len(history), NEW c, NEW n \in DOMAIN In(v).card \cup {Null},
           NEW rank, rank = IF n = Null THEN 0 ELSE RankOf(n, PageAt(c, v, Everything))
    PROVE  LET b       == Classified(c, n, rank, Credited(c, v), In(v).card[c].pips, v, v)
               dropped == n \notin Legal([rows |-> v], <<c>>, In(v).card[c].pips)
           IN  /\ b[1] = "FILTERED" <=> n \in Credited(c, v) /\ dropped
               /\ b[2] # "filter_reason_unknown"
               /\ b[1] \in {"NEAR_MISS", "OUTRANKED"} => ~ dropped
<1> DEFINE tensor == Credited(c, v)
           identity == In(v).card[c].pips
           dropped == n \notin Legal([rows |-> v], <<c>>, identity)
           b == Classified(c, n, rank, tensor, identity, v, v)
           row == n # Null /\ n \in DOMAIN In(v).card
<1>1. Null \notin Names /\ Null # "filter_reason_unknown" /\ DOMAIN In(v).card \subseteq Names
  <2>1. Null \notin Names /\ Null # "filter_reason_unknown" BY EngineAssumption, ForensicsAssumption
  <2>2. DOMAIN In(v).card \subseteq Names BY Versions
  <2> QED BY <2>1, <2>2
<1>2. n = Null => dropped /\ n \notin tensor
  BY <1>1, CreditedIsScored DEF Legal
<1>3. /\ rank \in Nat /\ (rank > 0 => ~ dropped)
      /\ n \in tensor /\ ~ dropped => rank > 0
  <2>1. CASE n = Null BY <1>2, <2>1
  <2>2. CASE n # Null
    <3>1. rank \in Nat /\ (rank > 0 <=> n \in Listed(c, v)) BY <2>2, RankOfListed
    <3>2. Legal(OneVersion(c, v), <<c>>, identity) = Legal([rows |-> v], <<c>>, identity)
      BY DEF Legal, OneVersion
    <3>3. n \in Listed(c, v) <=> ~ dropped /\ n \in DOMAIN Scored(<<c>>, Whole(v)) BY <3>2 DEF Listed
    <3>4. n \in tensor => n \in DOMAIN Scored(<<c>>, Whole(v)) BY CreditedIsScored
    <3> QED BY <3>1, <3>3, <3>4
  <2> QED BY <2>1, <2>2
<1>4. NearMax \in Nat /\ (row => In(v).ports[n] \in {"none", "unknown", "formed"})
  BY ForensicsAssumption, HistoryAssumption, Versions DEF In
<1>5. n \in tensor => n # c
  BY CreditedIsScored
<1>6. CASE rank > 0 /\ rank <= NearMax
  <2>1. b = <<"NEAR_MISS", Null>> BY <1>3, <1>4, <1>6 DEF Classified
  <2>2. b[1] = "NEAR_MISS" /\ b[2] = Null BY <2>1
  <2> HIDE DEF b, tensor, dropped
  <2>3. /\ b[1] = "FILTERED" <=> n \in tensor /\ dropped
        /\ b[2] # "filter_reason_unknown"
        /\ b[1] \in {"NEAR_MISS", "OUTRANKED"} => ~ dropped
    BY <1>1, <1>3, <1>6, <2>2
  <2> QED BY <2>3 DEF b, tensor, dropped
<1>7. CASE rank > NearMax
  <2>1. b = <<"OUTRANKED", IF n \in tensor THEN Null ELSE "staple_only">> BY <1>3, <1>4, <1>7 DEF Classified
  <2>2. b[1] = "OUTRANKED" /\ b[2] \in {Null, "staple_only"} BY <2>1
  <2> HIDE DEF b, tensor, dropped
  <2>3. /\ b[1] = "FILTERED" <=> n \in tensor /\ dropped
        /\ b[2] # "filter_reason_unknown"
        /\ b[1] \in {"NEAR_MISS", "OUTRANKED"} => ~ dropped
    BY <1>1, <1>3, <1>4, <1>7, <2>2
  <2> QED BY <2>3 DEF b, tensor, dropped
<1>8. CASE rank = 0 /\ n \in tensor
  <2>1. b = <<"FILTERED", FirstFilterReason(c, n, identity, v)>> BY <1>4, <1>8 DEF Classified
  <2>2. b[1] = "FILTERED" /\ b[2] = FirstFilterReason(c, n, identity, v) BY <2>1
  <2>3. dropped BY <1>3, <1>8
  <2>4. n \in DOMAIN In(v).card BY <1>2, <1>8
  <2>5. b[2] # "filter_reason_unknown" BY <1>5, <1>8, <2>2, <2>3, <2>4, DropHasReason
  <2> QED BY <1>8, <2>2, <2>3, <2>5
<1>9. CASE rank = 0 /\ n \notin tensor
  <2>1. b \in {<<"DATA_GAP", "card_absent">>, <<"DATA_GAP", "no_ports">>, <<"DATA_GAP", "unknown_ports">>,
               <<"NO_RULES", Null>>}
    BY <1>4, <1>9 DEF Classified
  <2>2. b[1] \in {"DATA_GAP", "NO_RULES"} /\ b[2] \in {"card_absent", "no_ports", "unknown_ports", Null} BY <2>1
  <2> QED BY <1>1, <1>9, <2>2
<1> QED BY <1>3, <1>4, <1>6, <1>7, <1>8, <1>9

LEMMA MissesTagged ==
    ASSUME history \in Histories, NEW v \in 1..Len(history), NEW c \in DOMAIN In(v).card,
           NEW e \in Misses(c, DOMAIN In(v).card, PageAt(c, v, Everything), Credited(c, v), v, v)
    PROVE  TagTrue(e, v)
<1> DEFINE known == DOMAIN In(v).card
           rank(n) == IF n = Null THEN 0 ELSE RankOf(n, PageAt(c, v, Everything))
           identity == In(v).card[c].pips
           b(n) == Classified(c, n, rank(n), Credited(c, v), identity, v, v)
<1>1. PICK l : e = [commander |-> c, label |-> l, card |-> Normalized(l, known), rank |-> rank(Normalized(l, known)),
                    bucket |-> b(Normalized(l, known))[1], reason |-> b(Normalized(l, known))[2],
                    credited |-> Normalized(l, known) \in Credited(c, v)]
  BY DEF Misses
<1> DEFINE n == Normalized(l, known)
<1>2. n \in known \cup {Null}
  BY DEF Normalized
<1>3. /\ e.commander = c /\ e.card = n /\ e.bucket = b(n)[1] /\ e.reason = b(n)[2]
      /\ e.credited = (n \in Credited(c, v))
  BY <1>1
<1> HIDE DEF n
<1>4. LET dropped == n \notin Legal([rows |-> v], <<c>>, identity)
      IN  /\ b(n)[1] = "FILTERED" <=> n \in Credited(c, v) /\ dropped
          /\ b(n)[2] # "filter_reason_unknown"
          /\ b(n)[1] \in {"NEAR_MISS", "OUTRANKED"} => ~ dropped
  BY <1>2, ClassifiedTruly
<1> HIDE DEF b
<1> QED BY <1>3, <1>4 DEF TagTrue

-----------------------------------------------------------------------------
(* A pass over one version tags truly                                       *)

LEMMA ReadStep ==
    ASSUME WorldInv, PassInv, ReadInv, [Next]_vars
    PROVE  ReadInv'
<1> USE DEF world, client, Unopened, InCommander, Goto, Quiet
<1>w. history \in Histories /\ 1..now \subseteq 1..Len(history) /\ \A f \in Files : head[f] \in 1..now
  BY WorldFacts DEF WorldInv
<1>h. history' = history /\ 1..now \subseteq 1..now'
  BY EngineSteps, WorldFacts
<1>p. \A v, c, l, e : /\ In(v)' = In(v) /\ PageAt(c, v, l)' = PageAt(c, v, l) /\ Credited(c, v)' = Credited(c, v)
                      /\ TagTrue(e, v)' <=> TagTrue(e, v)
  BY <1>h, VersionFrame
<1>1. CASE Unopened /\ Unopened'
  <2>1. seen = {} /\ seen' = seen
    BY <1>1 DEF PassInv, Next, Client, Page, ScoreOne, Answer, run, Pass, Begin, Open, SkipCommander, LoadRanking,
        ScoreRanking, Window, ReadTensor, ReadCards, Classify, Reconcile, CheckLoad, CheckScore, Repin, Import,
        ImportInPlace, Rebuild, vars
  <2> QED BY <1>1, <2>1 DEF ReadInv
<1>2. CASE Open
  <2>0. PICK v : v = head[read.conn] OBVIOUS
  <2>1. v \in 1..now /\ seen' = {v} /\ entries' = {} /\ pc' = "next" /\ read'.known = DOMAIN In(v).card
    BY <1>2, <1>w, <2>0 DEF Open, PassInv
  <2>2. IsFiniteSet(seen') BY <2>1, FS_Singleton
  <2>3. OfVersion(v)' BY <1>p, <2>1 DEF OfVersion
  <2> QED BY <1>h, <2>1, <2>2, <2>3 DEF ReadInv
<1>3. CASE ~ Unopened /\ ~ Unopened'
  <2>f. /\ \A x : IsFiniteSet(seen \cup {x})
        /\ \A x, y : IsFiniteSet(seen \cup {x, y})
    <3>1. \A x : IsFiniteSet(seen \cup {x}) BY FS_AddElement DEF ReadInv
    <3>2. \A x, y : IsFiniteSet((seen \cup {x}) \cup {y}) BY <3>1, FS_AddElement
    <3>3. ASSUME NEW x, NEW y PROVE IsFiniteSet(seen \cup {x, y})
      <4>1. (seen \cup {x}) \cup {y} = seen \cup {x, y} OBVIOUS
      <4>2. IsFiniteSet((seen \cup {x}) \cup {y}) BY <3>2
      <4> QED BY <4>1, <4>2
    <3> QED BY <3>1, <3>3
  <2>1. seen \subseteq seen' /\ IsFiniteSet(seen')
    <3>1. CASE seen' = seen BY <3>1 DEF ReadInv
    <3>2. CASE LoadRanking
      <4>1. CASE Known(engine, Deck)
        <5>1. seen' = seen \cup {head[engine.file], engine'.rows} BY <3>2, <4>1 DEF LoadRanking
        <5>2. PICK x, y : x = head[engine.file] /\ y = engine'.rows OBVIOUS
        <5>3. seen' = seen \cup {x, y} BY <5>1, <5>2
        <5> QED BY <2>f, <5>3
      <4>2. CASE ~ Known(engine, Deck) BY <3>1, <3>2, <4>2 DEF LoadRanking
      <4> QED BY <4>1, <4>2
    <3>3. CASE ScoreRanking BY <2>f, <3>3 DEF ScoreRanking
    <3>4. CASE ReadTensor \/ ReadCards \/ Classify BY <2>f, <3>4 DEF ReadTensor, ReadCards, Classify
    <3> QED
      BY <1>3, <3>1, <3>2, <3>3, <3>4
      DEF Next, Client, Page, ScoreOne, Answer, run, Pass, Begin, Open, SkipCommander, Window, Reconcile,
          CheckLoad, CheckScore, Repin, Import, ImportInPlace, Rebuild, vars
  <2>2. ASSUME NEW v \in 1..now', seen' = {v} PROVE OfVersion(v)'
    <3>1. seen = {v} /\ v \in 1..now /\ OfVersion(v)
      BY <1>3, <2>1, <2>2 DEF ReadInv
    <3> USE DEF OfVersion
    <3>2. CASE /\ UNCHANGED entries /\ read'.known = read.known /\ ~ InCommander'
      BY <1>p, <3>1, <3>2
    <3>3. CASE LoadRanking /\ Known(engine, Deck)
      <4>1. head[engine.file] = v /\ engine'.rows = v /\ pc' = "score"
        BY <2>2, <3>3 DEF LoadRanking
      <4>2. Commander \in DOMAIN In(v).card /\ Identity(engine, Deck) = In(v).card[Commander].pips
        BY <3>3, <4>1, ColoursOfOne DEF Deck
      <4> QED BY <1>p, <3>1, <3>3, <4>1, <4>2 DEF LoadRanking, Commander, PassInv
    <3>4. CASE ScoreRanking
      <4> DEFINE e == WithScores(engine, Deck)
      <4>1. Deck \in Decks /\ engine.rows > 0
        BY <3>4, FixtureFacts DEF ScoreRanking, PassInv, Deck, Commander
      <4>2. EngineType(e) /\ e.rows = engine.rows /\ e.scores[Deck] # NoScores
        BY <4>1, WithScoresTyped
      <4>3. e.scores[Deck].cmdr = v /\ e.scores[Deck].cand = v
        BY <2>2, <3>4 DEF ScoreRanking
      <4>4. read.identity = In(v).card[Commander].pips /\ engine.rows = v
        BY <3>1, <3>4 DEF ScoreRanking
      <4>5. read'.ranking = Items(e, Deck, read.identity, 0, Everything)
        BY <3>4 DEF ScoreRanking, PassInv
      <4> HIDE DEF e
      <4>6. e.scores[Deck] = Whole(v)
        BY <4>1, <4>2, <4>3, <4>4 DEF EngineType, Whole
      <4>7. read'.ranking = PageAt(Commander, v, Everything)
        BY <4>2, <4>4, <4>5, <4>6, PageOfOneVersion DEF Deck
      <4> QED BY <1>p, <3>1, <3>4, <4>7 DEF ScoreRanking, Commander, PassInv
    <3>5. CASE Window
      BY <1>p, <3>1, <3>5 DEF Window, Commander
    <3>6. CASE ReadTensor
      <4>1. pinned[read.conn] = v /\ v # 0 BY <2>2, <3>1, <3>6 DEF ReadTensor
      <4>2. TensorOf(Commander, read.conn) = Credited(Commander, v)
        BY <4>1 DEF TensorOf, Credited, Whole
      <4> QED BY <1>p, <3>1, <3>6, <4>2 DEF ReadTensor, Commander, PassInv
    <3>7. CASE ReadCards
      <4>1. head[read.conn] = v BY <2>2, <3>7 DEF ReadCards
      <4> QED BY <1>p, <3>1, <3>7, <4>1 DEF ReadCards, Commander, PassInv
    <3>8. CASE Classify
      <4>1. head[read.conn] = v BY <2>2, <3>8 DEF Classify
      <4>2. entries' = entries \cup Misses(Commander, DOMAIN In(v).card, PageAt(Commander, v, Everything),
                                            Credited(Commander, v), v, v)
        BY <3>1, <3>8, <4>1 DEF Classify
      <4>3. \A e \in entries' : TagTrue(e, v)
        BY <1>w, <3>1, <3>8, <4>2, MissesTagged DEF Classify
      <4> QED BY <1>p, <3>1, <3>8, <4>3 DEF Classify, PassInv
    <3>9. CASE (mode = "client" /\ Client) \/ Repin \/ Import \/ UNCHANGED vars
      <4>1. UNCHANGED <<pc, read, entries>> /\ (pc = "score" => engine' = engine)
        BY <1>3, <3>9 DEF Repin, Import, ImportInPlace, Rebuild, run, vars, PassInv, Next, Client
      <4> QED BY <1>p, <3>1, <4>1 DEF Commander
    <3> QED
      BY <1>3, <3>2, <3>3, <3>4, <3>5, <3>6, <3>7, <3>8, <3>9
      DEF Next, Pass, Begin, Open, SkipCommander, LoadRanking, Window, Reconcile, CheckLoad, CheckScore, PassInv
  <2> QED BY <1>3, <1>h, <2>1, <2>2 DEF ReadInv
<1> QED
  <2>1. Unopened /\ ~ Unopened' => Open
    BY DEF PassInv, Next, Client, Page, ScoreOne, Answer, run, Pass, Begin, Open, SkipCommander, LoadRanking,
        ScoreRanking, Window, ReadTensor, ReadCards, Classify, Reconcile, CheckLoad, CheckScore, Repin, Import,
        ImportInPlace, Rebuild, vars
  <2>2. Unopened' => Unopened
    BY DEF PassInv, Next, Client, Page, ScoreOne, Answer, run, Pass, Begin, Open, SkipCommander, LoadRanking,
        ScoreRanking, Window, ReadTensor, ReadCards, Classify, Reconcile, CheckLoad, CheckScore, Repin, Import,
        ImportInPlace, Rebuild, vars
  <2> QED BY <1>1, <1>2, <1>3, <2>1, <2>2

-----------------------------------------------------------------------------
(* The theorems                                                             *)

LEMMA InitInv == Init => Inv
<1> SUFFICES ASSUME Init PROVE Inv
  OBVIOUS
<1> USE DEF Init, ClientInit
<1>1. head \in Seq(1..now) /\ head # <<>> /\ Path = 1 /\ Files = {1} /\ head[Path] = now
  BY DEF Path, Files
<1>2. now \in 1..Len(history)
  BY Versions
<1>3. EngineType(engine)
  BY <1>1 DEF EngineType, NewEngine, NoScores
<1>4. WorldInv
  BY <1>1, <1>2, <1>3 DEF WorldInv
<1>5. PassInv
  BY DEF PassInv, InCommander, Unopened
<1>6. AnswersInv
  BY DEF AnswersInv
<1>7. UndisturbedInv
  BY <1>1 DEF UndisturbedInv
<1>8. ReadInv
  BY FS_EmptySet DEF ReadInv, Unopened
<1> QED BY <1>4, <1>5, <1>6, <1>7, <1>8 DEF Inv

THEOREM InvHolds == Spec => []Inv
<1>1. Inv /\ [Next]_vars => Inv'
  BY WorldStep, PassStep, AnswersStep, UndisturbedStep, ReadStep DEF Inv
<1> QED BY <1>1, InitInv, PTL DEF Spec

\* Whatever the database does between two calls, an engine never contradicts a total
\* or a rank it has given, for every history of the database and every client.
THEOREM AnswersNeverContradict == Spec => []AnswersAgree
<1>1. Inv => AnswersAgree
  <2> SUFFICES ASSUME Inv, NEW a \in answers, NEW b \in answers, a.deck = b.deck
               PROVE  /\ a.card = b.card => a.total = b.total
                      /\ a.rank > 0 /\ b.rank > 0 /\ a.identity = b.identity => (a.card = b.card <=> a.rank = b.rank)
    BY DEF AnswersAgree
  <2>1. Justified(a) /\ Justified(b)
    BY DEF Inv, AnswersInv
  <2>2. a.card = b.card => a.total = b.total
    BY <2>1 DEF Justified
  <2>3. ASSUME a.rank > 0, b.rank > 0, a.identity = b.identity PROVE a.card = b.card <=> a.rank = b.rank
    <3> DEFINE ranked == Ranked(engine, a.deck, a.identity)
               S == Eligible(engine, a.deck, a.identity)
    <3>1. /\ a.rank \in DOMAIN ranked /\ ranked[a.rank] = a.card
          /\ b.rank \in DOMAIN ranked /\ ranked[b.rank] = b.card
      BY <2>1, <2>3 DEF Justified
    <3>2. engine.scores[a.deck].rows = engine.rows /\ engine.rows \in 1..Len(history) /\ history \in Histories
      <4>1. a.deck \in Decks /\ engine.scores[a.deck] # NoScores /\ EngineType(engine)
        BY <2>1 DEF Justified, Inv, WorldInv
      <4>2. engine.scores[a.deck].rows = engine.rows /\ engine.rows > 0 /\ engine.rows \in 0..now
        BY <4>1 DEF EngineType
      <4> QED BY <4>2, WorldFacts DEF Inv, WorldInv
    <3>3. /\ DOMAIN ranked = 1..Cardinality(S)
          /\ \A i, j \in 1..Cardinality(S) : ranked[i] = ranked[j] => i = j
      BY <3>2, RankedCards
    <3> HIDE DEF ranked, S
    <3> QED BY <3>1, <3>3
  <2> QED BY <2>2, <2>3
<1> QED BY <1>1, InvHolds, PTL

\* The pass can only report a reconciliation error after the database changed under it.
THEOREM ErrorsNeedImports == Spec => []ErrorNeedsImport
<1>1. Inv => ErrorNeedsImport
  BY DEF Inv, UndisturbedInv, ErrorNeedsImport
<1> QED BY <1>1, InvHolds, PTL

\* If all a pass read is one version of the database, its tags say what that version's
\* ranking did, for every fixture, label set and history.
THEOREM FreshTagsHold == Spec => []FreshTagsAreTrue
<1>1. Inv => FreshTagsAreTrue
  <2> SUFFICES ASSUME Inv, Cardinality(seen) = 1, NEW e \in entries
               PROVE  TagTrue(e, CHOOSE x \in seen : TRUE)
    BY DEF FreshTagsAreTrue, TagTrue
  <2>1. IsFiniteSet(seen) /\ ~ Unopened /\ \E v \in seen : v \in 1..now
    BY DEF Inv, PassInv, ReadInv
  <2>2. PICK v : seen = {v}
    BY <2>1, FS_Singleton
  <2>3. v \in 1..now /\ (CHOOSE x \in seen : TRUE) = v
    BY <2>1, <2>2
  <2>4. TagTrue(e, v)
    BY <2>2, <2>3 DEF Inv, ReadInv, OfVersion
  <2> QED BY <2>3, <2>4
<1> QED BY <1>1, InvHolds, PTL

=============================================================================
