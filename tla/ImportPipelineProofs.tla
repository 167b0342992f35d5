------------------------ MODULE ImportPipelineProofs ------------------------
(* Proofs about ImportPipeline for every cardsfolder.  The committed and the  *)
(* working database satisfy the schema at every statement, an import covers   *)
(* the files it has passed, and the second pass leaves each carrier it has    *)
(* visited with what its reference extracts.                                  *)
EXTENDS ImportPipeline, TLAPS

Database == [cards : SUBSET Names, own : [Names -> [Kinds -> Nat]],
             inherited : [Names -> [Kinds -> Nat]], seeded : SUBSET {"events", "rules"}]

\* The schema's constraints, and that only an import gives a card ports of its own.
Sound(d) ==
    /\ Stranded(d) = {}
    /\ \A c \in d.cards : /\ Displaced(d.cards, c) = {}
                          /\ d.own[c] = universe.native[c]
                          /\ universe.ref[c] = NoCard => d.inherited[c] = NoPorts

Covered(d, c) == c \in d.cards \/ Displaced(d.cards, c) # {}
Whole(d)      == \A c \in Good : Covered(d, c)

ChainedIn(d) == \E c \in Carriers(d) : universe.ref[c] \in Carriers(d) \ {c}

\* c inherited what its reference extracts.
Right(d, c) ==
    ChainedIn(d) \/ d.inherited[c] =
        [k \in Kinds |-> IF universe.ref[c] \in d.cards \ {c} /\ k # Marker
                         THEN universe.native[universe.ref[c]][k] ELSE 0]

TypeInv ==
    /\ universe \in Universes
    /\ db \in Database /\ txn \in Database
    /\ pc \in {"idle", "parse", "resolve", "events", "rules", "again"}
    /\ i \in Nat \ {0} /\ left \subseteq Names

CoverInv ==
    /\ db.cards # {} => Whole(db)
    /\ pc = "parse" => /\ db.cards # {} => Whole(txn)
                       /\ \A j \in 1..(i - 1) : universe.order[j] \in Good => Covered(txn, universe.order[j])

InheritInv ==
    /\ pc \in {"resolve", "again"} =>
         /\ txn.cards = db.cards /\ left \subseteq Carriers(db)
         /\ \A c \in db.cards \ left : Right(txn, c)
    /\ pc \in {"events", "rules"} \/ (state = "imported" /\ pc \in {"idle", "again"}) =>
         \A c \in db.cards : Right(db, c)
    /\ pc = "again" => state = "imported"

ImportInv == TypeInv /\ Sound(db) /\ Sound(txn) /\ CoverInv /\ InheritInv

-----------------------------------------------------------------------------
(* Databases                                                                *)

LEMMA UniverseTyped ==
    ASSUME universe \in Universes
    PROVE  /\ universe.order \in Seq(Names) /\ universe.native \in [Names -> [Kinds -> Nat]]
           /\ universe.ref \in [Names -> Names \cup {NoCard}] /\ universe.oracle \in [Names -> Names \cup {NoCard}]
BY ImportAssumption DEF Universe

LEMMA EmptySound == Empty \in Database /\ Sound(Empty)
BY DEF Empty, NoPorts, Database, Sound, Stranded

LEMMA ImportedFields ==
    ASSUME universe \in Universes, NEW d \in Database, NEW c \in Names
    PROVE  /\ Imported(d, c) \in Database
           /\ Imported(d, c).cards = Replace(d.cards, c)
           /\ \A x \in Names : Imported(d, c).own[x] = IF x = c THEN universe.native[c] ELSE d.own[x]
           /\ \A x \in Names : Imported(d, c).inherited[x] = IF x = c THEN NoPorts ELSE d.inherited[x]
BY UniverseTyped DEF Imported, Database, Replace, NoPorts

\* The guard of ImportFile keeps the schema.
LEMMA ImportedSound ==
    ASSUME universe \in Universes, NEW d \in Database, Sound(d), NEW c \in Names, Stranded(Imported(d, c)) = {}
    PROVE  Sound(Imported(d, c))
<1>1. \A x \in Replace(d.cards, c) : Displaced(Replace(d.cards, c), x) = {}
  BY DEF Sound, Replace, Displaced, Database
<1>2. \A x \in Replace(d.cards, c) : x # c => x \in d.cards
  BY DEF Replace
<1>3. Replace(d.cards, c) \subseteq Names
  BY DEF Replace, Database
<1>4. ASSUME NEW x \in Replace(d.cards, c)
      PROVE  /\ Imported(d, c).own[x] = universe.native[x]
             /\ universe.ref[x] = NoCard => Imported(d, c).inherited[x] = NoPorts
  BY <1>2, <1>3, <1>4, ImportedFields DEF Sound
<1> QED BY <1>1, <1>4, ImportedFields DEF Sound

\* A card takes over what it displaces.
LEMMA ImportedCovers ==
    ASSUME universe \in Universes, NEW d \in Database, NEW c \in Names
    PROVE  /\ Covered(Imported(d, c), c)
           /\ \A x \in Names : Covered(d, x) => Covered(Imported(d, c), x)
<1>1. c \in Imported(d, c).cards /\ d.cards \subseteq Names
  BY ImportedFields DEF Replace, Database
<1>2. ASSUME NEW x \in Names, Covered(d, x)
      PROVE  Covered(Imported(d, c), x)
  <2>1. PICK y \in d.cards : x = y \/ (y # x /\ universe.oracle[y] # NoCard /\ universe.oracle[y] = universe.oracle[x])
    BY <1>2 DEF Covered, Displaced
  <2>2. CASE y \in Displaced(d.cards, c)
    BY <1>1, <2>1, <2>2 DEF Covered, Displaced
  <2>3. CASE y \notin Displaced(d.cards, c)
    <3>1. y \in Imported(d, c).cards
      BY <2>3, ImportedFields DEF Replace
    <3> QED BY <2>1, <3>1 DEF Covered, Displaced
  <2> QED BY <2>2, <2>3
<1> QED BY <1>1, <1>2 DEF Covered

LEMMA OneCarrierFields ==
    ASSUME universe \in Universes, NEW d \in Database, NEW c \in d.cards
    PROVE  /\ OneCarrier(d, c) \in Database
           /\ OneCarrier(d, c).cards = d.cards /\ OneCarrier(d, c).own = d.own
           /\ \A x \in Names : OneCarrier(d, c).inherited[x] = IF x = c THEN Copied(d, c) ELSE d.inherited[x]
<1>1. Copied(d, c) \in [Kinds -> Nat]
  BY UniverseTyped DEF Copied, Database
<1> QED BY <1>1 DEF OneCarrier, Database

LEMMA OneCarrierSound ==
    ASSUME universe \in Universes, NEW d \in Database, Sound(d), NEW c \in Carriers(d)
    PROVE  Sound(OneCarrier(d, c))
<1>1. c \in d.cards /\ d.cards \subseteq Names /\ universe.ref[c] # NoCard
  BY DEF Carriers, Database
<1>2. Stranded(OneCarrier(d, c)) = {}
  BY <1>1, OneCarrierFields DEF Sound, Stranded
<1> QED BY <1>1, <1>2, OneCarrierFields DEF Sound

\* Without a chain the reference has nothing but what its file gives it.
LEMMA OneCarrierRight ==
    ASSUME universe \in Universes, NEW d \in Database, Sound(d), NEW c \in Carriers(d)
    PROVE  /\ Right(OneCarrier(d, c), c)
           /\ \A x \in d.cards : Right(d, x) => Right(OneCarrier(d, c), x)
<1>1. c \in d.cards /\ d.cards \subseteq Names /\ universe.ref[c] # NoCard
  BY DEF Carriers, Database
<1> DEFINE e == OneCarrier(d, c)
           ref == universe.ref[c]
<1>2. e.cards = d.cards /\ e.own = d.own /\ e.inherited[c] = Copied(d, c)
      /\ \A x \in Names \ {c} : e.inherited[x] = d.inherited[x]
  BY <1>1, OneCarrierFields
<1>3. ChainedIn(e) <=> ChainedIn(d)
  BY <1>2 DEF ChainedIn, Carriers
<1> HIDE DEF e
<1>4. ASSUME ~ChainedIn(d), ref \in d.cards \ {c}, NEW k \in Kinds
      PROVE  d.own[ref][k] + d.inherited[ref][k] = universe.native[ref][k]
  <2>1. universe.ref[ref] = NoCard
    BY <1>1, <1>4 DEF ChainedIn, Carriers
  <2>2. d.own[ref] = universe.native[ref] /\ d.inherited[ref] = NoPorts
    BY <1>4, <2>1 DEF Sound
  <2>3. universe.native[ref][k] \in Nat
    BY <1>1, <1>4, UniverseTyped
  <2> QED BY <2>2, <2>3 DEF NoPorts
<1>5. ~ChainedIn(d) => Copied(d, c) =
        [k \in Kinds |-> IF ref \in d.cards \ {c} /\ k # Marker THEN universe.native[ref][k] ELSE 0]
  BY <1>4 DEF Copied
<1>6. Right(e, c)
  BY <1>2, <1>3, <1>5 DEF Right
<1>7. \A x \in d.cards \ {c} : Right(d, x) => Right(e, x)
  BY <1>1, <1>2, <1>3 DEF Right
<1> QED BY <1>6, <1>7 DEF e

\* A card that carries no reference has inherited nothing.
LEMMA NonCarrierRight ==
    ASSUME universe \in Universes, NEW d \in Database, Sound(d), NEW c \in d.cards \ Carriers(d)
    PROVE  Right(d, c)
<1>1. universe.ref[c] = NoCard /\ NoCard \notin d.cards
  BY ImportAssumption DEF Carriers, Database
<1> QED BY <1>1 DEF Sound, Right, NoPorts

-----------------------------------------------------------------------------
(* Steps                                                                    *)

LEMMA ImportInit == Init => ImportInv
<1> SUFFICES ASSUME Init PROVE ImportInv
  OBVIOUS
<1>1. TypeInv
  BY EmptySound DEF Init, TypeInv
<1>2. Sound(db) /\ Sound(txn)
  BY EmptySound DEF Init
<1>3. CoverInv /\ InheritInv
  BY DEF Init, CoverInv, InheritInv, Empty
<1> QED BY <1>1, <1>2, <1>3 DEF ImportInv

LEMMA StartImport == ASSUME ImportInv, NEW unlink \in BOOLEAN, Start(unlink) PROVE ImportInv'
<1> USE DEF ImportInv
<1>1. universe' = universe /\ txn' = db' /\ pc' = "parse" /\ i' = 1 /\ left' = left /\ db' \in {Empty, db}
  BY DEF Start
<1>2. db' \in Database /\ Sound(db)'
  <2>1. CASE db' = db
    BY <1>1, <2>1 DEF TypeInv, Sound, Stranded, Displaced
  <2>2. CASE db' = Empty
    BY <1>1, <2>2, EmptySound DEF Sound, Stranded, Displaced
  <2> QED BY <1>1, <2>1, <2>2
<1>3. TypeInv'
  BY <1>1, <1>2 DEF TypeInv
<1>4. Sound(txn)'
  BY <1>1, <1>2 DEF Sound, Stranded, Displaced
<1>5. db'.cards # {} => Whole(db)'
  <2>1. Empty.cards = {}
    BY DEF Empty
  <2> QED BY <1>1, <2>1 DEF CoverInv, Whole, Covered, Displaced, Good
<1>6. CoverInv'
  BY <1>1, <1>5 DEF CoverInv, Whole, Covered, Displaced, Good
<1>7. InheritInv'
  BY <1>1 DEF InheritInv
<1> QED BY <1>2, <1>3, <1>4, <1>6, <1>7

LEMMA NextFile ==
    ASSUME ImportInv, pc = "parse", i <= Len(universe.order)
    PROVE  universe \in Universes /\ File \in Names /\ i \in DOMAIN universe.order /\ i + 1 \in Nat \ {0}
<1>1. universe \in Universes /\ i \in Nat \ {0}
  BY DEF ImportInv, TypeInv
<1>2. universe.order \in Seq(Names)
  BY <1>1, UniverseTyped
<1> QED BY <1>1, <1>2 DEF File

LEMMA SkipImport == ASSUME ImportInv, SkipFile PROVE ImportInv'
<1> USE DEF ImportInv
<1>1. UNCHANGED <<universe, db, txn, pc, left, state>> /\ i' = i + 1 /\ pc = "parse" /\ File \in universe.bad
      /\ i \in Nat \ {0} /\ i' \in Nat \ {0}
  BY NextFile DEF SkipFile, TypeInv
<1>2. TypeInv' /\ Sound(db)' /\ Sound(txn)' /\ InheritInv'
  BY <1>1 DEF TypeInv, Sound, Stranded, Displaced, InheritInv
<1>3. CoverInv'
  <2>1. \A j \in 1..(i' - 1) : j \in 1..(i - 1) \/ j = i
    BY <1>1
  <2>2. universe.order[i] \notin Good
    BY <1>1 DEF Good, File
  <2> QED BY <1>1, <2>1, <2>2 DEF CoverInv, Whole, Covered, Displaced, Good
<1> QED BY <1>2, <1>3

LEMMA FileImport == ASSUME ImportInv, ImportFile PROVE ImportInv'
<1> USE DEF ImportInv
<1>1. UNCHANGED <<universe, db, pc, left, state>> /\ i' = i + 1 /\ pc = "parse"
      /\ Stranded(Imported(txn, File)) = {} /\ txn' = Imported(txn, File)
      /\ i \in Nat \ {0} /\ i' \in Nat \ {0} /\ File \in Names /\ universe \in Universes
  BY NextFile DEF ImportFile, TypeInv
<1>2. Sound(Imported(txn, File)) /\ Imported(txn, File) \in Database
  BY <1>1, ImportedSound, ImportedFields DEF TypeInv
<1>3. TypeInv' /\ Sound(db)' /\ InheritInv'
  BY <1>1, <1>2 DEF TypeInv, Sound, Stranded, Displaced, InheritInv
<1>4. Sound(txn)'
  BY <1>1, <1>2 DEF Sound, Stranded, Displaced
<1>5. \A x \in Names : Covered(txn, x) \/ x = File => Covered(txn, x)'
  <2>1. \A x \in Names : Covered(txn, x) \/ x = File => Covered(Imported(txn, File), x)
    BY <1>1, ImportedCovers DEF TypeInv
  <2> QED BY <1>1, <2>1 DEF Covered, Displaced
<1>6. CoverInv'
  <2>1. \A j \in 1..(i' - 1) : j \in 1..(i - 1) \/ j = i
    BY <1>1
  <2>2. Good \subseteq Names /\ Good' = Good
    BY <1>1, UniverseTyped DEF Good
  <2>3. db.cards # {} => Whole(db)'
    BY <1>1 DEF CoverInv, Whole, Covered, Displaced, Good
  <2>4. db.cards # {} => Whole(txn)'
    BY <1>1, <1>5, <2>2 DEF CoverInv, Whole
  <2>5. \A j \in 1..(i' - 1) : universe.order[j] \in Good => Covered(txn, universe.order[j])'
    BY <1>1, <1>5, <2>1, <2>2 DEF CoverInv, File, Covered, Displaced
  <2> QED BY <1>1, <2>2, <2>3, <2>4, <2>5 DEF CoverInv, Covered, Displaced
<1> QED BY <1>2, <1>3, <1>4, <1>6

\* What the two ways to roll back have in common.
LEMMA RollBack ==
    ASSUME ImportInv, UNCHANGED <<universe, db, i>>, txn' = db, pc' = "idle", left' \subseteq Names,
           state' # "imported" \/ (pc = "again" /\ state' = state)
    PROVE  ImportInv'
<1> USE DEF ImportInv
<1>1. TypeInv' /\ Sound(db)' /\ Sound(txn)'
  BY DEF TypeInv, Sound, Stranded, Displaced
<1>2. CoverInv'
  BY DEF CoverInv, Whole, Covered, Displaced, Good
<1>3. InheritInv'
  BY DEF InheritInv, Right, ChainedIn, Carriers
<1> QED BY <1>1, <1>2, <1>3

LEMMA CardsCommitted == ASSUME ImportInv, CommitCards PROVE ImportInv'
<1> USE DEF ImportInv
<1>1. UNCHANGED <<universe, txn, i, state>> /\ pc = "parse" /\ db' = txn /\ pc' = "resolve" /\ left' = Carriers(txn)
      /\ i > Len(universe.order) /\ universe \in Universes /\ txn \in Database
  BY DEF CommitCards, TypeInv
<1>2. TypeInv' /\ Sound(db)' /\ Sound(txn)'
  BY <1>1 DEF TypeInv, Sound, Stranded, Displaced, Carriers, Database
<1>3. CoverInv'
  <2>1. Whole(txn)
    <3>1. DOMAIN universe.order \subseteq 1..(i - 1)
      BY <1>1, UniverseTyped DEF TypeInv
    <3> QED BY <1>1, <3>1 DEF CoverInv, Whole, Good
  <2> QED BY <1>1, <2>1 DEF CoverInv, Whole, Covered, Displaced, Good
<1>4. InheritInv'
  <2>1. \A c \in txn.cards \ Carriers(txn) : Right(txn, c)
    BY <1>1, NonCarrierRight
  <2> QED BY <1>1, <2>1 DEF InheritInv, Right, ChainedIn, Carriers
<1> QED BY <1>2, <1>3, <1>4

LEMMA CarrierResolved == ASSUME ImportInv, ResolveCarrier PROVE ImportInv'
<1> USE DEF ImportInv
<1>1. PICK c \in left : txn' = OneCarrier(txn, c) /\ left' = left \ {c}
  BY DEF ResolveCarrier
<1>2. UNCHANGED <<universe, db, pc, i, state>> /\ pc \in {"resolve", "again"} /\ universe \in Universes
      /\ txn \in Database /\ txn.cards = db.cards
  BY DEF ResolveCarrier, TypeInv, InheritInv
<1>3. c \in Carriers(txn) /\ c \in txn.cards
  BY <1>2 DEF InheritInv, Carriers
<1> DEFINE e == OneCarrier(txn, c)
<1>4. e \in Database /\ Sound(e) /\ e.cards = txn.cards
  BY <1>2, <1>3, OneCarrierFields, OneCarrierSound
<1>5. \A x \in db.cards \ left' : Right(e, x)
  BY <1>1, <1>2, <1>3, OneCarrierRight DEF InheritInv
<1> HIDE DEF e
<1>6. TypeInv' /\ Sound(db)' /\ Sound(txn)'
  BY <1>1, <1>2, <1>4 DEF TypeInv, Sound, Stranded, Displaced, e
<1>7. CoverInv'
  BY <1>2 DEF CoverInv, Whole, Covered, Displaced, Good
<1>8. InheritInv'
  <2>1. txn'.cards = db'.cards /\ left' \subseteq Carriers(db)'
    BY <1>1, <1>2, <1>4 DEF InheritInv, Carriers, e
  <2>2. \A x \in db'.cards \ left' : Right(txn, x)'
    BY <1>1, <1>2, <1>5 DEF Right, ChainedIn, Carriers, e
  <2>3. (state' = "imported" /\ pc' \in {"idle", "again"}) => \A x \in db'.cards : Right(db, x)'
    BY <1>2 DEF InheritInv, Right, ChainedIn, Carriers
  <2> QED BY <1>2, <2>1, <2>2, <2>3 DEF InheritInv
<1> QED BY <1>6, <1>7, <1>8

LEMMA ReferencesCommitted == ASSUME ImportInv, CommitReferences PROVE ImportInv'
<1> USE DEF ImportInv
<1>1. UNCHANGED <<universe, txn, i, left, state>> /\ pc \in {"resolve", "again"} /\ left = {} /\ db' = txn
      /\ pc' \in {"events", "idle"} /\ txn.cards = db.cards
  BY DEF CommitReferences, InheritInv
<1>2. TypeInv' /\ Sound(db)' /\ Sound(txn)'
  BY <1>1 DEF TypeInv, Sound, Stranded, Displaced
<1>3. CoverInv'
  BY <1>1 DEF CoverInv, Whole, Covered, Displaced, Good
<1>4. InheritInv'
  BY <1>1 DEF InheritInv, Right, ChainedIn, Carriers
<1> QED BY <1>2, <1>3, <1>4

LEMMA Seeded == ASSUME ImportInv, Seed PROVE ImportInv'
<1> USE DEF ImportInv
<1>1. /\ UNCHANGED <<universe, i, left>> /\ pc \in {"events", "rules"} /\ txn' = db'
      /\ pc' \in {"rules", "idle"}
      /\ db' \in Database /\ db'.cards = db.cards /\ db'.own = db.own /\ db'.inherited = db.inherited
  BY DEF Seed, TypeInv, Database
<1>2. TypeInv' /\ Sound(db)' /\ Sound(txn)'
  BY <1>1 DEF TypeInv, Sound, Stranded, Displaced
<1>3. CoverInv'
  BY <1>1 DEF CoverInv, Whole, Covered, Displaced, Good
<1>4. InheritInv'
  BY <1>1 DEF InheritInv, Right, ChainedIn, Carriers
<1> QED BY <1>2, <1>3, <1>4

LEMMA ResolvedAgain == ASSUME ImportInv, ResolveAgain PROVE ImportInv'
<1> USE DEF ImportInv
<1>1. /\ UNCHANGED <<universe, db, i, state>> /\ pc = "idle" /\ state = "imported"
      /\ txn' = db /\ left' = Carriers(db) /\ pc' = "again"
  BY DEF ResolveAgain
<1>2. TypeInv' /\ Sound(db)' /\ Sound(txn)'
  BY <1>1 DEF TypeInv, Sound, Stranded, Displaced, Carriers, Database
<1>3. CoverInv'
  BY <1>1 DEF CoverInv, Whole, Covered, Displaced, Good
<1>4. InheritInv'
  BY <1>1 DEF InheritInv, Right, ChainedIn, Carriers
<1> QED BY <1>2, <1>3, <1>4

LEMMA ImportStep == ImportInv /\ [Next]_vars => ImportInv'
<1> SUFFICES ASSUME ImportInv, [Next]_vars PROVE ImportInv'
  OBVIOUS
<1>1. CASE Conflict
  <2>1. left' \subseteq Names
    BY <1>1 DEF Conflict, ImportInv, TypeInv
  <2> QED BY <1>1, <2>1, RollBack DEF Conflict
<1>2. CASE Kill
  BY <1>2, RollBack DEF Kill
<1>3. CASE UNCHANGED vars
  BY <1>3 DEF vars, ImportInv, TypeInv, Sound, Stranded, Displaced, CoverInv, Whole, Covered, Good,
              InheritInv, Right, ChainedIn, Carriers
<1> QED BY <1>1, <1>2, <1>3, StartImport, SkipImport, FileImport, CardsCommitted, CarrierResolved,
           ReferencesCommitted, Seeded, ResolvedAgain DEF Next

LEMMA ImportInvariant == Spec => []ImportInv
BY ImportInit, ImportStep, PTL DEF Spec

-----------------------------------------------------------------------------
\* Whatever the files, conflicts, kills and repetitions, no port without its card
\* and no oracle id on two cards is ever committed.
THEOREM SchemaHolds == Spec => []NoStrandedPorts
<1>1. ImportInv => NoStrandedPorts
  BY DEF ImportInv, Sound, NoStrandedPorts
<1> QED BY <1>1, ImportInvariant, PTL

\* A reader finds no cards, or all that parse up to shared oracle ids: also when
\* the import that put them there was killed after its first pass.
THEOREM UniverseIsWhole == Spec => []NoHalfUniverse
<1>1. ImportInv => NoHalfUniverse
  BY DEF ImportInv, CoverInv, Whole, Covered, NoHalfUniverse
<1> QED BY <1>1, ImportInvariant, PTL

\* The second pass does not depend on the order of files and rows, and neither a
\* second import nor a second call of it lets a carrier inherit twice.
THEOREM CarriersInherit == Spec => []CarriersInheritOnce
<1>1. ImportInv => CarriersInheritOnce
  BY DEF ImportInv, InheritInv, Right, ChainedIn, Chained, Sound, Expected, CarriersInheritOnce
<1> QED BY <1>1, ImportInvariant, PTL

\* The idempotence that the docstring of the second pass claims holds where no
\* reference is a carrier itself (the run copy_face_chains shows that it does not
\* hold elsewhere).
THEOREM ResolveIsIdempotent ==
    Spec => [][pc = "again" /\ ~Chained => db'.own = db.own /\ db'.inherited = db.inherited]_vars
<1>1. ImportInv /\ [Next]_vars =>
        (pc = "again" /\ ~Chained => db'.own = db.own /\ db'.inherited = db.inherited)
  <2> SUFFICES ASSUME ImportInv, [Next]_vars, pc = "again", ~Chained
               PROVE  db'.own = db.own /\ db'.inherited = db.inherited
    OBVIOUS
  <2>1. CASE CommitReferences
    <3>1. db' = txn /\ left = {} /\ txn.cards = db.cards /\ db \in Database /\ txn \in Database /\ Sound(db) /\ Sound(txn)
      BY <2>1 DEF CommitReferences, ImportInv, InheritInv, TypeInv
    <3>2. \A c \in db.cards : Right(txn, c) /\ Right(db, c)
      BY <3>1 DEF ImportInv, InheritInv
    <3>3. ~ChainedIn(txn) /\ ~ChainedIn(db)
      BY <3>1 DEF ChainedIn, Chained, Carriers
    <3>4. ASSUME NEW c \in Names
          PROVE  txn.own[c] = db.own[c] /\ txn.inherited[c] = db.inherited[c]
      <4>1. CASE c \in db.cards
        <5> DEFINE inherits(cards) == [k \in Kinds |-> IF universe.ref[c] \in cards \ {c} /\ k # Marker
                                                       THEN universe.native[universe.ref[c]][k] ELSE 0]
        <5>1. txn.inherited[c] = inherits(txn.cards) /\ db.inherited[c] = inherits(db.cards)
          BY <3>2, <3>3, <4>1 DEF Right
        <5>2. txn.own[c] = db.own[c]
          BY <3>1, <4>1 DEF Sound
        <5> HIDE DEF inherits
        <5> QED BY <3>1, <5>1, <5>2
      <4>2. CASE c \notin db.cards
        BY <3>1, <4>2 DEF Sound, Stranded
      <4> QED BY <4>1, <4>2
    <3>5. /\ txn.own \in [Names -> [Kinds -> Nat]] /\ db.own \in [Names -> [Kinds -> Nat]]
          /\ txn.inherited \in [Names -> [Kinds -> Nat]] /\ db.inherited \in [Names -> [Kinds -> Nat]]
      BY <3>1 DEF Database
    <3> QED BY <3>1, <3>4, <3>5
  <2>2. CASE db' = db
    BY <2>2
  <2>3. CommitReferences \/ db' = db
    BY DEF Next, vars, Start, SkipFile, ImportFile, Conflict, CommitCards, ResolveCarrier, Seed, ResolveAgain, Kill
  <2> QED BY <2>1, <2>2, <2>3
<1> QED BY <1>1, ImportInvariant, PTL DEF Spec
=============================================================================
