--------------------------- MODULE ImportPipeline ---------------------------
(***************************************************************************)
(* import_cards_folder: one transaction that imports every card file, one  *)
(* that copies the ports of referenced cards onto the carriers of a        *)
(* CopyFaceFrom line, then the seed tables.  scripts/import_cardsfolder.py *)
(* unlinks the database first, an API caller imports into the one there    *)
(* is; either may die anywhere.  A card's rows are its ports, counted by   *)
(* kind, for no reader asks for their order; svars, hints and attributes   *)
(* go the same way.                                                        *)
(***************************************************************************)
EXTENDS Integers, Sequences, FiniteSets

CONSTANTS
    Names,       \* cards
    Kinds,       \* of ports
    Universes,   \* states of the cardsfolder and of the Scryfall data, see Universe
    MaxImports,  \* bound: imports started
    MaxResolves, \* bound: further calls of resolve_copy_face_from_references
    MaxKills     \* bound: processes killed

NoCard == "none"  \* no reference, no oracle id
Marker == "alt"   \* the static AlternateMode port

(* order   the sorted files, by the card in them                              *)
(* bad     cards whose file does not parse                                    *)
(* native  how many ports of each kind are extracted from each card           *)
(* ref     copy_face_from                                                     *)
(* oracle  oracle_id found by the resolver                                    *)
Universe == [order : Seq(Names), bad : SUBSET Names, native : [Names -> [Kinds -> Nat]],
             ref : [Names -> Names \cup {NoCard}], oracle : [Names -> Names \cup {NoCard}]]

ASSUME ImportAssumption ==
    /\ NoCard \notin Names /\ Universes \subseteq Universe
    /\ {MaxImports, MaxResolves, MaxKills} \subseteq Nat

VARIABLES
    universe,
    db,      \* committed: [cards, own, inherited, seeded]; ports tagged
             \* via_copyfacefrom are inherited
    txn,     \* the transaction of the process
    pc,      \* "idle", "parse", "resolve", "events", "rules", "again"
    i,       \* position in order
    left,    \* carriers the second pass still has to visit
    state,   \* "none" (no import completed), "imported", "failed", "killed"
    imports, resolves, kills

vars == <<universe, db, txn, pc, i, left, state, imports, resolves, kills>>

-----------------------------------------------------------------------------
NoPorts == [k \in Kinds |-> 0]
Empty == [cards |-> {}, own |-> [c \in Names |-> NoPorts],
          inherited |-> [c \in Names |-> NoPorts], seeded |-> {}]

\* The row that INSERT OR REPLACE would remove for the unique oracle id.
Displaced(cards, c) ==
    {d \in cards : d # c /\ universe.oracle[d] # NoCard /\ universe.oracle[d] = universe.oracle[c]}

\* Children without their parent.
Stranded(d) == {c \in Names \ d.cards : d.own[c] # NoPorts \/ d.inherited[c] # NoPorts}

Replace(cards, c) == (cards \ Displaced(cards, c)) \cup {c}

\* import_card
Imported(d, c) == [d EXCEPT !.cards = Replace(@, c), !.own[c] = universe.native[c], !.inherited[c] = NoPorts]

\* The ports of the reference, unless it is the carrier itself or no card.
Copied(d, c) ==
    LET ref == universe.ref[c]
    IN  [k \in Kinds |-> IF ref \in d.cards \ {c} /\ k # Marker THEN d.own[ref][k] + d.inherited[ref][k] ELSE 0]

\* Mutation: inherited ports of an earlier call stay.
OneCarrierKeeping(d, c) ==
    [d EXCEPT !.inherited[c] = [k \in Kinds |-> @[k] + Copied(d, c)[k]]]

\* One carrier: its earlier inheritance is deleted, then the ports are copied.
OneCarrier(d, c) == [d EXCEPT !.inherited[c] = Copied(d, c)]

Carriers(d) == {c \in d.cards : universe.ref[c] # NoCard}

Init ==
    /\ universe \in Universes
    /\ db = Empty /\ txn = Empty
    /\ pc = "idle" /\ i = 1 /\ left = {}
    /\ state = "none"
    /\ imports = 0 /\ resolves = 0 /\ kills = 0

Start(unlink) ==
    /\ pc = "idle" /\ imports < MaxImports
    /\ db' = IF unlink THEN Empty ELSE db
    /\ txn' = db'
    /\ pc' = "parse" /\ i' = 1
    /\ imports' = imports + 1
    /\ state' = IF unlink THEN "none" ELSE state
    /\ UNCHANGED <<universe, left, resolves, kills>>

File == universe.order[i]

SkipFile ==
    /\ pc = "parse" /\ i <= Len(universe.order)
    /\ File \in universe.bad
    /\ i' = i + 1
    /\ UNCHANGED <<universe, db, txn, pc, left, state, imports, resolves, kills>>

\* Mutation: every card commits.
ImportFileCommitting ==
    /\ pc = "parse" /\ i <= Len(universe.order)
    /\ File \notin universe.bad
    /\ Stranded(Imported(txn, File)) = {}
    /\ txn' = Imported(txn, File)
    /\ db' = txn'
    /\ i' = i + 1
    /\ UNCHANGED <<universe, pc, left, state, imports, resolves, kills>>

\* Mutation: a connection that does not enforce foreign keys.
ImportFileUnchecked ==
    /\ pc = "parse" /\ i <= Len(universe.order)
    /\ File \notin universe.bad
    /\ txn' = Imported(txn, File)
    /\ i' = i + 1
    /\ UNCHANGED <<universe, db, pc, left, state, imports, resolves, kills>>

ImportFile ==
    /\ pc = "parse" /\ i <= Len(universe.order)
    /\ File \notin universe.bad
    /\ LET after == Imported(txn, File)
       IN  /\ Stranded(after) = {}
           /\ txn' = after
    /\ i' = i + 1
    /\ UNCHANGED <<universe, db, pc, left, state, imports, resolves, kills>>

\* PRAGMA foreign_keys: the insert raises and the first pass rolls back.
Conflict ==
    /\ pc = "parse" /\ i <= Len(universe.order)
    /\ File \notin universe.bad
    /\ Stranded(Imported(txn, File)) # {}
    /\ txn' = db
    /\ pc' = "idle" /\ state' = "failed"
    /\ UNCHANGED <<universe, db, i, left, imports, resolves, kills>>

CommitCards ==
    /\ pc = "parse" /\ i > Len(universe.order)
    /\ db' = txn
    /\ pc' = "resolve" /\ left' = Carriers(txn)
    /\ UNCHANGED <<universe, txn, i, state, imports, resolves, kills>>

\* The loop of resolve_copy_face_from_references; no ORDER BY says which
\* carrier comes next.
ResolveCarrier ==
    /\ pc \in {"resolve", "again"}
    /\ \E c \in left : txn' = OneCarrier(txn, c) /\ left' = left \ {c}
    /\ UNCHANGED <<universe, db, pc, i, state, imports, resolves, kills>>

CommitReferences ==
    /\ pc \in {"resolve", "again"} /\ left = {}
    /\ db' = txn
    /\ pc' = IF pc = "resolve" THEN "events" ELSE "idle"
    /\ UNCHANGED <<universe, txn, i, left, state, imports, resolves, kills>>

\* seed_event_match_map_db, then seed_rules_db
Seed ==
    /\ pc \in {"events", "rules"}
    /\ db' = [db EXCEPT !.seeded = @ \cup {pc}] /\ txn' = db'
    /\ pc' = IF pc = "events" THEN "rules" ELSE "idle"
    /\ state' = IF pc = "rules" THEN "imported" ELSE state
    /\ UNCHANGED <<universe, i, left, imports, resolves, kills>>

\* resolve_copy_face_from_references on a database that is there.
ResolveAgain ==
    /\ pc = "idle" /\ state = "imported" /\ resolves < MaxResolves
    /\ resolves' = resolves + 1
    /\ txn' = db /\ left' = Carriers(db)
    /\ pc' = "again"
    /\ UNCHANGED <<universe, db, i, state, imports, kills>>

\* The open transaction rolls back.
Kill ==
    /\ pc # "idle" /\ kills < MaxKills
    /\ kills' = kills + 1
    /\ txn' = db /\ left' = {}
    /\ pc' = "idle" /\ state' = IF pc = "again" THEN state ELSE "killed"
    /\ UNCHANGED <<universe, db, i, imports, resolves>>

Next ==
    \/ \E unlink \in BOOLEAN : Start(unlink)
    \/ SkipFile \/ ImportFile \/ Conflict \/ CommitCards
    \/ ResolveCarrier \/ CommitReferences \/ Seed \/ ResolveAgain \/ Kill

Spec == Init /\ [][Next]_vars

-----------------------------------------------------------------------------
Good    == {universe.order[j] : j \in DOMAIN universe.order} \ universe.bad
Chained == \E c \in Carriers(db) : universe.ref[c] \in Carriers(db) \ {c}

\* What a carrier inherits, whatever the order of the files and of the rows.
Expected(c) ==
    LET ref == universe.ref[c]
    IN  [k \in Kinds |-> IF ref \in db.cards \ {c} /\ k # Marker THEN universe.native[ref][k] ELSE 0]

\* Foreign keys and the unique index hold in what any reader of the database sees:
\* no port without its card, no oracle id on two cards.
NoStrandedPorts ==
    /\ Stranded(db) = {}
    /\ \A c \in db.cards : Displaced(db.cards, c) = {}

\* The first pass is one transaction: a reader finds no cards or all that parse,
\* less those another card of the same oracle id displaced.
NoHalfUniverse ==
    db.cards # {} =>
        \A c \in Good : c \in db.cards \/ Displaced(db.cards, c) # {}

\* "Order-independence is essential": after an import without chained references
\* every card has its own ports and each carrier those of its reference
\* once, in whatever order the files and rows came and however often the database
\* was imported or resolved before.
CarriersInheritOnce ==
    state = "imported" /\ pc = "idle" /\ ~Chained =>
        \A c \in db.cards :
            /\ db.own[c] = universe.native[c]
            /\ db.inherited[c] = Expected(c)

\* "Idempotent: port row counts stay stable across repeated calls" of the second pass.
RepeatedResolveIsStable ==
    [][pc = "again" => db'.own = db.own /\ db'.inherited = db.inherited]_vars
=============================================================================
