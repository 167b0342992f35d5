----------------------------- MODULE RuleSeeding ----------------------------
(***************************************************************************)
(* Where the declarative rules of a scoring come from: data/rules_seed.json*)
(* is read by the registry when the process starts (which rules are        *)
(* routed), copied into the table `rules` by an import, and the table is   *)
(* read once per connection by an interpreter that is kept for it.  The    *)
(* rule table is a question of BenchVerdicts, of kind "seed".              *)
(***************************************************************************)
EXTENDS BenchVerdicts, TLAPS

CONSTANTS
    RuleIds,
    Bodies    \* what a row says; "bad" is a predicate the validator refuses

Row     == [active : BOOLEAN, body : Bodies]
Nowhere == [x \in {} |-> x]
Active(rows) == [id \in {i \in DOMAIN rows : rows[i].active} |-> rows[id].body]

NotScored == [answer |-> "none", ran |-> Nowhere]

\* settled: seeded, started and connected in that order since the last edit.
Fresh(json) ==
    [kind |-> "seed", json |-> json, table |-> Nowhere, routed |-> DOMAIN Active(json),
     cached |-> FALSE, held |-> Nowhere, last |-> NotScored, settled |-> "edited"]

TableInit == \E json \in UNION {[ids -> Row] : ids \in SUBSET RuleIds} : q = Fresh(json)

Edit ==
    \E id \in RuleIds :
        \/ \E row \in Row :
              q' = [q EXCEPT !.json = [i \in DOMAIN @ \cup {id} |-> IF i = id THEN row ELSE @[i]],
                             !.last = NotScored, !.settled = "edited"]
        \/ q' = [q EXCEPT !.json = [i \in DOMAIN @ \ {id} |-> @[i]], !.last = NotScored, !.settled = "edited"]

Valid(json) == \A id \in DOMAIN json : json[id].body # "bad"

\* Mutant: INSERT OR IGNORE.
KeepExisting(table, json) == [id \in DOMAIN table \cup DOMAIN json |-> IF id \in DOMAIN table THEN table[id] ELSE json[id]]

\* seed_rules_db: all rows are validated before the first is written, and a row
\* that is gone from the file stays in the table.
Upsert(table, json) == [id \in DOMAIN table \cup DOMAIN json |-> IF id \in DOMAIN json THEN json[id] ELSE table[id]]

Seed ==
    /\ Valid(q.json)
    /\ q' = [q EXCEPT !.table = Upsert(@, q.json), !.last = NotScored,
                      !.settled = IF @ = "edited" THEN "seeded" ELSE @]

\* scripts/import_cardsfolder.py: the database is built anew and opened anew.
Rebuild ==
    /\ Valid(q.json)
    /\ q' = [q EXCEPT !.table = q.json, !.cached = FALSE, !.held = Nowhere, !.last = NotScored,
                      !.settled = IF @ = "edited" THEN "seeded" ELSE @]

\* A new process: registry._load_declarative_rule_ids, and no interpreter yet.
Start ==
    q' = [q EXCEPT !.routed = DOMAIN Active(q.json), !.cached = FALSE, !.held = Nowhere, !.last = NotScored,
                   !.settled = IF @ \in {"seeded", "started"} THEN "started" ELSE @]

\* A new connection of the same process, or clear_interpreter_cache.
Connect == q' = [q EXCEPT !.cached = FALSE, !.held = Nowhere, !.last = NotScored]

\* load_rules_from_db
load_rules_from_db(table) == Active(table)

\* _validate_no_drift: no rules at all is a warning.
no_drift(rules, routed) == DOMAIN rules \in {routed, {}}

\* One call of find_all_complements: nothing is asked of the table when nothing is
\* routed; otherwise get_interpreter.
Score ==
    LET loaded == load_rules_from_db(q.table)
        answer(held) == [answer |-> "scored", ran |-> held]
    IN  IF q.routed = {} THEN q' = [q EXCEPT !.last = answer(Nowhere)]
        ELSE IF q.cached THEN q' = [q EXCEPT !.last = answer(q.held)]
        ELSE IF no_drift(loaded, q.routed)
        THEN q' = [q EXCEPT !.cached = TRUE, !.held = loaded, !.last = answer(loaded)]
        ELSE q' = [q EXCEPT !.last = [answer |-> "ValueError", ran |-> Nowhere]]

TableNext == q.kind = "seed" /\ (Edit \/ Seed \/ Rebuild \/ Start \/ Connect \/ Score)

TableSpec == TableInit /\ [][TableNext]_vars

-----------------------------------------------------------------------------
\* Seed file, table, registry and interpreter are read at four different times.  A
\* call that scores runs all the routed rules or none, and runs what the file says
\* when the file was seeded and the process started since it was edited.
RoutedRulesRun ==
    q.kind = "seed" /\ q.last.answer = "scored" =>
        /\ DOMAIN q.last.ran \in {q.routed, {}}
        /\ q.settled = "started" => q.last.ran = Active(q.json)

\* A row that the validator refuses may stand in the file; it never runs.
RefusedRowsNeverRun == \A id \in DOMAIN q.last.ran : q.last.ran[id] # "bad"

-----------------------------------------------------------------------------
Tables == UNION {[ids -> Row] : ids \in SUBSET RuleIds}
Runs   == UNION {[ids -> Bodies] : ids \in SUBSET RuleIds}

TypeInv ==
    q \in [kind : {"seed"}, json : Tables, table : Tables, routed : SUBSET RuleIds, cached : BOOLEAN, held : Runs,
           last : [answer : {"none", "scored", "ValueError"}, ran : Runs], settled : {"edited", "seeded", "started"}]

\* Every row of the file stands in the table as it is in the file.
CopiedTo(json, table) == \A id \in DOMAIN json : id \in DOMAIN table /\ table[id] = json[id]

\* The four copies, as far as they have been brought up to date.
CopiesInv ==
    /\ Valid(q.table)
    /\ q.settled # "edited" => CopiedTo(q.json, q.table)
    /\ q.settled = "started" => q.routed = DOMAIN Active(q.json)

Harmless(ran) == \A id \in DOMAIN ran : ran[id] # "bad"

\* What the interpreter holds is older than the table, but not than the process.
HeldInv ==
    q.cached => /\ DOMAIN q.held \in {q.routed, {}} /\ Harmless(q.held)
                /\ q.settled = "started" => q.held = Active(q.json)

SeedInv == TypeInv /\ CopiesInv /\ HeldInv /\ RoutedRulesRun /\ RefusedRowsNeverRun

LEMMA NothingActive == ASSUME NEW rows, DOMAIN Active(rows) = {} PROVE Active(rows) = Nowhere
<1>1. Active(rows) = [id \in {i \in DOMAIN rows : rows[i].active} |-> rows[id].body]
  BY DEF Active
<1>2. {i \in DOMAIN rows : rows[i].active} = {}
  BY <1>1
<1> QED BY <1>1, <1>2 DEF Nowhere

LEMMA TablesTyped ==
    ASSUME NEW t \in Tables
    PROVE  /\ DOMAIN t \subseteq RuleIds /\ \A id \in DOMAIN t : t[id] \in Row
           /\ DOMAIN Active(t) \subseteq RuleIds /\ DOMAIN Active(t) \subseteq DOMAIN t
           /\ Active(t) \in Runs
           /\ \A id : id \in DOMAIN Active(t) <=> id \in DOMAIN t /\ t[id].active
           /\ \A id \in DOMAIN Active(t) : Active(t)[id] = t[id].body
<1>1. PICK ids \in SUBSET RuleIds : t \in [ids -> Row]
  BY DEF Tables
<1>2. DOMAIN t = ids /\ \A id \in DOMAIN t : t[id] \in Row
  BY <1>1
<1> DEFINE a == {id \in DOMAIN t : t[id].active}
<1>3. Active(t) = [id \in a |-> t[id].body]
  BY DEF Active
<1>4. a \in SUBSET RuleIds /\ \A id \in a : t[id].body \in Bodies
  BY <1>2 DEF Row
<1>5. Active(t) \in [a -> Bodies]
  BY <1>3, <1>4
<1>6. Active(t) \in Runs
  BY <1>4, <1>5 DEF Runs
<1> QED BY <1>2, <1>3, <1>4, <1>6

LEMMA RowsTyped == ASSUME NEW ids \in SUBSET RuleIds, NEW t \in [ids -> Row] PROVE t \in Tables
BY DEF Tables

\* An interpreter that has not drifted from the registry runs what the file says.
LEMMA LoadedAgrees ==
    ASSUME NEW json \in Tables, NEW table \in Tables, CopiedTo(json, table),
           no_drift(Active(table), DOMAIN Active(json))
    PROVE  Active(table) = Active(json)
<1>1. /\ \A id : id \in DOMAIN Active(json) <=> id \in DOMAIN json /\ json[id].active
      /\ \A id : id \in DOMAIN Active(table) <=> id \in DOMAIN table /\ table[id].active
      /\ \A id \in DOMAIN Active(json) : Active(json)[id] = json[id].body
      /\ \A id \in DOMAIN Active(table) : Active(table)[id] = table[id].body
  BY TablesTyped
<1>2. DOMAIN Active(json) \subseteq DOMAIN Active(table)
  BY <1>1 DEF CopiedTo
<1>3. DOMAIN Active(table) = DOMAIN Active(json)
  BY <1>2 DEF no_drift
<1>4. \A id \in DOMAIN Active(json) : Active(table)[id] = Active(json)[id]
  BY <1>1, <1>3 DEF CopiedTo
<1>5. Active(json) = [id \in DOMAIN Active(json) |-> Active(json)[id]]
      /\ Active(table) = [id \in DOMAIN Active(table) |-> Active(table)[id]]
  BY DEF Active
<1> QED BY <1>3, <1>4, <1>5

LEMMA ValidLoaded == ASSUME NEW t \in Tables, Valid(t) PROVE Harmless(Active(t))
BY TablesTyped DEF Valid, Harmless

LEMMA Nothing == Nowhere \in Runs /\ Nowhere \in Tables /\ Harmless(Nowhere) /\ DOMAIN Nowhere = {}
<1>1. DOMAIN Nowhere = {}
  BY DEF Nowhere
<1>2. Nowhere \in [{} -> Bodies] /\ Nowhere \in [{} -> Row]
  BY DEF Nowhere
<1> QED BY <1>1, <1>2 DEF Runs, Tables, Harmless

LEMMA SeedInit == TableInit => SeedInv
<1> SUFFICES ASSUME NEW json \in Tables, q = Fresh(json) PROVE SeedInv
  BY DEF TableInit, Tables
<1>1. DOMAIN Active(json) \in SUBSET RuleIds
  BY TablesTyped
<1>2. TypeInv
  BY <1>1, Nothing DEF Fresh, TypeInv, NotScored
<1>3. Valid(Nowhere)
  BY Nothing DEF Valid
<1> QED BY <1>2, <1>3, Nothing DEF Fresh, SeedInv, CopiesInv, HeldInv, RoutedRulesRun, RefusedRowsNeverRun, NotScored

\* The row changes of an edit are rows of the file, and of nothing else.
LEMMA EditStep == ASSUME SeedInv, Edit PROVE SeedInv'
<1> USE DEF SeedInv, TypeInv
<1>1. PICK json : q' = [q EXCEPT !.json = json, !.last = NotScored, !.settled = "edited"] /\ json \in Tables
  <2>1. PICK id \in RuleIds :
            \/ \E row \in Row :
                  q' = [q EXCEPT !.json = [i \in DOMAIN @ \cup {id} |-> IF i = id THEN row ELSE @[i]],
                                 !.last = NotScored, !.settled = "edited"]
            \/ q' = [q EXCEPT !.json = [i \in DOMAIN @ \ {id} |-> @[i]], !.last = NotScored, !.settled = "edited"]
    BY DEF Edit
  <2>2. PICK ids \in SUBSET RuleIds : q.json \in [ids -> Row]
    BY DEF Tables
  <2>3. ASSUME NEW row \in Row
        PROVE  [i \in DOMAIN q.json \cup {id} |-> IF i = id THEN row ELSE q.json[i]] \in Tables
    <3>1. [i \in ids \cup {id} |-> IF i = id THEN row ELSE q.json[i]] \in [ids \cup {id} -> Row]
      BY <2>2
    <3> QED BY <2>2, <3>1, RowsTyped
  <2>4. [i \in DOMAIN q.json \ {id} |-> q.json[i]] \in Tables
    <3>1. [i \in ids \ {id} |-> q.json[i]] \in [ids \ {id} -> Row]
      BY <2>2
    <3> QED BY <2>2, <3>1, RowsTyped
  <2> QED BY <2>1, <2>3, <2>4
<1>2. TypeInv'
  BY <1>1, Nothing DEF NotScored
<1> QED BY <1>1, <1>2, Nothing DEF CopiesInv, HeldInv, RoutedRulesRun, RefusedRowsNeverRun, NotScored

LEMMA SeedStep == ASSUME SeedInv, Seed PROVE SeedInv'
<1> USE DEF SeedInv, TypeInv
<1> DEFINE table == Upsert(q.table, q.json)
<1>1. /\ q.json \in Tables /\ q.table \in Tables /\ Valid(q.json) /\ Valid(q.table)
      /\ q' = [q EXCEPT !.table = table, !.last = NotScored, !.settled = IF @ = "edited" THEN "seeded" ELSE @]
  BY DEF Seed, CopiesInv
<1>2. table \in Tables /\ Valid(table) /\ CopiedTo(q.json, table)
  <2>1. PICK ids \in SUBSET RuleIds : q.json \in [ids -> Row]
    BY <1>1 DEF Tables
  <2>2. PICK olds \in SUBSET RuleIds : q.table \in [olds -> Row]
    BY <1>1 DEF Tables
  <2>3. table = [id \in olds \cup ids |-> IF id \in ids THEN q.json[id] ELSE q.table[id]]
    BY <2>1, <2>2 DEF Upsert
  <2> HIDE DEF table
  <2>4. table \in [olds \cup ids -> Row]
    BY <2>1, <2>2, <2>3
  <2>5. Valid(table)
    BY <1>1, <2>1, <2>2, <2>3 DEF Valid
  <2> QED BY <2>1, <2>3, <2>4, <2>5, RowsTyped DEF CopiedTo
<1> HIDE DEF table
<1>3. TypeInv'
  BY <1>1, <1>2, Nothing DEF NotScored
<1> QED BY <1>1, <1>2, <1>3, Nothing DEF CopiesInv, HeldInv, RoutedRulesRun, RefusedRowsNeverRun, NotScored

LEMMA RebuildStep == ASSUME SeedInv, Rebuild PROVE SeedInv'
<1> USE DEF SeedInv, TypeInv
<1>1. TypeInv'
  BY Nothing DEF Rebuild, NotScored
<1>2. CopiedTo(q.json, q.json)
  BY DEF CopiedTo
<1> QED BY <1>1, <1>2, Nothing
        DEF Rebuild, CopiesInv, HeldInv, RoutedRulesRun, RefusedRowsNeverRun, NotScored

LEMMA StartStep == ASSUME SeedInv, Start PROVE SeedInv'
<1> USE DEF SeedInv, TypeInv
<1>1. DOMAIN Active(q.json) \in SUBSET RuleIds
  BY TablesTyped
<1>2. TypeInv'
  BY <1>1, Nothing DEF Start, NotScored
<1> QED BY <1>2, Nothing
        DEF Start, CopiesInv, HeldInv, RoutedRulesRun, RefusedRowsNeverRun, NotScored

LEMMA ConnectStep == ASSUME SeedInv, Connect PROVE SeedInv'
<1> USE DEF SeedInv, TypeInv
<1>1. TypeInv'
  BY Nothing DEF Connect, NotScored
<1> QED BY <1>1, Nothing
        DEF Connect, CopiesInv, HeldInv, RoutedRulesRun, RefusedRowsNeverRun, NotScored

LEMMA ScoreStep == ASSUME SeedInv, Score PROVE SeedInv'
<1> USE DEF SeedInv, TypeInv
<1> DEFINE loaded == Active(q.table)
<1>1. q.json \in Tables /\ q.table \in Tables /\ loaded \in Runs /\ Harmless(loaded)
  BY TablesTyped, ValidLoaded DEF CopiesInv
<1>2. CASE q.routed = {}
  <2>1. q' = [q EXCEPT !.last = [answer |-> "scored", ran |-> Nowhere]]
    BY <1>2 DEF Score
  <2>2. TypeInv'
    BY <2>1, Nothing
  <2>3. q.settled = "started" => Active(q.json) = Nowhere
    BY <1>1, <1>2, NothingActive DEF CopiesInv
  <2> QED BY <1>2, <2>1, <2>2, <2>3, Nothing DEF CopiesInv, HeldInv, RoutedRulesRun, RefusedRowsNeverRun, Harmless
<1>3. CASE q.routed # {} /\ q.cached
  <2>1. q' = [q EXCEPT !.last = [answer |-> "scored", ran |-> q.held]]
    BY <1>3 DEF Score
  <2>2. TypeInv'
    BY <2>1
  <2> QED BY <1>3, <2>1, <2>2 DEF CopiesInv, HeldInv, RoutedRulesRun, RefusedRowsNeverRun, Harmless
<1>4. CASE q.routed # {} /\ ~q.cached /\ no_drift(loaded, q.routed)
  <2>1. q' = [q EXCEPT !.cached = TRUE, !.held = loaded, !.last = [answer |-> "scored", ran |-> loaded]]
    BY <1>4 DEF Score, load_rules_from_db
  <2>2. q.settled = "started" => loaded = Active(q.json)
    BY <1>1, <1>4, LoadedAgrees DEF CopiesInv
  <2>3. DOMAIN loaded \in {q.routed, {}}
    BY <1>4 DEF no_drift
  <2> HIDE DEF loaded
  <2>4. TypeInv'
    BY <1>1, <2>1
  <2> QED BY <1>1, <2>1, <2>2, <2>3, <2>4 DEF CopiesInv, HeldInv, RoutedRulesRun, RefusedRowsNeverRun, Harmless
<1>5. CASE q.routed # {} /\ ~q.cached /\ ~no_drift(loaded, q.routed)
  <2>1. q' = [q EXCEPT !.last = [answer |-> "ValueError", ran |-> Nowhere]]
    BY <1>5 DEF Score, load_rules_from_db
  <2>2. TypeInv'
    BY <2>1, Nothing
  <2> QED BY <2>1, <2>2, Nothing DEF CopiesInv, HeldInv, RoutedRulesRun, RefusedRowsNeverRun, Harmless
<1> QED BY <1>2, <1>3, <1>4, <1>5

LEMMA SeedInvariant == TableSpec => []SeedInv
<1>1. SeedInv /\ [TableNext]_vars => SeedInv'
  <2>1. SeedInv /\ UNCHANGED q => SeedInv'
    BY DEF SeedInv, TypeInv, CopiesInv, HeldInv, RoutedRulesRun, RefusedRowsNeverRun
  <2> QED BY <2>1, EditStep, SeedStep, RebuildStep, StartStep, ConnectStep, ScoreStep DEF TableNext, vars
<1> QED BY SeedInit, <1>1, PTL DEF TableSpec

\* For any set of rules and bodies: a call that scores runs all the routed rules or
\* none, and what the file says when it was seeded and the process started afterwards.
THEOREM RoutedRulesAreCurrent == TableSpec => []RoutedRulesRun
BY SeedInvariant, PTL DEF SeedInv

\* No row that the validator refuses reaches an interpreter, whatever the order of
\* edits, imports and restarts.
THEOREM OnlyValidRowsRun == TableSpec => []RefusedRowsNeverRun
BY SeedInvariant, PTL DEF SeedInv
=============================================================================
