---------------------------- MODULE TensorStore ----------------------------
(***************************************************************************)
(* The contribution tensor (table rule_contributions of synergy.db) and    *)
(* the pinned fixtures, as `bench.py audit --repin --yes` changes them:    *)
(* evict the fixture's commanders at the live config hash and commit,      *)
(* score them one by one into a batch writer, commit, close, and only then *)
(* overwrite the fixture's JSON.  Several repins may run at once, each may *)
(* die or find the database locked at any point, and the source may be     *)
(* edited between two of them.  A row stands for the rows of all           *)
(* candidates of one commander and rule.                                   *)
(***************************************************************************)
EXTENDS Integers, Sequences, FiniteSets, FiniteSetsExt

CONSTANTS
    Procs,        \* bench processes
    Fixtures,     \* fixture files
    Commanders,
    List,         \* fixture -> its commanders, in order
    Rules,
    LastBuild,    \* bound: states of the source, 1..LastBuild
    HashOf,       \* build -> config hash; a change of code alone keeps it
    Fires,        \* build -> commander -> the rules that fire
    Batch,        \* _BATCH_SIZE
    MaxRepins,    \* bound: repins started
    MaxFaults,    \* bound: repins that die
    Coverages,    \* whom an import of the EDHREC data may cover
    MaxEpoch      \* bound: imports of the EDHREC data

Builds   == 1..LastBuild
None     == "none"  \* no process
Members(f) == {List[f][i] : i \in DOMAIN List[f]}

ASSUME StoreAssumption ==
    /\ LastBuild \in Nat \ {0} /\ DOMAIN HashOf = Builds
    /\ List \in [Fixtures -> Seq(Commanders)]
    /\ Fires \in [Builds -> [Commanders -> SUBSET Rules]]
    /\ Batch \in Nat \ {0} /\ Coverages \subseteq SUBSET Commanders
    /\ {MaxRepins, MaxFaults} \subseteq Nat /\ MaxEpoch \in Nat \ {0}
    /\ None \notin Procs

VARIABLES
    build,   \* the source as it stands
    edhrec,  \* [epoch, covered]: the reference data and whom it has rows for
    table,   \* committed rows <<hash, commander, rule, build that computed it>>
    holder,  \* the connection with the write lock
    txn,     \* the table as its transaction sees it
    file,    \* fixture -> [ok, build, gem]: gem[c] is the epoch of its gem keys, 0 if absent
    pc,      \* process -> "idle", "evict", "score" or "write"
    fix,     \* process -> the fixture it re-pins
    mine,    \* process -> the build it imported
    done,    \* process -> commanders scored
    buffer,  \* process -> rows of TensorWriter._buffer
    gem,     \* process -> gem keys of the entries built so far
    repins, faults,
    \* history, read by no guard
    opened,  \* process -> epoch of the EDHREC data when it opened them
    lost,    \* <<hash, commander>> evicted by a repin that did not commit
    crossed  \* commanders that two repins had in hand at once

store == <<table, holder, txn>>
procs == <<pc, fix, mine, done, buffer, gem>>
ghosts == <<repins, faults, opened, lost, crossed>>
vars  == <<build, edhrec, store, file, procs, ghosts>>

-----------------------------------------------------------------------------
RowsOf(b, c) == {<<HashOf[b], c, r, b>> : r \in Fires[b][c]}
RowsAt(t, h, c) == {row \in t : row[1] = h /\ row[2] = c}

Hash(p) == HashOf[mine[p]]

\* INSERT OR REPLACE under the primary key (commander, rule, hash).
Insert(t, rows) ==
    {old \in t : \A new \in rows : <<old[1], old[2], old[3]>> # <<new[1], new[2], new[3]>>} \cup rows

\* Mutation: the whole hash, as before the additive repin.
EvictHash(t, h, cs) == {row \in t : row[1] # h}

Evicted(t, h, cs) == {row \in t : ~(row[1] = h /\ row[2] \in cs)}

CanWrite(p) == holder \in {None, p}
Seen(p)     == IF holder = p THEN txn ELSE table  \* what p's connection reads

Init ==
    /\ build = 1
    /\ edhrec = [epoch |-> 1, covered |-> Commanders]
    /\ table = {} /\ holder = None /\ txn = {}
    /\ file = [f \in Fixtures |-> [ok |-> TRUE, build |-> 0, gem |-> [c \in Members(f) |-> 0]]]
    /\ pc = [p \in Procs |-> "idle"]
    /\ fix \in [Procs -> {CHOOSE f \in Fixtures : TRUE}]
    /\ mine = [p \in Procs |-> 1]
    /\ done = [p \in Procs |-> 0]
    /\ buffer = [p \in Procs |-> {}]
    /\ gem = [p \in Procs |-> <<>>]
    /\ repins = 0 /\ faults = 0
    /\ opened = [p \in Procs |-> 1]
    /\ lost = {} /\ crossed = {}

\* Somebody edits the scoring code or its configuration.
Edit ==
    /\ build < LastBuild
    /\ build' = build + 1
    /\ UNCHANGED <<edhrec, store, file, procs, ghosts>>

\* The EDHREC data are imported again and may have lost commanders.
Refresh ==
    /\ edhrec.epoch < MaxEpoch
    /\ \E cs \in Coverages : edhrec' = [epoch |-> edhrec.epoch + 1, covered |-> cs]
    /\ UNCHANGED <<build, store, file, procs, ghosts>>

InHand(p) == IF pc[p] \in {"evict", "score"} THEN Members(fix[p]) ELSE {}

\* The process imports the package and loads the fixture to be re-pinned.
Start(p, f) ==
    /\ pc[p] = "idle" /\ repins < MaxRepins
    /\ file[f].ok
    /\ pc' = [pc EXCEPT ![p] = "evict"]
    /\ fix' = [fix EXCEPT ![p] = f]
    /\ mine' = [mine EXCEPT ![p] = build]
    /\ done' = [done EXCEPT ![p] = 0]
    /\ gem' = [gem EXCEPT ![p] = file[f].gem]
    /\ repins' = repins + 1
    /\ opened' = [opened EXCEPT ![p] = edhrec.epoch]
    /\ crossed' = crossed \cup (Members(f) \cap UNION {InHand(q) : q \in Procs \ {p}})
    /\ UNCHANGED <<build, edhrec, store, file, buffer, faults, lost>>

\* evict_fixture_rows and conn.commit().
Evict(p) ==
    /\ pc[p] = "evict" /\ CanWrite(p)
    /\ table' = Evicted(table, Hash(p), Members(fix[p]))
    /\ pc' = [pc EXCEPT ![p] = "score"]
    /\ lost' = lost \cup {<<Hash(p), c>> : c \in Members(fix[p])}
    /\ UNCHANGED <<build, edhrec, holder, txn, file, fix, mine, done, buffer, gem, repins, faults, opened, crossed>>

Upcoming(p) == List[fix[p]][done[p] + 1]

\* The entry inherits the keys of the fixture that is replaced; a commander
\* without reference data gets no new ones.
\* Mutation: keys that are there stay.
GemKept(p, c) ==
    IF gem[p][c] # 0 THEN gem[p][c] ELSE IF c \in edhrec.covered THEN edhrec.epoch ELSE 0

GemOf(p, c) == IF c \in edhrec.covered THEN edhrec.epoch ELSE gem[p][c]

\* Mutation: every full batch is committed.
ScoreCommitting(p) ==
    /\ pc[p] = "score" /\ done[p] < Len(List[fix[p]])
    /\ LET c    == Upcoming(p)
           rows == buffer[p] \cup RowsOf(mine[p], c)
       IN  /\ gem' = [gem EXCEPT ![p][c] = GemOf(p, c)]
           /\ IF Cardinality(rows) >= Batch
                THEN CanWrite(p) /\ table' = Insert(table, rows)
                     /\ buffer' = [buffer EXCEPT ![p] = {}]
                ELSE buffer' = [buffer EXCEPT ![p] = rows] /\ UNCHANGED table
    /\ done' = [done EXCEPT ![p] = @ + 1]
    /\ UNCHANGED <<build, edhrec, holder, txn, file, pc, fix, mine, repins, faults, opened, lost, crossed>>

\* One commander: its rows go to the sink, and a full buffer goes to the
\* connection, which takes the write lock and keeps it.
Score(p) ==
    /\ pc[p] = "score" /\ done[p] < Len(List[fix[p]])
    /\ LET c    == Upcoming(p)
           rows == buffer[p] \cup RowsOf(mine[p], c)
       IN  /\ gem' = [gem EXCEPT ![p][c] = GemOf(p, c)]
           /\ \/ /\ Cardinality(rows) < Batch
                 /\ buffer' = [buffer EXCEPT ![p] = rows]
                 /\ UNCHANGED <<holder, txn>>
              \/ /\ Cardinality(rows) >= Batch /\ CanWrite(p)
                 /\ holder' = p
                 /\ txn' = Insert(Seen(p), rows)
                 /\ buffer' = [buffer EXCEPT ![p] = {}]
    /\ done' = [done EXCEPT ![p] = @ + 1]
    /\ UNCHANGED <<build, edhrec, table, file, pc, fix, mine, repins, faults, opened, lost, crossed>>

\* TensorWriter.close and conn.close.
Commit(p) ==
    /\ pc[p] = "score" /\ done[p] = Len(List[fix[p]])
    /\ buffer[p] # {} => CanWrite(p)
    /\ table' = IF CanWrite(p) THEN Insert(Seen(p), buffer[p]) ELSE table
    /\ holder' = IF holder = p THEN None ELSE holder
    /\ txn' = IF holder = p THEN {} ELSE txn
    /\ buffer' = [buffer EXCEPT ![p] = {}]
    /\ pc' = [pc EXCEPT ![p] = "write"]
    /\ lost' = lost \ {<<Hash(p), c>> : c \in Members(fix[p])}
    /\ UNCHANGED <<build, edhrec, file, fix, mine, done, gem, repins, faults, opened, crossed>>

\* PinnedFixture.write, after the tensor is committed.
Write(p) ==
    /\ pc[p] = "write"
    /\ file' = [file EXCEPT ![fix[p]] = [ok |-> TRUE, build |-> mine[p], gem |-> gem[p]]]
    /\ pc' = [pc EXCEPT ![p] = "idle"]
    /\ UNCHANGED <<build, edhrec, store, fix, mine, done, buffer, gem, ghosts>>

\* __exit__ drops the buffer and the closed connection rolls back.
Abandon(p) ==
    /\ buffer' = [buffer EXCEPT ![p] = {}]
    /\ holder' = IF holder = p THEN None ELSE holder
    /\ txn' = IF holder = p THEN {} ELSE txn
    /\ pc' = [pc EXCEPT ![p] = "idle"]
    /\ UNCHANGED <<build, edhrec, table, fix, mine, done, gem, repins, opened, lost, crossed>>

\* The busy timeout passes while another repin holds the lock.
Locked(p) ==
    /\ ~CanWrite(p)
    /\ \/ pc[p] = "evict"
       \/ /\ pc[p] = "score" /\ done[p] < Len(List[fix[p]])
          /\ Cardinality(buffer[p] \cup RowsOf(mine[p], Upcoming(p))) >= Batch
       \/ pc[p] = "score" /\ done[p] = Len(List[fix[p]]) /\ buffer[p] # {}
    /\ Abandon(p)
    /\ UNCHANGED <<file, faults>>

\* Scoring raises or the process is killed; in the middle of write_text the
\* truncated file stays.
Die(p) ==
    /\ pc[p] # "idle" /\ faults < MaxFaults
    /\ faults' = faults + 1
    /\ \/ UNCHANGED file
       \/ pc[p] = "write" /\ file' = [file EXCEPT ![fix[p]].ok = FALSE]
    /\ Abandon(p)

Next ==
    \/ Edit
    \/ Refresh
    \/ \E p \in Procs :
          \/ \E f \in Fixtures : Start(p, f)
          \/ Evict(p) \/ Score(p) \/ Commit(p) \/ Write(p) \/ Locked(p) \/ Die(p)

Spec == Init /\ [][Next]_vars

-----------------------------------------------------------------------------
\* The primary key, and "partial tensors never land": a commander on which no
\* two repins met has all the rows of one build or none, and none after a
\* repin that evicted it and did not come to its commit.
WholeOrAbsent ==
    \A b \in Builds, c \in Commanders \ crossed :
        LET rows == RowsAt(table, HashOf[b], c)
        IN  IF <<HashOf[b], c>> \in lost THEN rows = {}
            ELSE rows # {} => \E d \in Builds : rows = RowsOf(d, c)

\* Additive re-pins coexist: each commander of a pinned fixture has the rows of
\* the pinned build or of a later one, unless a repin that evicted
\* it is under way or failed.
FixtureBacked ==
    \A f \in Fixtures : \A c \in Members(f) \ crossed :
        LET h == HashOf[file[f].build]
        IN  file[f].build > 0 /\ <<h, c>> \notin lost =>
                \E d \in file[f].build..LastBuild :
                    HashOf[d] = h /\ RowsAt(table, h, c) = RowsOf(d, c)

\* A repin changes the committed rows of its fixture's commanders at its own
\* hash and no others, and only by evicting and by committing.
OnlyOwnRows ==
    [][table' # table =>
        \E p \in Procs :
            /\ pc[p] \in {"evict", "score"} /\ pc'[p] # pc[p]
            /\ LET Others(t) == {row \in t : row[1] # Hash(p) \/ row[2] \notin Members(fix[p])}
               IN  Others(table') = Others(table)]_vars

\* A repin that no EDHREC import overtook pins, for every commander with
\* reference data, gem keys computed from the data it opened.
GemsOfCoveredCommanders ==
    \A p \in Procs : pc[p] = "write" /\ opened[p] = edhrec.epoch =>
        \A c \in Members(fix[p]) \cap edhrec.covered : gem[p][c] = opened[p]
=============================================================================
