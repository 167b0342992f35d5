--------------------------- MODULE BenchVerdicts ----------------------------
(***************************************************************************)
(* The verdicts of the bench harness that are computed from data somebody  *)
(* else keeps: the pre-flight gate, the optimizer's self-test, the hidden  *)
(* gems of a commander and the trend of the forensics history.  Each is an *)
(* algorithm with a module of its own; here a question is put to one of    *)
(* them, and what accumulates while the program runs (the rows of a tensor *)
(* and of a history) accumulates one row per step.                         *)
(***************************************************************************)
EXTENDS Integers, Sequences, FiniteSets

CONSTANTS
    Cards, Legendary, Threshold, Databases,       \* PreflightGate
    DataSets, Grid, ClampMin, ClampMax,           \* SelfTest
    GemCandidates, GemRules, Contributions,       \* HiddenGems
    OurTop, EdhrecTop,
    MaxTensorRows,                                \* bound: tensor rows of the commander
    TrendRows, Window,                            \* ForensicsTrend; Window is args.trend_n
    MaxHistoryRows                                \* bound: rows of the history

Gate  == INSTANCE PreflightGate
Test  == INSTANCE SelfTest
Gem   == INSTANCE HiddenGems
Trend == INSTANCE ForensicsTrend

ASSUME VerdictAssumption ==
    /\ IsFiniteSet(Cards) /\ Legendary \subseteq Cards /\ Threshold \in Nat
    /\ Grid \in Seq(Nat) /\ ClampMin \in Nat /\ ClampMax \in Nat
    /\ Contributions \subseteq Int
    /\ \A row \in TrendRows : row.ndcg \subseteq Int /\ \A x, y \in row.ndcg : x = y
    /\ MaxTensorRows \in Nat /\ Window \in Nat /\ MaxHistoryRows \in Nat

VARIABLE q   \* the question

vars == <<q>>

Init ==
    \/ q \in [kind : {"gate"}, fixture : SUBSET Cards, db : Databases, matching : {{}}]
    \/ q \in [kind : {"test"}, data : DataSets]
    \/ q = [kind |-> "gems", tensor |-> <<>>]
    \/ q = [kind |-> "trend", rows |-> <<>>]

\* evaluate_all: the next candidate of the stream.
EvaluateOne ==
    /\ q.kind = "gate"
    /\ \E ports \in SUBSET Cards : q' = [q EXCEPT !.matching = ports]

\* The scorer hands one more row to the sink.
Record(c, r, x) ==
    /\ q.kind = "gems"
    /\ Cardinality(DOMAIN q.tensor) < MaxTensorRows
    /\ <<c, r>> \notin DOMAIN q.tensor
    /\ q' = [q EXCEPT !.tensor = [key \in DOMAIN @ \cup {<<c, r>>} |-> IF key = <<c, r>> THEN x ELSE @[key]]]

\* append_forensics_run
AppendRun(row) ==
    /\ q.kind = "trend"
    /\ Len(q.rows) < MaxHistoryRows
    /\ q' = [q EXCEPT !.rows = Append(@, row)]

Next ==
    \/ EvaluateOne
    \/ \E c \in GemCandidates, r \in GemRules, x \in Contributions : Record(c, r, x)
    \/ \E row \in TrendRows : AppendRun(row)

Spec == Init /\ [][Next]_vars

-----------------------------------------------------------------------------
AtLeast(verdict, other) == verdict = other \/ verdict = "PASS" \/ other = "REJECT"

\* More coverage never costs a rule its verdict at the gate of preflight/gates.py: not
\* one more card that it matches, nor one more legal commander or the column that
\* says who is legal.  One more commander in the fixture costs it exactly if the
\* fixture was empty, an empty list restricting nothing, and the rule matched a
\* legendary creature and does not match the new one: PASS then becomes possible
\* without a fixture, and is gone with its first entry.  Who is neither legal nor in
\* the fixture counts for nothing, but a legendary creature under an empty fixture.
CoverageOnlyHelps ==
    q.kind = "gate" =>
        LET now == Gate!StageA(q.matching, q.fixture, q.db)
        IN  \A c \in Cards :
                /\ AtLeast(Gate!StageA(q.matching \cup {c}, q.fixture, q.db), now)
                /\ c \notin q.fixture \cup q.db.legal /\ (q.fixture = {} => c \notin Legendary) =>
                       Gate!StageA(q.matching \cup {c}, q.fixture, q.db) = now
                /\ AtLeast(Gate!StageA(q.matching, q.fixture,
                                       [legal |-> q.db.legal \cup {c}, hasColumn |-> TRUE]), now)
                /\ AtLeast(Gate!StageA(q.matching, q.fixture \cup {c}, q.db), now) <=>
                       ~(q.fixture = {} /\ q.matching \cap Legendary # {} /\ c \notin q.matching)

Peaked(d) == \A r \in DOMAIN d.shape : d.shape[r] = "peaked"

\* The self-test of bench/optimize.py tells something either way.  On a data set
\* whose train score peaks at the baseline of every rule that fires, it does not
\* refuse the run, unless no such rule has room; and if the train score does not
\* notice the weight of the planted rule, it does refuse.
SelfTestTells ==
    q.kind = "test" =>
        /\ Peaked(q.data) /\ ~Test!Passes(q.data) =>
               \A r \in DOMAIN q.data.shape \ q.data.dead :
                   Test!Up(q.data.baseline[r]) = q.data.baseline[r] /\ Test!Down(q.data.baseline[r]) = q.data.baseline[r]
        /\ Test!Passes(q.data) => q.data.shape[Test!Selected(q.data)] # "flat"

\* The median leg of the plausibility gate is a matter of rank: a hidden card is
\* a gem exactly if two rules favour it or its total beats at least half of the
\* commander's positive cards; a rule that reduces the score counts for nothing.
GemsBeatHalf ==
    q.kind = "gems" =>
        LET In(c)    == {r \in GemRules : <<c, r>> \in DOMAIN q.tensor /\ q.tensor[<<c, r>>] > 0}
            Sum(c)   == Gem!total(q.tensor, c)
            positive == {c \in GemCandidates : In(c) # {}}
        IN  \A c \in OurTop \ EdhrecTop :
                c \in Gem!Gems(q.tensor, OurTop, EdhrecTop) <=>
                    \/ Cardinality(In(c)) >= 2
                    \/ c \in positive /\ 2 * Cardinality({d \in positive : Sum(d) < Sum(c)}) >= Cardinality(positive)

Shown == Trend!build_trend_items(Trend!read_last_forensics(q.rows, Window))
IsRow(item) == item.row # <<>>

\* How many of the first k items are rows.
RowsUpTo(items, k) == Cardinality({j \in 1..k : IsRow(items[j])})

\* The rows of the trend's window come out complete and in order, boundaries stand
\* exactly between neighbours of different groups, and a window shows the same
\* items as the whole trend, except that its first row has no delta.
BoundariesSplitGroups ==
    q.kind = "trend" =>
        LET items == Shown
            whole == Trend!build_trend_items(q.rows)
            n     == IF Len(q.rows) < Window THEN Len(q.rows) ELSE Window
            at    == {k \in DOMAIN items : ~IsRow(items[k])}
            Group(k) == <<items[k].row[1].config, items[k].row[1].snapshot>>
        IN  /\ RowsUpTo(items, Len(items)) = n
            /\ \A k \in DOMAIN items \ at : items[k].row = <<q.rows[Len(q.rows) - n + RowsUpTo(items, k)]>>
            /\ \A k \in at : 1 < k /\ k < Len(items) /\ {k - 1, k + 1} \cap at = {} /\ Group(k - 1) # Group(k + 1)
            /\ \A k \in 1..(Len(items) - 1) : {k, k + 1} \cap at = {} => Group(k) = Group(k + 1)
            /\ Len(items) <= Len(whole)
            /\ \A k \in DOMAIN items \ {1} : items[k] = whole[Len(whole) - Len(items) + k]

\* Within a run of rows of one group the deltas of a rate that is always there
\* add up to the difference of its ends, and no delta crosses into the group.
DeltasTelescope ==
    q.kind = "trend" =>
        LET items == Shown
            Whole(i, j) == \A k \in i..j : IsRow(items[k]) /\ items[k].row[1].ndcg # {}
            Only(S) == CHOOSE x \in S : TRUE
            Sum(i, j) == LET after[k \in 0..(j - i)] == IF k = 0 THEN 0 ELSE after[k - 1] + Only(items[i + k].ndcg)
                         IN  after[j - i]
        IN  /\ \A i, j \in DOMAIN items : i <= j /\ Whole(i, j) =>
                   Sum(i, j) = Only(items[j].row[1].ndcg) - Only(items[i].row[1].ndcg)
            /\ \A i \in DOMAIN items : i = 1 \/ ~IsRow(items[i - 1]) => items[i].ndcg = {} /\ items[i].gem = {}

\* "A 2x plant lands exactly back on baseline at grid 0.5x, and a 0.5x plant lands
\* exactly on baseline at grid 2.0x": some cell undoes the plant.
GridUndoesPlant ==
    q.kind = "test" /\ Test!Eligible(q.data) # {} =>
        LET w == q.data.baseline[Test!Selected(q.data)]
        IN  \E m \in DOMAIN Grid : Test!Cell(Test!Planted(w), Grid[m]) = w
=============================================================================
