--------------------------- MODULE ForensicsTrend ---------------------------
(***************************************************************************)
(* `bench.py audit --trend forensics`: the rows of the forensics history   *)
(* folded into trend items, with a boundary wherever the scoring config or *)
(* the EDHREC snapshot changes and deltas only within a group.  A row is   *)
(* [config, snapshot, ndcg, gem]; a rate is the set of its value, empty    *)
(* for None.                                                               *)
(***************************************************************************)
EXTENDS Integers, Sequences

Boundary == [row |-> <<>>, ndcg |-> {}, gem |-> {}]

\* Mutation: a change of snapshot alone is no boundary.
NewConfig(row, prev) == row.config # prev.config

NewGroup(row, prev)  == row.config # prev.config \/ row.snapshot # prev.snapshot

Minus(a, b) == {x - y : x \in a, y \in b}

\* Mutation: the baseline survives a boundary.
ItemCarried(row, prev) ==
    IF prev = <<>> THEN [row |-> <<row>>, ndcg |-> {}, gem |-> {}]
    ELSE [row |-> <<row>>, ndcg |-> Minus(row.ndcg, prev[1].ndcg), gem |-> Minus(row.gem, prev[1].gem)]

\* prev is the preceding row of the file, or nothing.
Item(row, prev) ==
    IF prev = <<>> \/ NewGroup(row, prev[1]) THEN [row |-> <<row>>, ndcg |-> {}, gem |-> {}]
    ELSE [row |-> <<row>>, ndcg |-> Minus(row.ndcg, prev[1].ndcg), gem |-> Minus(row.gem, prev[1].gem)]

Fold(acc, row) ==
    LET crossed == acc.prev # <<>> /\ NewGroup(row, acc.prev[1])
    IN  [items |-> acc.items \o (IF crossed THEN <<Boundary>> ELSE <<>>) \o <<Item(row, acc.prev)>>,
         prev  |-> <<row>>]

build_trend_items(rows) ==
    LET after[k \in 0..Len(rows)] ==
            IF k = 0 THEN [items |-> <<>>, prev |-> <<>>] ELSE Fold(after[k - 1], rows[k])
    IN  after[Len(rows)].items

read_last_forensics(rows, n) == IF n <= 0 THEN <<>>
                                ELSE IF n >= Len(rows) THEN rows
                                ELSE SubSeq(rows, Len(rows) - n + 1, Len(rows))
=============================================================================
