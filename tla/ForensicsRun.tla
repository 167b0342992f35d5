---------------------------- MODULE ForensicsRun ----------------------------
(***************************************************************************)
(* compute_forensics (bench/forensics.py): every label card that misses    *)
(* the live top ranks of its commander is put into one bucket.  The pass   *)
(* reads one database three ways, through its own connection, a shared     *)
(* engine and, at the end, an engine opened anew, while imports, rebuilds  *)
(* and repins go on; each read is a step.  An initial state either runs    *)
(* the pass or lets a client of the engine call it.                        *)
(***************************************************************************)
EXTENDS SynergyEngine, SequencesExt

CONSTANTS
    ClientHistories,  \* the histories the client lives through
    Fixture,       \* the pinned fixture's commanders
    Labels,        \* commander -> label name -> gain of its synergy, positive
    FrontFace,         \* split label name -> its front face
    TopN,          \* 30
    NearMax,       \* 60
    Discount,      \* position -> 1 / log2(i + 2)
    SampleSize     \* commanders of the independent check

ASSUME ForensicsAssumption ==
    /\ Fixture \in Seq(Names)
    /\ \A i, j \in DOMAIN Fixture : Fixture[i] = Fixture[j] => i = j
    /\ \A i \in DOMAIN Fixture : <<Fixture[i]>> \in Decks
    /\ TopN \in Nat \ {0} /\ TopN <= Everything /\ NearMax \in Nat /\ NearMax >= TopN
    /\ Len(Discount) >= TopN /\ SampleSize \in Nat
    /\ Null # "filter_reason_unknown"

VARIABLES
    mode,      \* "client" or "pass"
    pc,
    pinned,    \* file -> the version its tensor was computed from, 0 for none
    read,      \* what the pass holds, see ForensicsInit
    recon,     \* [commander, live, window] with their NDCG
    entries,   \* [commander, card, bucket, reason, rank, resolved, tensor]
    seen,      \* history: the versions read for the entries
    begun      \* history: the version at the start

run  == <<mode, pc, pinned, read, recon, entries, seen, begun>>
vars == <<world, client, run>>

(***************************************************************************)
(* Tensor, labels and metrics                                              *)
(***************************************************************************)
\* Commander c's candidates in the tensor of file f, with what their rows came from.
TensorOf(c, f) ==
    IF pinned[f] = 0 THEN {}
    ELSE LET v == pinned[f]
             M == Matches(<<c>>, [cmdr |-> v, cand |-> v, rows |-> v])
         IN  {n \in Names : \E r \in Rules : Net(n, r, M) # 0}

\* The top labels, closed under ties.
MissUniverse(c) ==
    {l \in DOMAIN Labels[c] : Cardinality({k \in DOMAIN Labels[c] : Labels[c][k] > Labels[c][l]}) < TopN}

Normalized(l, known) ==
    IF l \in known THEN l
    ELSE IF l \in DOMAIN FrontFace /\ FrontFace[l] \in known THEN FrontFace[l] ELSE Null

Gain(c, n) == IF n \in DOMAIN Labels[c] THEN Labels[c][n] ELSE 0

\* DCG over the first TopN cards of a ranking; the ideal divides both sides.
Dcg(c, items) == Added([i \in 1..TopN |->
    Discount[i] * Added([x \in {y \in items : y.rank = i} |-> Gain(c, x.card)])])

(***************************************************************************)
(* The classifier                                                          *)
(***************************************************************************)
\* The first failing predicate of page()'s drop chain, from the cards row.
FirstFilterReason(c, n, identity, v) ==
    LET failed == <<n \in DOMAIN In(v).card /\ ~ In(v).card[n].pips \subseteq identity,
                    n \in DOMAIN In(v).card /\ In(v).card[n].legal = 0,
                    n \in DOMAIN In(v).card /\ In(v).card[n].types = "none",
                    n \in DOMAIN In(v).card /\ In(v).card[n].types = "non_edh",
                    n \in DOMAIN In(v).card /\ n = c, TRUE>>
        name == <<"color_illegal", "not_legal", "empty_types", "non_edh_type", "is_commander",
                  "filter_reason_unknown">>
    IN  name[CHOOSE i \in 1..6 : failed[i] /\ \A j \in 1..(i - 1) : ~ failed[j]]

\* Bucket and reason of a miss: n the resolved name, p the version of its ports.
Classified(c, n, rank, tensor, identity, v, p) ==
    LET row == n # Null /\ n \in DOMAIN In(v).card
    IN  CASE rank > 0 /\ rank <= NearMax -> <<"NEAR_MISS", Null>>
          [] rank > NearMax -> <<"OUTRANKED", IF n \in tensor THEN Null ELSE "staple_only">>
          [] rank = 0 /\ n \in tensor -> <<"FILTERED", FirstFilterReason(c, n, identity, v)>>
          [] rank = 0 /\ n \notin tensor /\ ~ row -> <<"DATA_GAP", "card_absent">>
          [] rank = 0 /\ n \notin tensor /\ row /\ In(p).ports[n] = "none" -> <<"DATA_GAP", "no_ports">>
          [] rank = 0 /\ n \notin tensor /\ row /\ In(p).ports[n] = "unknown" -> <<"DATA_GAP", "unknown_ports">>
          [] rank = 0 /\ n \notin tensor /\ row /\ In(p).ports[n] = "formed" -> <<"NO_RULES", Null>>

RankOf(n, items) == IF \E x \in items : x.card = n THEN (CHOOSE x \in items : x.card = n).rank ELSE 0

\* classify_commander_misses: labels among the live top ranks are no misses.
Misses(c, known, ranking, tensor, v, p) ==
    LET identity == IF c \in DOMAIN In(v).card THEN In(v).card[c].pips ELSE {}
        entry(l) == LET n == Normalized(l, known)
                        rank == IF n = Null THEN 0 ELSE RankOf(n, ranking)
                        b == Classified(c, n, rank, tensor, identity, v, p)
                    IN  [commander |-> c, label |-> l, card |-> n, rank |-> rank,
                         bucket |-> b[1], reason |-> b[2], credited |-> n \in tensor]
    IN  {e \in {entry(l) : l \in MissUniverse(c)} : e.rank = 0 \/ e.rank > TopN}

(***************************************************************************)
(* The pass                                                                *)
(***************************************************************************)
Commander == Fixture[read.k]
Deck      == <<Commander>>
Goto(l)   == pc' = l
Quiet     == UNCHANGED <<world, pending, requests, answers, mode, pinned>>

\* open_db, then the precondition on the tensor.
Begin ==
    /\ mode = "pass" /\ pc = "start"
    /\ Goto(IF \A i \in DOMAIN Fixture : TensorOf(Fixture[i], Path) = {} THEN "refused" ELSE "opened")
    /\ read' = [read EXCEPT !.conn = Path]
    /\ begun' = now
    /\ Quiet /\ UNCHANGED <<engine, recon, entries, seen>>

\* The shared engine, and the names of the cards.
Open ==
    /\ pc = "opened"
    /\ engine' = NewEngine(Path)
    /\ read' = [read EXCEPT !.known = DOMAIN In(head[read.conn]).card]
    /\ seen' = seen \cup {head[read.conn]}
    /\ Goto("next")
    /\ Quiet /\ UNCHANGED <<begun, recon, entries>>

\* A commander without labels is skipped and counts as (0.0, 0.0).
SkipCommander ==
    /\ pc = "next" /\ read.k <= Len(Fixture) /\ DOMAIN Labels[Commander] = {}
    /\ recon' = recon \cup {[commander |-> Commander, live |-> 0, window |-> 0]}
    /\ read' = [read EXCEPT !.k = @ + 1]
    /\ Quiet /\ UNCHANGED <<begun, pc, engine, entries, seen>>

\* page(limit=1_000_000), its first read; page() raises for an unknown name.
LoadRanking ==
    /\ pc = "next" /\ read.k <= Len(Fixture) /\ DOMAIN Labels[Commander] # {}
    /\ IF Known(engine, Deck)
       THEN /\ engine' = WithRows(engine)
            /\ read' = [read EXCEPT !.identity = Identity(engine, Deck)]
            /\ seen' = seen \cup {head[engine.file], engine'.rows}
            /\ Goto("score")
       ELSE Goto("crashed") /\ UNCHANGED <<engine, read, seen>>
    /\ Quiet /\ UNCHANGED <<begun, recon, entries>>

ScoreRanking ==
    /\ pc = "score"
    /\ LET e == WithScores(engine, Deck)
       IN  /\ engine' = e
           /\ read' = [read EXCEPT !.ranking = Items(e, Deck, read.identity, 0, Everything)]
           /\ seen' = seen \cup {e.scores[Deck].cmdr, e.scores[Deck].cand}
    /\ Goto("window")
    /\ Quiet /\ UNCHANGED <<begun, recon, entries>>

\* page(limit=top_n) on the cached scores, which are then cleared.
Window ==
    /\ pc = "window"
    /\ IF Known(engine, Deck)
       THEN LET w == Items(engine, Deck, Identity(engine, Deck), 0, TopN)
            IN  /\ recon' = recon \cup {[commander |-> Commander, live |-> Dcg(Commander, read.ranking),
                                         window |-> Dcg(Commander, w)]}
                /\ engine' = Cleared(engine)
                /\ Goto("tensor")
       ELSE Goto("crashed") /\ UNCHANGED <<recon, engine>>
    /\ Quiet /\ UNCHANGED <<begun, read, entries, seen>>

ReadTensor ==
    /\ pc = "tensor"
    /\ read' = [read EXCEPT !.tensor = TensorOf(Commander, read.conn)]
    /\ seen' = seen \cup {pinned[read.conn]}
    /\ Goto("cards")
    /\ Quiet /\ UNCHANGED <<begun, engine, recon, entries>>

ReadCards ==
    /\ pc = "cards"
    /\ read' = [read EXCEPT !.cards = head[read.conn]]
    /\ seen' = seen \cup {head[read.conn]}
    /\ Goto("ports")
    /\ Quiet /\ UNCHANGED <<begun, engine, recon, entries>>

Classify ==
    /\ pc = "ports"
    /\ entries' = entries \cup Misses(Commander, read.known, read.ranking, read.tensor, read.cards, head[read.conn])
    /\ seen' = seen \cup {head[read.conn]}
    /\ read' = [read EXCEPT !.k = @ + 1]
    /\ Goto("next")
    /\ Quiet /\ UNCHANGED <<begun, engine, recon>>

\* The commanders with labels, first names first.
Sampled ==
    LET kept == {c \in Range(Fixture) : DOMAIN Labels[c] # {}}
    IN  {c \in kept : Cardinality({b \in kept : Order[b] < Order[c]}) < SampleSize}

\* reconcile_canonical_ndcg, then the engine of the independent check.
Reconcile ==
    /\ pc = "next" /\ read.k > Len(Fixture)
    /\ IF Added([x \in recon |-> x.live]) # Added([x \in recon |-> x.window])
       THEN Goto("raised") /\ UNCHANGED <<engine, read>>
       ELSE IF Sampled = {} THEN Goto("reported") /\ UNCHANGED <<engine, read>>
       ELSE Goto("check") /\ engine' = NewEngine(Path) /\ read' = [read EXCEPT !.left = Sampled]
    /\ Quiet /\ UNCHANGED <<begun, recon, entries, seen>>

\* run_independent_engine_check scores one sampled commander after the other.
CheckLoad ==
    /\ pc = "check" /\ read.left # {}
    /\ LET c == CHOOSE x \in read.left : \A y \in read.left : Order[x] <= Order[y]
       IN  IF Known(engine, <<c>>)
           THEN /\ engine' = WithRows(engine)
                /\ read' = [read EXCEPT !.identity = Identity(engine, <<c>>)]
                /\ Goto("check_score")
           ELSE Goto("crashed") /\ UNCHANGED <<engine, read>>
    /\ Quiet /\ UNCHANGED <<begun, recon, entries, seen>>

CheckScore ==
    /\ pc = "check_score"
    /\ LET c == CHOOSE x \in read.left : \A y \in read.left : Order[x] <= Order[y]
           e == WithScores(engine, <<c>>)
           agreed == \A x \in recon : x.commander = c =>
                         x.live = Dcg(c, Items(e, <<c>>, read.identity, 0, TopN))
       IN  /\ engine' = e
           /\ read' = [read EXCEPT !.left = @ \ {c}]
           /\ Goto(IF ~ agreed THEN "raised" ELSE IF read.left = {c} THEN "reported" ELSE "check")
    /\ Quiet /\ UNCHANGED <<begun, recon, entries, seen>>

\* bench.py audit --repin, over the file at the path.
Repin ==
    /\ mode = "pass" /\ pinned[Path] # head[Path]
    /\ pinned' = [pinned EXCEPT ![Path] = head[Path]]
    /\ UNCHANGED <<world, client, mode, pc, read, recon, entries, seen, begun>>

Import ==
    \/ ImportInPlace /\ UNCHANGED run
    \/ Rebuild /\ pinned' = Append(pinned, 0)
               /\ UNCHANGED <<mode, pc, read, recon, entries, seen, begun>>

Pass == \/ Begin \/ Open \/ SkipCommander \/ LoadRanking \/ ScoreRanking \/ Window
        \/ ReadTensor \/ ReadCards \/ Classify \/ Reconcile \/ CheckLoad \/ CheckScore

Init ==
    /\ ClientInit
    /\ mode \in {"client", "pass"} /\ (mode = "client" => history \in ClientHistories)
    /\ pc = "start"
    /\ pinned \in {<<0>>} \cup {<<1>> : m \in {mode} \ {"client"}}
    /\ read = [conn |-> 0, k |-> 1, known |-> {}, identity |-> {}, ranking |-> {}, tensor |-> {},
               cards |-> 0, left |-> {}]
    /\ recon = {} /\ entries = {} /\ seen = {} /\ begun = 0

Next == \/ mode = "client" /\ Client /\ UNCHANGED run
        \/ Pass \/ Repin \/ Import

Spec == Init /\ [][Next]_vars

(***************************************************************************)
(* Properties                                                              *)
(***************************************************************************)
\* When everything the pass read was one version of the database, its tags
\* say what the ranking did: a card is FILTERED exactly when a rule credits
\* it and page() dropped it, and then for a known reason; and a ranked miss was
\* not dropped.  (Of a card that no rule credits it says only that it is not
\* tagged FILTERED.)
FreshTagsAreTrue ==
    Cardinality(seen) = 1 => \A e \in entries :
        LET v == CHOOSE x \in seen : TRUE
            c == e.commander
            dropped == e.card \notin Legal([rows |-> v], <<c>>, In(v).card[c].pips)
        IN  /\ e.bucket = "FILTERED" <=> e.credited /\ dropped
            /\ e.reason # "filter_reason_unknown"
            /\ e.bucket \in {"NEAR_MISS", "OUTRANKED"} => ~ dropped

\* A reconciliation error means that the database changed during the pass:
\* two pages of one engine, and of two engines, rank one version alike.
ErrorNeedsImport == pc = "raised" => now # begun
=============================================================================
