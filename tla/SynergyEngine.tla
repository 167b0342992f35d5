--------------------------- MODULE SynergyEngine ---------------------------
(***************************************************************************)
(* SynergyEngine (engine.py) over a synergy.db that changes underneath it. *)
(* An engine is bound to the file its connection opened, and nothing ever  *)
(* invalidates what it caches: the candidate rows, the commander's ports   *)
(* (graph_engine.load_ports_for_set, per connection) and one scoring per   *)
(* list of commanders.  So a cache is described by the version of the      *)
(* database each part of it was read from.  A client asks for pages and    *)
(* single scores; the two reads of a call, candidates first and scores     *)
(* second, are separate steps.                                             *)
(***************************************************************************)
EXTENDS Integers, FiniteSets, Sequences

CONSTANTS
    Names,         \* card names
    Order,         \* name -> its place in the order of strings
    Decks,         \* lists of commanders that are asked for
    Rules,
    Pooled,        \* rules whose candidates come from the candidate cache
    Staples,       \* pip, or "C" -> names (STAPLES)
    Weight,        \* <<w1, w2, ...>>: 1/log2(1+N), times the rule's multiplier
    Histories,     \* sequences of database contents
    Windows,       \* <<offset, limit>> a client asks for
    MaxRequests,   \* bound: calls of the client
    Null

Directions == {"synergy", "anti_synergy"}
Everything == 1000000          \* limit=1_000_000

ASSUME EngineAssumption ==
    /\ Order \in [Names -> Nat]
    /\ \A m, n \in Names : Order[m] = Order[n] => m = n
    /\ IsFiniteSet(Names) /\ Cardinality(Names) <= Everything /\ Null \notin Names
    /\ IsFiniteSet(Rules) /\ Pooled \subseteq Rules
    /\ Weight \in Seq(Nat) /\ Len(Weight) >= Cardinality(Names)
    /\ MaxRequests \in Nat
    /\ \A w \in Windows : w[1] \in Nat /\ w[2] \in Nat \ {0}

\* The cards table, its two sort columns, either of which may be NULL, and what
\* the ports of each card are known to be.
ASSUME HistoryAssumption ==
    \A h \in Histories :
        /\ Len(h) \in Nat \ {0} /\ DOMAIN h = 1..Len(h)
        /\ \A v \in DOMAIN h :
              /\ DOMAIN h[v].card \subseteq Names
              /\ \A n \in DOMAIN h[v].card : /\ h[v].card[n].cmc \in Int \cup {Null}
                                             /\ h[v].card[n].rank \in Int \cup {Null}
                                             /\ h[v].ports[n] \in {"none", "unknown", "formed"}

VARIABLES
    history,   \* the contents the database takes, in order
    head,      \* file -> the version it holds; the last file is the one at the path
    now,       \* the latest version
    engine,    \* the client's engine
    pending,   \* the client's call between its two reads, or Null
    requests,
    answers    \* history: [deck, identity, card, rank, total] the client was told

Files == 1..Len(head)
Path  == Len(head)
In(v) == history[v]

(***************************************************************************)
(* Scoring                                                                 *)
(***************************************************************************)
Matches(deck, s) ==  \* <<card, rule, direction>>: find_all_complements
    LET asked == UNION {In(s.cmdr).asks[c] : c \in {deck[i] : i \in DOMAIN deck}}
        source(r) == IF r \in Pooled THEN In(s.rows).gives ELSE In(s.cand).gives
    IN  {m \in (Names \ {deck[i] : i \in DOMAIN deck}) \X asked \X Directions :
            <<m[2], m[3]>> \in source(m[2])[m[1]]}

IdfWeight(r, M) == Weight[Cardinality({m[1] : m \in {x \in M : x[2] = r}})]

StapleNames(deck, s) ==
    LET cards == In(s.cand).card
        pips  == IF deck[1] \in DOMAIN cards THEN cards[deck[1]].pips ELSE {}
    IN  UNION {Staples[p] : p \in pips \cup {"C"}}

\* What one rule puts into the total of card n, and into its tensor row.
Net(n, r, M) == (IF <<n, r, "synergy">> \in M THEN IdfWeight(r, M) ELSE 0)
              - (IF <<n, r, "anti_synergy">> \in M THEN IdfWeight(r, M) ELSE 0)

Added(f) == LET S[D \in SUBSET DOMAIN f] ==
                  IF D = {} THEN 0 ELSE LET x == CHOOSE x \in D : TRUE IN f[x] + S[D \ {x}]
          IN  S[DOMAIN f]

\* Sort columns, with the sentinels of page().
Cmc(v, n)  == IF n \in DOMAIN In(v).card /\ In(v).card[n].cmc # Null THEN In(v).card[n].cmc ELSE 99
Rank(v, n) == IF n \in DOMAIN In(v).card /\ In(v).card[n].rank # Null
              THEN In(v).card[n].rank ELSE 1000000000
Floor(i)   == IF i > 0 THEN i ELSE 0

StapleBonus(n, deck, s) == IF n \in StapleNames(deck, s) THEN 420000 ELSE 0

\* The rules beyond the first, up to four.
Breadth(n, M) == LET rules == {r \in Rules : <<n, r, "synergy">> \in M}
                 IN  840000 * (IF Cardinality(rules) > 5 THEN 4 ELSE Floor(Cardinality(rules) - 1))

CmcBonus(v, n)  == 60000 * Floor(7 - Cmc(v, n))
RankBonus(v, n) == 7 * Floor(30000 - Rank(v, n))

\* to_legacy_buckets()["total"], in units of 1/42000000.
Total(n, deck, s, M) ==
    420000 * Added([r \in Rules |-> Net(n, r, M)]) + StapleBonus(n, deck, s) + Breadth(n, M)
    + CmcBonus(s.rows, n) + RankBonus(s.rows, n)

\* score_all_universal: the candidates a rule reaches, and the staples.
Scored(deck, s) ==
    LET M == Matches(deck, s)
        names == {m[1] : m \in M} \cup (StapleNames(deck, s) \ {deck[i] : i \in DOMAIN deck})
    IN  [n \in names |-> Total(n, deck, s, M)]

(***************************************************************************)
(* The engine object                                                       *)
(***************************************************************************)
NoScores == [cmdr |-> 0, cand |-> 0, rows |-> 0]

NewEngine(f) == [file |-> f, rows |-> 0, ports |-> [d \in Decks |-> 0],
                 scores |-> [d \in Decks |-> NoScores]]

\* Mutant: the rows are loaded for every call.
WithRowsReloaded(e) == [e EXCEPT !.rows = head[e.file]]

\* if self._candidate_cache is None: build_candidate_cache(self._conn)
WithRows(e) == IF e.rows = 0 THEN [e EXCEPT !.rows = head[e.file]] ELSE e

\* universal = self._score_cache.get(cache_key), or score and keep.
WithScores(e, deck) ==
    LET p == IF e.ports[deck] = 0 THEN head[e.file] ELSE e.ports[deck]
    IN  IF e.scores[deck] # NoScores THEN e
        ELSE [e EXCEPT !.ports[deck] = p,
                       !.scores[deck] = [cmdr |-> p, cand |-> head[e.file], rows |-> e.rows]]

Cleared(e) == [e EXCEPT !.scores = [d \in Decks |-> NoScores]]

\* self._fetch_cards(cmdr_set): never cached.
Known(e, deck)    == \E i \in DOMAIN deck : deck[i] \in DOMAIN In(head[e.file]).card
Identity(e, deck) == LET cards == In(head[e.file]).card
                     IN  UNION {cards[c].pips : c \in {deck[i] : i \in DOMAIN deck} \cap DOMAIN cards}

\* Mutant: only cards known to be legal.
LegalOnlyOne(e, deck, identity) ==
    LET cards == In(e.rows).card
    IN  {n \in DOMAIN cards \ {deck[i] : i \in DOMAIN deck} :
            cards[n].types \notin {"none", "non_edh"} /\ cards[n].legal = 1 /\ cards[n].pips \subseteq identity}

\* page()'s drop chain over the cached rows.
Legal(e, deck, identity) ==
    LET cards == In(e.rows).card
    IN  {n \in DOMAIN cards \ {deck[i] : i \in DOMAIN deck} :
            /\ cards[n].types # "none" /\ cards[n].types # "non_edh"
            /\ cards[n].legal # 0
            /\ cards[n].pips \subseteq identity}

\* ranked.sort(key = (-total, cmc, edhrec_rank, name))
Before(m, n, T, v) ==
    \/ T[m] > T[n]
    \/ T[m] = T[n] /\ Cmc(v, m) < Cmc(v, n)
    \/ T[m] = T[n] /\ Cmc(v, m) = Cmc(v, n) /\ Rank(v, m) < Rank(v, n)
    \/ T[m] = T[n] /\ Cmc(v, m) = Cmc(v, n) /\ Rank(v, m) = Rank(v, n) /\ Order[m] < Order[n]

Sorted(S, T, v) ==
    [i \in 1..Cardinality(S) |->
        CHOOSE n \in S : Cardinality({m \in S : Before(m, n, T, v)}) = i - 1]

Ranked(e, deck, identity) ==
    LET T == Scored(deck, e.scores[deck])
    IN  Sorted(Legal(e, deck, identity) \cap DOMAIN T, T, e.rows)

\* Mutant: the window is cut before the illegal cards are dropped.
ItemsCutFirst(e, deck, identity, offset, limit) ==
    LET T      == Scored(deck, e.scores[deck])
        scored == Sorted(DOMAIN T, T, e.rows)
        legal  == Legal(e, deck, identity)
        window == {j \in DOMAIN scored : offset < j /\ j <= offset + limit /\ scored[j] \in legal}
    IN  {[card |-> scored[i], rank |-> offset + Cardinality({j \in window : j <= i}),
          total |-> T[scored[i]]] : i \in window}

\* The items of page(deck, offset, limit): [card, rank, total].
Items(e, deck, identity, offset, limit) ==
    LET ranked == Ranked(e, deck, identity)
    IN  {[card |-> ranked[i], rank |-> i, total |-> Scored(deck, e.scores[deck])[ranked[i]]] :
            i \in {j \in DOMAIN ranked : offset < j /\ j <= offset + limit}}

(***************************************************************************)
(* The client                                                              *)
(***************************************************************************)
client == <<engine, pending, requests, answers>>
world  == <<history, head, now>>

\* page(): the commander's rows and the candidate cache.  An unknown
\* commander is a ValueError.
Page(deck, w) ==
    /\ pending = Null /\ requests < MaxRequests
    /\ Known(engine, deck)
    /\ pending' = [deck |-> deck, identity |-> Identity(engine, deck), window |-> w, card |-> Null]
    /\ engine' = WithRows(engine)
    /\ requests' = requests + 1
    /\ UNCHANGED <<world, answers>>

\* score_one(): the candidate cache, if there is nothing scored yet.
ScoreOne(deck, n) ==
    /\ pending = Null /\ requests < MaxRequests
    /\ pending' = [deck |-> deck, identity |-> {}, window |-> <<0, 1>>, card |-> n]
    /\ engine' = IF engine.scores[deck] # NoScores THEN engine ELSE WithRows(engine)
    /\ requests' = requests + 1
    /\ UNCHANGED <<world, answers>>

Told(deck, identity, items) ==
    {[deck |-> deck, identity |-> identity, card |-> i.card, rank |-> i.rank, total |-> i.total] :
        i \in items}

\* The scoring, if it is not cached, and the answer.  score_one looks the
\* card up without asking whether it is legal, and 0 stands for unscored.
Answer ==
    /\ pending # Null
    /\ LET e == WithScores(engine, pending.deck)
           T == Scored(pending.deck, e.scores[pending.deck])
           one == [card |-> pending.card, rank |-> 0,
                   total |-> IF pending.card \in DOMAIN T THEN T[pending.card] ELSE 0]
           items == IF pending.card # Null THEN {one}
                    ELSE Items(e, pending.deck, pending.identity, pending.window[1], pending.window[2])
       IN  /\ engine' = e
           /\ answers' = answers \cup Told(pending.deck, pending.identity, items)
    /\ pending' = Null
    /\ UNCHANGED <<world, requests>>

\* import_cards_folder into the file at the path: its connections see it.
ImportInPlace ==
    /\ now < Len(history)
    /\ now' = now + 1
    /\ head' = [head EXCEPT ![Path] = now + 1]
    /\ UNCHANGED <<history, client>>

\* scripts/import_cardsfolder.py unlinks the file and writes a new one, which
\* only connections opened later see.
Rebuild ==
    /\ now < Len(history)
    /\ now' = now + 1
    /\ head' = Append(head, now + 1)
    /\ UNCHANGED <<history, client>>

Client == (\E d \in Decks, w \in Windows : Page(d, w)) \/ (\E d \in Decks, n \in Names : ScoreOne(d, n))
          \/ Answer

ClientInit ==
    /\ history \in Histories
    /\ head = <<1>> /\ now = 1
    /\ engine = NewEngine(1)
    /\ pending = Null /\ requests = 0 /\ answers = {}

\* What an engine says it says again, and its pages continue one another:
\* however often the database changes between two calls for the same
\* commanders, a card keeps its total, and while the commanders keep their
\* colours each rank keeps its card.
AnswersAgree ==
    \A a, b \in answers : a.deck = b.deck =>
        /\ a.card = b.card => a.total = b.total
        /\ a.rank > 0 /\ b.rank > 0 /\ a.identity = b.identity => (a.card = b.card <=> a.rank = b.rank)
=============================================================================
