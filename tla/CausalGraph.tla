----------------------------- MODULE CausalGraph ----------------------------
(***************************************************************************)
(* graph_metrics.py: the undirected graph of the cards whose ports match,  *)
(* built through an index by event class, and the metrics read from it.    *)
(* Cards are the numbers of a sequence, in the order of their names.       *)
(* Ranks are exact: damping is 17/20 and every rank is counted in units of *)
(* a common denominator.                                                   *)
(***************************************************************************)
EXTENDS GraphMatches, FiniteSetsExt

\* The ports that enter the three indexes, and the cards under one event.
index(cards, type, event) ==
    {i \in DOMAIN cards : \E p \in ToSet(cards[i].ports) : p.type = type /\ p.event = event}
events(cards, type) == {p.event : p \in {q \in UNION {ToSet(c.ports) : c \in ToSet(cards)} : q.type = type}} \ {""}
trigger_events(cards) == events(cards, "trigger") \ CATCH_ALL_TRIGGERS

\* Mutant: the match quality is not asked.
EdgesOfAnyQuality(cards) ==
    UNION {index(cards, "trigger", m[1]) \X index(cards, "effect", m[2])
           : m \in {n \in EventMatch : n[1] \notin CATCH_ALL_TRIGGERS /\ n[2] # "*"}}

\* The three loops over the indexes, as sets of directed pairs.
mapped_edges(cards) ==
    UNION {{e \in index(cards, "trigger", m[1]) \X index(cards, "effect", m[2]) :
                \E t \in ToSet(cards[e[1]].ports), p \in ToSet(cards[e[2]].ports) :
                    Is(t, "trigger", {m[1]}) /\ Is(p, "effect", {m[2]}) /\ Quality(m[3], t, p)}
           : m \in {n \in EventMatch : n[1] \notin CATCH_ALL_TRIGGERS /\ n[2] # "*"}}
unmapped_edges(cards) ==
    UNION {index(cards, "trigger", ev) \X index(cards, "effect", ev) :
           ev \in (trigger_events(cards) \cap events(cards, "effect")) \ {m[1] : m \in EventMatch}}
cost_edges(cards) ==
    UNION {index(cards, "trigger", c[2]) \X index(cards, "cost", c[1]) :
           c \in {d \in CostFeeds : d[2] \in trigger_events(cards)}}

build_causal_graph(cards) ==
    LET edges == mapped_edges(cards) \cup unmapped_edges(cards) \cup cost_edges(cards)
    IN  [i \in DOMAIN cards |-> {j \in DOMAIN cards \ {i} : <<i, j>> \in edges \/ <<j, i>> \in edges}]

-----------------------------------------------------------------------------
Degree(adj, n) == Cardinality(adj[n])
card_hub_scores(adj) == LET top == Max({Degree(adj, n) : n \in DOMAIN adj} \cup {1})
                        IN  [n \in DOMAIN adj |-> <<Degree(adj, n), top>>]

\* Fractions are pairs.
neighbor_overlap(adj, a, b) == <<Cardinality(adj[a] \cap adj[b]), Max({1, Cardinality(adj[a] \cup adj[b])})>>

cmdr_two_hop_ratio(adj, cmdr, cand) ==
    LET hop2 == UNION {adj[n] : n \in adj[cmdr]}
    IN  <<Cardinality((adj[cmdr] \cup hop2) \cap adj[cand]), Max({1, Degree(adj, cand)})>>

\* The unit in which the ranks of a graph are counted: every degree and the number of
\* nodes divide it.  An iteration multiplies the scale by Step.
Unit(adj) ==
    LET product[k \in 0..Cardinality(DOMAIN adj)] == IF k = 0 THEN 1 ELSE k * product[k - 1]
    IN  product[Cardinality(DOMAIN adj)]
Step(adj) == 20 * Unit(adj)

\* The sum over the nodes, in the order of their numbers.
RankSum(rank) ==
    LET upto[k \in 0..Cardinality(DOMAIN rank)] ==
            (IF k = 0 THEN 0 ELSE upto[k - 1]) + (IF k \in DOMAIN rank THEN rank[k] ELSE 0)
    IN  upto[Cardinality(DOMAIN rank)]

\* What node m hands on to n, and what the nodes without neighbours spread.
Contribution(adj, rank, m, n) == IF n \in adj[m] THEN (17 * Unit(adj) * rank[m]) \div Degree(adj, m) ELSE 0
Received(adj, rank, n)        == RankSum([m \in DOMAIN adj |-> Contribution(adj, rank, m, n)])
Dangling(adj, rank)           == RankSum([m \in DOMAIN adj |-> IF adj[m] = {} THEN rank[m] ELSE 0])

\* Mutant: the mass of the nodes without neighbours is lost.
IterateLinkedOnly(adj, rank, reset) == [n \in DOMAIN adj |-> 3 * Unit(adj) * reset[n] + Received(adj, rank, n)]

\* One power iteration: the reset share, the contribution of each neighbour and an
\* equal part of the mass of the nodes without neighbours.
Iterate(adj, rank, reset) ==
    LET spread == (17 * Unit(adj) * Dangling(adj, rank)) \div Cardinality(DOMAIN adj)
    IN  [n \in DOMAIN adj |-> 3 * Unit(adj) * reset[n] + Received(adj, rank, n) + spread]

Ranked(adj, rank0, iterations) ==
    LET run[k \in 0..iterations] ==
            IF k = 0 THEN <<rank0, rank0>>
            ELSE <<Iterate(adj, run[k - 1][1], run[k - 1][2]), [n \in DOMAIN adj |-> Step(adj) * run[k - 1][2][n]]>>
    IN  run[iterations][1]

personalised_pagerank(adj, source, iterations) ==
    Ranked(adj, [n \in DOMAIN adj |-> IF n = source THEN Unit(adj) ELSE 0], iterations)
\* Uniform reset: in units of the number of nodes.
global_pagerank(adj, iterations) ==
    Ranked(adj, [n \in DOMAIN adj |-> Unit(adj) \div Cardinality(DOMAIN adj)], iterations)

\* The synthetic node 0 stands for the commanders: it takes over their neighbours,
\* and the commanders stay in the graph beside it.
merged_adjacency(adj, cmdrs) ==
    LET merged == (UNION {adj[c] : c \in cmdrs}) \ cmdrs
    IN  [n \in {0} \cup DOMAIN adj |-> IF n = 0 THEN merged ELSE adj[n] \cup When(n \in merged, {0})]

compute_commander_metrics(adj, cmdrs, iterations) ==
    LET all  == merged_adjacency(adj, cmdrs)
        pr   == personalised_pagerank(all, 0, iterations)
        top  == Max({pr[n] : n \in DOMAIN pr})
    IN  [n \in DOMAIN adj \ cmdrs |->
            [hub |-> card_hub_scores(adj)[n], overlap |-> neighbor_overlap(all, 0, n),
             two_hop |-> cmdr_two_hop_ratio(all, 0, n), rank |-> <<pr[n], top>>]]

-----------------------------------------------------------------------------
\* graph_cache.build_graph_cache: per card its metrics and its most central
\* neighbours, at most `cap` of them; equal ranks keep the order of the set.
central(pr, S, cap) ==
    {K \in SUBSET S : /\ Cardinality(K) = (IF Cardinality(S) <= cap THEN Cardinality(S) ELSE cap)
                      /\ \A k \in K, o \in S \ K : pr[k] >= pr[o]}

graph_cache(adj, pr) ==
    LET hubs == card_hub_scores(adj)
    IN  [n \in DOMAIN adj |-> [hub |-> hubs[n], rank |-> pr[n], degree |-> Degree(adj, n)]]

\* neighbours_of and commander_neighbours: what the table may answer for a set of
\* commanders, one answer for every choice of the sort.
commander_neighbours(adj, pr, cap, cmdrs) ==
    LET kept == [c \in cmdrs |-> central(pr, adj[c], cap)]
    IN  {UNION {f[c] : c \in cmdrs} : f \in {g \in [cmdrs -> UNION {kept[c] : c \in cmdrs}] : \A c \in cmdrs : g[c] \in kept[c]}}

-----------------------------------------------------------------------------
\* What graph_engine's matcher says of two ports.
Linked(t, p) ==
    /\ t.type = "trigger" /\ t.event \notin CATCH_ALL_TRIGGERS
    /\ \/ p.type = "effect" /\ match_event(t, p)
       \/ p.type = "cost" /\ <<p.event, t.event>> \in CostFeeds
CardsLinked(a, b) == \E p \in ToSet(a.ports), r \in ToSet(b.ports) : Linked(p, r) \/ Linked(r, p)

\* Two cards are neighbours exactly when the matcher links a port of one to a port of
\* the other.
IndexIsPairwise(cards) ==
    LET adj == build_causal_graph(cards)
    IN  \A i, j \in DOMAIN cards : i # j => (j \in adj[i] <=> CardsLinked(cards[i], cards[j]))

\* A card that find_trigger_feeders reports is a neighbour, unless its zone or counter
\* type, which that query does not select, rules the match out.
FeedersAreNeighbours(cards) ==
    LET adj == build_causal_graph(cards)
        whole(card) == \A p \in ToSet(card.ports) : p = Selected(p)
    IN  \A i, j \in DOMAIN cards :
            i # j /\ find_trigger_feeders(cards[i], cards[j]) # {} /\ whole(cards[j]) => j \in adj[i]

\* The edges go both ways, those of the synthetic commander too.
EdgesGoBothWays(all) == \A n, o \in DOMAIN all : o \in all[n] <=> n \in all[o]

\* All the neighbours of a direct neighbour are within two hops.
NeighboursWithinTwoHops(direct, metrics) == \A n \in direct : metrics[n].two_hop[1] = metrics[n].two_hop[2]

\* Every answer of the capped table comes from the graph, and a neighbour it leaves out
\* is outranked or equalled by at least as many as the table keeps of one card.
TableKeepsCentral(adj, pr, cap, cmdrs) ==
    LET all == merged_adjacency(adj, cmdrs)
    IN  \A found \in commander_neighbours(adj, pr, cap, cmdrs) :
            /\ found \ cmdrs \subseteq all[0]
            /\ \A m \in all[0] \ found : Cardinality({k \in found : pr[k] >= pr[m]}) >= cap
=============================================================================
