# mtg-synergy-graph in TLA+

The repository scores Magic commanders against candidate cards with a rule
catalogue: card scripts are imported into `synergy.db`, rules find port
complements, a scorer turns them into a ranking, and a bench harness audits,
tunes and extends the catalogue. This directory holds TLA+ models of the parts
where state, order, failure or a boundary case decides whether the result is
right, the TLC configurations that check them on small instances, and theorems
the TLA+ proof system checks for every value of the constants.

Paths below are relative to the repository root.

## 1. Inventory

| Component | Source | State it keeps | Operations | What makes it hard |
|---|---|---|---|---|
| Rule scaffolder and walk | `scripts/scaffold_rule.py` | six source and data files, in-memory snapshot and registry | pick, pre-flight, apply, validate, restore, record, walk | kills between file writes and inside one, loops over a queue it changes itself, several processes over one tree |
| Attempt log | `scripts/_attempt_log.py` | `docs/rule_attempts.jsonl` | append, known-bad and template-block queries | blocks must hold across processes; rate at a boundary |
| Pre-flight gate | `preflight/` | none; two CSV corpora | Stage A verdict | empty restriction lists, two legality notions |
| Weight optimizer | `bench/optimize.py` | weights, metrics, ledger of steps | self-test, coordinate ascent, drift revert, proposal | partial accepts, abort in mid-sweep, revert of six pieces of state |
| Tensor and fixtures | `bench/tensor.py`, `bench/fixture.py`, `bench/handlers.py` | `rule_contributions`, fixture JSON | repin, identity check, audit | two stores written one after the other, several fixtures in one table |
| Run histories | `bench/history.py`, `bench/forensics_history.py`, `preflight/overrides.py` | append-only CSV files | append, read last, trend | concurrent appenders, torn rows, one header |
| Importer | `importer.py`, `parser.py`, `ports.py`, `attributes.py`, `copy_face_from.py` | `cards`, `card_ports`, svars, seed tables | import, second pass, seeding | several transactions, replacement of rows by a second key |
| Engine | `engine.py`, `db.py` | connection, candidate and score caches | page, score one, score deck | caches with no invalidation, shared connection |
| Scorer | `universal_scorer.py`, `quality.py`, `scoring.py`, `penalties.py` | none | IDF, dampening, pair bonuses, filters | caps and floors, order of float sums |
| Complement rules | `complement_rules/` | interpreter cache | nine pair rules, 71 helpers, gates, pathways | cached validation, gates out of step with matchers |
| Port graph | `port_graph/`, `graph_engine.py` | maps loaded from JSON seeds, ports cache | interpret rules, match events | database seed and module seed drift |
| Graph metrics and cache | `graph_metrics.py`, `graph_cache.py` | `graph_cache`, `causal_neighbours` | PageRank, hubs, neighbours, rebuild | rebuild empties before it fills |
| Portfolio | `portfolio.py`, `bench/portfolio_sim.py` | none | greedy selection by family | ties, quotas |
| Embeddings | `embeddings/` | `embeddings.db` | vectorise, SVD, store, contribution | stale store against live config |
| Forge oracle | `forge_oracle/` | `forge_oracle.db` | ingest, PPMI, pair score | rebuild by rename, hash contract |
| Forensics | `bench/forensics.py`, `bench/forensics_report.py` | none | classify misses, aggregate, ablations | a partition into buckets with precedence |
| Coverage tools | `bench/coverage*.py`, `bench/demand_coverage.py`, `scripts/gap_report.py`, `scripts/coverage_matrix.py` | baseline JSON | census, queue, gate | ratchet against a stale baseline |
| Quality gate and impact audit | `scripts/rule_quality_gate.py`, `scripts/_validate_rule.py`, `scripts/_audit_rule_impact.py` | none | verdicts | precedence of verdicts |
| Other simulations | `bench/context_sim.py`, `bench/quality_sim.py`, `bench/cohorts.py` | none | kill tests | thresholds |
| Command line and hook | `bench/cli.py`, `bench/hook_entry.py`, remaining scripts | none | dispatch | exit codes |

Interactions: the importer writes the database every other part reads; the
engine reads it, scores through the rules and pages the ranking; the scaffolder
edits the source the engine imports and asks the pre-flight gate, the validator
(a subprocess) and the attempt log; the optimizer and the audits read fixtures
and write the tensor and the histories; forensics reads the database, the
tensor and the labels and checks the engine against itself.

What makes each part correct, in a sentence: the **walk** leaves a tree that
imports and a log that explains it; the **optimizer** never ends with weights
worse than its drift bound and its ledger replays to its weights; the
**tensor** holds a commander's rows whole or not at all; the **histories** give
back what was appended; the **import** leaves no port without a card and no
half universe that looks complete; an **engine** never contradicts itself while
the database changes; **forensics** blames the filter that dropped a card.

## 2. Modules

| Module | Models | State and actions |
|---|---|---|
| `AttemptLog` | `_attempt_log.py` | the log as a sequence of records; known-bad and template-block queries, the pass rate compared as 100 n >= 34 d |
| `ScaffoldWalk` | `scaffold_rule.py --apply`, one attempt or `--walk N` | working tree (file -> rule -> gap), snapshot, loaded registry, log, queue, counts; a write under way; one action per pick, skip, refusal, opening and closing of a file, deletion, validation verdict, record, tally, failing registry reload; `Crash` between any two, so inside a file write too |
| `GuardedClimb` | what the optimizer promises | weights, held-out score, `stopped` |
| `CoordinateAscent` | `run_optimizer` and `write_proposal_json` | weights, the six scores of the result, ledger, sweep flags; one action per exit of the loop body, `WallClock` in front of every rule |
| `SelfTest` | `planted_perturbation_test` | pure operators over a data set |
| `PreflightGate` | `preflight/gates.py`, `pipeline.py` | pure operators over a database and a question |
| `HiddenGems` | `bench/hidden_gems.py` | pure operators over a tensor |
| `ForensicsTrend` | `bench.py audit --trend forensics` | pure operators over a history |
| `BenchVerdicts` | the four above, composed by `INSTANCE` | a question is put, or a row is added; its answer is compared with the definition over the whole input |
| `Ports` | a row of `card_ports`, a card | records; a filter is a sequence of alternatives, an alternative a sequence of words |
| `Filters` | `attributes.py explode_filter`, the filters of `graph_engine.py`, the event maps | pure operators; the maps as relations between events |
| `PairRules` | the nine formal rules of `complement_rules/core.py`, the stax exclusion and the loop of `find_all_complements` | pure operators over two cards; of the pairs of rows a rule matches, the loop reports the first |
| `CandidatePools` | `penalties.py build_candidate_cache` | each pool as a predicate of a card, with the flags that were on when the cache was built |
| `DensityRules`, `CombatRules`, `GraveyardRules`, `StaticRules`, `SupplyRules`, `FeederRules`, `UtilityRules` | the helpers of `complement_rules/`, one module per source file or group of files | one operator per helper: (commander, candidate) to the complements it emits |
| `RuleGates` | `complement_rules/registry.py` | per rule, whether a port of the commander is one it may be attributed to |
| `GraphMatches` | the matchers of `graph_engine.py` | feeders, lords, amplifiers, conflicts of two cards |
| `CausalGraph` | `graph_metrics.py`, `graph_cache.py` | the graph from its three indexes; hubs, overlap, two hops, PageRank counted exactly in a unit of the graph; what the capped table answers |
| `RuleInterpreter` | `port_graph/interpreter.py`, `rules_schema.py`; extends `BenchVerdicts` | predicate trees, as sequences of nodes with their parents, compiled into a gate and into a query with three truth values and parameters by position; the validator; a predicate is written node by node, as its text is (`Open`, `Compare`, `Close`) |
| `RuleSeeding` | `rules_schema.py`, `_interpreter_cache.py`, the import of `registry.py`; extends `BenchVerdicts` | seed file, table, routed ids, cached interpreter; edit, seed, rebuild, start, connect, score |
| `RuleQuestions` | the rule modules composed, extends `BenchVerdicts` | a commander gets one more port (`AddPort`), a graph one more card (`AddCard`) |
| `HistoryLog` | the three append-only CSV writers and their readers | the file as a sequence of half lines; test for the header, open, flush, close, fail |
| `TensorStore` | `handle_repin`, `tensor.py`, `fixture.py` | `rule_contributions`, fixtures, write lock, builds of the source; start, evict, score one commander, commit, write the fixture, abandon, find the lock taken, die, edit, EDHREC import |
| `ImportPipeline` | `import_cards_folder`, `copy_face_from.py`, `scripts/import_cardsfolder.py` | committed and working database; start, skip or import a file, conflict on the oracle id, commit, resolve one carrier, commit the references, seed, resolve again, kill |
| `SynergyEngine` | `engine.py` and the scorer's arithmetic | the engine as the versions its caches were read from; page, score one, answer, import in place, rebuild |
| `ForensicsRun` | `bench/forensics.py compute_forensics`, extends `SynergyEngine` | program counter, what has been read, entries, reconciliation pairs; one action per read |
| `ScaffoldWalkProofs`, `CoordinateAscentProofs`, `TensorStoreProofs`, `ImportPipelineProofs`, `ForensicsRunProofs`, `HistoryLogProofs`, `QuestionProofs` | | inductive invariants and theorems, see 5; those of `RuleSeeding` stand at its end |
| `MC...` | | constants of the runs; `MCQuestions` also composes the questions of `BenchVerdicts`, `RuleQuestions`, `RuleInterpreter` and `RuleSeeding` into `QuestionSpec` |

Simplifications that a reader should know:

* In `ScaffoldWalk` a file is what it says about each rule, a proposal is a gap
  of the queue with a rule and a template, and the validator answers any
  severity. `Closing` gaps are those whose rule covers them; `Declarative` rules
  are those `rules_seed.json` also holds, which `registry.py` refuses to import.
  `write_text` truncates, so a file is `Partial` from its opening to its closing;
  a kill inside leaves it so, and of a file that several rules share no rule's
  lines survive that.
* In `CoordinateAscent` what `_score_split` returns (composite, NDCG and gem rate,
  of the train and of the held-out split) are six functions of the weight vector,
  chosen initially from a set of surfaces; weights and multipliers are rationals
  scaled to integers.
* In `TensorStore` a row stands for all candidates of a commander and rule, and
  a build of the source decides which rules fire.
* In `HistoryLog` a line has two halves, so that a flush may end inside it, and
  a buffer holds at least the header, which is shorter than any real buffer.
* In `ImportPipeline` parsing is an input; a card's rows are its ports, counted
  by kind without their order. The second pass takes carriers in any order.
* In `SynergyEngine` the rules a commander asks for and a card answers are part
  of the database's content; a rule is one IDF key; an import is one step
  (`ImportPipeline` looks inside it); the pair, circuit and embedding terms are
  left out. Totals are integers in units of 1/42,000,000, so that the cost term
  (a seventh of a hundredth) and the rank term are exact; a cost is a whole
  number, as `_derive_cmc` adds whole numbers. The file is
  never missing: the instant between unlink and open is left out.
* In the rule modules a filter, scope or clause is a sequence of alternatives of
  words and `raw` a set of words of the raw line; a test of the code for a
  substring is a test for a word. Weights, and what helpers write into the
  filter group beyond what a rule distinguishes, are left out. `SynergyEngine`
  still takes matches as an input, so that its caches are checked for any rules.
* In `RuleInterpreter` a column is NULL where the extractor of its port type
  leaves it unwritten; Python reads NULL as "".
* In `CausalGraph` ranks are integers: damping is 17/20 and a graph of n nodes
  counts in units of n!, which every degree divides, so that no division rounds,
  in any graph. The early stop is left out and the iterations are two.
* In `ForensicsRun` the labels are a constant map to gains and DCG stands for
  NDCG, as the ideal divides both sides; the ablations and the
  justified-divergence view are left out.

## 3. Runs

Twelve runs, seven that pass and five that exhibit a disagreement between the
code and what it says of itself.

| Run | Question | Bounds and why they are enough |
|---|---|---|
| `scaffold_walk` | Is the tree importable, restored and explained by the log whatever is killed, and does a process end? | four gaps, three rules (one of them declarative) and two templates, two walk iterations, two processes, one kill: a template blocked by one process can be met by the next, two gaps share a rule that closes only one of them, and the kill may fall inside any of the six writes of an attempt or of its restore |
| `coordinate_ascent` | Does the ascent keep its bounds, its ledger and its abstract specification? | two rules, 27 x 27 surfaces, with and without a gem rate, three sweeps: a revert after two accepts, a convergence and an abort all occur |
| `history_log` | What does a reader see after concurrent and torn appends? | two writers, four appends, two failures: a torn header and a torn row, each followed by a good append |
| `tensor_store` | Can fixtures coexist, and is anything ever half there? | two fixtures that share a commander, two processes, three repins, a batch of two so that a batch ends inside a commander list |
| `bench_verdicts` | Do the pure verdicts equal their definitions, and do the parts of the rule catalogue that say the same thing twice agree? (module `MCQuestions`, `QuestionSpec`) | every question of a bounded size: the threshold is the code's 3 over five cards, the clamp is the code's 0.01..5.0 in 1/400, tensors and histories of four rows with a window of three; twelve families of commander ports, any one or two of them in either order (`MaxPorts` 2, as a helper relates at most two ports of a commander), against three or four candidates each, with all default-off rules off and on; graphs of up to four of six cards (`MaxGraphCards`), so that two commanders, a shared neighbour and an isolated card fit; predicate trees of up to three leaves and two connectives (`MaxLeaves`, `MaxConnectives`), nested in any way, so that a placeholder stands before, between and behind parameters; two rule ids with three bodies, one of them invalid, and any order of steps |
| `import_pipeline` | What does a kill, a second import or a colliding oracle id leave? | 324 folders: three cards in every order, a carrier, a target, and a third that chains, collides or does not parse |
| `engine_forensics` | Does an engine agree with itself, and is a forensics tag true? | two database contents out of 40 pairs, in which a candidate fails each filter or lacks each kind of data; three calls of a client (a cold, a warm and a later page) or one pass with two commanders; an import, a rebuild or a repin between any two reads |
| `scaffold_pick_next` | violation, see 4 | |
| `accepted_iteration` | violation, see 4 | |
| `self_test_shipped` | violation, see 4 | |
| `history_header_race` | violation, see 4 | |
| `copy_face_chains` | violation, see 4 | |

Properties, by run:

* `scaffold_walk`: `ImportableOutsideWrites` (the package imports at every moment
  and after a kill anywhere, up to the windows of `Exposed`, see below),
  `RevertRestoresTree`, `RegisteredRulesAreLogged` (it exempts rules applied with
  `--no-validate` and those of a killed attempt, so the rule a kill leaves behind
  unvalidated is outside it), `NoUnforcedRetry`, `SummaryMatchesLog`,
  `AttemptShrinksQueue` (no attempt at a `Closing` gap is charged for a gap that
  comes back; a gap its own rule cannot cover does come back) and the liveness
  property `ProcessEnds`.
* `coordinate_ascent`: `HeldWithinDrift`, `MetricsOfWeights` (all six scores, each
  set by itself on an accept and on a revert),
  `CountersMatchHistory`, `HistoryExplainsWeights`, `AcceptedStepsClimb`,
  `ConvergedIsLocalOptimum`, and the refinement `ImplementsGuardedClimb`.
* `history_log`: `HeaderOnTop` (the header comes first however appends overlap and
  wherever they stop outside a line; for the pre-flight corpora, which test only
  that the file exists, if no append failed or overlapped), `ReadsWhatWasAppended`, `LossIsBounded` (a torn
  append costs at most the row after it).
* `tensor_store`: `WholeOrAbsent`, `FixtureBacked`, `OnlyOwnRows`,
  `GemsOfCoveredCommanders`.
* `bench_verdicts`: `CoverageOnlyHelps` (more matching cards, more legal
  commanders or a larger fixture never lower the verdict of the pre-flight gate,
  except exactly where the first entry of an empty fixture ends the pass that
  needed none; a card that is neither legal nor in the fixture changes nothing,
  but a legendary creature under an empty fixture),
  `SelfTestTells` (a pass and a refusal of the planted self-test both mean
  something), `GemsBeatHalf`,
  `BoundariesSplitGroups`, `DeltasTelescope`; and of the rules:
  `MirrorsAgree` (a rule that credits a candidate is attributable to a port of
  the commander, and the matchers of `graph_engine.py` report nothing the rules
  miss), `NarrowedScansAreWhole` (the type hints and the event index lose no
  match), `GraphMetricsAgree` (ranks stay shares of one, cached and live
  neighbourhoods agree up to the cap), `RowOrderIrrelevant` (the order of rows
  does not decide which rules apply), `CompilersAgree` (a predicate selects in
  SQL what it accepts in Python), `RoutedRulesRun` (a call that scores runs all
  routed declarative rules or none, and the current ones after a seed and a
  restart).
* `import_pipeline`: `NoStrandedPorts`, `NoHalfUniverse`, `CarriersInheritOnce`.
* `engine_forensics`: `AnswersAgree` (pages continue one another across
  imports), `FreshTagsAreTrue` (the second evaluation of the drop chain agrees
  with page()), `ErrorNeedsImport` (the reconciliation raises only if the
  database changed during the pass).

Four of these name exceptions, in definitions of their own, because the code
does differ there:

* `ImportableOutsideWrites`: a write under way of a file the package reads
  (`core.py`, `registry.py`, the scorer, the weights, or a generated module that
  one of them names); a restore, which deletes the module before it restores
  `core.py` and `registry.py`; and a declarative rule on disk that nobody has
  validated, which makes the import raise (`registry.py:979`). A kill in one of
  the three leaves a package that does not import, so that no later process
  starts until somebody repairs it.
* `MirrorsAgree`: helpers that emit under the id of another rule
  (`SecondHelpers`); two gates that ask for another port than their helper
  (`OtherShape`: the etb_self gate wants a self filter, the attack_payoffs gate
  a trigger rather than a doubler); five gates that read the first alternative
  of a filter only (`FirstAlternativeGates`). And in `EngineMirrorsRules`, about
  `graph_engine.py`: it does not select zone and counter type, nor skip effects
  on the card itself, and it matches an event without a row in the event map
  with itself, where the rules match nothing.
* `RowOrderIrrelevant`: `RowsInOrder`, the combat enhancer (first trigger), the
  doubler (last destination), the cost feeder (first sacrifice cost) and the
  affinity (first keyword of the commander).
* `CompilersAgree`: no value bound behind the placeholder (`PlaceholderLast`),
  no NULL column under NOT or compared with "" (`NullPlaysNoPart`), no word that
  differs in case only (`CasePlaysNoPart`).

Fairness. `scaffold_walk` checks liveness under `FairSpec`: weak fairness of
`Step`, the actions of a running process. A Python process that is not killed
takes its next step, and nothing in the walk waits for another process. Kills
and new processes are not fair. All other runs check safety only. Runs with
`CHECK_DEADLOCK FALSE` are of programs that end.

Each property of a passing run has a mutant of a modelled definition (a dropped
guard, a missing reset, a committed intermediate state) that violates it; the
mutants stand next to the definitions they change.

## 4. Findings

* `scaffold_pick_next`: a proposal that the pre-flight skips is written to
  neither the log nor the queue, so the walk picks it again until it has used
  its iterations (`scripts/scaffold_rule.py:2456`).
* `accepted_iteration`: the proposal names the first sweep that reached a value
  although a later one produced it (`bench/optimize.py:1375`).
* `self_test_shipped`: with the shipped weights 3.0 and 3.5 the self-test
  plants a value from which no grid cell returns (`bench/optimize.py:866`).
* `history_header_race`: two audits may both write the header
  (`bench/history.py:122`).
* `copy_face_chains`: resolving references twice adds ports when a carrier's
  reference is a carrier (`copy_face_from.py:144`).

Disagreements seen while reading that no run shows:

* `--no-validate` returns before any log record (`scripts/scaffold_rule.py:2234`
  against its docstring at 2184), and the snapshot is only in memory (2226
  against the header comment at 1941, that it "makes --apply safe to run"): a kill
  inside a write, and one inside a restore, leave a package that does not import.
* An empty fixture list is falsy in `preflight/gates.py:148` and PASS becomes
  possible (against lines 17-23); `CoverageOnlyHelps` says which rules then lose
  their PASS to the fixture's first entry.
* A torn header makes a history unreadable (`bench/history.py:201` against
  181-183); `preflight/overrides.py:69` leaves a file without a header when its
  first append is killed (against line 64).
* `bench/optimize.py:1430-1433` says that `tell()` is 0 after a non-empty file was
  opened with `"a"`, so that a tell-based header check would write the header on
  every call; `bench/history.py:102-105` rests on the opposite. CPython seeks to
  the end when it opens with `"a"`, so history.py is right and the model's "tell"
  reads the size of the file; were the other docstring true, `HeaderOnTop` would
  fail for the two audit histories at the second append.
* The tensor's hash covers no rule code, so rows of shared commanders can
  differ between pins (`bench/tensor.py:62` against 155-158), and two repins
  that share a commander can leave orphan rows (`bench/handlers.py:134` against
  `bench/tensor.py:151-153`).
* Gem keys of a commander that left EDHREC are inherited (`bench/fixture.py:342`
  against 313-315).
* Label names are normalised for misses but not for NDCG nor for the justified
  divergence, under the heading "one boundary, applied at every join"
  (`bench/forensics.py:530`).
* A card whose rules cancel exactly has no tensor rows and is tagged
  `staple_only`, though its score contains the breadth bonus of those rules
  (`bench/forensics.py:9-11`).
* The warning for a commander without a cards row (`bench/forensics.py:1831`)
  is reached only if the row disappears between two reads: page() raises first.
* The freshness digest counts rows and the largest rowid, which a rebuild of
  the same size repeats (`bench/forensics.py:1551`).
* `port_graph/rules_schema.py` counts placeholders only for a tree at path `$`;
  seeder and interpreter pass another path, so the limit that
  `tests/test_p1_hardening.py:202` tests is not applied to what they load.
* The drift check compares ids only (`_interpreter_cache.py:58`), the interpreter
  of an empty table is kept for its connection, and a rule removed from the seed
  file makes every scoring raise until the database is rebuilt, although the
  message also names `seed_rules_db` as a remedy (line 75).
* `_filter_cmdr_port` announces the exclusions of `find_trigger_feeders`
  including opponent-scoped triggers, and has no such test (`core.py:810-827`).
* The sacrifice cluster pairs name effects, but the rule looks at candidate
  triggers (`core.py:623-650` against 707-713).
* `_build_stax_exclusion` "globally" excludes cards, but the helpers of the card
  attributes do not read it (`core.py:770`).
* `explode_filter` does not split commas; alternatives after one fuse into a
  token (`attributes.py:123`).
* `find_trigger_feeders` does not select zone and counter type, so qualities that
  read them always hold (`graph_engine.py:572`).
* The prefilter of the pathway rule reads events and can drop matches of the
  filter alone (`pathway.py:287`).
* `_find_anthem_payoffs` is called by nothing (`statics.py:498`).
* The staple bonus reads the first partner's colours only
  (`universal_scorer.py:1068`), so the order of partners matters; a pair with
  one unknown name passes page()'s test for unknown commanders.

## 5. Theorems

Each theorem is proved for every value of the constants that the named
assumptions of its modules allow. The runs evaluate those assumptions on their
instances, and ran each inductive invariant as an invariant before it was
proved.

`ScaffoldWalkProofs`, for every queue, rule assignment, walk length, number of
processes and kills: `TypeCorrect`, `RevertRestores`, `StaysImportable`,
`NoRetry`, `RulesAreLogged`, `SummaryCountsLog`, `AttemptsShrinkQueue`.

* `RevertRestoresTree` speaks of one state only; it is made inductive by
  `PhaseInv` (which phase holds which position and a snapshot equal to the tree
  before the attempt) and `FrameInv` (an attempt touches its own rule only, and
  has restored every file before its position).
* Both invariants speak of `Settled`, the tree once the write under way is done:
  the tree itself has no rule's lines in that file.
* `ImportableOutsideWrites` needs `ImportInv`: the generated module is whole
  before anything names it, and the tree before the attempt was importable.
  `UnexposedImports` then shows that what a kill leaves is `Settled`, unless one
  of the windows of `Exposed` is open.
* `NoUnforcedRetry` needs `RetryInv`: what was not refused when the attempt
  began is not refused when it is recorded, as only this process appends.
* `RegisteredRulesAreLogged` needs `LogInv` about the tree before the attempt.
* `SummaryMatchesLog` needs `SummaryInv`: the records of each outcome since the
  process began are its counts and the one attempt that is recorded and not yet
  tallied.
* `AttemptShrinksQueue` is an action property. The gap leaves the queue for one
  of three reasons, and `QueueInv` keeps the facts each rests on from the pick
  to the tally: the rule is registered, the record is the last of the log, the
  template was open before it.

`CoordinateAscentProofs`, for every rule set, grid, clamp and objective:
`TypeCorrect`, `DriftBounded`, `MetricsAgree`, `CountersAgree`,
`HistoryReplays`, `StepsClimb`, `ConvergesAtOptimum` and the refinement
`AscentIsGuardedClimb`.

* `StateInv` (weights in range, metrics of the weights, drift bound) is
  inductive alone and carries the refinement: each action is a climb, a stop
  or a stutter of `GuardedClimb`.
* `LedgerInv` and `TypeInv` describe the history; `HistoryExplainsWeights`
  needs the replayed prefix, `AcceptedStepsClimb` needs that the train score
  never falls below the baseline's, and `ConvergedIsLocalOptimum` needs
  `SweptInv`: every rule passed in a sweep without an accept has no acceptable
  best cell.

`TensorStoreProofs`, for every set of fixtures, assignment of builds to hashes,
rule firing, batch size and number of processes: `WholeTensors`,
`FixturesBacked`, `RepinsKeepOthers` (an action property), `GemsAreCurrent`.

* `WholeOrAbsent` and `FixtureBacked` share one invariant, `TableInv`, because
  neither is inductive without the other's hypotheses. `TxnInv`: an open
  transaction differs from the table in rows of its own keys only. `ScoreInv`:
  what the connection sees together with the buffer is exactly the rows of the
  commanders scored so far, whatever batches were flushed. `WholeInv`: the rows
  of a key are of one build. `BackedInv`: behind what is pinned, or about to be,
  are rows of that build or a later one of the same hash.
* Two repins that hold one commander break all of that; `CrossedInv` says that
  the history variable `crossed` names every such commander, and `NewestInv`
  that who holds any other commander is of the newest build that pinned it.
* `GemInv` is separate: it is about the reference data and needs no table.

`ImportPipelineProofs`, for every folder of files, order, oracle ids and
references: `SchemaHolds`, `UniverseIsWhole`, `CarriersInherit` and
`ResolveIsIdempotent`.

* `ImportInv` has `Sound` (no port without its card, no oracle id on two cards)
  for the committed and for the working database; `CoverInv` (each file passed
  so far is in the working database or displaced by a card of its oracle id);
  and `InheritInv` (who has been resolved has exactly the target's ports,
  whichever carriers come first).
* `ResolveIsIdempotent` states what the docstring of the second pass promises,
  under the hypothesis it needs: no reference is a carrier. `copy_face_chains`
  shows the other case.

`ForensicsRunProofs`, for every history of the database, deck, identity,
fixture, label set and client: `InvHolds`, `AnswersNeverContradict`,
`ErrorsNeedImports`, `FreshTagsHold`, and the lemma `SortedRanks` that a ranking
lists each eligible card once.

* `AnswersInv`: every answer an engine ever gave is what its caches still say.
  The scores of a deck are filled once and never evicted, and what the caches
  leave open, whether a later page continues the earlier, follows from the sort
  key being a strict total order (`KeyOrder`).
* `UndisturbedInv`: as long as no import came since the pass began, all caches
  are empty or of the current version, and so is all that was reconciled.
* `ReadInv`: if all that the pass has read is version v, then each tag says what
  `page()` does on version v. It relates the two evaluations of the drop chain:
  a card without a reason in the second is in the first's legal pool.
* Totals are sums over finite sets of rules. Where such a fact needs induction,
  its hypothesis is a set of sizes, which `SetInduction` handles. Inductions
  over sequences and trees, here and in the other modules, are inductions over
  positions, which are numbers.

`HistoryLogProofs`, for every number of processes, rows per append, buffer and
appends: `HeaderStaysOnTop`, `ReaderGetsTheRows`, `TornAppendsLoseLittle` from
`LogInvariant`.

* `AloneInv` and `SharedInv` describe the file in the two regimes in which the
  reader gets what was appended: appends that do not overlap (then any buffer
  does), and appends that fit the buffer (then any overlap does, as one flush
  is one write; `BufferInv` says what is in it).
* `HeaderInv`: while the file is empty, whoever has it in hand writes the header
  first; an append that fails without tearing a line leaves whole lines or nothing.
* `LossInv`: second halves stand behind their first halves, unpaired first
  halves are no more than the torn appends, and every row of a successful append
  ends somewhere in the file. The bound follows: a row the reader misses has
  a torn piece before it on its line, a different one for each.
* What the readers compute is stated by position (the k-th line begins behind
  the k-1 line ends before it), so that no fold over the file is needed;
  `RowsOfLines` says that reading whole lines gives those lines.

`RuleSeeding`, for every set of rule ids and bodies: `RoutedRulesAreCurrent` and
`OnlyValidRowsRun`. `SeedInv` relates the four copies of a rule. `CopiesInv`:
once seeded, every row of the file is in the table, and once the process has
started, the routed ids are the active ones of the file. `HeldInv`: a cached
interpreter holds the routed rules or none, and the file's bodies if it was
filled after the start. An assumption is not needed.

`QuestionProofs` is about pure questions; each theorem has an invariant that says
what a question may hold, and the rest is about operators.

Of `BenchVerdicts`' own specification (`Spec`), for every database, tensor,
history and data set:

* `GateIsMonotone` from `GateInv`: the first corpus counts a card exactly if the
  rule matches one of the cards it ranges over, the count over the second grows
  with what it counts, and the verdict is graded by the two (`Graded`); the
  only way to lose the first is the fixture's change from "no restriction" to
  one card.
* `GemsAreRanked` from `GemInv`: the totals are folds over finite sets of keys,
  and `TensorTotals` says which cards have a positive one. The median is taken
  by its rank (`MedianByRank`: the cards below it and those up to it leave the
  middle between them), so that "at least twice the median" and "beats half of
  the positive cards" can be compared without sorting.
* `TrendSplitsGroups` and `TrendTelescopes` from `TrendInv`. The trend is a fold
  over the rows; `TrendSteps` says what one row adds, and `Shape` is what every
  prefix of it has: as many rows as were read, in their order, boundaries
  between two rows that differ and nowhere else, deltas against the row before.
  `EndsLike` relates a window of the history to the end of the whole trend. A
  fold's prefixes are numbered, so that its induction is one over numbers.
* `RoomyTestTells` from `TestInv`: `SelfTestTells` under the hypothesis that
  every weight can be doubled within the clamp or is an even one at it. Then a
  cell of the grid undoes the plant (`PlantIsUndone`), and the sweep ends on a
  cell no other beats (`SweepOutcome`). The data of `bench_verdicts` have the
  room; the weights the repository ships do not all have it, which is the
  finding of `self_test_shipped`.

Of `RuleQuestions` (`RuleSpec`, whose states are those questions of
`QuestionSpec` whose kind is "rules" or "graph"), for every list of cards:

* `GraphIsPairwise`: each of the three loops over the indexes connects the cards
  that have ports in one relation (`MappedEdges`, `UnmappedEdges`, `CostEdges`),
  and together the relations are what `match_event` says (`JoinedIsLinked`).
  That rests on two facts about the seed tables: only a catch-all trigger
  matches every effect, and no event is empty. `FeedersAreFound` follows.
* `HintsAreSound`: an alternative that a typed hint leaves out requires a base
  type the hint does not name (`BaseIsRequired`). With the two before it gives
  `ScansAreWhole`, from `RulesInv`: the filters of a commander are sequences.
* `BuiltGraph` is what the next theorems assume of a graph, and holds of every
  one that is built: finite, no loops, edges both ways. `MergedEdgesGoBothWays`,
  `DirectNeighboursAreWhole` and `TableDropsOnlyTheOutranked` follow from it.
* `IterationKeepsRanks`: what each node hands to each is a matrix; its rows add
  up to the damped ranks of the nodes with neighbours, its columns to what is
  received, and both are the same sum (`SumSwap`, with `SumAdd`, `SumScale` and
  `SumShare`). The divisions are exact because every degree divides the unit
  (`ProductDivides`). With `GraphsAreNumbered` and the theorems before it gives
  `MetricsAgree`, from `GraphInv`.
* `RulesIgnoreRowOrder`: two cards are `Alike` if they have the same columns and
  the same set of rows; `Permuted` says that their rows are the same in another
  order. Of the 71 helpers, 62 read a card through its columns and the set of
  its rows, and report the same of cards that are alike (`DensityRulesReadRows`
  and one such lemma per module). Four go through the rows one by one and
  report a card under the first row that finds it: such a loop finds something
  in every order or in none (`LoopsFindAlike`), and what it finds has one rule
  (`ScalersCredit`, `ReducersCredit`, `EntriesCredit`, `ForcersCredit`). The
  pathway walks between two rows of a card, and an edge goes both ways
  (`SelfPathsAlike`). The pair rules report the first pair that matches, and
  there is a first one if there is one (`PairRulesAlike`). The remaining four
  report only under a rule of `RowsInOrder`. With `RulesInv` it gives
  `RowOrderDoesNotMatter`.

Of `RuleInterpreter` (`QuerySpec`, the questions of kind "query"), for every set of
leaves, rows and commanders and every bound on the trees:

* `CompilersDoAgree` from `QueryInv`: what is written is a `Tree`, where a parent
  stands before its arguments. `ParamsAreBound`: as no value is bound behind the
  placeholder, the parameter at the position a node reads is the one the node
  wants. Query and gate give each node a value from those of its arguments, so
  that the two sequences of values can be compared from the last node to the
  first (`NodesAgree`): a query's node is true exactly if the gate's is, and it
  is unknown only where no NOT stands above it. `TreesAgree` reads that off the
  first node, which is the whole tree.

The assumptions are weak and checked by the runs. `ConstantsAssumption`,
`AscentAssumption`, `StoreAssumption`, `ImportAssumption` and `LogAssumption` are
the types of the constants and that a value for "nobody" is none of the
processes or cards.
`EngineAssumption` and `HistoryAssumption` add that card names and rules are
finite, that the last tie-break of the sort separates two names (the names are
unique in `cards`), that the window the forensics asks for (1,000,000) is at
least the number of cards, and that costs and ranks are whole numbers or absent.
`ForensicsAssumption` adds that the label window is not larger than that window,
the near window not smaller than the label window, and that a fixture names a
commander once. `VerdictAssumption` adds that the cards of a database are
finite and that a history row's rate is an integer or missing, and
`RuleAssumption` that the filters of ports are sequences of alternatives of words
and that a candidate has the columns of its table and its rows in some order.
`InterpreterAssumption` says that a leaf is no connective, that its fields pair a
column with a value, and that only a comparison has any.

Only model-checked:

* `ProcessEnds`, a liveness property.
* `SelfTestTells` where the weights leave no room; there it need not hold.
* `MirrorsAgree`: it compares conditions that were written twice, helper by
  helper, and holds of the ports and candidates of the run's families; for
  other columns than the extractors write, some of the conditions differ.

## 6. Plan and what is not modelled

Done, in this order: the walk with its log and gate; the optimizer with its
abstract specification; the histories; the tensor; the verdicts; the import;
the engine with forensics; the complement rules, the port graph and the causal
graph.

Next, proofs: the rows that `strongest` keeps in `GraphMatches` and the blocked
triggers of `find_replacement_conflicts`; then `MirrorsAgree`, which first needs
an invariant that says which columns each kind of port has.

Next, models: portfolio selection, quality-gate precedence, the coverage queue
and its baseline gate, and the identity comparison of audits, as further
questions of `BenchVerdicts`.

Hazards no property covers, beyond those listed in `PROJECT.json`: a record torn
by a kill in `docs/rule_attempts.jsonl` makes every later read raise
(`scripts/_attempt_log.py:86`); a history row torn inside its last cell reads
as whole (`bench/history.py:245`); a kill inside `write_text` leaves a fixture
no repin can read (`bench/fixture.py:167`); a fixture that lost a commander
leaves its rows at the hash (`bench/tensor.py:194`).

Not planned: the parsers beyond their filters (text to rows), floating-point
iteration (SVD, PPMI, the numpy variant of PageRank), rendering of reports, and
command-line dispatch. The reason for each is in `PROJECT.json` under its
component.
