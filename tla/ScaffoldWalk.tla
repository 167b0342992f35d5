---------------------------- MODULE ScaffoldWalk ----------------------------
(***************************************************************************)
(* scripts/scaffold_rule.py --apply: pick a coverage gap, write the rule's *)
(* files one after the other, validate, keep or restore them, and append   *)
(* the outcome to the attempt log.  --walk N repeats this N times in one   *)
(* process; the process may be killed anywhere, inside a file write too,   *)
(* and another may be started later on the working tree it left.           *)
(***************************************************************************)
EXTENDS AttemptLog

CONSTANTS
    Queue,       \* the gaps in the order of their impact, best first
    RuleOf,      \* the rule_id the generator derives from a gap
    TemplateOf,  \* the template _propose matches a gap with
    Closing,     \* the gaps whose own rule, once registered, covers them fully
    Severity,    \* the pre-flight verdict of a gap: "PASS", "WARN" or "REJECT"
    Declarative, \* the rules among them that rules_seed.json also holds
    MaxWalk,     \* bound: the largest N of --walk N
    MaxSessions, \* bound: processes started
    MaxCrashes,  \* bound: processes killed
    NoGap,       \* content of a file that holds nothing of a rule
    Partial      \* content of a file whose write was cut short, or is under way

Gaps      == {Queue[i] : i \in DOMAIN Queue}
Rules     == {RuleOf[g] : g \in Gaps}
Templates == {TemplateOf[g] : g \in Gaps}
Verdicts  == {"positive", "trivial", "marginal", "failed"}

\* The files an attempt writes.  helper and test belong to the rule; the other
\* four hold a few lines of every rule.
Files == {"helper", "test", "core", "registry", "scorer", "weights"}

OwnFiles    == {"helper", "test"}
SharedFiles == Files \ OwnFiles

\* What later edits of these lists could get wrong: the module written last, the
\* weights file forgotten, only the generated files deleted.
HelperLast    == <<"test", "core", "registry", "scorer", "weights", "helper">>
WeightsKept   == <<"helper", "test", "core", "registry", "scorer">>
OwnFilesOnly  == <<"helper", "test">>

\* apply_artifacts writes in this order, _restore_state follows _affected_paths,
\* whose seventh entry, generated/__init__.py, holds nothing of a rule and is left
\* out.
ApplyOrder    == <<"helper", "test", "core", "registry", "scorer", "weights">>
AffectedPaths == <<"helper", "test", "core", "registry", "scorer", "weights">>

ASSUME ConstantsAssumption ==
    /\ Queue \in Seq(Gaps)
    /\ NoGap \notin Gaps /\ Partial \notin Gaps /\ NoGap # Partial
    /\ DOMAIN RuleOf = Gaps
    /\ DOMAIN TemplateOf = Gaps
    /\ Closing \subseteq Gaps /\ Declarative \subseteq Rules
    /\ Severity \in [Gaps -> {"PASS", "WARN", "REJECT"}]
    /\ MaxWalk \in Nat /\ MaxSessions \in Nat /\ MaxCrashes \in Nat

VARIABLES
    tree,      \* tree[f][r]: the gap whose artifact put rule r into file f
    log,       \* docs/rule_attempts.jsonl
    rows,      \* .audit/walker_outcomes.csv
    pc,        \* what the process does next; "idle": no process
    opts,      \* its command line: mode, validate, force, strict
    left,      \* iterations the walk has left
    gap,       \* the proposal being worked on
    gates,     \* rules in the RULE_GATES tuple the process has loaded
    snapshot,  \* what _capture_state read
    at,        \* the next file, an index of ApplyOrder or AffectedPaths
    open,      \* write_text has truncated that file and not closed it yet
    text,      \* what it is about to hold, [Rules -> content]
    outcome,   \* what the attempt came to
    counts,    \* the walk summary
    \* history, read by no action's guard
    before,       \* the tree when the attempt started
    logStart,     \* Len(log) when the process started
    forced,       \* indexes of log records written under --force
    trusted,      \* rules kept under --no-validate
    killed,       \* rules whose attempt was killed before it was logged
    torn,         \* the last process was killed while the tree was exposed
    sessions, crashes

disk    == <<tree, log, rows>>
process == <<pc, opts, left, gap, gates, snapshot, at, open, text, outcome, counts>>
history == <<before, logStart, forced, trusted, killed, torn, sessions, crashes>>
vars    == <<disk, process, history>>

-----------------------------------------------------------------------------
NoText   == [r \in Rules |-> NoGap]
NoFiles  == [f \in Files |-> NoText]
NoCounts == [o \in Outcomes |-> 0]
NoOpts   == [mode |-> "none", validate |-> TRUE, force |-> FALSE, strict |-> FALSE]

RegisteredIn(t) == {r \in Rules : t["registry"][r] \in Gaps}
Registered      == RegisteredIn(tree)

\* core.py or registry.py imports the rule's module.
NamedIn(t, r) == t["core"][r] \in Gaps \/ t["registry"][r] \in Gaps

\* registry.py raises ValueError if a gate's id is also declarative.
DualPath(t) == RegisteredIn(t) \cap Declarative # {}

\* The package imports: core.py, registry.py, the scorer and the weights it loads
\* are whole, and so is every generated module they name.
ImportableTree(t) ==
    /\ \A f \in SharedFiles, r \in Rules : t[f][r] # Partial
    /\ \A r \in Rules : NamedIn(t, r) => t["helper"][r] \in Gaps
    /\ ~DualPath(t)

Importable == ImportableTree(tree)

\* A gap stays in the queue while some commander with its signature activates
\* no loaded gate.
Eligible(loaded, g) == ~(g \in Closing /\ RuleOf[g] \in loaded)

Pickable(loaded, aLog, g) ==
    /\ Eligible(loaded, g)
    /\ ~IsTemplateBlocked(aLog, TemplateOf[g])
    /\ ~IsKnownBad(aLog, TemplateOf[g], RuleOf[g])

\* _pick_top_proposal returns the first of these, or None.
Candidates(loaded, aLog) ==
    {i \in DOMAIN Queue : Pickable(loaded, aLog, Queue[i])}

IsTop(i, S) == i \in S /\ \A j \in S : i <= j

Append1(aLog, g, o) == Append(aLog, Record(TemplateOf[g], RuleOf[g], o))

Row(file, g, result) == [file |-> file, gap |-> g, result |-> result]

Init ==
    /\ tree = NoFiles
    /\ log = <<>>
    /\ rows = <<>>
    /\ pc = "idle"
    /\ opts = NoOpts
    /\ left = 0
    /\ gap = NoGap
    /\ gates = {}
    /\ snapshot = NoFiles
    /\ at = 0 /\ open = FALSE /\ text = NoText
    /\ outcome = "none"
    /\ counts = NoCounts
    /\ before = NoFiles
    /\ logStart = 0
    /\ forced = {}
    /\ trusted = {}
    /\ killed = {}
    /\ torn = FALSE
    /\ sessions = 0
    /\ crashes = 0

-----------------------------------------------------------------------------
(* main(): the three ways to start a process.  The script imports the       *)
(* registry, so a tree that does not import cannot start one.               *)

Start(mode, n, validate, force, strict, g, next) ==
    /\ pc = "idle"
    /\ sessions < MaxSessions
    /\ Importable
    /\ opts' = [mode |-> mode, validate |-> validate, force |-> force, strict |-> strict]
    /\ left' = n
    /\ gap' = g
    /\ pc' = next
    /\ gates' = Registered
    /\ logStart' = Len(log)
    /\ sessions' = sessions + 1
    /\ torn' = FALSE
    /\ UNCHANGED <<disk, snapshot, at, open, text, outcome, counts,
                   before, forced, trusted, killed, crashes>>

StartWalk ==
    \E n \in 2..MaxWalk, validate, force, strict \in BOOLEAN :
        Start("walk", n, validate, force, strict, NoGap, "pick")

StartSingle ==
    \E validate, force \in BOOLEAN :
        Start("single", 1, validate, force, FALSE, NoGap, "pick")

\* --template: no picker, so the log's verdict is only asked in _attempt_one.
StartTemplate ==
    \E g \in Gaps, validate, force \in BOOLEAN :
        Start("template", 1, validate, force, FALSE, g, "check")

\* Nothing of a process outlives it.
EndProcess ==
    /\ pc' = "idle"
    /\ opts' = NoOpts
    /\ left' = 0
    /\ gap' = NoGap
    /\ gates' = {}
    /\ snapshot' = NoFiles
    /\ at' = 0 /\ open' = FALSE /\ text' = NoText
    /\ outcome' = "none"
    /\ counts' = NoCounts
    /\ before' = NoFiles

Finish ==
    /\ pc = "pick"
    /\ left = 0 \/ Candidates(gates, log) = {}
    /\ EndProcess
    /\ UNCHANGED <<disk, logStart, forced, trusted, killed, torn, sessions, crashes>>

\* Mutation: one iteration too many.
PickPastLimit ==
    /\ pc = "pick"
    /\ \E i \in DOMAIN Queue :
          /\ IsTop(i, Candidates(gates, log))
          /\ gap' = Queue[i]
    /\ pc' = IF opts.mode = "walk" THEN "preflight" ELSE "check"
    /\ UNCHANGED <<disk, opts, left, gates, snapshot, at, open, text, outcome, counts, history>>

Pick ==
    /\ pc = "pick"
    /\ left > 0
    /\ \E i \in DOMAIN Queue :
          /\ IsTop(i, Candidates(gates, log))
          /\ gap' = Queue[i]
    /\ pc' = IF opts.mode = "walk" THEN "preflight" ELSE "check"
    /\ UNCHANGED <<disk, opts, left, gates, snapshot, at, open, text, outcome, counts, history>>

-----------------------------------------------------------------------------
(* The pre-flight verdict, asked in walk mode only.                         *)

\* Mutation: a skipped proposal does not use up an iteration.
SkipForFree ==
    /\ pc = "preflight"
    /\ Severity[gap] = "REJECT"
    /\ rows' = rows
    /\ counts' = counts
    /\ gates' = Registered
    /\ pc' = "pick"
    /\ UNCHANGED <<tree, log, left, opts, gap, snapshot, at, open, text, outcome, history>>

\* A REJECT is skipped; so is a WARN under --strict-warn without --force.
SkipFlagged ==
    /\ pc = "preflight"
    /\ \/ Severity[gap] = "REJECT"
       \/ Severity[gap] = "WARN" /\ opts.strict /\ ~opts.force
    /\ rows' = Append(rows, Row("outcomes", gap, "not_attempted"))
    /\ counts' = [counts EXCEPT !["skipped"] = @ + 1]
    /\ gates' = Registered
    /\ left' = left - 1
    /\ pc' = "pick"
    /\ UNCHANGED <<tree, log, opts, gap, snapshot, at, open, text, outcome, history>>

AttemptFlagged ==
    /\ pc = "preflight"
    /\ \/ Severity[gap] = "PASS"
       \/ Severity[gap] = "WARN" /\ ~(opts.strict /\ ~opts.force)
    /\ rows' = IF Severity[gap] = "WARN" /\ opts.strict
                 THEN Append(rows, Row("overrides", gap, "forced"))
                 ELSE rows
    /\ pc' = "check"
    /\ UNCHANGED <<tree, log, opts, left, gap, gates, snapshot, at, open, text, outcome, counts,
                   history>>

-----------------------------------------------------------------------------
(* _attempt_one                                                             *)

\* Mutation: the rule's own history is asked by the picker alone.
RefusedByTemplate == IsTemplateBlocked(log, TemplateOf[gap])

Refused == \/ IsKnownBad(log, TemplateOf[gap], RuleOf[gap])
           \/ IsTemplateBlocked(log, TemplateOf[gap])

Refuse ==
    /\ pc = "check"
    /\ ~opts.force
    /\ Refused
    /\ log' = Append1(log, gap, "skipped")
    /\ outcome' = "skipped"
    /\ pc' = "tally"
    /\ UNCHANGED <<tree, rows, opts, left, gap, gates, snapshot, at, open, text, counts, history>>

CaptureState ==
    /\ pc = "check"
    /\ opts.force \/ ~Refused
    /\ snapshot' = IF opts.validate THEN tree ELSE NoFiles
    /\ at' = 1
    /\ pc' = "apply"
    /\ before' = tree
    /\ UNCHANGED <<disk, opts, left, gap, gates, open, text, outcome, counts,
                   logStart, forced, trusted, killed, torn, sessions, crashes>>

-----------------------------------------------------------------------------
(* One file after the other.  Path.write_text truncates the file when it     *)
(* opens it; the new text, made up before, is there when it has closed it.   *)
(* A kill in between leaves a part of it or nothing; of a file that several   *)
(* rules share, no rule's lines can be relied on then.                       *)

Current == IF pc = "apply" THEN ApplyOrder[at] ELSE AffectedPaths[at]

Truncated(f) == IF f \in OwnFiles THEN [tree[f] EXCEPT ![RuleOf[gap]] = Partial]
                                 ELSE [r \in Rules |-> Partial]

OpenFile(f, content) ==
    /\ ~open /\ open' = TRUE
    /\ text' = content
    /\ tree' = [tree EXCEPT ![f] = Truncated(f)]
    /\ UNCHANGED <<log, rows, pc, opts, left, gap, gates, snapshot, at, outcome, counts,
                   history>>

CloseFile ==
    /\ open /\ open' = FALSE
    /\ tree' = [tree EXCEPT ![Current] = text]
    /\ text' = NoText
    /\ at' = at + 1
    /\ UNCHANGED <<log, rows, pc, opts, left, gap, gates, snapshot, outcome, counts, history>>

\* The rule's own two files are overwritten; the four patches are idempotent.
Patches(f) == f \in OwnFiles \/ tree[f][RuleOf[gap]] = NoGap

PatchFile ==
    /\ pc = "apply"
    /\ at <= Len(ApplyOrder)
    /\ Patches(ApplyOrder[at])
    /\ OpenFile(ApplyOrder[at], [tree[ApplyOrder[at]] EXCEPT ![RuleOf[gap]] = gap])

SkipPatch ==
    /\ pc = "apply"
    /\ at <= Len(ApplyOrder)
    /\ ~open
    /\ ~Patches(ApplyOrder[at])
    /\ at' = at + 1
    /\ UNCHANGED <<disk, pc, opts, left, gap, gates, snapshot, open, text, outcome, counts,
                   history>>

\* --no-validate: "we trust the user", and nothing is recorded.
TrustUser ==
    /\ pc = "apply"
    /\ at > Len(ApplyOrder)
    /\ ~opts.validate
    /\ outcome' = "passed"
    /\ pc' = "tally"
    /\ trusted' = trusted \cup {RuleOf[gap]}
    /\ UNCHANGED <<disk, opts, left, gap, gates, snapshot, at, open, text, counts,
                   before, logStart, forced, killed, torn, sessions, crashes>>

OutcomeOf == [positive |-> "passed", trivial |-> "trivial",
              marginal |-> "marginal", failed |-> "reverted"]

\* The validator runs in a process of its own and reads the files: a rule it
\* passes imports and is registered.
Validate ==
    /\ pc = "apply"
    /\ at > Len(ApplyOrder)
    /\ opts.validate
    /\ \E verdict \in Verdicts :
          /\ verdict # "failed" => Importable /\ RuleOf[gap] \in Registered
          /\ outcome' = OutcomeOf[verdict]
          /\ IF verdict = "failed"
               THEN pc' = "restore" /\ at' = 1
               ELSE pc' = "record" /\ at' = 0
    /\ UNCHANGED <<disk, opts, left, gap, gates, snapshot, open, text, counts, history>>

\* A file that was not there when it was captured is deleted, the others are
\* written back.
Unlinks(f) == f \in OwnFiles /\ snapshot[f][RuleOf[gap]] = NoGap

UnlinkFile ==
    /\ pc = "restore"
    /\ at <= Len(AffectedPaths)
    /\ ~open
    /\ Unlinks(AffectedPaths[at])
    /\ tree' = [tree EXCEPT ![AffectedPaths[at]][RuleOf[gap]] = NoGap]
    /\ at' = at + 1
    /\ UNCHANGED <<log, rows, pc, opts, left, gap, gates, snapshot, open, text, outcome, counts,
                   history>>

Captured(f) == IF f \in OwnFiles
                 THEN [tree[f] EXCEPT ![RuleOf[gap]] = snapshot[f][RuleOf[gap]]]
                 ELSE snapshot[f]

RestoreFile ==
    /\ pc = "restore"
    /\ at <= Len(AffectedPaths)
    /\ ~Unlinks(AffectedPaths[at])
    /\ OpenFile(AffectedPaths[at], Captured(AffectedPaths[at]))

\* Mutation: a kept rule without impact is not recorded.
RecordUnlessTrivial ==
    /\ \/ pc = "record"
       \/ pc = "restore" /\ at > Len(AffectedPaths)
    /\ log' = IF outcome = "trivial" THEN log ELSE Append1(log, gap, outcome)
    /\ forced' = IF opts.force THEN forced \cup {Len(log) + 1} ELSE forced
    /\ pc' = "tally"
    /\ UNCHANGED <<tree, rows, opts, left, gap, gates, snapshot, at, open, text, outcome, counts,
                   before, logStart, trusted, killed, torn, sessions, crashes>>

RecordAttempt ==
    /\ \/ pc = "record"
       \/ pc = "restore" /\ at > Len(AffectedPaths)
    /\ log' = Append1(log, gap, outcome)
    /\ forced' = IF opts.force THEN forced \cup {Len(log) + 1} ELSE forced
    /\ pc' = "tally"
    /\ UNCHANGED <<tree, rows, opts, left, gap, gates, snapshot, at, open, text, outcome, counts,
                   before, logStart, trusted, killed, torn, sessions, crashes>>

-----------------------------------------------------------------------------
\* Mutation: the process goes on with the RULE_GATES it imported.
TallyStaleRegistry ==
    /\ pc = "tally"
    /\ opts.mode = "walk"
    /\ counts' = [counts EXCEPT ![outcome] = @ + 1]
    /\ rows' = rows
    /\ left' = left - 1
    /\ pc' = "pick"
    /\ UNCHANGED <<tree, log, gates, opts, gap, snapshot, at, open, text, outcome, history>>

\* End of a walk iteration: the summary, the calibration row, a fresh registry.
TallyWalk ==
    /\ pc = "tally"
    /\ opts.mode = "walk"
    /\ ~DualPath(tree)
    /\ counts' = [counts EXCEPT ![outcome] = @ + 1]
    /\ rows' = IF Severity[gap] # "PASS"
                 THEN Append(rows, Row("outcomes", gap, outcome)) ELSE rows
    /\ gates' = Registered
    /\ left' = left - 1
    /\ pc' = "pick"
    /\ UNCHANGED <<tree, log, opts, gap, snapshot, at, open, text, outcome, history>>

\* _refresh_registry imports the registry anew: one that holds a declarative rule
\* raises, and the walk ends with it.
RefreshFails ==
    /\ pc = "tally"
    /\ opts.mode = "walk"
    /\ DualPath(tree)
    /\ rows' = IF Severity[gap] # "PASS"
                 THEN Append(rows, Row("outcomes", gap, outcome)) ELSE rows
    /\ EndProcess
    /\ UNCHANGED <<tree, log, logStart, forced, trusted, killed, torn, sessions, crashes>>

ReturnSingle ==
    /\ pc = "tally"
    /\ opts.mode # "walk"
    /\ EndProcess
    /\ UNCHANGED <<disk, logStart, forced, trusted, killed, torn, sessions, crashes>>

\* What a kill turns into a package that does not import: a write under way of a
\* file the package reads, a restore, and a declarative rule not yet validated.
Exposed ==
    \/ pc = "restore"
    \/ open /\ Current \in SharedFiles
    \/ open /\ Current = "helper" /\ NamedIn(tree, RuleOf[gap])
    \/ pc = "apply" /\ RuleOf[gap] \in Declarative

\* The process dies (Ctrl-C, kill, power): only the disk survives.
Crash ==
    /\ pc # "idle"
    /\ crashes < MaxCrashes
    /\ EndProcess
    /\ crashes' = crashes + 1
    /\ torn' = Exposed
    /\ killed' = IF pc \in {"apply", "restore", "record"}
                   THEN killed \cup {RuleOf[gap]} ELSE killed
    /\ UNCHANGED <<disk, logStart, forced, trusted, sessions>>

WriteStep == PatchFile \/ SkipPatch \/ RestoreFile \/ UnlinkFile \/ CloseFile

Attempt == Refuse \/ CaptureState \/ WriteStep \/ TrustUser \/ Validate \/ RecordAttempt

Step == \/ Finish \/ Pick \/ SkipFlagged \/ AttemptFlagged
        \/ Attempt \/ TallyWalk \/ RefreshFails \/ ReturnSingle

Next == StartWalk \/ StartSingle \/ StartTemplate \/ Step \/ Crash

Spec     == Init /\ [][Next]_vars
\* A started process runs on; nobody has to start one or kill one.
FairSpec == Spec /\ WF_vars(Step)

-----------------------------------------------------------------------------
TextType == [Rules -> Gaps \cup {NoGap, Partial}]
TreeType == [Files -> TextType]

RecordType == [template : Templates, rule : Rules, outcome : Outcomes]

RowType == [file : {"outcomes", "overrides"}, gap : Gaps,
            result : Outcomes \cup {"not_attempted", "forced"}]

PcType == {"idle", "pick", "preflight", "check", "apply", "record", "restore", "tally"}

OptsType == [mode : {"none", "walk", "single", "template"},
             validate : BOOLEAN, force : BOOLEAN, strict : BOOLEAN]

\* Every variable holds a value of its kind; from the pick to the end of an attempt
\* there is a proposal in hand and an iteration to charge it to.
TypeOK ==
    /\ tree \in TreeType /\ snapshot \in TreeType /\ before \in TreeType
    /\ log \in Seq(RecordType)
    /\ rows \in Seq(RowType)
    /\ pc \in PcType
    /\ opts \in OptsType
    /\ left \in Nat
    /\ gap \in Gaps \cup {NoGap}
    /\ gates \subseteq Rules
    /\ at \in Nat /\ open \in BOOLEAN /\ text \in TextType
    /\ outcome \in Outcomes \cup {"none"}
    /\ counts \in [Outcomes -> Nat]
    /\ logStart \in Nat /\ forced \subseteq Nat /\ trusted \subseteq Rules /\ killed \subseteq Rules
    /\ torn \in BOOLEAN /\ sessions \in Nat /\ crashes \in Nat
    /\ pc \in {"preflight", "check", "apply", "record", "restore", "tally"} =>
          gap \in Gaps /\ left > 0
    /\ pc \in {"record", "restore", "tally"} => outcome \in Outcomes
    /\ pc \in {"apply", "restore"} => at > 0

\* The package imports at every moment, whoever is killed where, up to three
\* windows: a write under way of a file it reads, a restore, which deletes the
\* module first, and a declarative rule nobody validated.  Between two writes of an
\* attempt the order carries it: the module is whole before anything names it.
ImportableOutsideWrites ==
    ~torn /\ ~Exposed /\ trusted \cap Declarative = {} => Importable

\* A reverted attempt leaves every file, the other rules' lines included, as it
\* found it, also when an earlier gap of the same rule had been kept.
RevertRestoresTree == pc = "tally" /\ outcome = "reverted" => tree = before

KeptOutcomes == {"passed", "trivial", "marginal"}

LoggedKept(r) == \E i \in DOMAIN log : log[i].rule = r /\ log[i].outcome \in KeptOutcomes

\* Between attempts, a rule the registry holds was logged as kept, unless it was
\* applied without validation or its attempt was killed.
RegisteredRulesAreLogged ==
    pc \notin {"apply", "record", "restore"} =>
        \A r \in Registered \ (trusted \cup killed) : LoggedKept(r)

\* Without --force no rule is tried again after a blocking outcome and no
\* template after its pass rate sank, across all processes that share the log.
NoUnforcedRetry ==
    \A j \in DOMAIN log \ forced :
        log[j].outcome \in FreshOutcomes =>
            LET earlier == SubSeq(log, 1, j - 1)
            IN  /\ ~IsKnownBad(earlier, log[j].template, log[j].rule)
                /\ ~IsTemplateBlocked(earlier, log[j].template)

Logged(o) == Cardinality({i \in (logStart + 1)..Len(log) : log[i].outcome = o})

\* The walk summary agrees with what the walk appended to the log.
SummaryMatchesLog ==
    pc = "pick" /\ opts.mode = "walk" =>
        /\ \A o \in BlockingOutcomes : counts[o] = Logged(o)
        /\ opts.validate => counts["passed"] = Logged("passed")
        /\ ~opts.validate => Logged("passed") = 0

LastLogged == IF opts.validate \/ outcome = "skipped" THEN SubSeq(log, 1, Len(log) - 1) ELSE log

\* Each attempt of a walk at a gap that its own rule can cover takes it out of the
\* queue and puts none back: the gap is either covered by the rule that was kept
\* or blocked by the log.  (A gap no rule of its own covers comes back.)
AttemptShrinksQueue ==
    [][ pc = "tally" /\ pc' = "pick" /\ gap \in Closing =>
          Candidates(gates', log') \subseteq
              {i \in Candidates(gates, LastLogged) : Queue[i] # gap} ]_vars

\* "--walk: try N proposals in a row, picking the next one after each": a gap
\* the pre-flight made the walk skip is not at the head of the queue again.
SkippedGapIsPassedOver ==
    [][ pc = "preflight" /\ pc' = "pick" =>
          ~\E i \in Candidates(gates', log') :
               IsTop(i, Candidates(gates', log')) /\ Queue[i] = gap ]_vars

\* A process that is not killed comes to an end.
ProcessEnds == pc # "idle" ~> pc = "idle"
=============================================================================
