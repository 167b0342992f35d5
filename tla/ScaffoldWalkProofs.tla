------------------------- MODULE ScaffoldWalkProofs -------------------------
(* Proofs about ScaffoldWalk for every queue, generator and verdict.        *)
EXTENDS ScaffoldWalk, FiniteSetTheorems, TLAPS

LEMMA RuleOfGap == ASSUME NEW g \in Gaps PROVE RuleOf[g] \in Rules /\ TemplateOf[g] \in Templates
BY DEF Rules, Templates

LEMMA RecordIsTyped ==
    ASSUME log \in Seq(RecordType), NEW g \in Gaps, NEW o \in Outcomes
    PROVE  Append1(log, g, o) \in Seq(RecordType)
<1>1. Record(TemplateOf[g], RuleOf[g], o) \in RecordType
  BY RuleOfGap DEF Record, RecordType
<1> QED BY <1>1 DEF Append1

LEMMA NoFilesTyped == NoFiles \in TreeType /\ NoText \in TextType
BY DEF NoFiles, NoText, TreeType, TextType

LEMMA RegisteredTyped == Registered \subseteq Rules
BY DEF Registered, RegisteredIn

LEMMA FilesInOrder ==
    /\ Len(ApplyOrder) = 6 /\ Len(AffectedPaths) = 6
    /\ \A j \in 1..6 : ApplyOrder[j] \in Files /\ AffectedPaths[j] \in Files
    /\ \A f \in Files : \E j \in 1..6 : AffectedPaths[j] = f
    /\ ApplyOrder[1] = "helper" /\ AffectedPaths[1] = "helper"
    /\ \A j \in 2..6 : ApplyOrder[j] # "helper" /\ AffectedPaths[j] # "helper"
    /\ ApplyOrder[4] = "registry" /\ \A j \in (1..6) \ {4} : ApplyOrder[j] # "registry"
BY DEF ApplyOrder, AffectedPaths, Files

\* Opening a file leaves a tree, and a text to write.
LEMMA OpenTyped ==
    ASSUME tree \in TreeType, gap \in Gaps, NEW f \in Files, NEW content \in TextType,
           OpenFile(f, content)
    PROVE  tree' \in TreeType /\ text' \in TextType /\ open' = TRUE
<1>1. tree[f] \in TextType /\ RuleOf[gap] \in Rules BY RuleOfGap DEF TreeType
<1>2. Truncated(f) \in TextType BY <1>1 DEF Truncated, TextType
<1> QED BY <1>2 DEF OpenFile, TreeType

\* A process that ends leaves a typed idle state.
LEMMA EndTyped ==
    ASSUME EndProcess
    PROVE  /\ snapshot' \in TreeType /\ before' \in TreeType
           /\ pc' = "idle" /\ opts' \in OptsType /\ left' \in Nat
           /\ gap' \in Gaps \cup {NoGap} /\ gates' \subseteq Rules
           /\ at' \in Nat /\ open' = FALSE /\ text' \in TextType
           /\ outcome' \in Outcomes \cup {"none"} /\ counts' \in [Outcomes -> Nat]
BY NoFilesTyped DEF EndProcess, NoOpts, OptsType, NoCounts

\* Type correctness of the scaffolder, and that an attempt always has its gap.
THEOREM TypeCorrect == Spec => []TypeOK
<1>1. Init => TypeOK
  <2> SUFFICES ASSUME Init PROVE TypeOK
    OBVIOUS
  <2>1. log \in Seq(RecordType) /\ rows \in Seq(RowType) BY DEF Init
  <2>2. opts \in OptsType BY DEF Init, NoOpts, OptsType
  <2>3. counts \in [Outcomes -> Nat] BY DEF Init, NoCounts
  <2> QED BY NoFilesTyped, <2>1, <2>2, <2>3 DEF Init, TypeOK, PcType
<1>2. TypeOK /\ [Next]_vars => TypeOK'
  <2> SUFFICES ASSUME TypeOK, [Next]_vars PROVE TypeOK'
    OBVIOUS
  <2>1. ASSUME NEW mode \in {"walk", "single", "template"}, NEW n \in Nat \ {0},
               NEW v \in BOOLEAN, NEW fo \in BOOLEAN, NEW st \in BOOLEAN,
               NEW g \in Gaps \cup {NoGap}, NEW next \in {"pick", "check"},
               next = "check" => g \in Gaps,
               Start(mode, n, v, fo, st, g, next)
        PROVE  TypeOK'
    <3> USE RegisteredTyped DEF TypeOK, disk
    <3>1. opts' \in OptsType BY <2>1 DEF Start, OptsType
    <3>2. logStart' \in Nat BY <2>1 DEF Start
    <3>3. /\ UNCHANGED <<disk, snapshot, at, open, text, outcome, counts, before, forced, trusted,
                         killed, crashes>>
          /\ left' = n /\ gap' = g /\ pc' = next /\ gates' = Registered
          /\ sessions' = sessions + 1 /\ torn' = FALSE
      BY <2>1 DEF Start
    <3>4. left' \in Nat /\ gap' \in Gaps \cup {NoGap} /\ sessions' \in Nat BY <2>1, <3>3
    <3>5. pc' \in PcType /\ pc' \notin {"apply", "record", "restore", "tally", "preflight"}
          /\ (pc' = "check" => gap' \in Gaps /\ left' > 0)
      BY <2>1, <3>3 DEF PcType
    <3> QED BY <3>1, <3>2, <3>3, <3>4, <3>5
  <2>2. CASE StartWalk
    <3>1. PICK n \in 2..MaxWalk, v \in BOOLEAN, fo \in BOOLEAN, st \in BOOLEAN :
             Start("walk", n, v, fo, st, NoGap, "pick")
      BY <2>2 DEF StartWalk
    <3>2. n \in Nat \ {0} BY ConstantsAssumption
    <3> QED BY <2>1, <3>1, <3>2
  <2>3. CASE StartSingle
    <3>1. PICK v \in BOOLEAN, fo \in BOOLEAN : Start("single", 1, v, fo, FALSE, NoGap, "pick")
      BY <2>3 DEF StartSingle
    <3>2. 1 \in Nat \ {0} /\ FALSE \in BOOLEAN /\ "pick" # "check"
      OBVIOUS
    <3> QED BY <2>1, <3>1, <3>2, Zenon
  <2>4. CASE StartTemplate
    <3>1. PICK g \in Gaps, v \in BOOLEAN, fo \in BOOLEAN :
             Start("template", 1, v, fo, FALSE, g, "check")
      BY <2>4 DEF StartTemplate
    <3>2. 1 \in Nat \ {0} /\ FALSE \in BOOLEAN
      OBVIOUS
    <3> QED BY <2>1, <3>1, <3>2, Zenon
  <2> USE RuleOfGap, RegisteredTyped DEF TypeOK, disk, process, history
  <2>5. CASE Finish BY <2>5, EndTyped DEF Finish, PcType
  <2>6. CASE Pick
    <3>1. gap' \in Gaps BY <2>6 DEF Pick, Gaps
    <3> QED BY <2>6, <3>1 DEF Pick, PcType
  <2>7. CASE SkipFlagged
    <3>1. rows' \in Seq(RowType) BY <2>7 DEF SkipFlagged, Row, RowType
    <3>2. counts' \in [Outcomes -> Nat]
      BY <2>7 DEF SkipFlagged, Outcomes
    <3> QED BY <2>7, <3>1, <3>2 DEF SkipFlagged, PcType
  <2>8. CASE AttemptFlagged
    <3>1. rows' \in Seq(RowType)
      <4>1. gap \in Gaps BY <2>8 DEF AttemptFlagged
      <4>2. Row("overrides", gap, "forced") \in RowType BY <4>1 DEF Row, RowType
      <4> QED BY <2>8, <4>2 DEF AttemptFlagged
    <3> QED BY <2>8, <3>1 DEF AttemptFlagged, PcType
  <2>9. CASE Refuse
    <3>1. log' \in Seq(RecordType) BY <2>9, RecordIsTyped DEF Refuse, Outcomes
    <3> QED BY <2>9, <3>1 DEF Refuse, PcType, Outcomes
  <2>10. CASE CaptureState BY <2>10, NoFilesTyped DEF CaptureState, PcType
  <2>11. CASE PatchFile
    <3> DEFINE f == ApplyOrder[at]
               content == [tree[f] EXCEPT ![RuleOf[gap]] = gap]
    <3>1. at \in 1..6 /\ gap \in Gaps /\ pc = "apply" /\ OpenFile(f, content)
      BY <2>11, FilesInOrder DEF PatchFile
    <3>2. f \in Files BY <3>1, FilesInOrder
    <3>3. content \in TextType BY <3>1, <3>2 DEF TreeType, TextType
    <3> HIDE DEF f, content
    <3>4. tree' \in TreeType /\ text' \in TextType /\ open' = TRUE BY <3>1, <3>2, <3>3, OpenTyped
    <3>5. UNCHANGED <<log, rows, pc, opts, left, gap, gates, snapshot, at, outcome, counts, history>>
      BY <3>1 DEF OpenFile
    <3> QED BY <3>1, <3>4, <3>5 DEF PcType
  <2>12. CASE TrustUser BY <2>12 DEF TrustUser, PcType, Outcomes, FreshOutcomes
  <2>13. CASE Validate
    <3>1. outcome' \in Outcomes
      BY <2>13 DEF Validate, OutcomeOf, Verdicts, Outcomes, FreshOutcomes, BlockingOutcomes
    <3> QED BY <2>13, <3>1 DEF Validate, PcType
  <2>14. CASE RestoreFile
    <3> DEFINE f == AffectedPaths[at]
    <3>1. at \in 1..6 /\ gap \in Gaps /\ pc = "restore" /\ outcome \in Outcomes
          /\ OpenFile(f, Captured(f))
      BY <2>14, FilesInOrder DEF RestoreFile
    <3>2. f \in Files /\ tree[f] \in TextType /\ snapshot[f] \in TextType
      BY <3>1, FilesInOrder DEF TreeType
    <3>3. Captured(f) \in TextType BY <3>2, <3>1 DEF Captured, TextType
    <3> HIDE DEF f
    <3>4. tree' \in TreeType /\ text' \in TextType /\ open' = TRUE BY <3>1, <3>2, <3>3, OpenTyped
    <3>5. UNCHANGED <<log, rows, pc, opts, left, gap, gates, snapshot, at, outcome, counts, history>>
      BY <3>1 DEF OpenFile
    <3> QED BY <3>1, <3>4, <3>5 DEF PcType
  <2>15. CASE RecordAttempt
    <3>1. log' \in Seq(RecordType) BY <2>15, RecordIsTyped DEF RecordAttempt
    <3>2. forced' \subseteq Nat
      <4>1. Len(log) + 1 \in Nat BY DEF TypeOK
      <4> QED BY <2>15, <4>1 DEF RecordAttempt
    <3> QED BY <2>15, <3>1, <3>2 DEF RecordAttempt, PcType
  <2>16. CASE TallyWalk
    <3> gap \in Gaps /\ outcome \in Outcomes /\ left > 0 BY <2>16 DEF TallyWalk
    <3>1. rows' \in Seq(RowType)
      <4>1. Row("outcomes", gap, outcome) \in RowType BY DEF Row, RowType
      <4> QED BY <2>16, <4>1 DEF TallyWalk
    <3>2. counts' \in [Outcomes -> Nat] BY <2>16 DEF TallyWalk
    <3> QED BY <2>16, <3>1, <3>2 DEF TallyWalk, PcType
  <2>17. CASE ReturnSingle BY <2>17, EndTyped DEF ReturnSingle, PcType
  <2>18. CASE Crash
    <3>1. EndProcess /\ crashes' \in Nat /\ torn' \in BOOLEAN /\ killed' \subseteq Rules
      BY <2>18 DEF Crash, Exposed
    <3> QED BY <2>18, <3>1, EndTyped DEF Crash, PcType
  <2>19. CASE UNCHANGED vars BY <2>19 DEF vars, PcType
  <2>20. CASE SkipPatch BY <2>20 DEF SkipPatch, PcType
  <2>21. CASE UnlinkFile
    <3>1. tree' \in TreeType BY <2>21, FilesInOrder DEF UnlinkFile, TreeType, TextType
    <3> QED BY <2>21, <3>1 DEF UnlinkFile, PcType
  <2>22. CASE CloseFile
    <3>1. tree' \in TreeType /\ text' \in TextType
      BY <2>22, NoFilesTyped DEF CloseFile, TreeType
    <3>2. /\ open' = FALSE /\ at' = at + 1
          /\ UNCHANGED <<log, rows, pc, opts, left, gap, gates, snapshot, outcome, counts, history>>
      BY <2>22 DEF CloseFile
    <3>3. open' \in BOOLEAN BY <3>2, Zenon
    <3>5. at' \in Nat /\ at' > 0
      <4>1. at \in Nat /\ at' = at + 1 BY <3>2 DEF TypeOK
      <4> QED BY <4>1
    <3>4. pc' = pc /\ gap' = gap /\ left' = left /\ outcome' = outcome BY <3>2
    <3> QED BY <3>1, <3>2, <3>3, <3>4, <3>5
  <2>23. CASE RefreshFails
    <3> gap \in Gaps /\ outcome \in Outcomes BY <2>23 DEF RefreshFails
    <3>1. rows' \in Seq(RowType)
      <4>1. Row("outcomes", gap, outcome) \in RowType BY DEF Row, RowType
      <4> QED BY <2>23, <4>1 DEF RefreshFails
    <3> QED BY <2>23, <3>1, EndTyped DEF RefreshFails, PcType
  <2> QED
    BY <2>2, <2>3, <2>4, <2>5, <2>6, <2>7, <2>8, <2>9, <2>10, <2>11, <2>12, <2>13,
       <2>14, <2>15, <2>16, <2>17, <2>18, <2>19, <2>20, <2>21, <2>22, <2>23
    DEF Next, Step, Attempt, WriteStep
<1> QED BY <1>1, <1>2, PTL DEF Spec

-----------------------------------------------------------------------------
(* The safety invariants are not inductive: they speak of the tree between   *)
(* attempts, so the strengthening says what an attempt under way has done.   *)

\* The tree once the write under way is done.
Settled == [f \in Files |-> IF open /\ f = Current THEN text ELSE tree[f]]

\* What each phase of an attempt knows of its own progress.
PhaseInv ==
    /\ pc = "apply" => at \in 1..7
    /\ pc = "restore" => at \in 1..7 /\ opts.validate /\ outcome = "reverted"
    /\ pc = "record" => outcome \in KeptOutcomes
    /\ pc \in {"apply", "restore"} /\ opts.validate => snapshot = before
    /\ open => pc \in {"apply", "restore"} /\ at \in 1..6

\* An attempt touches its own rule only, up to shared files in the middle of a
\* write, and has undone the files before `at`.
FrameInv ==
    /\ pc \in {"apply", "record", "restore"} =>
          \A f \in Files, r \in Rules : r # RuleOf[gap] =>
              /\ Settled[f][r] = before[f][r]
              /\ tree[f][r] = before[f][r] \/ (tree[f][r] = Partial /\ f \in SharedFiles)
    /\ pc = "restore" =>
          \A j \in 1..6 : j < at \/ (open /\ j = at) =>
              Settled[AffectedPaths[j]] = before[AffectedPaths[j]]
    /\ RevertRestoresTree

\* Nothing a tree names is missing or partial, and only rules of S are on both paths.
WholeBut(t, S) ==
    /\ \A f \in SharedFiles, r \in Rules : t[f][r] # Partial
    /\ \A r \in Rules : NamedIn(t, r) => t["helper"][r] \in Gaps
    /\ RegisteredIn(t) \cap Declarative \subseteq S

OnBothPaths == IF pc = "apply" THEN {RuleOf[gap]} ELSE IF pc = "tally" THEN trusted ELSE {}

\* The generated module is the first file on disk.
ImportInv ==
    /\ pc \notin {"idle", "restore"} => WholeBut(Settled, OnBothPaths)
    /\ pc = "apply" /\ (at > 1 \/ open) => Settled["helper"][RuleOf[gap]] \in Gaps
    /\ pc \in {"apply", "record", "restore"} => WholeBut(before, {})
    /\ pc = "idle" /\ ~torn /\ trusted \cap Declarative = {} => Importable

\* The tree an attempt started from holds logged rules only.
LogInv ==
    /\ RegisteredRulesAreLogged
    /\ pc \in {"apply", "record", "restore"} =>
          \A r \in Rules \ (trusted \cup killed) :
              before["registry"][r] \in Gaps => LoggedKept(r)

\* What was not refused stays so until it is recorded.
RetryInv ==
    /\ NoUnforcedRetry
    /\ pc \in {"apply", "record", "restore"} /\ ~opts.force => ~Refused
    /\ forced \subseteq DOMAIN log

LEMMA ImportableIsWhole == \A t : ImportableTree(t) <=> WholeBut(t, {})
BY DEF ImportableTree, WholeBut, DualPath

\* Two trees that agree on every affected path are equal.
LEMMA TreeExtensional ==
    ASSUME NEW s \in TreeType, NEW t \in TreeType, \A f \in Files : s[f] = t[f]
    PROVE  s = t
BY DEF TreeType

\* Trees that agree everywhere are whole to the same degree.
LEMMA WholeExtensional ==
    ASSUME NEW s, NEW t, \A f \in Files : s[f] = t[f], NEW S, WholeBut(s, S)
    PROVE  WholeBut(t, S)
<1>1. \A f \in SharedFiles : f \in Files /\ s[f] = t[f] BY DEF SharedFiles
<1>2. s["helper"] = t["helper"] /\ s["core"] = t["core"] /\ s["registry"] = t["registry"]
  BY DEF Files
<1> QED BY <1>1, <1>2 DEF WholeBut, NamedIn, RegisteredIn

LEMMA SettledClosed ==
    /\ ~open => \A f \in Files : Settled[f] = tree[f]
    /\ ~open' => \A f \in Files : Settled'[f] = tree'[f]
BY DEF Settled

\* What opening the next file does to the tree and to what it will be.
LEMMA OpenSettled ==
    ASSUME NEW f \in Files, f = Current, tree \in TreeType, gap \in Gaps,
           NEW content, OpenFile(f, content)
    PROVE  /\ Settled'[f] = content
           /\ \A g \in Files : Settled[g] = tree[g]
           /\ \A g \in Files : g # f => Settled'[g] = tree[g] /\ tree'[g] = tree[g]
           /\ \A r \in Rules : r # RuleOf[gap] =>
                 tree'[f][r] = tree[f][r] \/ (tree'[f][r] = Partial /\ f \in SharedFiles)
           /\ open' = TRUE
           /\ UNCHANGED <<log, rows, pc, opts, left, gap, gates, snapshot, at, outcome, counts, history>>
<1>1. /\ ~open /\ open' = TRUE /\ text' = content
      /\ tree' = [tree EXCEPT ![f] = Truncated(f)]
      /\ UNCHANGED <<log, rows, pc, opts, left, gap, gates, snapshot, at, outcome, counts, history>>
  BY DEF OpenFile
<1>2. Current' = Current BY <1>1 DEF Current
<1>3. tree'[f] = Truncated(f) /\ \A g \in Files : g # f => tree'[g] = tree[g]
  BY <1>1 DEF TreeType
<1>4. ASSUME NEW r \in Rules, r # RuleOf[gap]
      PROVE  Truncated(f)[r] = tree[f][r] \/ (Truncated(f)[r] = Partial /\ f \in SharedFiles)
  <2>1. tree[f] \in TextType BY DEF TreeType
  <2> QED BY <1>4, <2>1 DEF Truncated, TextType, SharedFiles
<1>5. Settled'[f] = content BY <1>1, <1>2 DEF Settled
<1>6. \A g \in Files : g # f => Settled'[g] = tree[g] BY <1>2, <1>3 DEF Settled
<1>7. \A g \in Files : Settled[g] = tree[g] BY <1>1 DEF Settled
<1> QED BY <1>1, <1>3, <1>4, <1>5, <1>6, <1>7

LEMMA CloseSettled ==
    ASSUME CloseFile, PhaseInv, tree \in TreeType
    PROVE  /\ \A g \in Files : Settled'[g] = Settled[g] /\ tree'[g] = Settled[g]
           /\ open' = FALSE /\ at' = at + 1 /\ at \in 1..6 /\ open
           /\ pc \in {"apply", "restore"}
           /\ UNCHANGED <<log, rows, pc, opts, left, gap, gates, snapshot, outcome, counts, history>>
<1>1. open /\ open' = FALSE /\ at' = at + 1 /\ tree' = [tree EXCEPT ![Current] = text]
  BY DEF CloseFile
<1>2. pc \in {"apply", "restore"} /\ at \in 1..6 BY <1>1 DEF PhaseInv
<1>3. Current \in Files BY <1>2, FilesInOrder DEF Current
<1>4. \A g \in Files : tree'[g] = Settled[g] BY <1>1, <1>3 DEF Settled, TreeType
<1>5. \A g \in Files : Settled'[g] = tree'[g] BY <1>1 DEF Settled
<1>6. UNCHANGED <<log, rows, pc, opts, left, gap, gates, snapshot, outcome, counts, history>>
  BY DEF CloseFile
<1> QED BY <1>1, <1>2, <1>4, <1>5, <1>6

\* The writes leave everything but the tree alone.
LEMMA WriteFrame ==
    ASSUME WriteStep
    PROVE  UNCHANGED <<log, rows, pc, opts, left, gap, gates, snapshot, outcome, counts, history>>
BY DEF WriteStep, PatchFile, SkipPatch, RestoreFile, UnlinkFile, CloseFile, OpenFile, disk

\* Every action but those of an attempt leaves the process between attempts.
LEMMA QuietSteps ==
    ASSUME Next PROVE \/ pc' \in {"idle", "pick", "preflight", "check"}
                      \/ Attempt
BY DEF Next, Step, StartWalk, StartSingle, StartTemplate, Start, Finish, EndProcess, Pick,
       SkipFlagged, AttemptFlagged, TallyWalk, RefreshFails, ReturnSingle, Crash

\* Only the writes of an attempt touch the tree and the file in hand, and a process
\* that ends lets go of it.
LEMMA QuietTree ==
    ASSUME Next, ~WriteStep
    PROVE  tree' = tree /\ (open' = open \/ (EndProcess /\ open' = FALSE))
BY DEF Next, Step, Attempt, StartWalk, StartSingle, StartTemplate, Start, Finish, EndProcess, Pick,
       SkipFlagged, AttemptFlagged, Refuse, CaptureState, TrustUser, Validate, RecordAttempt,
       TallyWalk, RefreshFails, ReturnSingle, Crash, disk

\* No write is under way between attempts.
LEMMA OpenInAttempt ==
    ASSUME PhaseInv, Next, pc' \in {"idle", "pick", "preflight", "check"}, ~Attempt
    PROVE  ~open'
<1>1. CASE EndProcess BY <1>1 DEF EndProcess
<1>2. CASE ~EndProcess
  <2>1. open' = open /\ pc \notin {"apply", "restore"}
    BY <1>2 DEF Next, Step, StartWalk, StartSingle, StartTemplate, Start, Finish, Pick,
                SkipFlagged, AttemptFlagged, TallyWalk, RefreshFails, ReturnSingle, Crash
  <2> QED BY <2>1 DEF PhaseInv
<1> QED BY <1>1, <1>2

\* What an attempt under way has done and undone.
LEMMA AttemptFrame == Spec => [](PhaseInv /\ FrameInv)
<1>1. Init => PhaseInv /\ FrameInv
  BY DEF Init, PhaseInv, FrameInv, RevertRestoresTree
<1>2. TypeOK /\ PhaseInv /\ FrameInv /\ [Next]_vars => PhaseInv' /\ FrameInv'
  <2> SUFFICES ASSUME TypeOK, PhaseInv, FrameInv, [Next]_vars PROVE PhaseInv' /\ FrameInv'
    OBVIOUS
  <2>1. CASE Next /\ ~Attempt
    <3>1. pc' \in {"idle", "pick", "preflight", "check"} BY <2>1, QuietSteps
    <3>2. ~open' BY <2>1, <3>1, OpenInAttempt
    <3> QED BY <3>1, <3>2 DEF PhaseInv, FrameInv, RevertRestoresTree
  <2>2. CASE Refuse BY <2>2 DEF Refuse, PhaseInv, FrameInv, RevertRestoresTree
  <2>3. CASE CaptureState
    <3>1. /\ pc' = "apply" /\ at' = 1 /\ before' = tree /\ UNCHANGED <<tree, opts, gap, open>>
          /\ pc = "check"
      BY <2>3 DEF CaptureState, disk
    <3>2. opts.validate => snapshot' = tree
      BY <2>3 DEF CaptureState
    <3>3. ~open' BY <3>1 DEF PhaseInv
    <3>4. PhaseInv' BY <3>1, <3>2, <3>3 DEF PhaseInv
    <3> QED BY <3>1, <3>3, <3>4, SettledClosed DEF FrameInv, RevertRestoresTree
  <2>4. CASE PatchFile
    <3> DEFINE f == ApplyOrder[at]
               content == [tree[f] EXCEPT ![RuleOf[gap]] = gap]
    <3>1. /\ pc = "apply" /\ at \in 1..6 /\ OpenFile(f, content) /\ f = Current
          /\ tree \in TreeType /\ gap \in Gaps /\ f \in Files
      BY <2>4, FilesInOrder DEF PatchFile, PhaseInv, TypeOK, Current
    <3>2. \A r \in Rules : r # RuleOf[gap] => content[r] = tree[f][r]
      BY <3>1 DEF TreeType, TextType
    <3> HIDE DEF f, content
    <3>3. /\ Settled'[f] = content
          /\ \A g \in Files : Settled[g] = tree[g]
          /\ \A g \in Files : g # f => Settled'[g] = tree[g] /\ tree'[g] = tree[g]
          /\ \A r \in Rules : r # RuleOf[gap] =>
                tree'[f][r] = tree[f][r] \/ (tree'[f][r] = Partial /\ f \in SharedFiles)
          /\ open' = TRUE
          /\ UNCHANGED <<log, rows, pc, opts, left, gap, gates, snapshot, at, outcome, counts, history>>
      BY <3>1, OpenSettled
    <3>4. UNCHANGED <<pc, gap, opts, outcome, snapshot, before, at>> BY <3>3 DEF history
    <3>5. PhaseInv' BY <3>1, <3>4 DEF PhaseInv
    <3>6. ASSUME NEW g \in Files, NEW r \in Rules, r # RuleOf[gap]
          PROVE  /\ Settled'[g][r] = before[g][r]
                 /\ tree'[g][r] = before[g][r] \/ (tree'[g][r] = Partial /\ g \in SharedFiles)
      <4>1. tree[g][r] = before[g][r] BY <3>1, <3>3, <3>6 DEF FrameInv
      <4> QED BY <3>2, <3>3, <3>6, <4>1
    <3> QED BY <3>1, <3>4, <3>5, <3>6 DEF FrameInv, RevertRestoresTree
  <2>5. CASE SkipPatch
    <3>1. /\ pc = "apply" /\ at \in 1..6 /\ ~open /\ at' = at + 1
          /\ UNCHANGED <<tree, pc, gap, opts, outcome, snapshot, before, open>>
      BY <2>5, FilesInOrder DEF SkipPatch, PhaseInv, disk, history
    <3>2. PhaseInv' BY <3>1 DEF PhaseInv
    <3> QED BY <3>1, <3>2, SettledClosed DEF FrameInv, RevertRestoresTree
  <2>6. CASE TrustUser BY <2>6, FilesInOrder DEF TrustUser, PhaseInv, FrameInv, RevertRestoresTree
  <2>7. CASE Validate
    <3>1. /\ UNCHANGED <<tree, gap, opts, snapshot, before, open>> /\ pc = "apply" /\ opts.validate
          /\ ~open
      BY <2>7, FilesInOrder DEF Validate, disk, history, PhaseInv
    <3>2. \/ pc' = "restore" /\ at' = 1 /\ outcome' = "reverted"
          \/ pc' = "record" /\ outcome' \in KeptOutcomes
      BY <2>7 DEF Validate, OutcomeOf, Verdicts, KeptOutcomes
    <3>3. PhaseInv' BY <3>1, <3>2 DEF PhaseInv
    <3> QED BY <3>1, <3>2, <3>3, SettledClosed DEF FrameInv, RevertRestoresTree
  <2>8. CASE RestoreFile
    <3> DEFINE f == AffectedPaths[at]
               r == RuleOf[gap]
    <3>1. /\ pc = "restore" /\ at \in 1..6 /\ gap \in Gaps /\ snapshot = before
          /\ tree \in TreeType /\ before \in TreeType /\ f \in Files /\ r \in Rules
          /\ f = Current /\ OpenFile(f, Captured(f)) /\ ~open
      BY <2>8, FilesInOrder, RuleOfGap DEF RestoreFile, TypeOK, PhaseInv, Current, OpenFile
    <3>2. Captured(f) = before[f]
      <4>1. tree[f] \in TextType /\ before[f] \in TextType BY <3>1 DEF TreeType
      <4>2. \A q \in Rules : q # r /\ f \in OwnFiles => tree[f][q] = before[f][q]
        BY <3>1 DEF FrameInv, SharedFiles
      <4> QED BY <3>1, <4>1, <4>2 DEF Captured, TextType
    <3> HIDE DEF f, r
    <3>3. /\ Settled'[f] = before[f]
          /\ \A g \in Files : Settled[g] = tree[g]
          /\ \A g \in Files : g # f => Settled'[g] = tree[g] /\ tree'[g] = tree[g]
          /\ \A q \in Rules : q # RuleOf[gap] =>
                tree'[f][q] = tree[f][q] \/ (tree'[f][q] = Partial /\ f \in SharedFiles)
          /\ open' = TRUE
          /\ UNCHANGED <<log, rows, pc, opts, left, gap, gates, snapshot, at, outcome, counts, history>>
      BY <3>1, <3>2, OpenSettled
    <3>4. UNCHANGED <<pc, gap, opts, outcome, snapshot, before, at>> BY <3>3 DEF history
    <3>5. PhaseInv' BY <3>1, <3>4 DEF PhaseInv
    <3>6. ASSUME NEW g \in Files, NEW q \in Rules, q # RuleOf[gap]
          PROVE  /\ Settled'[g][q] = before[g][q]
                 /\ tree'[g][q] = before[g][q] \/ (tree'[g][q] = Partial /\ g \in SharedFiles)
      <4>1. tree[g][q] = before[g][q] BY <3>1, <3>3, <3>6 DEF FrameInv
      <4> QED BY <3>3, <3>6, <4>1
    <3>7. ASSUME NEW j \in 1..6, j < at \/ j = at
          PROVE  Settled'[AffectedPaths[j]] = before[AffectedPaths[j]]
      <4>1. AffectedPaths[j] \in Files BY FilesInOrder
      <4>2. CASE AffectedPaths[j] = f BY <3>3, <4>2
      <4>3. CASE AffectedPaths[j] # f
        <5>1. j < at BY <3>7, <4>3 DEF f
        <5>2. Settled[AffectedPaths[j]] = before[AffectedPaths[j]] BY <3>1, <5>1 DEF FrameInv
        <5> QED BY <3>3, <4>1, <4>3, <5>2
      <4> QED BY <4>2, <4>3
    <3> QED BY <3>1, <3>4, <3>5, <3>6, <3>7 DEF FrameInv, RevertRestoresTree
  <2>9. CASE UnlinkFile
    <3> DEFINE f == AffectedPaths[at]
               r == RuleOf[gap]
    <3>1. /\ pc = "restore" /\ at \in 1..6 /\ gap \in Gaps /\ snapshot = before
          /\ tree \in TreeType /\ before \in TreeType /\ f \in Files /\ r \in Rules
          /\ ~open /\ Unlinks(f) /\ tree' = [tree EXCEPT ![f][r] = NoGap]
      BY <2>9, FilesInOrder, RuleOfGap DEF UnlinkFile, TypeOK, PhaseInv
    <3>2. UNCHANGED <<pc, gap, opts, outcome, snapshot, before, open>> /\ at' = at + 1
      BY <2>9 DEF UnlinkFile, history
    <3>3. tree' = [tree EXCEPT ![f] = before[f]]
      <4>1. tree[f] \in TextType /\ before[f] \in TextType BY <3>1 DEF TreeType
      <4>2. f \in OwnFiles /\ before[f][r] = NoGap BY <3>1 DEF Unlinks
      <4>3. \A q \in Rules : q # r => tree[f][q] = before[f][q]
        BY <3>1, <4>2 DEF FrameInv, SharedFiles
      <4>4. [tree[f] EXCEPT ![r] = NoGap] = before[f] BY <3>1, <4>1, <4>2, <4>3 DEF TextType
      <4> QED BY <3>1, <4>4 DEF TreeType
    <3> HIDE DEF f, r
    <3>4. PhaseInv' BY <3>1, <3>2 DEF PhaseInv
    <3>5. \A g \in Files : tree'[g] = IF g = f THEN before[f] ELSE tree[g]
      BY <3>1, <3>3 DEF TreeType
    <3>6. \A g \in Files, q \in Rules : q # RuleOf[gap] => tree'[g][q] = before[g][q]
      <4>1. \A g \in Files, q \in Rules : q # RuleOf[gap] => tree[g][q] = before[g][q]
        BY <3>1, SettledClosed DEF FrameInv
      <4> QED BY <3>5, <4>1
    <3>7. ASSUME NEW j \in 1..6, j < at'
          PROVE  tree'[AffectedPaths[j]] = before[AffectedPaths[j]]
      <4>1. AffectedPaths[j] \in Files BY FilesInOrder
      <4>2. CASE j = at BY <3>5, <4>1, <4>2 DEF f
      <4>3. CASE j < at
        <5>1. tree[AffectedPaths[j]] = before[AffectedPaths[j]]
          BY <3>1, <4>1, <4>3, SettledClosed DEF FrameInv
        <5> QED BY <3>5, <4>1, <5>1
      <4> QED BY <3>1, <3>2, <3>7, <4>2, <4>3
    <3>8. ~open' BY <3>1, <3>2
    <3>9. \A g \in Files : Settled'[g] = tree'[g] BY <3>8, SettledClosed
    <3>10. ASSUME NEW j \in 1..6, j < at' \/ (open' /\ j = at')
           PROVE  Settled'[AffectedPaths[j]] = before'[AffectedPaths[j]]
      <4>1. j < at' BY <3>8, <3>10
      <4>2. AffectedPaths[j] \in Files BY FilesInOrder
      <4>3. before' = before BY <3>2
      <4> QED BY <3>7, <3>9, <4>1, <4>2, <4>3
    <3>11. \A g \in Files, q \in Rules : q # RuleOf[gap'] =>
              Settled'[g][q] = before'[g][q] /\ tree'[g][q] = before'[g][q]
      BY <3>2, <3>6, <3>9
    <3>12. pc' = "restore" BY <3>1, <3>2
    <3> QED BY <3>4, <3>10, <3>11, <3>12 DEF FrameInv, RevertRestoresTree
  <2>10. CASE CloseFile
    <3>1. /\ \A g \in Files : Settled'[g] = Settled[g] /\ tree'[g] = Settled[g]
          /\ open' = FALSE /\ at' = at + 1 /\ at \in 1..6 /\ open
          /\ pc \in {"apply", "restore"}
          /\ UNCHANGED <<log, rows, pc, opts, left, gap, gates, snapshot, outcome, counts, history>>
      BY <2>10, CloseSettled DEF TypeOK
    <3>2. UNCHANGED <<pc, gap, opts, outcome, snapshot, before>> BY <3>1 DEF history
    <3>3. PhaseInv' BY <3>1, <3>2 DEF PhaseInv
    <3>4. \A g \in Files, q \in Rules : q # RuleOf[gap] =>
             Settled'[g][q] = before[g][q] /\ tree'[g][q] = before[g][q]
      BY <3>1 DEF FrameInv
    <3>5. ASSUME pc = "restore", NEW j \in 1..6, j < at'
          PROVE  Settled'[AffectedPaths[j]] = before[AffectedPaths[j]]
      <4>1. j < at \/ j = at BY <3>1, <3>5
      <4> QED BY <3>1, <3>5, <4>1, FilesInOrder DEF FrameInv
    <3> QED BY <3>1, <3>2, <3>3, <3>4, <3>5 DEF FrameInv, RevertRestoresTree
  <2>11. CASE RecordAttempt
    <3>1. UNCHANGED <<tree, outcome, before, open>> /\ pc' = "tally"
      BY <2>11 DEF RecordAttempt
    <3>2. ~open BY <2>11, FilesInOrder DEF RecordAttempt, PhaseInv
    <3>3. PhaseInv' BY <3>1, <3>2 DEF PhaseInv
    <3>4. CASE pc = "record"
      BY <3>1, <3>3, <3>4 DEF PhaseInv, FrameInv, RevertRestoresTree, KeptOutcomes
    <3>5. CASE pc = "restore" /\ at > Len(AffectedPaths)
      <4>1. \A f \in Files : tree[f] = before[f]
        <5> TAKE f \in Files
        <5>1. PICK j \in 1..6 : AffectedPaths[j] = f BY FilesInOrder
        <5>2. j < at BY <3>5, FilesInOrder, <5>1 DEF PhaseInv
        <5>3. Settled[f] = before[f] BY <3>5, <5>1, <5>2 DEF FrameInv
        <5> QED BY <3>2, <5>3, SettledClosed
      <4>2. tree = before BY <4>1, TreeExtensional DEF TypeOK
      <4> QED BY <3>1, <3>3, <4>2 DEF FrameInv, RevertRestoresTree
    <3> QED BY <2>11, <3>4, <3>5 DEF RecordAttempt
  <2>12. CASE UNCHANGED vars
    <3>1. UNCHANGED <<tree, pc, opts, gap, snapshot, at, open, text, outcome, before>>
      BY <2>12 DEF vars, disk, process, history
    <3> QED BY <3>1 DEF PhaseInv, FrameInv, RevertRestoresTree, Settled, Current
  <2> QED
    BY <2>1, <2>2, <2>3, <2>4, <2>5, <2>6, <2>7, <2>8, <2>9, <2>10, <2>11, <2>12
    DEF Attempt, WriteStep
<1> QED BY <1>1, <1>2, TypeCorrect, PTL DEF Spec

\* A reverted attempt leaves the tree as it found it.
THEOREM RevertRestores == Spec => []RevertRestoresTree
<1>1. PhaseInv /\ FrameInv => RevertRestoresTree
  BY DEF FrameInv
<1> QED BY <1>1, AttemptFrame, PTL

LEMMA WholeMonotone ==
    ASSUME NEW t, NEW S, NEW R, WholeBut(t, S), S \cap Declarative \subseteq R
    PROVE  WholeBut(t, R)
BY DEF WholeBut

\* Writing one rule's own lines, its module among them, keeps the tree whole.
LEMMA WholePatched ==
    ASSUME NEW s, NEW t, NEW q \in Rules, NEW g \in Gaps, WholeBut(t, {q}),
           \A f \in Files, r \in Rules : s[f][r] = t[f][r] \/ (r = q /\ s[f][r] = g),
           s["helper"][q] \in Gaps
    PROVE  WholeBut(s, {q})
<1>1. SharedFiles \subseteq Files /\ {"helper", "core", "registry"} \subseteq Files
  BY DEF SharedFiles, Files
<1>2. \A f \in SharedFiles, r \in Rules : s[f][r] # Partial
  BY <1>1, ConstantsAssumption DEF WholeBut
<1>3. ASSUME NEW r \in Rules, NamedIn(s, r) PROVE s["helper"][r] \in Gaps
  <2>1. CASE r = q BY <2>1
  <2>2. CASE r # q
    <3>1. NamedIn(t, r) BY <1>1, <1>3, <2>2 DEF NamedIn
    <3> QED BY <1>1, <2>2, <3>1 DEF WholeBut
  <2> QED BY <2>1, <2>2
<1>4. RegisteredIn(s) \cap Declarative \subseteq {q}
  BY <1>1 DEF WholeBut, RegisteredIn
<1> QED BY <1>2, <1>3, <1>4 DEF WholeBut

\* Outside the windows Exposed names, the invariant says that the package imports.
LEMMA UnexposedImports ==
    ASSUME TypeOK, PhaseInv, FrameInv, ImportInv, ~Exposed, trusted \cap Declarative = {},
           pc # "idle"
    PROVE  Importable
<1>1. pc # "restore" BY DEF Exposed
<1>2. WholeBut(Settled, OnBothPaths) BY <1>1 DEF ImportInv
<1>3. OnBothPaths \cap Declarative \subseteq {} BY DEF OnBothPaths, Exposed
<1>4. WholeBut(Settled, {}) BY <1>2, <1>3, WholeMonotone
<1>5. CASE ~open
  <2>1. WholeBut(tree, {}) BY <1>4, <1>5, SettledClosed, WholeExtensional
  <2> QED BY <2>1, ImportableIsWhole DEF Importable
<1>6. CASE open
  <2>1. pc = "apply" /\ at \in 1..6 BY <1>1, <1>6 DEF PhaseInv
  <2>2. Current \in Files /\ Current \notin SharedFiles
    BY <1>6, <2>1, FilesInOrder DEF Exposed, Current
  <2>3. \A f \in Files : f # Current => Settled[f] = tree[f] BY DEF Settled
  <2>4. \A f \in SharedFiles : f \in Files /\ Settled[f] = tree[f]
    BY <2>2, <2>3 DEF SharedFiles
  <2>5. {"core", "registry"} \subseteq SharedFiles /\ "helper" \in Files /\ "helper" \notin SharedFiles
    BY DEF SharedFiles, OwnFiles, Files
  <2>6. ASSUME NEW r \in Rules, NamedIn(tree, r) PROVE tree["helper"][r] \in Gaps
    <3>1. NamedIn(Settled, r) BY <2>4, <2>5, <2>6 DEF NamedIn
    <3>2. Settled["helper"][r] \in Gaps BY <1>4, <3>1 DEF WholeBut
    <3>3. CASE Current # "helper" BY <2>3, <2>5, <3>2, <3>3
    <3>4. CASE Current = "helper"
      <4>1. r # RuleOf[gap] BY <1>6, <2>6, <3>4 DEF Exposed
      <4>2. tree["helper"][r] = Settled["helper"][r] BY <2>1, <2>5, <4>1 DEF FrameInv
      <4> QED BY <3>2, <4>2
    <3> QED BY <3>3, <3>4
  <2>7. \A f \in SharedFiles, r \in Rules : tree[f][r] # Partial
    BY <1>4, <2>4 DEF WholeBut
  <2>8. RegisteredIn(tree) = RegisteredIn(Settled) BY <2>4, <2>5 DEF RegisteredIn
  <2>9. WholeBut(tree, {}) BY <1>4, <2>6, <2>7, <2>8 DEF WholeBut
  <2> QED BY <2>9, ImportableIsWhole DEF Importable
<1> QED BY <1>5, <1>6

\* What every phase knows of the package the tree holds.
LEMMA ImportFrame == Spec => []ImportInv
<1>1. Init => ImportInv
  <2> SUFFICES ASSUME Init PROVE ImportInv
    OBVIOUS
  <2>1. tree = NoFiles /\ pc = "idle" BY DEF Init
  <2>2. NoGap \notin Gaps /\ NoGap # Partial BY ConstantsAssumption
  <2>3. \A f \in Files, r \in Rules : tree[f][r] = NoGap BY <2>1 DEF NoFiles, NoText
  <2>4. ImportableTree(tree)
    BY <2>2, <2>3 DEF ImportableTree, NamedIn, DualPath, RegisteredIn, SharedFiles, Files
  <2> QED BY <2>1, <2>4 DEF ImportInv, Importable
<1>2. TypeOK /\ PhaseInv /\ FrameInv /\ (PhaseInv /\ FrameInv)' /\ ImportInv /\ [Next]_vars
         => ImportInv'
  <2> SUFFICES ASSUME TypeOK, PhaseInv, FrameInv, PhaseInv', FrameInv', ImportInv, [Next]_vars
               PROVE  ImportInv'
    OBVIOUS
  <2>0. ASSUME tree' = tree, ~open, ~open', pc \notin {"idle", "restore"},
               OnBothPaths \cap Declarative \subseteq OnBothPaths'
        PROVE  WholeBut(Settled', OnBothPaths')
    <3>1. WholeBut(Settled, OnBothPaths) BY <2>0 DEF ImportInv
    <3>2. \A f \in Files : Settled[f] = Settled'[f] BY <2>0, SettledClosed
    <3>3. WholeBut(Settled', OnBothPaths) BY <3>1, <3>2, WholeExtensional
    <3> HIDE DEF OnBothPaths
    <3> QED BY <2>0, <3>3, WholeMonotone
  <2>1. CASE StartWalk \/ StartSingle \/ StartTemplate
    <3>1. pc = "idle" /\ Importable /\ pc' \in {"pick", "check"} /\ UNCHANGED <<tree, open>>
      BY <2>1 DEF StartWalk, StartSingle, StartTemplate, Start, disk
    <3>2. ~open' BY <3>1 DEF PhaseInv
    <3>3. WholeBut(tree, {}) BY <3>1, ImportableIsWhole DEF Importable
    <3>4. WholeBut(Settled', {}) BY <3>1, <3>2, <3>3, SettledClosed, WholeExtensional
    <3> QED BY <3>1, <3>4 DEF ImportInv, OnBothPaths
  <2>2. CASE Finish \/ ReturnSingle \/ RefreshFails \/ Crash
    <3>1. pc' = "idle" /\ UNCHANGED <<tree, trusted>> /\ pc # "idle" /\ torn' \in {torn, Exposed}
      BY <2>2 DEF Finish, ReturnSingle, RefreshFails, Crash, EndProcess, disk
    <3>2. ~torn' /\ trusted \cap Declarative = {} => ~Exposed
      <4>1. CASE Crash BY <4>1 DEF Crash
      <4>2. CASE Finish \/ ReturnSingle \/ RefreshFails
        <5>1. pc \in {"pick", "tally"} BY <4>2 DEF Finish, ReturnSingle, RefreshFails
        <5> QED BY <5>1 DEF Exposed, PhaseInv
      <4> QED BY <2>2, <4>1, <4>2
    <3>3. ~torn' /\ trusted \cap Declarative = {} => Importable
      BY <3>1, <3>2, UnexposedImports
    <3>4. Importable' = Importable BY <3>1 DEF Importable
    <3> QED BY <3>1, <3>3, <3>4 DEF ImportInv
  <2>3. CASE Pick \/ SkipFlagged \/ AttemptFlagged \/ Refuse
    <3>1. /\ UNCHANGED <<tree, open>> /\ pc \in {"pick", "preflight", "check"}
          /\ pc' \in {"pick", "preflight", "check", "tally"}
      BY <2>3 DEF Pick, SkipFlagged, AttemptFlagged, Refuse, disk
    <3>2. ~open /\ ~open' BY <3>1 DEF PhaseInv
    <3>3. OnBothPaths = {} BY <3>1 DEF OnBothPaths
    <3>4. WholeBut(Settled', OnBothPaths') BY <2>0, <3>1, <3>2, <3>3
    <3> QED BY <3>1, <3>4 DEF ImportInv
  <2>4. CASE CaptureState
    <3>1. /\ UNCHANGED <<tree, open>> /\ pc = "check" /\ pc' = "apply" /\ at' = 1 /\ before' = tree
      BY <2>4 DEF CaptureState, disk
    <3>2. ~open /\ ~open' BY <3>1 DEF PhaseInv
    <3>3. OnBothPaths = {} BY <3>1 DEF OnBothPaths
    <3>4. WholeBut(Settled', OnBothPaths') BY <2>0, <3>1, <3>2, <3>3
    <3>5. WholeBut(Settled, {}) BY <3>1, <3>3 DEF ImportInv
    <3>6. WholeBut(before', {}) BY <3>1, <3>2, <3>5, SettledClosed, WholeExtensional
    <3> QED BY <3>1, <3>2, <3>4, <3>6 DEF ImportInv
  <2>5. CASE PatchFile
    <3> DEFINE f == ApplyOrder[at]
               q == RuleOf[gap]
               content == [tree[f] EXCEPT ![q] = gap]
    <3>1. /\ pc = "apply" /\ at \in 1..6 /\ OpenFile(f, content) /\ f = Current
          /\ tree \in TreeType /\ gap \in Gaps /\ f \in Files /\ q \in Rules
      BY <2>5, FilesInOrder, RuleOfGap DEF PatchFile, PhaseInv, TypeOK, Current
    <3>2. \A r \in Rules : content[r] = IF r = q THEN gap ELSE tree[f][r]
      BY <3>1 DEF TreeType, TextType
    <3>3. (at > 1) => f # "helper" BY <3>1, FilesInOrder
    <3>4. (at = 1) => f = "helper" BY <3>1, FilesInOrder
    <3> HIDE DEF f, content
    <3>5. /\ Settled'[f] = content
          /\ \A g \in Files : Settled[g] = tree[g]
          /\ \A g \in Files : g # f => Settled'[g] = tree[g]
          /\ UNCHANGED <<pc, gap, before>> /\ open'
      <4>1. /\ Settled'[f] = content
            /\ \A g \in Files : Settled[g] = tree[g]
            /\ \A g \in Files : g # f => Settled'[g] = tree[g] /\ tree'[g] = tree[g]
            /\ open' = TRUE
            /\ UNCHANGED <<log, rows, pc, opts, left, gap, gates, snapshot, at, outcome, counts, history>>
        BY <3>1, OpenSettled
      <4> QED BY <4>1 DEF history
    <3>6. \A g \in Files, r \in Rules :
             Settled'[g][r] = tree[g][r] \/ (r = q /\ Settled'[g][r] = gap)
      BY <3>2, <3>5
    <3>7. Settled'["helper"][q] \in Gaps
      <4>1. "helper" \in Files BY DEF Files
      <4>2. CASE at = 1 BY <3>1, <3>2, <3>4, <3>5, <4>2
      <4>3. CASE at > 1
        <5>1. Settled["helper"][q] \in Gaps BY <3>1, <4>3 DEF ImportInv
        <5> QED BY <3>3, <3>5, <4>1, <4>3, <5>1
      <4> QED BY <3>1, <4>2, <4>3
    <3>8. WholeBut(Settled, {q}) BY <3>1 DEF ImportInv, OnBothPaths
    <3>9. WholeBut(tree, {q}) BY <3>5, <3>8, WholeExtensional
    <3>10. WholeBut(Settled', {q}) BY <3>1, <3>6, <3>7, <3>9, WholePatched
    <3>11. OnBothPaths' = {q} BY <3>1, <3>5 DEF OnBothPaths
    <3> QED BY <3>1, <3>5, <3>7, <3>10, <3>11 DEF ImportInv
  <2>6. CASE CloseFile
    <3>1. /\ \A g \in Files : Settled'[g] = Settled[g]
          /\ UNCHANGED <<pc, gap, before, trusted>> /\ open
          /\ pc \in {"apply", "restore"}
      <4>1. /\ \A g \in Files : Settled'[g] = Settled[g] /\ tree'[g] = Settled[g]
            /\ pc \in {"apply", "restore"} /\ open
            /\ UNCHANGED <<log, rows, pc, opts, left, gap, gates, snapshot, outcome, counts, history>>
        BY <2>6, CloseSettled DEF TypeOK
      <4> QED BY <4>1 DEF history
    <3>2. CASE pc = "restore" BY <3>1, <3>2 DEF ImportInv
    <3>3. CASE pc = "apply"
      <4>1. WholeBut(Settled, OnBothPaths) BY <3>3 DEF ImportInv
      <4>2. WholeBut(Settled', OnBothPaths) BY <3>1, <4>1, WholeExtensional
      <4>3. OnBothPaths' = OnBothPaths BY <3>1 DEF OnBothPaths
      <4>4. Settled'["helper"][RuleOf[gap]] \in Gaps BY <3>1, <3>3 DEF ImportInv, Files
      <4> QED BY <3>1, <3>3, <4>2, <4>3, <4>4 DEF ImportInv
    <3> QED BY <3>1, <3>2, <3>3
  <2>7. CASE SkipPatch
    <3>1. /\ pc = "apply" /\ at \in 1..6 /\ ~open /\ ~Patches(ApplyOrder[at]) /\ at' = at + 1
          /\ UNCHANGED <<tree, pc, gap, before, open, trusted>>
      BY <2>7, FilesInOrder DEF SkipPatch, PhaseInv, disk, history
    <3>2. at > 1 BY <3>1, FilesInOrder DEF Patches, OwnFiles
    <3>3. Settled'["helper"] = Settled["helper"] BY <3>1, SettledClosed DEF Files
    <3>4. WholeBut(Settled', OnBothPaths')
      <4>1. OnBothPaths' = OnBothPaths BY <3>1 DEF OnBothPaths
      <4> QED BY <2>0, <3>1, <4>1
    <3> QED BY <3>1, <3>2, <3>3, <3>4 DEF ImportInv
  <2>8. CASE TrustUser
    <3>1. /\ pc = "apply" /\ pc' = "tally" /\ ~open /\ UNCHANGED <<tree, open>>
          /\ trusted' = trusted \cup {RuleOf[gap]}
      BY <2>8, FilesInOrder DEF TrustUser, PhaseInv, disk
    <3>2. OnBothPaths \subseteq OnBothPaths' BY <3>1 DEF OnBothPaths
    <3>3. WholeBut(Settled', OnBothPaths') BY <2>0, <3>1, <3>2
    <3> QED BY <3>1, <3>3 DEF ImportInv
  <2>9. CASE Validate
    <3>1. /\ pc = "apply" /\ UNCHANGED <<tree, open, before>> /\ ~open
          /\ pc' = "restore" \/ (pc' = "record" /\ Importable)
      BY <2>9, FilesInOrder DEF Validate, PhaseInv, disk, history
    <3>2. CASE pc' = "restore" BY <3>1, <3>2 DEF ImportInv
    <3>3. CASE pc' = "record" /\ Importable
      <4>1. WholeBut(tree, {}) BY <3>3, ImportableIsWhole DEF Importable
      <4>2. WholeBut(Settled', {}) BY <3>1, <4>1, SettledClosed, WholeExtensional
      <4> QED BY <3>1, <3>3, <4>2 DEF ImportInv, OnBothPaths
    <3> QED BY <3>1, <3>2, <3>3
  <2>10. CASE RestoreFile \/ UnlinkFile
    <3>1. pc = "restore" /\ UNCHANGED <<pc, before>>
      BY <2>10 DEF RestoreFile, UnlinkFile, OpenFile, history
    <3> QED BY <3>1 DEF ImportInv
  <2>11. CASE RecordAttempt
    <3>1. UNCHANGED <<tree, before, outcome, open, trusted>> /\ pc' = "tally" /\ ~open
      BY <2>11, FilesInOrder DEF RecordAttempt, PhaseInv
    <3>2. CASE pc = "record"
      <4>1. OnBothPaths = {} BY <3>2 DEF OnBothPaths
      <4>2. WholeBut(Settled', OnBothPaths') BY <2>0, <3>1, <3>2, <4>1
      <4> QED BY <3>1, <4>2 DEF ImportInv
    <3>3. CASE pc = "restore"
      <4>1. outcome' = "reverted" BY <3>1, <3>3 DEF PhaseInv
      <4>2. tree' = before BY <3>1, <4>1 DEF FrameInv, RevertRestoresTree
      <4>3. WholeBut(before, {}) BY <3>3 DEF ImportInv
      <4>4. \A f \in Files : before[f] = Settled'[f] BY <3>1, <4>2, SettledClosed
      <4>5. WholeBut(Settled', {}) BY <4>3, <4>4, WholeExtensional
      <4>6. {} \cap Declarative \subseteq OnBothPaths' OBVIOUS
      <4>7. WholeBut(Settled', OnBothPaths') BY <4>5, <4>6, WholeMonotone
      <4> QED BY <3>1, <4>7 DEF ImportInv
    <3> QED BY <2>11, <3>2, <3>3 DEF RecordAttempt
  <2>12. CASE TallyWalk
    <3>1. /\ pc = "tally" /\ pc' = "pick" /\ UNCHANGED <<tree, open>> /\ ~DualPath(tree)
      BY <2>12 DEF TallyWalk
    <3>2. ~open BY <3>1 DEF PhaseInv
    <3>3. WholeBut(Settled, OnBothPaths) BY <3>1 DEF ImportInv
    <3>4. WholeBut(tree, OnBothPaths) BY <3>2, <3>3, SettledClosed, WholeExtensional
    <3>5. WholeBut(tree, {}) BY <3>1, <3>4 DEF WholeBut, DualPath
    <3>6. WholeBut(Settled', {}) BY <3>1, <3>2, <3>5, SettledClosed, WholeExtensional
    <3> QED BY <3>1, <3>6 DEF ImportInv, OnBothPaths
  <2>13. CASE UNCHANGED vars
    <3>1. UNCHANGED <<tree, pc, gap, at, open, text, before, trusted, torn>>
      BY <2>13 DEF vars, disk, process, history
    <3>2. Settled' = Settled /\ OnBothPaths' = OnBothPaths /\ Importable' = Importable
      BY <3>1 DEF Settled, Current, OnBothPaths, Importable
    <3> QED BY <3>1, <3>2 DEF ImportInv
  <2> QED
    BY <2>1, <2>2, <2>3, <2>4, <2>5, <2>6, <2>7, <2>8, <2>9, <2>10, <2>11, <2>12, <2>13
    DEF Next, Step, Attempt, WriteStep
<1> QED BY <1>1, <1>2, TypeCorrect, AttemptFrame, PTL DEF Spec

\* Whoever is killed where, the package imports, up to the windows Exposed names.
THEOREM StaysImportable == Spec => []ImportableOutsideWrites
<1>1. TypeOK /\ PhaseInv /\ FrameInv /\ ImportInv => ImportableOutsideWrites
  <2> SUFFICES ASSUME TypeOK, PhaseInv, FrameInv, ImportInv, ~torn, ~Exposed,
                      trusted \cap Declarative = {}
               PROVE  Importable
    BY DEF ImportableOutsideWrites
  <2>1. CASE pc = "idle" BY <2>1 DEF ImportInv
  <2>2. CASE pc # "idle" BY <2>2, UnexposedImports
  <2> QED BY <2>1, <2>2
<1> QED BY <1>1, TypeCorrect, AttemptFrame, ImportFrame, PTL

\* Steps outside an attempt leave the log alone.
LEMMA LogFrame ==
    ASSUME [Next]_vars, ~Refuse, ~RecordAttempt
    PROVE  log' = log /\ forced' = forced
BY DEF Next, Step, Attempt, StartWalk, StartSingle, StartTemplate, Start, Finish, Pick,
       SkipFlagged, AttemptFlagged, CaptureState, WriteStep, PatchFile, SkipPatch, RestoreFile,
       UnlinkFile, OpenFile, CloseFile, TrustUser, Validate, TallyWalk, RefreshFails,
       ReturnSingle, Crash, vars, disk, process, history

\* Appending a record that was not refused keeps the history of retries clean.
LEMMA AppendKeepsHistory ==
    ASSUME TypeOK, NoUnforcedRetry, forced \subseteq DOMAIN log,
           NEW g \in Gaps, NEW o \in Outcomes, NEW force \in BOOLEAN,
           log' = Append1(log, g, o),
           forced' = IF force THEN forced \cup {Len(log) + 1} ELSE forced,
           o \in FreshOutcomes /\ ~force =>
               /\ ~IsKnownBad(log, TemplateOf[g], RuleOf[g])
               /\ ~IsTemplateBlocked(log, TemplateOf[g])
    PROVE  NoUnforcedRetry' /\ forced' \subseteq DOMAIN log'
<1> DEFINE rec == Record(TemplateOf[g], RuleOf[g], o)
<1>1. log \in Seq(RecordType) /\ rec \in RecordType /\ log' = Append(log, rec)
  BY RuleOfGap DEF TypeOK, Record, RecordType, Append1
<1>2. DOMAIN log = 1..Len(log) /\ DOMAIN log' = 1..(Len(log) + 1) /\ Len(log) \in Nat
  BY <1>1
<1>3. \A j \in 1..Len(log) : log'[j] = log[j] /\ SubSeq(log', 1, j - 1) = SubSeq(log, 1, j - 1)
  BY <1>1
<1>4. /\ log'[Len(log) + 1] = rec
      /\ SubSeq(log', 1, Len(log)) = log
      /\ (Len(log) + 1) - 1 = Len(log)
  BY <1>1
<1>5. forced' \subseteq DOMAIN log' BY <1>2
<1>6. ASSUME NEW j \in DOMAIN log' \ forced', log'[j].outcome \in FreshOutcomes
      PROVE  LET earlier == SubSeq(log', 1, j - 1)
             IN  /\ ~IsKnownBad(earlier, log'[j].template, log'[j].rule)
                 /\ ~IsTemplateBlocked(earlier, log'[j].template)
  <2>1. CASE j \in 1..Len(log)
    <3>1. j \in DOMAIN log \ forced BY <1>2, <1>6, <2>1
    <3> QED BY <1>3, <1>6, <2>1, <3>1 DEF NoUnforcedRetry
  <2>2. CASE j = Len(log) + 1
    <3>1. ~force BY <1>6, <2>2
    <3>2. log'[j].template = TemplateOf[g] /\ log'[j].rule = RuleOf[g] /\ log'[j].outcome = o
      BY <1>4, <2>2 DEF Record
    <3>3. SubSeq(log', 1, j - 1) = log BY <1>4, <2>2
    <3> QED BY <1>6, <3>1, <3>2, <3>3
  <2> QED BY <1>2, <2>1, <2>2
<1> QED BY <1>5, <1>6 DEF NoUnforcedRetry

\* Without --force no rule and no template is tried again once the log blocks it.
THEOREM NoRetry == Spec => []NoUnforcedRetry
<1>1. Init => RetryInv
  BY DEF Init, RetryInv, NoUnforcedRetry
<1>2. TypeOK /\ PhaseInv /\ RetryInv /\ [Next]_vars => RetryInv'
  <2> SUFFICES ASSUME TypeOK, PhaseInv, RetryInv, [Next]_vars PROVE RetryInv'
    OBVIOUS
  <2> USE DEF RetryInv
  <2>1. CASE Refuse
    <3>1. gap \in Gaps /\ "skipped" \in Outcomes /\ "skipped" \notin FreshOutcomes
      BY <2>1 DEF Refuse, TypeOK, Outcomes, FreshOutcomes, BlockingOutcomes
    <3>2. log' = Append1(log, gap, "skipped") /\ forced' = forced /\ pc' = "tally"
      BY <2>1 DEF Refuse, history
    <3>3. NoUnforcedRetry' /\ forced' \subseteq DOMAIN log'
      BY <3>1, <3>2, AppendKeepsHistory, FALSE \in BOOLEAN
    <3> QED BY <3>2, <3>3
  <2>2. CASE RecordAttempt
    <3>1. gap \in Gaps /\ outcome \in Outcomes /\ opts.force \in BOOLEAN
      BY <2>2 DEF RecordAttempt, TypeOK, OptsType
    <3>2. /\ log' = Append1(log, gap, outcome) /\ pc' = "tally"
          /\ forced' = IF opts.force THEN forced \cup {Len(log) + 1} ELSE forced
      BY <2>2 DEF RecordAttempt
    <3>3. ~opts.force => /\ ~IsKnownBad(log, TemplateOf[gap], RuleOf[gap])
                         /\ ~IsTemplateBlocked(log, TemplateOf[gap])
      BY <2>2 DEF RecordAttempt, Refused
    <3>4. NoUnforcedRetry' /\ forced' \subseteq DOMAIN log'
      BY <3>1, <3>2, <3>3, AppendKeepsHistory
    <3> QED BY <3>2, <3>4
  <2>3. CASE ~Refuse /\ ~RecordAttempt
    <3>1. log' = log /\ forced' = forced BY <2>3, LogFrame
    <3>2. NoUnforcedRetry' /\ forced' \subseteq DOMAIN log'
      BY <3>1 DEF NoUnforcedRetry
    <3>3. CASE CaptureState
      <4>1. opts.force \/ ~Refused BY <3>3 DEF CaptureState
      <4>2. UNCHANGED <<log, gap, opts>> BY <3>3 DEF CaptureState, disk
      <4> QED BY <3>2, <4>1, <4>2 DEF Refused
    <3>4. CASE WriteStep \/ TrustUser \/ Validate
      <4>1. UNCHANGED <<log, gap, opts>> /\ pc \in {"apply", "restore"}
        BY <3>4, WriteFrame DEF WriteStep, PatchFile, SkipPatch, RestoreFile, UnlinkFile,
                                PhaseInv, CloseFile, TrustUser, Validate, disk
      <4> QED BY <3>2, <4>1 DEF Refused
    <3>5. CASE UNCHANGED vars
      <4>1. UNCHANGED <<log, gap, opts, pc>> BY <3>5 DEF vars, disk, process
      <4> QED BY <3>2, <4>1 DEF Refused
    <3>6. CASE Next /\ ~Attempt
      <4>1. pc' \in {"idle", "pick", "preflight", "check"} BY <3>6, QuietSteps
      <4> QED BY <3>2, <4>1
    <3> QED BY <2>3, <3>3, <3>4, <3>5, <3>6 DEF Attempt
  <2> QED BY <2>1, <2>2, <2>3
<1>3. RetryInv => NoUnforcedRetry
  BY DEF RetryInv
<1> QED BY <1>1, <1>2, <1>3, TypeCorrect, AttemptFrame, PTL DEF Spec

\* A rule once logged as kept stays so: the log only grows.
LEMMA LoggedKeptGrows ==
    ASSUME NEW S, NEW rec \in S, log \in Seq(S), log' = Append(log, rec), NEW r, LoggedKept(r)
    PROVE  LoggedKept(r)'
<1>1. PICK i \in DOMAIN log : log[i].rule = r /\ log[i].outcome \in KeptOutcomes
  BY DEF LoggedKept
<1>2. i \in DOMAIN log' /\ log'[i] = log[i]
  OBVIOUS
<1> QED BY <1>1, <1>2 DEF LoggedKept

\* Between attempts the registry holds logged rules only, up to those nobody
\* validated and those whose attempt was killed.
THEOREM RulesAreLogged == Spec => []RegisteredRulesAreLogged
<1>1. Init => LogInv
  BY ConstantsAssumption
  DEF Init, LogInv, RegisteredRulesAreLogged, Registered, RegisteredIn, NoFiles, NoText, Files
<1>2. TypeOK /\ (PhaseInv /\ FrameInv) /\ (PhaseInv /\ FrameInv)' /\ LogInv /\ [Next]_vars
         => LogInv'
  <2> SUFFICES ASSUME TypeOK, PhaseInv, FrameInv, FrameInv', LogInv, [Next]_vars PROVE LogInv'
    OBVIOUS
  <2> USE DEF LogInv, RegisteredRulesAreLogged, Registered, RegisteredIn
  <2>1. CASE Refuse
    <3>1. "skipped" \in Outcomes /\ gap \in Gaps BY <2>1 DEF Refuse, TypeOK, Outcomes
    <3>2. Record(TemplateOf[gap], RuleOf[gap], "skipped") \in RecordType
      BY <3>1, RuleOfGap DEF Record, RecordType
    <3>3. \A r : LoggedKept(r) => LoggedKept(r)'
      BY <2>1, <3>2, LoggedKeptGrows DEF Refuse, Append1, TypeOK
    <3>4. UNCHANGED <<tree, trusted, killed>> /\ pc = "check" /\ pc' = "tally"
      BY <2>1 DEF Refuse, history
    <3> QED BY <3>3, <3>4
  <2>2. CASE RecordAttempt
    <3>1. gap \in Gaps /\ outcome \in Outcomes /\ log \in Seq(RecordType)
      BY <2>2 DEF RecordAttempt, TypeOK
    <3> DEFINE rec == Record(TemplateOf[gap], RuleOf[gap], outcome)
    <3>2. rec \in RecordType /\ log' = Append(log, rec)
      BY <2>2, <3>1, RuleOfGap DEF RecordAttempt, Append1, Record, RecordType
    <3>3. \A r : LoggedKept(r) => LoggedKept(r)'
      BY <3>1, <3>2, LoggedKeptGrows
    <3>4. UNCHANGED <<tree, gap, before, trusted, killed, outcome>> /\ pc' = "tally"
      BY <2>2 DEF RecordAttempt
    <3>5. CASE pc = "record"
      <4>1. outcome \in KeptOutcomes BY <3>5 DEF PhaseInv
      <4>2. Len(log) + 1 \in DOMAIN log' /\ log'[Len(log) + 1] = rec BY <3>1, <3>2
      <4>3. LoggedKept(RuleOf[gap])' BY <3>4, <4>1, <4>2 DEF LoggedKept, Record
      <4>4. \A r \in Rules : r # RuleOf[gap] /\ tree["registry"][r] \in Gaps =>
                               before["registry"][r] \in Gaps
        BY <3>5, ConstantsAssumption DEF FrameInv, Files
      <4> QED BY <3>3, <3>4, <3>5, <4>3, <4>4
    <3>6. CASE pc = "restore"
      <4>1. outcome = "reverted" BY <3>6 DEF PhaseInv
      <4>2. tree' = before' BY <3>4, <4>1 DEF FrameInv, RevertRestoresTree
      <4> QED BY <3>3, <3>4, <3>6, <4>2
    <3> QED BY <2>2, <3>5, <3>6 DEF RecordAttempt
  <2>3. CASE CaptureState
    <3>1. before' = tree /\ UNCHANGED <<log, tree, trusted, killed>> /\ pc = "check" /\ pc' = "apply"
      BY <2>3 DEF CaptureState, disk
    <3> QED BY <3>1 DEF LoggedKept
  <2>4. CASE WriteStep \/ Validate
    <3>1. CASE Validate
      <4>1. /\ UNCHANGED <<log, before, trusted, killed>>
            /\ pc = "apply" /\ pc' \in {"record", "restore"}
        BY <3>1 DEF Validate, disk, history
      <4> QED BY <4>1 DEF LoggedKept
    <3>2. CASE WriteStep
      <4>1. /\ UNCHANGED <<log, pc, before, trusted, killed>>
            /\ pc \in {"apply", "restore"}
        BY <3>2, WriteFrame DEF WriteStep, PatchFile, SkipPatch, RestoreFile, UnlinkFile,
                                CloseFile, PhaseInv, history
      <4> QED BY <4>1 DEF LoggedKept
    <3> QED BY <2>4, <3>1, <3>2
  <2>5. CASE TrustUser
    <3>1. /\ UNCHANGED <<log, tree, before, killed>> /\ trusted' = trusted \cup {RuleOf[gap]}
          /\ pc = "apply" /\ pc' = "tally"
      BY <2>5 DEF TrustUser, disk
    <3>2. \A r \in Rules : r # RuleOf[gap] /\ tree["registry"][r] \in Gaps =>
                             before["registry"][r] \in Gaps
      BY <3>1, ConstantsAssumption DEF FrameInv, Files
    <3> QED BY <3>1, <3>2 DEF LoggedKept
  <2>6. CASE Crash
    <3>1. /\ UNCHANGED <<log, tree, trusted>> /\ pc' = "idle"
          /\ killed' = IF pc \in {"apply", "restore", "record"}
                         THEN killed \cup {RuleOf[gap]} ELSE killed
      BY <2>6 DEF Crash, EndProcess, disk
    <3>2. CASE pc \in {"apply", "restore", "record"}
      <4>1. \A r \in Rules : r # RuleOf[gap] /\ tree["registry"][r] \in Gaps =>
                               before["registry"][r] \in Gaps
        BY <3>2, ConstantsAssumption DEF FrameInv, Files
      <4> QED BY <3>1, <3>2, <4>1 DEF LoggedKept
    <3>3. CASE pc \notin {"apply", "restore", "record"}
      BY <3>1, <3>3 DEF LoggedKept
    <3> QED BY <3>2, <3>3
  <2>7. CASE UNCHANGED vars
    <3>1. UNCHANGED <<log, tree, before, trusted, killed, pc>>
      BY <2>7 DEF vars, disk, process, history
    <3> QED BY <3>1 DEF LoggedKept
  <2>8. CASE Next /\ ~Attempt /\ ~Crash
    <3>1. /\ UNCHANGED <<log, tree, trusted, killed>>
          /\ pc \notin {"apply", "record", "restore"}
      BY <2>8 DEF Next, Step, StartWalk, StartSingle, StartTemplate, Start, Finish, Pick,
                  SkipFlagged, AttemptFlagged, TallyWalk, RefreshFails, ReturnSingle, disk, history
    <3>2. pc' \in {"idle", "pick", "preflight", "check"} BY <2>8, QuietSteps
    <3> QED BY <3>1, <3>2 DEF LoggedKept
  <2> QED
    BY <2>1, <2>2, <2>3, <2>4, <2>5, <2>6, <2>7, <2>8 DEF Attempt
<1>3. LogInv => RegisteredRulesAreLogged
  BY DEF LogInv
<1> QED BY <1>1, <1>2, <1>3, TypeCorrect, AttemptFrame, PTL DEF Spec

\* What the walk logged is what it tallied, up to the attempt it has just logged;
\* a process without validation logs nothing as passed.
Untallied(o) == IF pc = "tally" /\ outcome = o THEN 1 ELSE 0

SummaryInv ==
    /\ pc = "idle" => counts = NoCounts
    /\ pc \in {"restore", "record"} => opts.validate
    /\ pc # "idle" =>
          /\ logStart <= Len(log)
          /\ opts.mode = "walk" =>
                /\ \A o \in BlockingOutcomes : Logged(o) = counts[o] + Untallied(o)
                /\ opts.validate => Logged("passed") = counts["passed"] + Untallied("passed")
                /\ ~opts.validate => Logged("passed") = 0

LEMMA LoggedAppend ==
    ASSUME TypeOK, NEW rec \in RecordType, log' = Append(log, rec), logStart' = logStart,
           logStart <= Len(log), NEW o
    PROVE  /\ Logged(o) \in Nat
           /\ Logged(o)' = Logged(o) + (IF rec.outcome = o THEN 1 ELSE 0)
           /\ logStart' <= Len(log')
<1> DEFINE S == {i \in (logStart + 1)..Len(log) : log[i].outcome = o}
           T == {i \in (logStart + 1)..(Len(log) + 1) : log'[i].outcome = o}
<1>1. log \in Seq(RecordType) /\ logStart \in Nat /\ Len(log) \in Nat
  BY DEF TypeOK
<1>2. /\ Len(log') = Len(log) + 1 /\ log'[Len(log) + 1] = rec
      /\ \A i \in (logStart + 1)..Len(log) : log'[i] = log[i]
  BY <1>1
<1>3. IsFiniteSet(S) /\ Cardinality(S) \in Nat
  <2>1. IsFiniteSet((logStart + 1)..Len(log)) BY <1>1, FS_Interval
  <2> QED BY <2>1, FS_Subset, FS_CardinalityType
<1>4. Logged(o) = Cardinality(S)
  BY DEF Logged
<1>5. Logged(o)' = Cardinality(T)
  BY <1>2 DEF Logged
<1>6. CASE rec.outcome = o
  <2>1. T = S \cup {Len(log) + 1} /\ Len(log) + 1 \notin S
    BY <1>1, <1>2, <1>6
  <2> HIDE DEF S, T
  <2>2. Cardinality(T) = Cardinality(S) + 1 BY <1>3, <2>1, FS_AddElement
  <2> QED BY <1>1, <1>2, <1>3, <1>4, <1>5, <1>6, <2>2
<1>7. CASE rec.outcome # o
  <2>1. T = S BY <1>1, <1>2, <1>7
  <2> HIDE DEF S, T
  <2> QED BY <1>1, <1>2, <1>3, <1>4, <1>5, <1>7, <2>1
<1> QED BY <1>6, <1>7

LEMMA SummaryFrame == Spec => []SummaryInv
<1>1. Init => SummaryInv
  BY DEF Init, SummaryInv
<1>2. TypeOK /\ PhaseInv /\ SummaryInv /\ [Next]_vars => SummaryInv'
  <2> SUFFICES ASSUME TypeOK, PhaseInv, SummaryInv, [Next]_vars PROVE SummaryInv'
    OBVIOUS
  <2>0. \A o : (logStart' = logStart /\ log' = log) => Logged(o)' = Logged(o)
    BY DEF Logged
  <2>1. CASE EndProcess
    BY <2>1 DEF EndProcess, SummaryInv
  <2>2. CASE StartWalk \/ StartSingle \/ StartTemplate
    <3>1. /\ pc = "idle" /\ log' = log /\ logStart' = Len(log) /\ UNCHANGED counts
          /\ pc' \in {"pick", "check"}
      BY <2>2 DEF StartWalk, StartSingle, StartTemplate, Start, disk
    <3>2. \A o : Logged(o)' = 0
      <4> TAKE o
      <4>1. {i \in (logStart' + 1)..Len(log') : log'[i].outcome = o} = {}
        BY <3>1 DEF TypeOK
      <4> QED BY <4>1, FS_EmptySet DEF Logged
    <3>3. \A o \in Outcomes : counts'[o] = 0 BY <3>1 DEF SummaryInv, NoCounts
    <3> QED BY <3>1, <3>2, <3>3
            DEF SummaryInv, Untallied, TypeOK, Outcomes, FreshOutcomes, BlockingOutcomes
  <2>3. CASE Refuse
    <3>1. /\ pc = "check" /\ pc' = "tally" /\ outcome' = "skipped" /\ gap \in Gaps
          /\ UNCHANGED <<opts, counts, logStart>> /\ log' = Append1(log, gap, "skipped")
      BY <2>3 DEF Refuse, TypeOK, history
    <3>2. /\ Record(TemplateOf[gap], RuleOf[gap], "skipped") \in RecordType
          /\ Record(TemplateOf[gap], RuleOf[gap], "skipped").outcome = "skipped"
      BY <3>1, RuleOfGap DEF Record, RecordType, Outcomes
    <3>3. \A o : logStart' <= Len(log') /\ (o # "skipped" => Logged(o)' = Logged(o))
      BY <3>1, <3>2, LoggedAppend DEF SummaryInv, Append1
    <3> QED BY <3>1, <3>3 DEF SummaryInv, Untallied, BlockingOutcomes
  <2>4. CASE RecordAttempt
    <3>1. /\ pc \in {"record", "restore"} /\ pc' = "tally" /\ gap \in Gaps /\ outcome \in Outcomes
          /\ UNCHANGED <<opts, counts, logStart, outcome>> /\ log' = Append1(log, gap, outcome)
      BY <2>4 DEF RecordAttempt, TypeOK
    <3>2. /\ Record(TemplateOf[gap], RuleOf[gap], outcome) \in RecordType
          /\ Record(TemplateOf[gap], RuleOf[gap], outcome).outcome = outcome
      BY <3>1, RuleOfGap DEF Record, RecordType
    <3>3. \A o : /\ logStart' <= Len(log')
                 /\ Logged(o)' = Logged(o) + (IF outcome = o THEN 1 ELSE 0)
      BY <3>1, <3>2, LoggedAppend DEF SummaryInv, Append1
    <3>4. opts.validate BY <3>1 DEF SummaryInv
    <3>5. \A o \in Outcomes : counts[o] \in Nat BY DEF TypeOK
    <3>6. BlockingOutcomes \subseteq Outcomes /\ "passed" \in Outcomes
      BY DEF Outcomes, FreshOutcomes
    <3> QED BY <3>1, <3>3, <3>4, <3>5, <3>6 DEF SummaryInv, Untallied
  <2>5. CASE TrustUser
    <3>1. /\ pc = "apply" /\ pc' = "tally" /\ outcome' = "passed" /\ ~opts.validate
          /\ UNCHANGED <<log, logStart, opts, counts>>
      BY <2>5 DEF TrustUser, disk
    <3> QED BY <2>0, <3>1 DEF SummaryInv, Untallied, BlockingOutcomes
  <2>6. CASE TallyWalk
    <3>1. /\ pc = "tally" /\ pc' = "pick" /\ UNCHANGED <<log, logStart, opts>>
          /\ counts' = [counts EXCEPT ![outcome] = @ + 1] /\ outcome \in Outcomes
      BY <2>6 DEF TallyWalk, history, TypeOK
    <3>2. \A o \in Outcomes : counts'[o] = counts[o] + Untallied(o) /\ Untallied(o)' = 0
      BY <3>1 DEF TypeOK, Untallied
    <3>3. BlockingOutcomes \subseteq Outcomes /\ "passed" \in Outcomes
      BY DEF Outcomes, FreshOutcomes
    <3>4. \A o \in Outcomes : counts'[o] \in Nat BY <3>1 DEF TypeOK
    <3> QED BY <2>0, <3>1, <3>2, <3>3, <3>4 DEF SummaryInv
  <2>7. CASE SkipFlagged
    <3>1. /\ pc = "preflight" /\ pc' = "pick" /\ UNCHANGED <<log, logStart, opts>>
          /\ counts' = [counts EXCEPT !["skipped"] = @ + 1]
      BY <2>7 DEF SkipFlagged, history
    <3>2. \A o \in Outcomes \ {"skipped"} : counts'[o] = counts[o] BY <3>1 DEF TypeOK
    <3>3. BlockingOutcomes \subseteq Outcomes \ {"skipped"} /\ "passed" \in Outcomes \ {"skipped"}
      BY DEF Outcomes, FreshOutcomes, BlockingOutcomes
    <3> QED BY <2>0, <3>1, <3>2, <3>3 DEF SummaryInv, Untallied
  <2>8. CASE Pick \/ AttemptFlagged \/ CaptureState \/ Validate
    <3>1. /\ UNCHANGED <<log, logStart, opts, counts>>
          /\ pc \notin {"idle", "tally"} /\ pc' \notin {"idle", "tally"}
          /\ pc' \in {"restore", "record"} => opts.validate
      BY <2>8 DEF Pick, AttemptFlagged, CaptureState, Validate, disk, history, SummaryInv
    <3> QED BY <2>0, <3>1 DEF SummaryInv, Untallied
  <2>9. CASE UNCHANGED vars
    <3>1. UNCHANGED <<log, logStart, opts, counts, pc, outcome>>
      BY <2>9 DEF vars, disk, process, history
    <3> QED BY <2>0, <3>1 DEF SummaryInv, Untallied
  <2>10. CASE WriteStep
    <3>1. UNCHANGED <<log, logStart, opts, counts, pc, outcome>>
      BY <2>10, WriteFrame DEF history
    <3> QED BY <2>0, <3>1 DEF SummaryInv, Untallied
  <2> QED
    BY <2>1, <2>2, <2>3, <2>4, <2>5, <2>6, <2>7, <2>8, <2>9, <2>10
    DEF Next, Step, Attempt, Finish, RefreshFails, ReturnSingle, Crash
<1> QED BY <1>1, <1>2, TypeCorrect, AttemptFrame, PTL DEF Spec

\* The walk's summary counts what the walk appended to the log, blocking outcomes
\* and passes alike, whatever else the log held.
THEOREM SummaryCountsLog == Spec => []SummaryMatchesLog
<1>1. TypeOK /\ SummaryInv => SummaryMatchesLog
  BY DEF SummaryInv, SummaryMatchesLog, Untallied, TypeOK, Outcomes,
         FreshOutcomes, BlockingOutcomes
<1> QED BY <1>1, TypeCorrect, SummaryFrame, PTL

\* A walk attempts what its log does not block; the process knows no rule that the
\* tree its attempt found did not register; and what an attempt leaves behind is a
\* registered rule or a record that blocks its own, and never reopens a template.
Earlier == SubSeq(log, 1, Len(log) - 1)

QueueInv ==
    /\ opts.mode = "walk" /\ pc \in {"preflight", "check", "apply", "restore", "record"} => ~Refused
    /\ pc \in {"pick", "preflight", "check", "tally"} => gates \subseteq Registered
    /\ pc \in {"apply", "restore", "record"} =>
          \A r \in gates : r \in Rules /\ before["registry"][r] \in Gaps
    /\ pc = "apply" /\ open => text[RuleOf[gap]] = gap
    /\ pc = "apply" /\ at > 4 => RuleOf[gap] \in Registered
    /\ pc = "record" => RuleOf[gap] \in Registered
    /\ pc = "tally" /\ opts.mode = "walk" =>
          /\ outcome # "skipped"
          /\ outcome # "reverted" => RuleOf[gap] \in Registered
          /\ IF opts.validate
             THEN /\ log # <<>> /\ log = Append1(Earlier, gap, outcome)
                  /\ ~IsTemplateBlocked(Earlier, TemplateOf[gap])
             ELSE outcome = "passed"

\* Whatever is tried once more, a record never takes back that a rule is bad, and
\* unless it is a pass of its template it never unblocks one.
LEMMA AppendKeepsBlocks ==
    ASSUME NEW aLog \in Seq(RecordType), NEW rec \in RecordType, NEW t, NEW r
    PROVE  LET longer == Append(aLog, rec)
           IN  /\ IsKnownBad(aLog, t, r) => IsKnownBad(longer, t, r)
               /\ IsTemplateBlocked(aLog, t) /\ (rec.template # t \/ rec.outcome # "passed")
                     => IsTemplateBlocked(longer, t)
<1> DEFINE longer == Append(aLog, rec)
           Of(seq, outs) == {i \in DOMAIN seq : seq[i].template = t /\ seq[i].outcome \in outs}
<1>1. /\ DOMAIN aLog = 1..Len(aLog) /\ DOMAIN longer = 1..(Len(aLog) + 1) /\ Len(aLog) \in Nat
      /\ longer[Len(aLog) + 1] = rec /\ \A i \in DOMAIN aLog : longer[i] = aLog[i]
  OBVIOUS
<1>2. ASSUME NEW outs
      PROVE  /\ IsFiniteSet(Of(longer, outs)) /\ IsFiniteSet(Of(aLog, outs))
             /\ Of(aLog, outs) \subseteq Of(longer, outs)
             /\ rec.template # t \/ rec.outcome \notin outs => Of(aLog, outs) = Of(longer, outs)
  <2>1. IsFiniteSet(1..(Len(aLog) + 1)) /\ IsFiniteSet(1..Len(aLog)) BY <1>1, FS_Interval
  <2>2. Of(longer, outs) \subseteq 1..(Len(aLog) + 1) /\ Of(aLog, outs) \subseteq 1..Len(aLog) BY <1>1
  <2>3. IsFiniteSet(Of(longer, outs)) /\ IsFiniteSet(Of(aLog, outs))
    <3> HIDE DEF Of, longer
    <3> QED BY <2>1, <2>2, FS_Subset
  <2>4. Of(aLog, outs) \subseteq Of(longer, outs) BY <1>1
  <2>5. rec.template # t \/ rec.outcome \notin outs => Of(aLog, outs) = Of(longer, outs) BY <1>1
  <2> QED BY <2>3, <2>4, <2>5
<1>3. \A outs : /\ Attempts(aLog, t, outs) = Cardinality(Of(aLog, outs))
               /\ Attempts(longer, t, outs) = Cardinality(Of(longer, outs))
  BY DEF Attempts
<1>4. ASSUME NEW outs
      PROVE  /\ Attempts(aLog, t, outs) \in Nat /\ Attempts(longer, t, outs) \in Nat
             /\ Attempts(aLog, t, outs) <= Attempts(longer, t, outs)
             /\ rec.template # t \/ rec.outcome \notin outs =>
                   Attempts(aLog, t, outs) = Attempts(longer, t, outs)
  <2>1. /\ IsFiniteSet(Of(longer, outs)) /\ IsFiniteSet(Of(aLog, outs))
        /\ Of(aLog, outs) \subseteq Of(longer, outs)
        /\ rec.template # t \/ rec.outcome \notin outs => Of(aLog, outs) = Of(longer, outs)
    BY <1>2
  <2> HIDE DEF Of, longer
  <2>2. /\ Cardinality(Of(aLog, outs)) \in Nat /\ Cardinality(Of(longer, outs)) \in Nat
        /\ Cardinality(Of(aLog, outs)) <= Cardinality(Of(longer, outs))
    BY <2>1, FS_Subset, FS_CardinalityType
  <2> QED BY <1>3, <2>1, <2>2
<1>5. IsKnownBad(aLog, t, r) => IsKnownBad(longer, t, r)
  BY <1>1 DEF IsKnownBad
<1>6. IsTemplateBlocked(aLog, t) /\ (rec.template # t \/ rec.outcome # "passed")
         => IsTemplateBlocked(longer, t)
  <2> HIDE DEF longer
  <2>1. /\ Attempts(aLog, t, FreshOutcomes) \in Nat /\ Attempts(longer, t, FreshOutcomes) \in Nat
        /\ Attempts(aLog, t, {"passed"}) \in Nat /\ Attempts(longer, t, {"passed"}) \in Nat
        /\ Attempts(aLog, t, FreshOutcomes) <= Attempts(longer, t, FreshOutcomes)
        /\ rec.template # t \/ rec.outcome # "passed" =>
              Attempts(aLog, t, {"passed"}) = Attempts(longer, t, {"passed"})
    BY <1>4
  <2> QED BY <2>1 DEF IsTemplateBlocked, BlockRate, BlockMinFresh
<1> QED BY <1>5, <1>6

\* What an attempt knows of the queue it was picked from.
LEMMA QueueFrame == Spec => []QueueInv
<1>1. Init => QueueInv
  BY DEF Init, QueueInv
<1>2. TypeOK /\ PhaseInv /\ FrameInv /\ FrameInv' /\ ImportInv /\ SummaryInv /\ QueueInv
         /\ [Next]_vars => QueueInv'
  <2> SUFFICES ASSUME TypeOK, PhaseInv, FrameInv, FrameInv', ImportInv, SummaryInv, QueueInv,
                      [Next]_vars
               PROVE  QueueInv'
    OBVIOUS
  <2> USE DEF QueueInv, Registered, RegisteredIn
  <2>1. CASE EndProcess
    BY <2>1 DEF EndProcess
  <2>2. CASE StartWalk \/ StartSingle \/ StartTemplate
    <3>1. /\ tree' = tree /\ gates' = Registered
          /\ pc' \in {"pick", "check"} /\ (pc' = "check" => opts'.mode = "template")
      BY <2>2 DEF StartWalk, StartSingle, StartTemplate, Start, disk
    <3> QED BY <3>1
  <2>3. CASE Pick
    <3>1. /\ UNCHANGED <<tree, log, opts, gates>> /\ pc = "pick"
          /\ pc' \in {"preflight", "check"}
          /\ \E i \in Candidates(gates, log) : gap' = Queue[i]
      BY <2>3 DEF Pick, disk, IsTop
    <3> QED BY <3>1 DEF Candidates, Pickable, Refused, Registered
  <2>4. CASE SkipFlagged
    <3>1. tree' = tree /\ gates' = Registered /\ pc' = "pick"
      BY <2>4 DEF SkipFlagged
    <3> QED BY <3>1
  <2>5. CASE AttemptFlagged
    <3>1. UNCHANGED <<tree, log, opts, gates, gap>> /\ pc = "preflight" /\ pc' = "check"
      BY <2>5 DEF AttemptFlagged
    <3> QED BY <3>1 DEF Refused
  <2>6. CASE Refuse
    <3>1. /\ UNCHANGED <<tree, opts, gates>> /\ pc = "check" /\ pc' = "tally" /\ opts.mode # "walk"
      BY <2>6 DEF Refuse
    <3> QED BY <3>1
  <2>7. CASE CaptureState
    <3>1. /\ UNCHANGED <<tree, log, opts, gates, gap, open>> /\ before' = tree
          /\ pc = "check" /\ pc' = "apply" /\ at' = 1
      BY <2>7 DEF CaptureState, disk
    <3>2. ~open' BY <3>1 DEF PhaseInv
    <3> QED BY <3>1, <3>2 DEF Refused
  <2>8. CASE PatchFile
    <3> DEFINE f == ApplyOrder[at]
               r == RuleOf[gap]
               content == [tree[f] EXCEPT ![r] = gap]
    <3>1. /\ pc = "apply" /\ at \in 1..6 /\ gap \in Gaps /\ f \in Files /\ r \in Rules
          /\ tree \in TreeType /\ OpenFile(f, content)
      BY <2>8, FilesInOrder, RuleOfGap DEF PatchFile, TypeOK, PhaseInv
    <3>2. content[r] = gap BY <3>1 DEF TreeType, TextType
    <3>3. at > 4 => f # "registry" BY <3>1, FilesInOrder
    <3>4. "registry" \in Files BY DEF Files
    <3> HIDE DEF f, content
    <3>5. /\ UNCHANGED <<log, opts, gates, gap, pc, before, at>> /\ text' = content
          /\ tree' = [tree EXCEPT ![f] = Truncated(f)]
      BY <3>1 DEF OpenFile, history
    <3>6. at > 4 => tree'["registry"] = tree["registry"] BY <3>1, <3>3, <3>4, <3>5 DEF TreeType
    <3> QED BY <3>1, <3>2, <3>5, <3>6 DEF Refused
  <2>15. CASE SkipPatch
    <3>1. /\ UNCHANGED <<tree, log, opts, gates, gap, pc, before, open, text>> /\ at' = at + 1
          /\ pc = "apply" /\ at \in 1..6 /\ ~open /\ ~Patches(ApplyOrder[at])
          /\ RuleOf[gap] \in Rules /\ tree \in TreeType
      BY <2>15, FilesInOrder, RuleOfGap DEF SkipPatch, PhaseInv, TypeOK, disk, history
    <3>2. CASE at = 4
      <4>1. tree["registry"][RuleOf[gap]] # NoGap BY <3>1, <3>2, FilesInOrder DEF Patches
      <4>2. "registry" \in SharedFiles /\ "registry" \in Files BY DEF SharedFiles, OwnFiles, Files
      <4>3. Settled["registry"] = tree["registry"] BY <3>1, <4>2, SettledClosed
      <4>4. tree["registry"][RuleOf[gap]] # Partial
        BY <3>1, <4>2, <4>3 DEF ImportInv, WholeBut
      <4>5. tree["registry"][RuleOf[gap]] \in Gaps BY <3>1, <4>1, <4>2, <4>4 DEF TreeType, TextType
      <4> QED BY <3>1, <3>2, <4>5 DEF Refused
    <3>3. CASE at # 4 BY <3>1, <3>3 DEF Refused
    <3> QED BY <3>2, <3>3
  <2>16. CASE CloseFile
    <3>1. /\ UNCHANGED <<log, opts, gates, gap, before, pc>> /\ pc \in {"apply", "restore"}
          /\ open /\ open' = FALSE /\ at \in 1..6 /\ at' = at + 1
          /\ tree' = [tree EXCEPT ![Current] = text] /\ tree \in TreeType
      BY <2>16 DEF CloseFile, PhaseInv, TypeOK, history
    <3>2. CASE pc = "restore" BY <3>1, <3>2 DEF Refused
    <3>3. CASE pc = "apply"
      <4>1. text[RuleOf[gap]] = gap /\ gap \in Gaps /\ RuleOf[gap] \in Rules
        BY <3>1, <3>3, RuleOfGap DEF TypeOK
      <4>2. Current = ApplyOrder[at] /\ Current \in Files /\ "registry" \in Files
        BY <3>1, <3>3, FilesInOrder DEF Current, Files
      <4>3. CASE at = 4
        <5>1. tree'["registry"][RuleOf[gap]] = gap
          BY <3>1, <4>1, <4>2, <4>3, FilesInOrder DEF TreeType
        <5> QED BY <3>1, <3>3, <4>1, <5>1 DEF Refused
      <4>4. CASE at # 4
        <5>1. tree'["registry"] = tree["registry"]
          BY <3>1, <4>2, <4>4, FilesInOrder DEF TreeType
        <5> QED BY <3>1, <3>3, <4>4, <5>1 DEF Refused
      <4> QED BY <4>3, <4>4
    <3> QED BY <3>1, <3>2, <3>3
  <2>9. CASE TrustUser
    <3>1. /\ UNCHANGED <<tree, log, opts, gates, gap>> /\ pc = "apply" /\ pc' = "tally"
          /\ at > 6 /\ ~opts.validate /\ outcome' = "passed" /\ ~open
      BY <2>9, FilesInOrder DEF TrustUser, PhaseInv, disk
    <3>2. RuleOf[gap] \in Registered /\ tree' = tree
      BY <3>1 DEF PhaseInv
    <3>3. \A r \in gates : r \in Registered
      <4>1. "registry" \in Files BY DEF Files
      <4>2. \A r \in Rules : r # RuleOf[gap] => tree["registry"][r] = before["registry"][r]
        BY <3>1, <4>1, SettledClosed DEF FrameInv
      <4>3. \A r \in gates : r \in Rules /\ before["registry"][r] \in Gaps BY <3>1
      <4> QED BY <3>2, <4>2, <4>3
    <3> QED BY <3>1, <3>2, <3>3
  <2>10. CASE Validate
    <3>1. /\ UNCHANGED <<tree, log, opts, gates, gap, before>> /\ pc = "apply"
          /\ pc' \in {"restore", "record"} /\ (pc' = "record" => RuleOf[gap] \in Registered)
          /\ tree' = tree
      BY <2>10 DEF Validate, disk, history
    <3> QED BY <3>1 DEF Refused
  <2>11. CASE RestoreFile \/ UnlinkFile
    <3>1. UNCHANGED <<log, opts, gates, gap, before, pc>> /\ pc = "restore"
      BY <2>11 DEF RestoreFile, UnlinkFile, OpenFile, history
    <3> QED BY <3>1 DEF Refused
  <2>12. CASE RecordAttempt
    <3>1. /\ UNCHANGED <<tree, opts, gates, gap, outcome, before>> /\ pc' = "tally"
          /\ log' = Append1(log, gap, outcome) /\ pc \in {"record", "restore"}
          /\ gap \in Gaps /\ log \in Seq(RecordType) /\ outcome \in Outcomes
      BY <2>12 DEF RecordAttempt, TypeOK
    <3>2. Record(TemplateOf[gap], RuleOf[gap], outcome) \in RecordType
      BY <3>1, RuleOfGap DEF Record, RecordType
    <3>3. log' # <<>> /\ Len(log') - 1 = Len(log) /\ SubSeq(log', 1, Len(log)) = log
      BY <3>1, <3>2 DEF Append1
    <3>4. opts.validate BY <3>1 DEF SummaryInv
    <3>5. \A r \in gates : r \in Registered
      <4>1. CASE pc = "record"
        <5>1. "registry" \in Files BY DEF Files
        <5>2. ~open BY <4>1 DEF PhaseInv
        <5>3. \A r \in Rules : r # RuleOf[gap] => tree["registry"][r] = before["registry"][r]
          BY <4>1, <5>1, <5>2, SettledClosed DEF FrameInv
        <5>4. \A r \in gates : r \in Rules /\ before["registry"][r] \in Gaps BY <4>1
        <5>5. RuleOf[gap] \in Registered BY <4>1
        <5> QED BY <5>3, <5>4, <5>5
      <4>2. CASE pc = "restore"
        <5>1. tree' = before' BY <3>1, <4>2 DEF FrameInv, RevertRestoresTree, PhaseInv
        <5> QED BY <3>1, <4>2, <5>1 DEF Registered
      <4> QED BY <3>1, <4>1, <4>2
    <3>6. outcome # "reverted" => RuleOf[gap] \in Registered
      BY <3>1 DEF PhaseInv
    <3>7. outcome # "skipped"
      BY <3>1 DEF PhaseInv, KeptOutcomes
    <3>8. Earlier' = log
      BY <3>3 DEF Earlier
    <3>9. Registered' = Registered
      BY <3>1 DEF Registered
    <3> QED BY <3>1, <3>3, <3>4, <3>5, <3>6, <3>7, <3>8, <3>9 DEF Refused, Append1
  <2>13. CASE TallyWalk
    <3>1. tree' = tree /\ gates' = Registered /\ pc' = "pick"
      BY <2>13 DEF TallyWalk
    <3> QED BY <3>1
  <2>14. CASE UNCHANGED vars
    <3>1. UNCHANGED <<tree, log, opts, gates, gap, before, pc, at, open, text, outcome>>
      BY <2>14 DEF vars, disk, process, history
    <3> QED BY <3>1 DEF Refused, Earlier
  <2> QED
    BY <2>1, <2>2, <2>3, <2>4, <2>5, <2>6, <2>7, <2>8, <2>9, <2>10, <2>11, <2>12, <2>13, <2>14,
       <2>15, <2>16
    DEF Next, Step, Attempt, WriteStep, Finish, RefreshFails, ReturnSingle, Crash
<1> QED BY <1>1, <1>2, TypeCorrect, AttemptFrame, ImportFrame, SummaryFrame, PTL DEF Spec

\* An attempt of a walk takes its gap out of the queue and puts none back, whatever
\* the log, the rules and the verdict: for a gap its own rule covers, the walk moves on.
THEOREM AttemptsShrinkQueue == Spec => AttemptShrinksQueue
<1>1. TypeOK /\ QueueInv /\ [Next]_vars =>
        (pc = "tally" /\ pc' = "pick" /\ gap \in Closing =>
           Candidates(gates', log') \subseteq {i \in Candidates(gates, LastLogged) : Queue[i] # gap})
  <2> SUFFICES ASSUME TypeOK, QueueInv, [Next]_vars, pc = "tally", pc' = "pick", gap \in Closing,
                      NEW i \in Candidates(gates', log')
               PROVE  i \in Candidates(gates, LastLogged) /\ Queue[i] # gap
    OBVIOUS
  <2>1. opts.mode = "walk" /\ gates' = Registered /\ log' = log
    <3>1. ~WriteStep
      BY WriteFrame
    <3> QED
      BY <3>1 DEF Next, Step, Attempt, StartWalk, StartSingle, StartTemplate, Start, Finish,
                  EndProcess, Pick, SkipFlagged, AttemptFlagged, Refuse, CaptureState, TrustUser,
                  Validate, RecordAttempt, TallyWalk, RefreshFails, ReturnSingle, Crash, vars,
                  process
  <2>2. /\ i \in DOMAIN Queue /\ Eligible(Registered, Queue[i])
        /\ ~IsTemplateBlocked(log, TemplateOf[Queue[i]])
        /\ ~IsKnownBad(log, TemplateOf[Queue[i]], RuleOf[Queue[i]])
    BY <2>1 DEF Candidates, Pickable
  <2>3. Eligible(gates, Queue[i])
    BY <2>2 DEF Eligible, QueueInv
  <2>4. gap \in Gaps /\ outcome \in Outcomes /\ log \in Seq(RecordType) /\ outcome # "skipped"
    BY <2>1 DEF TypeOK, QueueInv
  <2>5. CASE ~opts.validate
    <3>1. LastLogged = log /\ outcome = "passed" /\ RuleOf[gap] \in Registered
      BY <2>1, <2>4, <2>5 DEF LastLogged, QueueInv
    <3>2. Queue[i] # gap BY <2>2, <3>1 DEF Eligible
    <3> QED BY <2>2, <2>3, <3>1, <3>2 DEF Candidates, Pickable
  <2>6. CASE opts.validate
    <3> DEFINE rec == Record(TemplateOf[gap], RuleOf[gap], outcome)
    <3>1. LastLogged = Earlier /\ log = Append(Earlier, rec) /\ log # <<>>
      BY <2>1, <2>4, <2>6 DEF LastLogged, Earlier, QueueInv, Append1
    <3>2. /\ rec \in RecordType /\ rec.template = TemplateOf[gap] /\ rec.rule = RuleOf[gap]
          /\ rec.outcome = outcome
      BY <2>4, RuleOfGap DEF Record, RecordType
    <3>3. Earlier \in Seq(RecordType)
      BY <2>4, <3>1 DEF Earlier
    <3>4. ~IsKnownBad(Earlier, TemplateOf[Queue[i]], RuleOf[Queue[i]])
      BY <2>2, <3>1, <3>2, <3>3, AppendKeepsBlocks
    <3>5. ~IsTemplateBlocked(Earlier, TemplateOf[Queue[i]])
      <4>1. CASE TemplateOf[Queue[i]] = TemplateOf[gap]
        BY <2>1, <2>6, <4>1 DEF QueueInv
      <4>2. CASE TemplateOf[Queue[i]] # TemplateOf[gap]
        BY <2>2, <3>1, <3>2, <3>3, <4>2, AppendKeepsBlocks
      <4> QED BY <4>1, <4>2
    <3>6. Queue[i] # gap
      <4>1. CASE outcome \in BlockingOutcomes
        <5>1. Len(log) \in DOMAIN log /\ log[Len(log)] = rec
          BY <3>1, <3>2, <3>3
        <5> QED BY <2>2, <3>2, <4>1, <5>1 DEF IsKnownBad
      <4>2. CASE outcome \notin BlockingOutcomes
        <5>1. RuleOf[gap] \in Registered BY <2>1, <4>2 DEF QueueInv, BlockingOutcomes
        <5> QED BY <2>2, <5>1 DEF Eligible
      <4> QED BY <4>1, <4>2
    <3> QED BY <2>2, <2>3, <3>1, <3>4, <3>5, <3>6 DEF Candidates, Pickable
  <2> QED BY <2>5, <2>6
<1> QED BY <1>1, TypeCorrect, QueueFrame, PTL DEF Spec, AttemptShrinksQueue
=============================================================================
