-------------------------- MODULE IssueLoopProofs ---------------------------
(* Theorems about IssueLoop, for every value of its constants.              *)
EXTENDS IssueLoop, TLAPS

-----------------------------------------------------------------------------
(* The workflow graph.                                                      *)

\* No other step has the verdicts of a later one: what a route's target
\* requires, its source required already or the route itself decides.
LEMMA RoutedVerdicts ==
    ASSUME NEW step \in Step, NEW found \in Signal, NEW to \in Step,
           ParsesTo(step, found, to)
    PROVE  /\ RequiredVerdicts(to) \subseteq
                  RequiredVerdicts(step) \cup VerdictOf(step, to)
           /\ step # "select-issue" /\ to # "select-issue"
           /\ \E r \in STEP_ROUTING : r.from = step /\ r.to = to
  <1>1. PICK r \in STEP_ROUTING : r.from = step /\ r.to = to
    BY DEF ParsesTo, Route, NoStep, Step, TestingSteps, BrowserQaSteps
  <1>2. /\ step # "select-issue" /\ to # "select-issue"
        /\ to = "browser-validation" => step = "run-tests"
        /\ to = "code-review"        => step = "browser-validation"
        /\ to = "update-docs"        => step = "code-review"
        /\ to = "stage-changes"      => step = "update-docs"
        /\ to = "commit-changes"     => step = "stage-changes"
        /\ to = "complete-issue"     => step = "commit-changes"
    BY <1>1 DEF STEP_ROUTING, Route, NoStep, Step, TestingSteps, BrowserQaSteps
  <1>3. RequiredVerdicts(to) \subseteq RequiredVerdicts(step) \cup VerdictOf(step, to)
    BY <1>2 DEF RequiredVerdicts, VerdictOf, Verdict, BehindTests, BehindBrowser,
                BehindReview
  <1> QED BY <1>1, <1>2, <1>3

\* Only select-issue has no route at all, and only complete-issue routes out.
LEMMA RoutedOut ==
    ASSUME NEW step \in Step, NEW found \in Signal,
           ParsesTo(step, found, NoStep)
    PROVE  step \in {"select-issue", "complete-issue"}
  BY DEF ParsesTo, STEP_ROUTING, Route, NoStep, Step, TestingSteps, BrowserQaSteps

\* A route is a valid transition.
LEMMA RoutesAreValid ==
    ASSUME NEW step, NEW to, NEW skipped, NEW g,
           \E r \in STEP_ROUTING : r.from = step /\ r.to = to
    PROVE  ValidTransition(g, step, to, skipped)
  BY DEF ValidTransition

\* fix-tests is the one step that cannot be left by a skip, when the browser
\* gate is on: the testing steps are closed under skips and none of them has a
\* route to the review.
LEMMA FixTestsIsStuck ==
    ASSUME NEW g \in Gates, ~g.require_testing, g.require_browser_qa
    PROVE  ~ValidTransition(g, "fix-tests", "code-review", TRUE)
  <1>1. ~ \E r \in STEP_ROUTING : r.from = "fix-tests" /\ r.to = "code-review"
    BY DEF STEP_ROUTING, Route
  <1>2. TestingSteps \in SUBSET Skippable(g)
    BY DEF Skippable, ShouldSkipStep, Step, TestingSteps
  <1>3. ClosedUnderSkips(g, "fix-tests", TestingSteps)
    BY DEF ClosedUnderSkips, Skippable, ShouldSkipStep, STEP_ROUTING, Route,
           TestingSteps, BrowserQaSteps, Gates
  <1>4. ~ \E r \in STEP_ROUTING :
             r.from \in TestingSteps \cup {"fix-tests"} /\ r.to = "code-review"
    BY DEF STEP_ROUTING, Route, TestingSteps
  <1> QED BY <1>1, <1>2, <1>3, <1>4 DEF ValidTransition, IsReachableViaSkip

\* Every other skip is a valid transition.
LEMMA SkipsAreValid ==
    ASSUME NEW g \in Gates, NEW step \in Step, ShouldSkipStep(g, step),
           ~(step = "fix-tests" /\ g.require_browser_qa)
    PROVE  ValidTransition(g, step, SkipTarget(g, step), TRUE)
  <1>1. CASE step = "browser-validation"
    <2>1. Route("browser-validation", "pass", "code-review") \in STEP_ROUTING
      BY DEF STEP_ROUTING
    <2> QED BY <1>1, <2>1 DEF ValidTransition, SkipTarget, Route
  <1>2. CASE step = "run-tests" /\ g.require_browser_qa
    <2>1. Route("run-tests", "pass", "browser-validation") \in STEP_ROUTING
      BY DEF STEP_ROUTING
    <2> QED BY <1>2, <2>1 DEF ValidTransition, SkipTarget, Route
  <1>3. CASE step \in TestingSteps /\ ~(step = "run-tests" /\ g.require_browser_qa)
    <2>1. SUFFICES ASSUME NEW S \in SUBSET Skippable(g), ClosedUnderSkips(g, step, S)
                   PROVE  \E r \in STEP_ROUTING :
                              r.from \in S \cup {step} /\ r.to = SkipTarget(g, step)
      BY DEF ValidTransition, IsReachableViaSkip
    <2>2. ~g.require_testing
      BY <1>3 DEF ShouldSkipStep, TestingSteps, BrowserQaSteps
    <2>3. "run-tests" \in S \cup {step}
      <3>1. CASE step = "run-tests"
        BY <3>1
      <3>2. CASE step = "write-tests"
        <4>1. Route("write-tests", "default", "run-tests") \in STEP_ROUTING
          BY DEF STEP_ROUTING
        <4> QED BY <2>1, <2>2, <3>2, <4>1 DEF ClosedUnderSkips, Skippable,
                   ShouldSkipStep, Route, Step, TestingSteps
      <3>3. CASE step = "fix-tests"
        <4>1. Route("fix-tests", "default", "run-tests") \in STEP_ROUTING
          BY DEF STEP_ROUTING
        <4> QED BY <2>1, <2>2, <3>3, <4>1 DEF ClosedUnderSkips, Skippable,
                   ShouldSkipStep, Route, Step, TestingSteps
      <3> QED BY <1>3, <3>1, <3>2, <3>3 DEF TestingSteps
    <2>4. Route("run-tests", "pass", "browser-validation") \in STEP_ROUTING
      BY DEF STEP_ROUTING
    <2>5. CASE g.require_browser_qa
      <3>1. SkipTarget(g, step) = "browser-validation"
        BY <1>3, <2>5 DEF SkipTarget, TestingSteps
      <3> QED BY <2>3, <2>4, <3>1 DEF Route
    <2>6. CASE ~g.require_browser_qa
      <3>1. SkipTarget(g, step) = "code-review"
        BY <2>6 DEF SkipTarget
      <3>2. "browser-validation" \in S \cup {step}
        BY <2>1, <2>3, <2>4, <2>6 DEF ClosedUnderSkips, Skippable, ShouldSkipStep,
           Route, Step, TestingSteps, BrowserQaSteps
      <3>3. Route("browser-validation", "pass", "code-review") \in STEP_ROUTING
        BY DEF STEP_ROUTING
      <3> QED BY <3>1, <3>2, <3>3 DEF Route
    <2> QED BY <2>5, <2>6
  <1> QED
    BY <1>1, <1>2, <1>3 DEF ShouldSkipStep, TestingSteps, BrowserQaSteps

\* A skip that is made jumps over no verdict that a gate demands.
LEMMA SkippedVerdicts ==
    ASSUME NEW g \in Gates, NEW step \in Step, ShouldSkipStep(g, step),
           ValidTransition(g, step, SkipTarget(g, step), TRUE)
    PROVE  /\ step # "select-issue" /\ SkipTarget(g, step) # "select-issue"
           /\ RequiredVerdicts(SkipTarget(g, step)) \subseteq
                  RequiredVerdicts(step) \cup Waived(g)
  <1>1. SkipTarget(g, step) \in {"browser-validation", "code-review"}
    BY DEF SkipTarget
  <1>2. ~(step = "fix-tests" /\ g.require_browser_qa)
    BY FixTestsIsStuck DEF SkipTarget, ShouldSkipStep, TestingSteps, BrowserQaSteps
  <1>3. step \in TestingSteps \cup BrowserQaSteps
    BY DEF ShouldSkipStep
  <1> QED
    BY <1>1, <1>2, <1>3 DEF SkipTarget, ShouldSkipStep, RequiredVerdicts, Waived,
       Verdict, BehindTests, BehindBrowser, BehindReview, TestingSteps, BrowserQaSteps, Step

-----------------------------------------------------------------------------
(* Type correctness.                                                        *)

LEMMA ParsedTo ==
    ASSUME NEW step \in Step, NEW found, NEW to, ParsesTo(step, found, to)
    PROVE  to \in Step \cup {NoStep}
  BY DEF ParsesTo, STEP_ROUTING, Route, NoStep, Step, TestingSteps, BrowserQaSteps

LEMMA SkipTargetIsStep ==
    ASSUME NEW g, NEW step
    PROVE  SkipTarget(g, step) \in Step
  BY DEF SkipTarget, Step, BrowserQaSteps

\* What the engine saves loads again.
LEMMA CurrentIsFile ==
    /\ CurrentIssue \subseteq FileIssue
    /\ \A ci \in FileIssue : ci.step \in Step => ci \in CurrentIssue
    /\ Fresh \in CurrentIssue /\ Selection \in CurrentIssue
  BY DEF CurrentIssue, FileIssue, Issue, Fresh, Selection, Blank, Step

\* What a transition does to the variables it touches, as far as types go.
LEMMA TransitionType ==
    ASSUME TypeOK, NEW ci \in CurrentIssue, NEW to \in Step, NEW skipped,
           NEW earned \in SUBSET Verdict, TransitionStep(ci, to, skipped, earned)
    PROVE  /\ current_issue' \in CurrentIssue
           /\ file' \in FileIssue
           /\ engine_step' \in Step
           /\ cleared' \subseteq Verdict
           /\ pc' \in PC
           /\ exit_reason' \in IssueExitReason \cup {"none", "aborted"}
           /\ faults' \in Nat
  <1>1. [ci EXCEPT !.step = to] \in CurrentIssue
    BY DEF CurrentIssue, Issue
  <1>2. CurrentIssue \subseteq FileIssue
    BY CurrentIsFile
  <1> QED
    BY <1>1, <1>2 DEF TransitionStep, TypeOK, Save, NotSaved, NoFault, Fault, Return,
       PC, IssueExitReason, CurrentIssue, Issue

LEMMA RetryFieldsType ==
    ASSUME NEW steps, NEW ci \in Issue(steps), NEW n \in Nat, NEW b \in BOOLEAN
    PROVE  [ci EXCEPT !.retry_count = n, !.current_failures = b] \in Issue(steps)
  BY DEF Issue

LEMMA StepFailedType ==
    ASSUME TypeOK, StepFailed
    PROVE  TypeOK'
  <1> DEFINE ci == [current_issue EXCEPT !.retry_count = @ + 1,
                                         !.current_failures = TRUE]
  <1>1. ci \in CurrentIssue /\ ci.step \in Step
    <2>1. /\ current_issue \in Issue(Step)
          /\ current_issue.retry_count + 1 \in Nat
      BY DEF TypeOK, CurrentIssue, Issue
    <2>2. ci \in Issue(Step)
      BY <2>1, RetryFieldsType
    <2> QED BY <2>2 DEF CurrentIssue, Issue
  <1>2. CurrentIssue \subseteq FileIssue
    BY CurrentIsFile
  <1>3. /\ current_issue' = ci
        /\ file' \in {file, ci} /\ engine_step' \in {engine_step, ci.step}
        /\ pc' \in {"top", "returned"}
        /\ exit_reason' \in {exit_reason, "max_retry", "aborted"}
        /\ faults' \in {faults, faults + 1}
        /\ UNCHANGED <<gates, attempt, signal, runs, tool_calls, cleared,
                       overridden, forgotten, executed>>
    BY DEF StepFailed, Save, NotSaved, Return, Fault, NoFault
  <1> HIDE DEF ci
  <1> QED BY <1>1, <1>2, <1>3 DEF TypeOK, PC, IssueExitReason

LEMMA ToolType ==
    ASSUME TypeOK, NEW changed \in FileIssue, Tool(changed)
    PROVE  TypeOK'
  BY DEF TypeOK, Tool, engine, history

\* Whichever way a run gets its object.
LEMMA AdoptedType ==
    ASSUME TypeOK, Adopt \/ BeginAnew
    PROVE  /\ current_issue' \in CurrentIssue /\ file' \in FileIssue
           /\ engine_step' \in Step /\ overridden' \in BOOLEAN
  <1>1. CASE Adopt
    BY <1>1, CurrentIsFile DEF Adopt, NotSaved, TypeOK
  <1>2. CASE BeginAnew
    BY <1>2, CurrentIsFile DEF BeginAnew, Save, TypeOK, Fresh, Blank, Step
  <1> QED BY <1>1, <1>2

\* Every variable keeps its type in every step.
LEMMA TypeStep ==
    ASSUME TypeOK, [Next]_vars
    PROVE  TypeOK'
  <1> USE LimitsAssumption, InputsAssumption
  <1>1. CASE HitIterationLimit
    BY <1>1 DEF HitIterationLimit, Return, TypeOK, PC, IssueExitReason, bounds, history
  <1>2. CASE Iterate
    <2> DEFINE ci == [current_issue EXCEPT !.total_iterations = @ + 1]
    <2>1. ci \in CurrentIssue /\ ci.step \in Step
      BY DEF TypeOK, CurrentIssue, Issue
    <2>2. CurrentIssue \subseteq FileIssue
      BY CurrentIsFile
    <2>3. /\ current_issue' = ci
          /\ file' \in {file, ci} /\ engine_step' \in {engine_step, ci.step}
          /\ faults' \in {faults, faults + 1}
      BY <1>2 DEF Iterate, Save, NotSaved, Fault, NoFault
    <2> HIDE DEF ci
    <2>4. /\ pc' \in PC /\ signal' \in Signal
          /\ UNCHANGED <<exit_reason, gates, attempt, runs, tool_calls, cleared,
                         overridden, forgotten, executed>>
      BY <1>2 DEF Iterate, PC, Signal
    <2>5. file' \in FileIssue /\ engine_step' \in Step /\ faults' \in Nat
      <3>1. file' \in FileIssue
        BY <2>1, <2>2, <2>3 DEF TypeOK
      <3>2. engine_step' \in Step
        BY <2>1, <2>2, <2>3 DEF TypeOK
      <3>3. faults' \in Nat
        BY <2>1, <2>2, <2>3 DEF TypeOK
      <3> QED BY <3>1, <3>2, <3>3
    <2> QED BY <2>1, <2>3, <2>4, <2>5 DEF TypeOK
  <1>3. CASE SkipStep
    <2>1. Waived(gates) \in SUBSET Verdict
      BY DEF Waived, Verdict
    <2>2. current_issue \in CurrentIssue
      BY DEF TypeOK
    <2> QED
      BY <1>3, <2>1, <2>2, SkipTargetIsStep, TransitionType DEF SkipStep, TypeOK
  <1>4. CASE StartSession
    <2>1. executed' \in {executed, executed + 1}
      BY <1>4 DEF StartSession
    <2> QED BY <1>4, <2>1 DEF StartSession, TypeOK, PC, bounds
  <1>5. CASE SessionStops
    BY <1>5 DEF SessionStops, Return, TypeOK, PC, IssueExitReason, bounds, history
  <1>6. CASE SessionFails
    BY <1>6, StepFailedType DEF SessionFails
  <1>7. CASE SessionRoutes
    <2> DEFINE ci == [current_issue EXCEPT !.retry_count = 0,
                                           !.current_failures = FALSE]
    <2>1. ci \in CurrentIssue
      BY DEF TypeOK, CurrentIssue, Issue
    <2>2. PICK found \in Signal, to \in Step \cup {NoStep} :
             /\ signal' = IF Matched(current_issue.step, found) THEN found ELSE "no_signal"
             /\ IF to = NoStep
                THEN /\ current_issue' = ci /\ NotSaved /\ NoFault
                     /\ UNCHANGED cleared
                     /\ Return("completed")
                ELSE TransitionStep(ci, to, FALSE, VerdictOf(current_issue.step, to))
      BY <1>7 DEF SessionRoutes
    <2>3. signal' \in Signal
      BY <2>2 DEF Signal
    <2>4. VerdictOf(current_issue.step, to) \in SUBSET Verdict
      BY DEF VerdictOf
    <2> HIDE DEF ci
    <2>5. CASE to = NoStep
      BY <1>7, <2>1, <2>2, <2>3, <2>5 DEF SessionRoutes, TypeOK, NotSaved, NoFault,
         Return, PC, IssueExitReason
    <2>6. CASE to # NoStep
      BY <1>7, <2>1, <2>2, <2>3, <2>4, <2>6, TransitionType DEF SessionRoutes, TypeOK
    <2> QED BY <2>5, <2>6
  <1>8. CASE CompleteIssue
    BY <1>8 DEF CompleteIssue, Return, TypeOK, CurrentIssue, Issue, PC,
       IssueExitReason, bounds, history
  <1>9. CASE RefuseCompletion
    BY <1>9, StepFailedType DEF RefuseCompletion
  <1>10. CASE Abort
    BY <1>10 DEF Abort, Return, TypeOK, PC, bounds, history
  <1>11. CASE RetryRateLimited
    BY <1>11 DEF RetryRateLimited, TypeOK, PC, bounds, history
  <1>12. CASE SetUpContext
    BY <1>12, AdoptedType DEF SetUpContext, TypeOK, PC, bounds
  <1>13. CASE Restart
    <2>1. /\ current_issue' \in CurrentIssue /\ file' \in FileIssue
          /\ engine_step' \in Step /\ overridden' \in BOOLEAN
      BY <1>13, AdoptedType DEF Restart
    <2>2. forgotten' \in {forgotten, forgotten + 1} /\ faults' \in {faults, faults + 1}
      BY <1>13 DEF Restart, Fault, NoFault
    <2> QED BY <1>13, <2>1, <2>2 DEF Restart, TypeOK, PC, Signal
  <1>14. CASE Tools
    <2>1. \A word \in ToolSteps :
            /\ [file EXCEPT !.step = word] \in FileIssue
            /\ [file EXCEPT !.step = word, !.current_failures = FALSE,
                           !.retry_count = 0] \in FileIssue
      BY DEF TypeOK, FileIssue, Issue
    <2>2. /\ [file EXCEPT !.current_failures = TRUE] \in FileIssue
          /\ [file EXCEPT !.current_failures = TRUE, !.retry_count = @ + 1]
                 \in FileIssue
          /\ [file EXCEPT !.current_failures = FALSE, !.retry_count = 0]
                 \in FileIssue
      <3>1. file \in FileIssue /\ file.retry_count + 1 \in Nat
        BY DEF TypeOK, FileIssue, Issue
      <3>2. [file EXCEPT !.current_failures = TRUE, !.retry_count = @ + 1]
               = [file EXCEPT !.retry_count = file.retry_count + 1,
                              !.current_failures = TRUE]
        BY <3>1 DEF Issue
      <3> QED BY <3>1, <3>2, RetryFieldsType DEF FileIssue, Issue
    <2>3. \A c \in Changes :
             [file EXCEPT !.changes = @ \cup {c}] \in FileIssue
      BY DEF TypeOK, FileIssue, Issue
    <2>4. [file EXCEPT !.step = Unloadable] \in FileIssue
      BY DEF TypeOK, FileIssue, Issue
    <2> QED
      BY <1>14, <2>1, <2>2, <2>3, <2>4, ToolType DEF Tools, ToolSetStep, ToolRecordFailure,
         ToolClearFailures, ToolRecordChange, ToolInitIssue
  <1>15. CASE UNCHANGED vars
    BY <1>15 DEF vars, engine, bounds, history, TypeOK
  <1> QED
    BY <1>1, <1>2, <1>3, <1>4, <1>5, <1>6, <1>7, <1>8, <1>9, <1>10, <1>11, <1>12,
       <1>13, <1>14, <1>15 DEF Next, Run

LEMMA TypeInit ==
    ASSUME Init
    PROVE  TypeOK
  <1>1. Selection \in CurrentIssue /\ Selection \in FileIssue
    BY CurrentIsFile
  <1>2. attempt \in 1 .. RateLimitAttempts
    BY LimitsAssumption DEF Init
  <1>3. gates \in Gates /\ engine_step \in Step
    BY InputsAssumption DEF Init, Step
  <1> QED BY <1>1, <1>2, <1>3 DEF Init, TypeOK, PC, Signal

\* The state of an issue run stays within its types whatever the limits are.
THEOREM TypeCorrect == Spec => []TypeOK
  BY TypeInit, TypeStep, PTL DEF Spec

-----------------------------------------------------------------------------
(* VerifiedBeforeCommit.                                                    *)

\* The engine's last save and the object in memory agree on the step, except
\* after an error, and always on whether that is the selection's; what either
\* step requires has been reached.  While run() has not returned there is no exit
\* reason.
VerdictInv ==
    /\ Running => exit_reason = "none"
    /\ ~overridden =>
        /\ engine_step = "select-issue" <=> current_issue.step = "select-issue"
        /\ RequiredVerdicts(engine_step) \subseteq cleared
        /\ RequiredVerdicts(current_issue.step) \subseteq cleared
        /\ exit_reason # "error" => engine_step = current_issue.step
        /\ exit_reason = "completed" =>
               cleared = Verdict \/ current_issue.step = "select-issue"

\* A transition that earns what its target requires beyond its source.
LEMMA TransitionVerdicts ==
    ASSUME TypeOK, VerdictInv, NEW ci \in CurrentIssue, NEW to \in Step, NEW skipped,
           NEW earned \in SUBSET Verdict, TransitionStep(ci, to, skipped, earned),
           ci.step = current_issue.step, Running, UNCHANGED overridden,
           ValidTransition(gates, ci.step, to, skipped) =>
               /\ ci.step # "select-issue" /\ to # "select-issue"
               /\ RequiredVerdicts(to) \subseteq RequiredVerdicts(ci.step) \cup earned
    PROVE  VerdictInv'
  <1> DEFINE moved == [ci EXCEPT !.step = to]
  <1>1. moved.step = to
    BY DEF CurrentIssue, Issue
  <1>2. \A s : RequiredVerdicts(s)' = RequiredVerdicts(s)
    BY DEF RequiredVerdicts, Verdict
  <1>3. CASE /\ ValidTransition(gates, ci.step, to, skipped)
             /\ current_issue' = moved /\ Save(moved)
             /\ cleared' = cleared \cup earned
             /\ pc' = "top" /\ UNCHANGED exit_reason
    BY <1>1, <1>3 DEF VerdictInv, Save, Running
  <1>4. CASE /\ ValidTransition(gates, ci.step, to, skipped)
             /\ current_issue' = ci
             /\ NotSaved \/ Save(moved)
             /\ cleared' = cleared \cup earned
             /\ Return("error")
    BY <1>1, <1>4 DEF VerdictInv, Save, NotSaved, Return, Running
  <1>5. CASE /\ current_issue' = ci /\ NotSaved /\ UNCHANGED cleared
             /\ Return("error")
    BY <1>5 DEF VerdictInv, NotSaved, Return, Running
  <1> QED BY <1>3, <1>4, <1>5 DEF TransitionStep

LEMMA StepFailedVerdicts ==
    ASSUME TypeOK, VerdictInv, Running, StepFailed
    PROVE  VerdictInv'
  <1> DEFINE ci == [current_issue EXCEPT !.retry_count = @ + 1,
                                         !.current_failures = TRUE]
  <1>1. ci.step = current_issue.step
    BY DEF TypeOK, CurrentIssue, Issue
  <1>2. /\ current_issue' = ci
        /\ engine_step' \in {engine_step, ci.step}
        /\ \/ pc' = "top" /\ exit_reason' = exit_reason
           \/ pc' = "returned" /\ exit_reason' \in {"max_retry", "aborted"}
        /\ UNCHANGED <<cleared, overridden>>
    BY DEF StepFailed, Save, NotSaved, Return
  <1> HIDE DEF ci
  <1> QED BY <1>1, <1>2 DEF VerdictInv, Running

LEMMA VerdictStep ==
    ASSUME TypeOK, VerdictInv, [Next]_vars
    PROVE  VerdictInv'
  <1>1. CASE HitIterationLimit
    BY <1>1 DEF HitIterationLimit, Return, VerdictInv, Running, history
  <1>2. CASE Iterate
    <2> DEFINE ci == [current_issue EXCEPT !.total_iterations = @ + 1]
    <2>1. ci.step = current_issue.step
      BY DEF TypeOK, CurrentIssue, Issue
    <2>2. /\ current_issue' = ci
          /\ engine_step' \in {engine_step, ci.step}
          /\ pc = "top" /\ pc' = "body"
          /\ UNCHANGED <<exit_reason, cleared, overridden>>
      BY <1>2 DEF Iterate, Save, NotSaved
    <2> HIDE DEF ci
    <2> QED BY <2>1, <2>2 DEF VerdictInv, Running
  <1>3. CASE SkipStep
    <2> DEFINE step == current_issue.step
               to   == SkipTarget(gates, step)
    <2>1. /\ current_issue \in CurrentIssue /\ step \in Step /\ gates \in Gates
          /\ to \in Step /\ Waived(gates) \in SUBSET Verdict
      BY SkipTargetIsStep DEF TypeOK, CurrentIssue, Issue, Waived, Verdict
    <2>2. ValidTransition(gates, step, to, TRUE) =>
             /\ step # "select-issue" /\ to # "select-issue"
             /\ RequiredVerdicts(to) \subseteq RequiredVerdicts(step) \cup Waived(gates)
      BY <1>3, <2>1, SkippedVerdicts DEF SkipStep
    <2>3. /\ TransitionStep(current_issue, to, TRUE, Waived(gates))
          /\ Running /\ UNCHANGED overridden
      BY <1>3 DEF SkipStep, Running
    <2> HIDE DEF step, to
    <2> QED BY <2>1, <2>2, <2>3, TransitionVerdicts DEF step
  <1>4. CASE StartSession
    <2>1. /\ UNCHANGED <<exit_reason, current_issue, engine_step, overridden>>
          /\ pc = "body" /\ pc' = "session"
          /\ cleared' = IF current_issue.step \in EditingSteps THEN {} ELSE cleared
      BY <1>4 DEF StartSession
    <2>2. current_issue.step \in EditingSteps => RequiredVerdicts(current_issue.step) = {}
      BY DEF EditingSteps, RequiredVerdicts, BehindTests, BehindBrowser, BehindReview
    <2> QED BY <2>1, <2>2 DEF VerdictInv, Running
  <1>5. CASE SessionStops
    BY <1>5 DEF SessionStops, InSession, Return, VerdictInv, Running, history
  <1>6. CASE SessionFails
    BY <1>6, StepFailedVerdicts DEF SessionFails, InSession, Running
  <1>7. CASE SessionRoutes
    <2> DEFINE step == current_issue.step
               ci   == [current_issue EXCEPT !.retry_count = 0,
                                             !.current_failures = FALSE]
    <2>1. PICK found \in Signal, to \in Step \cup {NoStep} :
             /\ ParsesTo(step, found, to)
             /\ IF to = NoStep
                THEN /\ current_issue' = ci /\ NotSaved /\ NoFault
                     /\ UNCHANGED cleared
                     /\ Return("completed")
                ELSE TransitionStep(ci, to, FALSE, VerdictOf(step, to))
      BY <1>7 DEF SessionRoutes
    <2>2. /\ ci \in CurrentIssue /\ ci.step = step /\ step \in Step
          /\ Running /\ UNCHANGED overridden /\ step # "complete-issue"
      BY <1>7 DEF SessionRoutes, InSession, Running, TypeOK, CurrentIssue, Issue
    <2>3. VerdictOf(step, to) \in SUBSET Verdict
      BY DEF VerdictOf
    <2> HIDE DEF ci, step
    <2>4. CASE to = NoStep
      <3>1. step = "select-issue"
        BY <2>1, <2>2, <2>4, RoutedOut
      <3> QED BY <2>1, <2>2, <2>4, <3>1 DEF VerdictInv, NotSaved, Return, Running, step
    <2>5. CASE to \in Step
      <3>1. to # NoStep
        BY <2>5 DEF NoStep, Step, TestingSteps, BrowserQaSteps
      <3>2. /\ step # "select-issue" /\ to # "select-issue"
            /\ RequiredVerdicts(to) \subseteq
                   RequiredVerdicts(step) \cup VerdictOf(step, to)
        BY <2>1, <2>2, <2>5, RoutedVerdicts
      <3>3. TransitionStep(ci, to, FALSE, VerdictOf(step, to))
        BY <2>1, <3>1
      <3> QED BY <2>2, <2>3, <2>5, <3>2, <3>3, TransitionVerdicts DEF step
    <2> QED BY <2>4, <2>5
  <1>8. CASE CompleteIssue
    <2>1. RequiredVerdicts("complete-issue") = Verdict
      BY DEF RequiredVerdicts, Verdict, BehindTests, BehindBrowser, BehindReview
    <2>2. current_issue'.step = current_issue.step
      BY <1>8 DEF CompleteIssue, TypeOK, CurrentIssue, Issue
    <2>3. /\ pc = "session" /\ pc' = "returned" /\ exit_reason' = "completed"
          /\ current_issue.step = "complete-issue"
          /\ UNCHANGED <<cleared, engine_step, overridden>>
      BY <1>8 DEF CompleteIssue, Return, history
    <2>4. cleared \subseteq Verdict
      BY DEF TypeOK
    <2> QED BY <2>1, <2>2, <2>3, <2>4 DEF VerdictInv, Running
  <1>9. CASE RefuseCompletion
    BY <1>9, StepFailedVerdicts DEF RefuseCompletion, Running
  <1>10. CASE Abort
    BY <1>10 DEF Abort, Return, VerdictInv, Running, history
  <1>11. CASE RetryRateLimited
    BY <1>11 DEF RetryRateLimited, VerdictInv, Running, history
  <1>12. CASE SetUpContext \/ Restart
    <2>1. /\ Running' /\ exit_reason' = "none"
          /\ UNCHANGED cleared /\ (Adopt \/ BeginAnew)
      BY <1>12 DEF SetUpContext, Restart, Running, VerdictInv
    <2>2. CASE Adopt
      BY <2>1, <2>2 DEF Adopt, NotSaved, VerdictInv
    <2>3. CASE BeginAnew
      <3>1. Fresh.step = "read-docs" /\ RequiredVerdicts("read-docs") = {}
        BY DEF Fresh, Blank, RequiredVerdicts, BehindTests, BehindBrowser, BehindReview
      <3> QED BY <2>1, <2>3, <3>1 DEF BeginAnew, Save, VerdictInv
    <2> QED BY <2>1, <2>2, <2>3
  <1>13. CASE Tools
    BY <1>13 DEF Tools, ToolSetStep, ToolRecordFailure, ToolClearFailures,
       ToolRecordChange, ToolInitIssue, Tool, VerdictInv, Running, engine, history
  <1>14. CASE UNCHANGED vars
    BY <1>14 DEF vars, engine, history, VerdictInv, Running
  <1> QED
    BY <1>1, <1>2, <1>3, <1>4, <1>5, <1>6, <1>7, <1>8, <1>9, <1>10, <1>11, <1>12,
       <1>13, <1>14 DEF Next, Run

LEMMA VerdictInit ==
    ASSUME Init
    PROVE  VerdictInv
  BY DEF Init, VerdictInv, Selection, Blank, RequiredVerdicts, BehindTests,
     BehindBrowser, BehindReview

\* No issue gets behind a verification step past an unverified change, however many
\* attempts, restarts, gate settings, failures and tool calls there are, and none
\* is completed so but straight from the selection's own file, unless a process
\* adopted a step that a tool wrote.
THEOREM Verified == Spec => []VerifiedBeforeCommit
  <1>1. TypeOK /\ VerdictInv /\ [Next]_vars => (TypeOK /\ VerdictInv)'
    BY TypeStep, VerdictStep
  <1>2. Init => TypeOK /\ VerdictInv
    BY TypeInit, VerdictInit
  <1>3. VerdictInv => VerifiedBeforeCommit
    BY DEF VerdictInv, VerifiedBeforeCommit
  <1> QED BY <1>1, <1>2, <1>3, PTL DEF Spec

-----------------------------------------------------------------------------
(* SessionBudget: what is counted.                                          *)

\* Tools write the step, the failures and the changes, never the count.
LEMMA ToolsKeepCount ==
    ASSUME TypeOK, Tools
    PROVE  /\ file'.total_iterations = file.total_iterations
           /\ tool_calls' = tool_calls + 1
           /\ UNCHANGED <<engine, runs, faults, history>>
  <1>1. file \in FileIssue
    BY DEF TypeOK
  <1>2. /\ \A word : [file EXCEPT !.step = word].total_iterations
                      = file.total_iterations
        /\ \A word : [file EXCEPT !.step = word, !.current_failures = FALSE,
                                 !.retry_count = 0].total_iterations
                      = file.total_iterations
    BY <1>1 DEF FileIssue, Issue
  <1>3. /\ [file EXCEPT !.current_failures = TRUE].total_iterations
              = file.total_iterations
        /\ [file EXCEPT !.current_failures = TRUE,
                        !.retry_count = @ + 1].total_iterations
              = file.total_iterations
        /\ [file EXCEPT !.current_failures = FALSE,
                        !.retry_count = 0].total_iterations
              = file.total_iterations
    BY <1>1 DEF FileIssue, Issue
  <1>4. \E changed :
           /\ Tool(changed)
           /\ changed.total_iterations = file.total_iterations
    <2>1. CASE ToolSetStep
      BY <1>2, <2>1 DEF ToolSetStep
    <2>2. CASE ToolRecordChange
      <3>1. PICK c \in Changes : Tool([file EXCEPT !.changes = file.changes \cup {c}])
        BY <2>2 DEF ToolRecordChange
      <3>2. [file EXCEPT !.changes = file.changes \cup {c}].total_iterations
              = file.total_iterations
        BY <1>1 DEF FileIssue, Issue
      <3> QED BY <3>1, <3>2
    <2>3. CASE ToolRecordFailure
      BY <1>3, <2>3 DEF ToolRecordFailure
    <2>4. CASE ToolClearFailures
      BY <1>3, <2>4 DEF ToolClearFailures
    <2>5. CASE ToolInitIssue
      BY <1>2, <2>5 DEF ToolInitIssue
    <2> QED BY <2>1, <2>2, <2>3, <2>4, <2>5 DEF Tools
  <1> QED BY <1>4 DEF Tool

\* A transition leaves the count as it is in memory, and saves that or nothing.
LEMMA TransitionKeepsCount ==
    ASSUME NEW ci \in CurrentIssue, NEW to, NEW skipped, NEW earned,
           TransitionStep(ci, to, skipped, earned)
    PROVE  /\ current_issue'.total_iterations = ci.total_iterations
           /\ file' = file \/ file'.total_iterations = ci.total_iterations
           /\ faults' \in {faults, faults + 1}
           /\ pc' \in {"top", "returned"}
  <1> DEFINE moved == [ci EXCEPT !.step = to]
  <1>1. moved.total_iterations = ci.total_iterations
    BY DEF CurrentIssue, Issue
  <1>2. /\ current_issue' \in {moved, ci} /\ file' \in {file, moved}
        /\ faults' \in {faults, faults + 1}
        /\ pc' \in {"top", "returned"}
    BY DEF TransitionStep, Save, NotSaved, Fault, NoFault, Return
  <1> HIDE DEF moved
  <1> QED BY <1>1, <1>2

\* Every step but those that count, execute or take up a file keeps the count: a
\* save writes what memory has counted.
LEMMA CountKept ==
    ASSUME TypeOK, [Next]_vars,
           ~Iterate, ~StartSession, ~SetUpContext, ~Restart
    PROVE  /\ current_issue'.total_iterations = current_issue.total_iterations
           /\ file'.total_iterations
                  \in {file.total_iterations, current_issue.total_iterations}
           /\ faults' \in {faults, faults + 1}
           /\ UNCHANGED <<forgotten, executed>>
           /\ pc' = pc \/ pc' \in {"top", "returned"}
  <1>1. CASE SkipStep
    <2>1. /\ TransitionStep(current_issue, SkipTarget(gates, current_issue.step), TRUE,
                            Waived(gates))
          /\ current_issue \in CurrentIssue /\ UNCHANGED <<forgotten, executed>>
      BY <1>1 DEF SkipStep, TypeOK
    <2> QED BY <2>1, TransitionKeepsCount
  <1>2. CASE SessionRoutes
    <2> DEFINE ci == [current_issue EXCEPT !.retry_count = 0,
                                           !.current_failures = FALSE]
    <2>1. /\ ci \in CurrentIssue
          /\ ci.total_iterations = current_issue.total_iterations
      BY DEF TypeOK, CurrentIssue, Issue
    <2>2. PICK to \in Step \cup {NoStep} :
             \/ TransitionStep(ci, to, FALSE, VerdictOf(current_issue.step, to))
             \/ current_issue' = ci /\ NotSaved /\ NoFault /\ Return("completed")
      BY <1>2 DEF SessionRoutes
    <2>3. UNCHANGED <<forgotten, executed>>
      BY <1>2 DEF SessionRoutes
    <2> HIDE DEF ci
    <2> QED BY <2>1, <2>2, <2>3, TransitionKeepsCount DEF NotSaved, NoFault, Return
  <1>3. CASE SessionFails \/ RefuseCompletion
    <2> DEFINE ci == [current_issue EXCEPT !.retry_count = @ + 1,
                                           !.current_failures = TRUE]
    <2>1. ci.total_iterations = current_issue.total_iterations
      BY DEF TypeOK, CurrentIssue, Issue
    <2>2. /\ current_issue' = ci /\ file' \in {file, ci}
          /\ faults' \in {faults, faults + 1}
          /\ UNCHANGED <<forgotten, executed>>
          /\ pc' \in {"top", "returned"}
      BY <1>3 DEF SessionFails, RefuseCompletion, StepFailed, Save, NotSaved, Fault,
         NoFault, Return
    <2> HIDE DEF ci
    <2> QED BY <2>1, <2>2
  <1>4. CASE CompleteIssue
    <2>1. current_issue'.total_iterations = current_issue.total_iterations
      BY <1>4 DEF CompleteIssue, TypeOK, CurrentIssue, Issue
    <2> QED BY <1>4, <2>1 DEF CompleteIssue, Return, bounds, history
  <1>5. CASE Tools
    BY <1>5, ToolsKeepCount DEF engine, history
  <1>6. CASE HitIterationLimit \/ SessionStops \/ Abort \/ RetryRateLimited
             \/ UNCHANGED vars
    BY <1>6 DEF HitIterationLimit, SessionStops, Abort, RetryRateLimited, Return,
       vars, engine, bounds, history
  <1> QED
    BY <1>1, <1>2, <1>3, <1>4, <1>5, <1>6 DEF Next, Run

\* What a run takes up: the file as it is, or a count of zero.
LEMMA TakenUp ==
    ASSUME Adopt \/ BeginAnew
    PROVE  /\ current_issue' = file'
           /\ Adopt => file' = file
           /\ BeginAnew => file'.total_iterations = 0
  <1>1. Adopt => current_issue' = file' /\ file' = file
    BY DEF Adopt, NotSaved
  <1>2. BeginAnew => current_issue' = file' /\ file' = Fresh
    BY DEF BeginAnew, Save
  <1>3. Fresh.total_iterations = 0
    BY DEF Fresh, Blank
  <1> QED BY <1>1, <1>2, <1>3

Regained == MaxTotalIterations * forgotten

\* Memory has counted at most what failing saves kept from the file, and as far as
\* the limit; every step execution had an iteration of its own, which the file
\* counts, a failing save excuses, or a lost file took with it.
BudgetInv ==
    /\ file.total_iterations <= current_issue.total_iterations
    /\ current_issue.total_iterations <= MaxTotalIterations
    /\ current_issue.total_iterations <= file.total_iterations + faults
    /\ pc = "selecting" => executed = 0 /\ current_issue.total_iterations = 0
    /\ executed <= Regained + file.total_iterations + faults
    /\ pc = "body" => executed < Regained + file.total_iterations + faults

LEMMA RegainedAndAllowed ==
    ASSUME TypeOK
    PROVE  /\ Regained \in Nat
           /\ Allowance = Regained + MaxTotalIterations + faults
           /\ forgotten' = forgotten + 1 => Regained' = Regained + MaxTotalIterations
           /\ forgotten' = forgotten => Regained' = Regained
  <1>1. MaxTotalIterations \in Nat /\ forgotten \in Nat /\ faults \in Nat
    BY LimitsAssumption DEF TypeOK
  <1>2. \A m, n \in Nat : m * n \in Nat /\ m * (1 + n) = m * n + m /\ m * (n + 1) = m * n + m
    OBVIOUS
  <1> QED BY <1>1, <1>2 DEF Regained, Allowance

LEMMA BudgetStep ==
    ASSUME TypeOK, BudgetInv, [Next]_vars
    PROVE  BudgetInv'
  <1>1. /\ current_issue.total_iterations \in Nat /\ file.total_iterations \in Nat
        /\ executed \in Nat /\ faults \in Nat /\ Regained \in Nat
        /\ MaxTotalIterations \in Nat /\ pc \in PC
    BY LimitsAssumption, RegainedAndAllowed
       DEF TypeOK, CurrentIssue, FileIssue, Issue
  <1>2. CASE Iterate
    <2> DEFINE ci == [current_issue EXCEPT !.total_iterations = @ + 1]
    <2>1. ci.total_iterations = current_issue.total_iterations + 1
      BY DEF TypeOK, CurrentIssue, Issue
    <2>2. /\ current_issue' = ci /\ current_issue.total_iterations < MaxTotalIterations
          /\ pc' = "body" /\ UNCHANGED <<forgotten, executed>>
          /\ \/ file' = ci /\ faults' = faults
             \/ file' = file /\ faults' = faults + 1
      BY <1>2 DEF Iterate, Save, NotSaved, Fault, NoFault
    <2>3. Regained' = Regained
      BY <2>2, RegainedAndAllowed
    <2> HIDE DEF ci
    <2>4. CASE file' = ci /\ faults' = faults
      BY <1>1, <2>1, <2>2, <2>3, <2>4 DEF BudgetInv
    <2>5. CASE file' = file /\ faults' = faults + 1
      BY <1>1, <2>1, <2>2, <2>3, <2>5 DEF BudgetInv
    <2> QED BY <2>2, <2>4, <2>5
  <1>3. CASE StartSession
    <2>1. /\ pc = "body" /\ pc' = "session" /\ executed' \in {executed, executed + 1}
          /\ UNCHANGED <<current_issue, file, faults, forgotten>>
      BY <1>3 DEF StartSession, bounds
    <2>2. Regained' = Regained
      BY <2>1, RegainedAndAllowed
    <2> QED BY <1>1, <2>1, <2>2 DEF BudgetInv
  <1>4. CASE SetUpContext
    <2>1. /\ Adopt \/ BeginAnew
          /\ pc = "selecting" /\ pc' = "top" /\ UNCHANGED <<faults, forgotten, executed>>
      BY <1>4 DEF SetUpContext, bounds
    <2>2. Regained' = Regained
      BY <2>1, RegainedAndAllowed
    <2>3. file.total_iterations = 0 /\ executed = 0
      BY <1>1, <2>1 DEF BudgetInv
    <2>4. current_issue' = file' /\ file'.total_iterations = 0
      BY <2>1, <2>3, TakenUp
    <2> QED BY <1>1, <2>1, <2>2, <2>3, <2>4 DEF BudgetInv
  <1>5. CASE Restart
    <2>1. faults' \in {faults, faults + 1} /\ pc' = "top" /\ executed' = executed
      BY <1>5 DEF Restart, Fault, NoFault
    <2>2. CASE Adopt /\ UNCHANGED forgotten
      <3>1. Regained' = Regained /\ current_issue' = file /\ file' = file
        BY <2>2, RegainedAndAllowed, TakenUp
      <3> QED BY <1>1, <2>1, <3>1 DEF BudgetInv
    <2>3. CASE BeginAnew /\ forgotten' = forgotten + 1
      <3>1. Regained' = Regained + MaxTotalIterations
        BY <2>3, RegainedAndAllowed
      <3>2. current_issue' = file' /\ file'.total_iterations = 0
        BY <2>3, TakenUp
      <3>3. executed <= Regained + MaxTotalIterations + faults
        BY <1>1 DEF BudgetInv
      <3>4. /\ faults' \in Nat /\ faults <= faults' /\ pc' = "top" /\ executed' = executed
            /\ current_issue'.total_iterations = 0
        BY <1>1, <2>1, <3>2
      <3>5. Regained' \in Nat /\ executed <= Regained' + faults'
        <4>1. \A e, r, m, f, g, r1 \in Nat :
                 r1 = r + m /\ f <= g /\ e <= r + m + f => e <= r1 + g
          OBVIOUS
        <4>2. Regained' \in Nat
          BY <1>1, <3>1
        <4> QED BY <1>1, <3>1, <3>3, <3>4, <4>1, <4>2
      <3>6. executed' <= Regained' + file'.total_iterations + faults'
        BY <3>2, <3>4, <3>5
      <3>7. /\ file'.total_iterations <= current_issue'.total_iterations
            /\ current_issue'.total_iterations <= MaxTotalIterations
            /\ current_issue'.total_iterations <= file'.total_iterations + faults'
        <4>1. \A n \in Nat : 0 <= n /\ 0 <= 0 + n
          OBVIOUS
        <4>2. faults' \in Nat /\ MaxTotalIterations \in Nat /\ 0 \in Nat
          BY <1>1, <3>4
        <4>3. current_issue'.total_iterations = 0 /\ file'.total_iterations = 0
          BY <3>2
        <4> QED BY <4>1, <4>2, <4>3, Zenon
      <3> QED BY <3>4, <3>6, <3>7 DEF BudgetInv
    <2> QED BY <1>5, <2>2, <2>3 DEF Restart
  <1>6. CASE ~Iterate /\ ~StartSession /\ ~SetUpContext /\ ~Restart
    <2>1. /\ current_issue'.total_iterations = current_issue.total_iterations
          /\ file'.total_iterations
                 \in {file.total_iterations, current_issue.total_iterations}
          /\ faults' \in {faults, faults + 1}
          /\ UNCHANGED <<forgotten, executed>>
          /\ pc' = pc \/ pc' \in {"top", "returned"}
      BY <1>6, CountKept
    <2>2. Regained' = Regained
      BY <2>1, RegainedAndAllowed
    <2> QED BY <1>1, <2>1, <2>2 DEF BudgetInv
  <1> QED BY <1>2, <1>3, <1>4, <1>5, <1>6

LEMMA BudgetInit ==
    ASSUME Init
    PROVE  BudgetInv
  <1>1. MaxTotalIterations \in Nat /\ MaxTotalIterations * 0 = 0
    BY LimitsAssumption
  <1> QED BY <1>1 DEF Init, BudgetInv, Regained, Selection, Blank

\* max_total_iterations bounds the step executions of an issue over any number
\* of attempts and restarts, failing saves and lost files included.
THEOREM Budget == Spec => []SessionBudget
  <1>1. Init => TypeOK /\ BudgetInv
    BY TypeInit, BudgetInit
  <1>2. TypeOK /\ BudgetInv /\ [Next]_vars => (TypeOK /\ BudgetInv)'
    BY TypeStep, BudgetStep
  <1>3. TypeOK /\ BudgetInv => SessionBudget
    <2>1. ASSUME TypeOK, BudgetInv  PROVE SessionBudget
      <3>1. /\ current_issue.total_iterations \in Nat /\ file.total_iterations \in Nat
            /\ executed \in Nat /\ faults \in Nat /\ Regained \in Nat
            /\ MaxTotalIterations \in Nat
            /\ Allowance = Regained + MaxTotalIterations + faults
        BY <2>1, LimitsAssumption, RegainedAndAllowed
           DEF TypeOK, CurrentIssue, FileIssue, Issue
      <3> HIDE DEF Allowance
      <3> QED BY <2>1, <3>1 DEF BudgetInv, SessionBudget
    <2> QED BY <2>1
  <1> QED BY <1>1, <1>2, <1>3, PTL DEF Spec

-----------------------------------------------------------------------------
(* CheckpointComplete and RefusedOnlyAtFixTests.                            *)

\* The part of CheckpointComplete that is about the steps and the whole object.
StepsSaved ==
    tool_calls = 0 =>
        /\ file.step # current_issue.step =>
               /\ exit_reason = "error"
               /\ \E skipped \in BOOLEAN :
                      ValidTransition(gates, current_issue.step, file.step, skipped)
        /\ faults = 0 /\ exit_reason # "completed" => file = current_issue

SavedInv == StepsSaved /\ RefusedOnlyAtFixTests

\* A valid transition.  The refused case is left to the two actions.
LEMMA TransitionSaved ==
    ASSUME TypeOK, VerdictInv, SavedInv, Running,
           NEW ci \in CurrentIssue, NEW to \in Step, NEW skipped \in BOOLEAN, NEW earned,
           TransitionStep(ci, to, skipped, earned),
           ci.step = current_issue.step,
           ValidTransition(gates, ci.step, to, skipped),
           UNCHANGED <<gates, tool_calls>>
    PROVE  SavedInv'
  <1> DEFINE moved == [ci EXCEPT !.step = to]
  <1>1. moved.step = to
    BY DEF CurrentIssue, Issue
  <1>2. exit_reason = "none"
    BY DEF VerdictInv
  <1>3. CASE /\ current_issue' = moved /\ Save(moved)
             /\ UNCHANGED exit_reason
    BY <1>2, <1>3 DEF SavedInv, StepsSaved, RefusedOnlyAtFixTests, Save
  <1>4. CASE /\ current_issue' = ci
             /\ NotSaved \/ Save(moved)
             /\ Return("error")
             /\ Fault
    <2>1. /\ current_issue' = ci /\ file' \in {file, moved}
          /\ exit_reason' = "error" /\ faults' # 0
      BY <1>4 DEF NotSaved, Save, Return, Fault, TypeOK
    <2>2. CASE file' = file
      BY <1>2, <2>1, <2>2 DEF SavedInv, StepsSaved, RefusedOnlyAtFixTests
    <2>3. CASE file' = moved
      <3>1. ValidTransition(gates', current_issue'.step, file'.step, skipped)
        BY <1>1, <2>1, <2>3
      <3> QED BY <2>1, <3>1 DEF SavedInv, StepsSaved, RefusedOnlyAtFixTests
    <2> QED BY <2>1, <2>2, <2>3
  <1> QED BY <1>3, <1>4 DEF TransitionStep

LEMMA StepFailedSaved ==
    ASSUME TypeOK, VerdictInv, SavedInv, Running, StepFailed
    PROVE  SavedInv'
  <1> DEFINE ci == [current_issue EXCEPT !.retry_count = @ + 1,
                                         !.current_failures = TRUE]
  <1>1. ci.step = current_issue.step
    BY DEF TypeOK, CurrentIssue, Issue
  <1>2. /\ current_issue' = ci
        /\ \/ file' = ci /\ faults' = faults
           \/ file' = file /\ faults' = faults + 1
        /\ exit_reason' \in {exit_reason, "max_retry", "aborted"}
        /\ UNCHANGED tool_calls
    BY DEF StepFailed, Save, NotSaved, Return, Fault, NoFault
  <1>3. exit_reason = "none" /\ faults \in Nat
    BY DEF VerdictInv, TypeOK
  <1> HIDE DEF ci
  <1> QED BY <1>1, <1>2, <1>3 DEF SavedInv, StepsSaved, RefusedOnlyAtFixTests

LEMMA SavedStep ==
    ASSUME TypeOK, VerdictInv, SavedInv, [Next]_vars
    PROVE  SavedInv'
  <1> USE DEF SavedInv, StepsSaved, RefusedOnlyAtFixTests
  <1>1. CASE HitIterationLimit
    BY <1>1 DEF HitIterationLimit, Return, bounds, history, VerdictInv, Running
  <1>2. CASE Iterate
    <2> DEFINE ci == [current_issue EXCEPT !.total_iterations = @ + 1]
    <2>1. ci.step = current_issue.step
      BY DEF TypeOK, CurrentIssue, Issue
    <2>2. /\ current_issue' = ci
          /\ \/ file' = ci
             \/ file' = file /\ faults' # 0
          /\ UNCHANGED <<exit_reason, tool_calls>> /\ exit_reason = "none"
      BY <1>2 DEF Iterate, Save, NotSaved, Fault, VerdictInv, Running, TypeOK
    <2> HIDE DEF ci
    <2> QED BY <2>1, <2>2
  <1>3. CASE SkipStep
    <2> DEFINE step == current_issue.step
               to   == SkipTarget(gates, step)
    <2>1. /\ current_issue \in CurrentIssue /\ step \in Step /\ gates \in Gates
          /\ to \in Step /\ ShouldSkipStep(gates, step)
      BY <1>3, SkipTargetIsStep DEF TypeOK, CurrentIssue, Issue, SkipStep
    <2>2. /\ TransitionStep(current_issue, to, TRUE, Waived(gates))
          /\ Running /\ UNCHANGED <<gates, tool_calls>>
      BY <1>3 DEF SkipStep, Running
    <2>3. CASE ValidTransition(gates, step, to, TRUE)
      <3> HIDE DEF to
      <3> QED BY <2>1, <2>2, <2>3, TransitionSaved
    <2>4. CASE ~ValidTransition(gates, step, to, TRUE)
      <3>1. step = "fix-tests" /\ gates.require_browser_qa
        BY <2>1, <2>4, SkipsAreValid
      <3>2. gates = [require_testing |-> FALSE, require_browser_qa |-> TRUE]
        BY <2>1, <3>1 DEF ShouldSkipStep, TestingSteps, BrowserQaSteps, Gates
      <3>3. /\ current_issue' = current_issue /\ UNCHANGED <<file, faults>>
            /\ exit_reason' = "error"
        BY <2>2, <2>4 DEF TransitionStep, NotSaved, NoFault, Return
      <3>4. exit_reason = "none"
        BY <2>2 DEF VerdictInv
      <3> QED BY <2>2, <3>1, <3>2, <3>3, <3>4
    <2> QED BY <2>3, <2>4
  <1>4. CASE StartSession
    BY <1>4 DEF StartSession, bounds
  <1>5. CASE SessionStops
    BY <1>5 DEF SessionStops, InSession, Return, bounds, history, VerdictInv, Running
  <1>6. CASE SessionFails
    BY <1>6, StepFailedSaved DEF SessionFails, InSession, Running
  <1>7. CASE SessionRoutes
    <2> DEFINE step == current_issue.step
               ci   == [current_issue EXCEPT !.retry_count = 0,
                                             !.current_failures = FALSE]
    <2>1. PICK found \in Signal, to \in Step \cup {NoStep} :
             /\ ParsesTo(step, found, to)
             /\ IF to = NoStep
                THEN /\ current_issue' = ci /\ NotSaved /\ NoFault
                     /\ UNCHANGED cleared
                     /\ Return("completed")
                ELSE TransitionStep(ci, to, FALSE, VerdictOf(step, to))
      BY <1>7 DEF SessionRoutes
    <2>2. /\ ci \in CurrentIssue /\ ci.step = step /\ step \in Step
          /\ Running /\ UNCHANGED <<gates, tool_calls>>
      BY <1>7 DEF SessionRoutes, InSession, Running, TypeOK, CurrentIssue, Issue
    <2> HIDE DEF ci, step
    <2>3. CASE to = NoStep
      <3>1. /\ current_issue' = ci /\ UNCHANGED <<file, faults>>
            /\ exit_reason' = "completed"
        BY <2>1, <2>3 DEF NotSaved, NoFault, Return
      <3>2. exit_reason = "none"
        BY <2>2 DEF VerdictInv
      <3> QED BY <2>2, <3>1, <3>2 DEF step
    <2>4. CASE to \in Step
      <3>1. to # NoStep
        BY <2>4 DEF NoStep, Step, TestingSteps, BrowserQaSteps
      <3>2. ValidTransition(gates, ci.step, to, FALSE)
        <4>1. \E r \in STEP_ROUTING : r.from = step /\ r.to = to
          BY <2>1, <2>2, <2>4, RoutedVerdicts
        <4> QED BY <2>2, <4>1, RoutesAreValid
      <3>3. TransitionStep(ci, to, FALSE, VerdictOf(step, to))
        BY <2>1, <3>1
      <3> QED BY <2>2, <2>4, <3>2, <3>3, TransitionSaved DEF step
    <2> QED BY <2>3, <2>4
  <1>8. CASE CompleteIssue
    <2>1. current_issue'.step = current_issue.step
      BY <1>8 DEF CompleteIssue, TypeOK, CurrentIssue, Issue
    <2>2. exit_reason = "none"
      BY <1>8 DEF CompleteIssue, VerdictInv, Running
    <2> QED BY <1>8, <2>1, <2>2 DEF CompleteIssue, Return, bounds, history
  <1>9. CASE RefuseCompletion
    BY <1>9, StepFailedSaved DEF RefuseCompletion, Running
  <1>10. CASE Abort
    BY <1>10 DEF Abort, Return, bounds, history, VerdictInv, Running
  <1>11. CASE RetryRateLimited
    BY <1>11 DEF RetryRateLimited, bounds, history
  <1>12. CASE SetUpContext \/ Restart
    <2>1. /\ exit_reason' = "none" /\ (Adopt \/ BeginAnew)
      BY <1>12 DEF SetUpContext, Restart, Running, VerdictInv
    <2> QED BY <2>1, TakenUp
  <1>13. CASE Tools
    <2>1. tool_calls' # 0 /\ UNCHANGED <<exit_reason, current_issue, gates, faults>>
      BY <1>13, ToolsKeepCount DEF engine, TypeOK
    <2> QED BY <2>1
  <1>14. CASE UNCHANGED vars
    BY <1>14 DEF vars, engine, bounds, history
  <1> QED
    BY <1>1, <1>2, <1>3, <1>4, <1>5, <1>6, <1>7, <1>8, <1>9, <1>10, <1>11, <1>12,
       <1>13, <1>14 DEF Next, Run

\* All the invariants together are inductive.
LEMMA Inductive == Spec => [](TypeOK /\ VerdictInv /\ BudgetInv /\ SavedInv)
  <1>1. TypeOK /\ VerdictInv /\ BudgetInv /\ SavedInv /\ [Next]_vars
           => (TypeOK /\ VerdictInv /\ BudgetInv /\ SavedInv)'
    BY TypeStep, VerdictStep, BudgetStep, SavedStep
  <1>2. Init => SavedInv
    BY DEF Init, SavedInv, StepsSaved, RefusedOnlyAtFixTests
  <1>3. Init => TypeOK /\ VerdictInv /\ BudgetInv /\ SavedInv
    BY <1>2, TypeInit, VerdictInit, BudgetInit
  <1> QED BY <1>1, <1>3, PTL DEF Spec

\* A process that dies at any point leaves all the engine knew in the file, up to
\* what failing saves kept from it.
THEOREM Checkpoint == Spec => []CheckpointComplete
  <1>1. BudgetInv /\ SavedInv => CheckpointComplete
    BY DEF BudgetInv, SavedInv, StepsSaved, CheckpointComplete
  <1> QED BY <1>1, Inductive, PTL

\* The engine refuses a transition of its own in one case only, whatever gate
\* settings the processes run under.
THEOREM Refusals == Spec => []RefusedOnlyAtFixTests
  <1>1. SavedInv => RefusedOnlyAtFixTests
    BY DEF SavedInv
  <1> QED BY <1>1, Inductive, PTL

-----------------------------------------------------------------------------
(* The inner loop implements IssueRun.                                      *)

\* The run is at the step of the issue's selection: no step of the engine leads
\* there or away from there.
AtSelection == current_issue.step = "select-issue"

\* What a save leaves is the engine's own, with the budget the engine knows.
LEMMA SavedCheckpoint ==
    ASSUME NEW ci \in CurrentIssue, Save(ci)
    PROVE  CheckpointState' = "own" /\ Left(file)' = Left(ci)
  BY DEF Save, CheckpointState, Left, CurrentIssue, Issue

LEMMA KeptCheckpoint ==
    ASSUME NotSaved
    PROVE  UNCHANGED CheckpointState /\ UNCHANGED Left(file)
  BY DEF NotSaved, CheckpointState, Left

\* A step inside a run that gives no budget back: what it knows is saved or not.
LEMMA WorkRefines ==
    ASSUME NEW ci \in CurrentIssue, Running, pc # "selecting", pc' # "selecting",
           Save(ci) \/ NotSaved,
           Left(ci) = Left(current_issue), UNCHANGED Left(current_issue),
           Abstract!Judge, UNCHANGED overridden, UNCHANGED AtSelection,
           Running' \/ exit_reason' \in Abstract!Interrupted
    PROVE  Abstract!Work
  <1>1. Abstract!Running
    BY DEF Abstract!Running
  <1>2. Abstract!Checkpoint(Left(current_issue))
    <2>1. CASE Save(ci)
      BY <2>1, SavedCheckpoint DEF Abstract!Checkpoint
    <2>2. CASE NotSaved
      BY <2>2, KeptCheckpoint DEF Abstract!Checkpoint
    <2> QED BY <2>1, <2>2
  <1> QED BY <1>1, <1>2 DEF Abstract!Work, AtSelection

\* A step that leaves the verdicts alone, or adds some other than the review.
LEMMA Judged ==
    ASSUME NEW new \in SUBSET Verdict, cleared' = cleared \cup new,
           ~overridden /\ "review" \in new => {"tests", "browser"} \subseteq cleared
    PROVE  Abstract!Judge
  BY DEF Abstract!Judge, Abstract!Verdict, Verdict

LEMMA NothingJudged ==
    ASSUME UNCHANGED cleared
    PROVE  Abstract!Judge
  <1>1. {} \in SUBSET Verdict /\ cleared' = cleared \cup {}
    OBVIOUS
  <1> QED BY <1>1, Judged

LEMMA TransitionRefines ==
    ASSUME TypeOK, NEW ci \in CurrentIssue, NEW to \in Step, NEW skipped,
           NEW earned \in SUBSET Verdict, TransitionStep(ci, to, skipped, earned),
           ci.total_iterations = current_issue.total_iterations,
           ci.step = current_issue.step, Running, pc # "selecting",
           ValidTransition(gates, ci.step, to, skipped) =>
               ci.step # "select-issue" /\ to # "select-issue",
           UNCHANGED overridden,
           ~overridden /\ "review" \in earned => {"tests", "browser"} \subseteq cleared
    PROVE  Abstract!Work
  <1> DEFINE moved == [ci EXCEPT !.step = to]
  <1>1. /\ moved \in CurrentIssue /\ moved.total_iterations = ci.total_iterations
        /\ moved.step = to
    BY DEF CurrentIssue, Issue
  <1>2. /\ cleared' = cleared \cup earned \/ UNCHANGED cleared
        /\ \/ current_issue' = ci
           \/ current_issue' = moved /\ ValidTransition(gates, ci.step, to, skipped)
        /\ Save(moved) \/ NotSaved
        /\ pc' = "top" \/ (pc' = "returned" /\ exit_reason' = "error")
    BY DEF TransitionStep, Return
  <1> HIDE DEF moved
  <1>3. Abstract!Judge
    BY <1>2, Judged, NothingJudged
  <1>4. Left(moved) = Left(current_issue) /\ UNCHANGED Left(current_issue)
    BY <1>1, <1>2 DEF Left
  <1>5. Running' \/ exit_reason' \in Abstract!Interrupted
    BY <1>2 DEF Running, Abstract!Interrupted
  <1>6. UNCHANGED AtSelection
    BY <1>1, <1>2 DEF AtSelection
  <1>7. pc' # "selecting"
    BY <1>2
  <1> QED BY <1>1, <1>2, <1>3, <1>4, <1>5, <1>6, <1>7, WorkRefines

LEMMA StepFailedRefines ==
    ASSUME TypeOK, Running, pc # "selecting", StepFailed
    PROVE  Abstract!Work
  <1> DEFINE ci == [current_issue EXCEPT !.retry_count = @ + 1,
                                         !.current_failures = TRUE]
  <1>1. /\ ci \in CurrentIssue /\ ci.total_iterations = current_issue.total_iterations
        /\ ci.step = current_issue.step
    <2>1. current_issue \in Issue(Step) /\ current_issue.retry_count + 1 \in Nat
      BY DEF TypeOK, CurrentIssue, Issue
    <2>2. ci \in Issue(Step)
      BY <2>1, RetryFieldsType
    <2> QED BY <2>1, <2>2 DEF CurrentIssue, Issue
  <1>2. /\ current_issue' = ci /\ (Save(ci) \/ NotSaved)
        /\ pc' = "top" \/ (pc' = "returned" /\ exit_reason' \in {"max_retry", "aborted"})
        /\ UNCHANGED <<cleared, overridden>>
    BY DEF StepFailed, Return
  <1> HIDE DEF ci
  <1>3. Left(ci) = Left(current_issue) /\ UNCHANGED Left(current_issue)
    BY <1>1, <1>2 DEF Left
  <1>4. Running' \/ exit_reason' \in Abstract!Interrupted
    BY <1>2 DEF Running, Abstract!Interrupted
  <1>5. UNCHANGED AtSelection /\ pc' # "selecting"
    BY <1>1, <1>2 DEF AtSelection
  <1> QED BY <1>1, <1>2, <1>3, <1>4, <1>5, NothingJudged, WorkRefines

\* A run that stops without touching the issue or the file.
LEMMA StopRefines ==
    ASSUME TypeOK, Running, pc # "selecting", Return(exit_reason'),
           exit_reason' \in Abstract!Interrupted,
           UNCHANGED <<current_issue, file, engine_step, cleared, overridden>>
    PROVE  Abstract!Work
  <1>1. current_issue \in CurrentIssue /\ NotSaved /\ UNCHANGED Left(current_issue)
    BY DEF TypeOK, NotSaved, Left
  <1>2. UNCHANGED AtSelection /\ pc' # "selecting"
    BY DEF AtSelection, Return
  <1> QED BY <1>1, <1>2, NothingJudged, WorkRefines

\* Every step of the inner loop is a step of IssueRun, or changes nothing there.
LEMMA RefinesStep ==
    ASSUME TypeOK, VerdictInv, BudgetInv, [Next]_vars
    PROVE  [Abstract!Next]_(Abstract!vars)
  <1> USE DEF Abstract!Next
  <1>1. CASE HitIterationLimit
    <2>1. Left(current_issue) = 0
      BY <1>1, LimitsAssumption DEF HitIterationLimit, BudgetInv, Left, TypeOK,
         CurrentIssue, Issue
    <2>2. /\ UNCHANGED <<current_issue, file, engine_step, cleared, overridden>>
          /\ Running /\ pc # "selecting" /\ pc' = "returned"
          /\ exit_reason' = "max_iterations"
      BY <1>1 DEF HitIterationLimit, Return, Running, history
    <2>3. UNCHANGED <<Left(current_issue), Left(file), CheckpointState>>
      BY <2>2 DEF Left, CheckpointState
    <2> QED BY <2>1, <2>2, <2>3 DEF Abstract!Exhaust, Abstract!Running, Running
  <1>2. CASE Iterate
    <2> DEFINE ci == [current_issue EXCEPT !.total_iterations = @ + 1]
    <2>1. /\ ci \in CurrentIssue
          /\ ci.total_iterations = current_issue.total_iterations + 1
          /\ current_issue.total_iterations \in Nat
      BY DEF TypeOK, CurrentIssue, Issue
    <2>2. /\ current_issue' = ci /\ (Save(ci) \/ NotSaved)
          /\ current_issue.total_iterations < MaxTotalIterations
          /\ pc = "top" /\ pc' = "body" /\ UNCHANGED <<cleared, overridden>>
          /\ ci.step = current_issue.step
      BY <1>2 DEF Iterate, TypeOK, CurrentIssue, Issue
    <2> HIDE DEF ci
    <2>3. /\ Left(current_issue) > 0
          /\ Left(ci) = Left(current_issue) - 1
          /\ Left(current_issue)' = Left(ci)
      BY <2>1, <2>2, LimitsAssumption DEF Left
    <2>4. CASE Save(ci)
      BY <2>1, <2>2, <2>3, <2>4, SavedCheckpoint
         DEF Abstract!Spend, Abstract!Running, Abstract!Checkpoint, Running
    <2>5. CASE NotSaved
      BY <2>2, <2>3, <2>5, KeptCheckpoint
         DEF Abstract!Spend, Abstract!Running, Abstract!Checkpoint, Running
    <2> QED BY <2>2, <2>4, <2>5
  <1>3. CASE SkipStep
    <2>1. /\ current_issue \in CurrentIssue
          /\ SkipTarget(gates, current_issue.step) \in Step
          /\ Waived(gates) \in SUBSET Verdict /\ "review" \notin Waived(gates)
      BY SkipTargetIsStep DEF TypeOK, Waived, Verdict
    <2>2. /\ TransitionStep(current_issue, SkipTarget(gates, current_issue.step), TRUE,
                            Waived(gates))
          /\ Running /\ pc # "selecting" /\ UNCHANGED overridden
      BY <1>3 DEF SkipStep, Running
    <2>3. /\ current_issue.step # "select-issue"
          /\ SkipTarget(gates, current_issue.step) # "select-issue"
      BY <1>3 DEF SkipStep, ShouldSkipStep, SkipTarget, TestingSteps, BrowserQaSteps
    <2> QED BY <2>1, <2>2, <2>3, TransitionRefines
  <1>4. CASE StartSession
    <2>1. current_issue \in CurrentIssue /\ NotSaved /\ UNCHANGED Left(current_issue)
      BY <1>4 DEF StartSession, bounds, NotSaved, TypeOK, Left
    <2>2. cleared' = {} \/ UNCHANGED cleared
      BY <1>4 DEF StartSession
    <2>3. Abstract!Judge
      BY <2>2, NothingJudged DEF Abstract!Judge
    <2>4. /\ Running /\ Running' /\ pc # "selecting" /\ pc' # "selecting"
          /\ UNCHANGED overridden /\ UNCHANGED AtSelection
      BY <1>4 DEF StartSession, Running, AtSelection
    <2> QED BY <2>1, <2>3, <2>4, WorkRefines
  <1>5. CASE SessionStops
    <2>1. /\ Running /\ pc # "selecting" /\ Return(exit_reason')
          /\ exit_reason' \in Abstract!Interrupted
          /\ UNCHANGED <<current_issue, file, engine_step, cleared, overridden>>
      BY <1>5 DEF SessionStops, InSession, Running, Return, history,
         Abstract!Interrupted
    <2> QED BY <2>1, StopRefines
  <1>6. CASE SessionFails
    BY <1>6, StepFailedRefines DEF SessionFails, InSession, Running
  <1>7. CASE SessionRoutes
    <2> DEFINE step == current_issue.step
               ci   == [current_issue EXCEPT !.retry_count = 0,
                                             !.current_failures = FALSE]
    <2>1. PICK found \in Signal, to \in Step \cup {NoStep} :
             /\ ParsesTo(step, found, to)
             /\ IF to = NoStep
                THEN /\ current_issue' = ci /\ NotSaved /\ NoFault
                     /\ UNCHANGED cleared
                     /\ Return("completed")
                ELSE TransitionStep(ci, to, FALSE, VerdictOf(step, to))
      BY <1>7 DEF SessionRoutes
    <2>2. /\ ci \in CurrentIssue /\ step \in Step /\ ci.step = step
          /\ ci.total_iterations = current_issue.total_iterations
          /\ Running /\ pc # "selecting" /\ UNCHANGED overridden
          /\ step # "complete-issue"
      BY <1>7 DEF SessionRoutes, InSession, Running, TypeOK, CurrentIssue, Issue
    <2> HIDE DEF ci
    <2>3. CASE to = NoStep
      <3>1. step = "select-issue"
        BY <2>1, <2>2, <2>3, RoutedOut
      <3>2. /\ pc' = "returned" /\ exit_reason' = "completed" /\ UNCHANGED cleared
            /\ current_issue' = ci /\ NotSaved
        BY <2>1, <2>3 DEF Return
      <3>3. UNCHANGED <<Left(current_issue), Left(file), CheckpointState>>
        BY <2>2, <3>2, KeptCheckpoint DEF Left
      <3>4. current_issue.step = "select-issue" /\ current_issue'.step = "select-issue"
        BY <2>2, <3>1, <3>2
      <3> QED BY <2>2, <3>2, <3>3, <3>4 DEF Abstract!Finish, Abstract!Running, Running
    <2>4. CASE to \in Step
      <3>1. to # NoStep
        BY <2>4 DEF NoStep, Step, TestingSteps, BrowserQaSteps
      <3>2. /\ VerdictOf(step, to) \in SUBSET Verdict
            /\ "review" \in VerdictOf(step, to) => step = "code-review"
        BY DEF VerdictOf, Verdict
      <3>3. RequiredVerdicts("code-review") = {"tests", "browser"}
        BY DEF RequiredVerdicts, Verdict, BehindTests, BehindBrowser, BehindReview
      <3>4. ~overridden /\ "review" \in VerdictOf(step, to)
              => {"tests", "browser"} \subseteq cleared
        BY <3>2, <3>3 DEF VerdictInv
      <3>5. TransitionStep(ci, to, FALSE, VerdictOf(step, to))
        BY <2>1, <3>1
      <3>6. step # "select-issue" /\ to # "select-issue"
        BY <2>1, <2>2, <2>4, RoutedVerdicts
      <3> QED BY <2>2, <2>4, <3>2, <3>4, <3>5, <3>6, TransitionRefines
    <2> QED BY <2>3, <2>4
  <1>8. CASE CompleteIssue
    <2>1. RequiredVerdicts("complete-issue") = Verdict /\ cleared \subseteq Verdict
      BY DEF RequiredVerdicts, Verdict, BehindTests, BehindBrowser, BehindReview,
         TypeOK
    <2>2. ~overridden => cleared = Verdict
      BY <1>8, <2>1 DEF CompleteIssue, VerdictInv
    <2>3. /\ current_issue'.total_iterations = current_issue.total_iterations
          /\ current_issue'.step = current_issue.step
          /\ UNCHANGED <<file, engine_step, cleared, overridden>>
          /\ pc = "session" /\ pc' = "returned" /\ exit_reason' = "completed"
      BY <1>8 DEF CompleteIssue, Return, history, TypeOK, CurrentIssue, Issue
    <2>4. UNCHANGED <<Left(current_issue), Left(file), CheckpointState>>
      BY <2>3 DEF Left, CheckpointState
    <2> QED
      BY <2>2, <2>3, <2>4
         DEF Abstract!Finish, Abstract!Running, Abstract!Verdict, Verdict, Running
  <1>9. CASE RefuseCompletion
    BY <1>9, StepFailedRefines DEF RefuseCompletion, Running
  <1>10. CASE Abort
    <2>1. /\ Running /\ pc # "selecting" /\ Return(exit_reason')
          /\ exit_reason' \in Abstract!Interrupted
          /\ UNCHANGED <<current_issue, file, engine_step, cleared, overridden>>
      BY <1>10 DEF Abort, Return, history, Abstract!Interrupted
    <2> QED BY <2>1, StopRefines
  <1>11. CASE RetryRateLimited
    <2>1. /\ pc = "returned" /\ pc' = "top" /\ exit_reason = "rate_limited"
          /\ UNCHANGED <<current_issue, file, engine_step, cleared, overridden>>
      BY <1>11 DEF RetryRateLimited, history
    <2>2. UNCHANGED <<Left(current_issue), Left(file), CheckpointState>>
      BY <2>1 DEF Left, CheckpointState
    <2> QED BY <2>1, <2>2 DEF Abstract!Retry, Running
  <1>12. CASE SetUpContext \/ Restart
    <2>1. /\ pc \in {"selecting", "returned"} /\ pc' = "top"
          /\ UNCHANGED cleared
          /\ exit_reason # "running"
          /\ \/ Adopt
             \/ /\ BeginAnew
                /\ \/ pc = "selecting" \/ exit_reason = "completed"
                   \/ file.step \notin Step
      BY <1>12 DEF SetUpContext, Restart, TypeOK, IssueExitReason
    <2>2. ~Abstract!Running /\ Running'
      BY <2>1 DEF Abstract!Running, Running
    <2>3. CASE Adopt
      <3>1. /\ current_issue' = file /\ UNCHANGED <<file, engine_step>>
            /\ overridden' = (overridden \/ file.step # engine_step)
            /\ file.step \in Step
        BY <2>3 DEF Adopt, NotSaved
      <3>2. /\ Left(current_issue)' = Left(file)
            /\ UNCHANGED <<Left(file), CheckpointState>>
        BY <3>1 DEF Left, CheckpointState
      <3>3. /\ CheckpointState # "unreadable"
            /\ CheckpointState = "own" <=> file.step = engine_step
        BY <3>1 DEF CheckpointState
      <3>4. (~overridden)' = (~overridden /\ CheckpointState = "own")
        BY <3>1, <3>3 DEF TypeOK
      <3>5. ~overridden' => UNCHANGED AtSelection
        BY <3>1 DEF VerdictInv, AtSelection
      <3>6. AtSelection' \in BOOLEAN
        BY DEF AtSelection
      <3> QED
        BY <2>1, <2>2, <3>2, <3>3, <3>4, <3>5, <3>6
           DEF Abstract!Continue, AtSelection
    <2>4. CASE BeginAnew /\ ~Adopt
      <3>1. /\ current_issue' = Fresh /\ Save(Fresh) /\ UNCHANGED overridden
            /\ Fresh \in CurrentIssue
        BY <2>4, CurrentIsFile DEF BeginAnew
      <3>2. Fresh.total_iterations = 0 /\ Fresh.step = "read-docs"
        BY DEF Fresh, Blank
      <3>3. /\ Left(current_issue)' = MaxTotalIterations
            /\ Left(file)' = MaxTotalIterations /\ CheckpointState' = "own"
        BY <3>1, <3>2, SavedCheckpoint, LimitsAssumption DEF Left
      <3>4. current_issue'.step # "select-issue"
        BY <3>1, <3>2
      <3>5. file.step \notin Step => CheckpointState = "unreadable"
        BY DEF CheckpointState
      <3>6. pc # "selecting" => pc = "returned"
        BY <2>1
      <3> QED
        BY <2>1, <2>2, <2>4, <3>1, <3>3, <3>4, <3>5, <3>6
           DEF Abstract!BeginAnew, Running
    <2> QED BY <2>1, <2>3, <2>4
  <1>13. CASE Tools
    <2>1. /\ file'.total_iterations = file.total_iterations
          /\ UNCHANGED <<pc, exit_reason, current_issue, cleared, overridden>>
      BY <1>13, ToolsKeepCount DEF engine, history
    <2>2. UNCHANGED <<Left(current_issue), Left(file), Running>>
      BY <2>1 DEF Left, Running
    <2>3. CheckpointState' \in {"own", "tampered", "unreadable"}
      BY DEF CheckpointState
    <2> QED BY <2>1, <2>2, <2>3 DEF Abstract!Tamper
  <1>14. CASE UNCHANGED vars
    <2>1. UNCHANGED <<pc, exit_reason, current_issue, file, engine_step, cleared,
                      overridden>>
      BY <1>14 DEF vars, engine, history
    <2>2. UNCHANGED <<Left(current_issue), Left(file), Running, CheckpointState>>
      BY <2>1 DEF Left, Running, CheckpointState
    <2> QED BY <2>1, <2>2 DEF Abstract!vars
  <1> QED
    BY <1>1, <1>2, <1>3, <1>4, <1>5, <1>6, <1>7, <1>8, <1>9, <1>10, <1>11, <1>12,
       <1>13, <1>14 DEF Next, Run

\* The inner loop keeps the promise of IssueRun for every limit, gate setting,
\* tool input and number of processes: the outer loop may take it as one step.
THEOREM Implements == Spec => ImplementsIssueRun
  <1>1. Init => Abstract!Init
    <2>1. ASSUME Init
          PROVE  /\ Left(current_issue) = MaxTotalIterations
                 /\ Left(file) = MaxTotalIterations
                 /\ CheckpointState = "own"
                 /\ current_issue.step = "select-issue"
      BY <2>1, LimitsAssumption DEF Init, Left, Selection, Blank, CheckpointState, Step
    <2> QED BY <2>1 DEF Init, Abstract!Init
  <1>2. TypeOK /\ VerdictInv /\ BudgetInv /\ [Next]_vars
           => [Abstract!Next]_(Abstract!vars)
    BY RefinesStep
  <1> QED BY <1>1, <1>2, Inductive, PTL DEF Spec, ImplementsIssueRun, Abstract!Spec

-----------------------------------------------------------------------------
(* Why every run of the engine returns.                                     *)

PlacesLeft == CASE pc = "returned"  -> 0
                [] pc = "top"       -> 1
                [] pc = "session"   -> 2
                [] pc = "selecting" -> 2
                [] pc = "body"      -> 3

\* What is left to do of the work a process puts into its issue: the iterations,
\* what of this one is not done, and the attempts after a rate limit.
WorkLeft ==
    3 * Left(current_issue) + PlacesLeft + 2 * (RateLimitAttempts - attempt)

\* Each step of the engine and each retry use some of it up, and no tool gives
\* any back: only a new process does.
WorkRunsOut ==
    /\ WorkLeft \in Nat
    /\ Run \/ Abort \/ RetryRateLimited => WorkLeft' < WorkLeft
    /\ ~Restart => WorkLeft' <= WorkLeft

\* A step that comes nearer to the end of its iteration.
LEMMA WorkGoes ==
    ASSUME TypeOK, BudgetInv, UNCHANGED attempt,
           current_issue'.total_iterations = current_issue.total_iterations,
           \/ pc \in {"body", "session", "selecting"} /\ pc' \in {"top", "returned"}
           \/ pc = "body" /\ pc' = "session"
           \/ pc = "top" /\ pc' = "returned"
    PROVE  WorkLeft' < WorkLeft /\ WorkLeft' <= WorkLeft
  <1>1. /\ current_issue.total_iterations \in Nat /\ MaxTotalIterations \in Nat
        /\ attempt \in Nat /\ RateLimitAttempts \in Nat
    BY LimitsAssumption DEF TypeOK, CurrentIssue, Issue
  <1>2. Left(current_issue)' = Left(current_issue) /\ Left(current_issue) \in Nat
    BY <1>1 DEF Left, BudgetInv
  <1>3. PlacesLeft \in Nat /\ PlacesLeft' \in Nat /\ PlacesLeft' < PlacesLeft
    BY DEF PlacesLeft
  <1> QED
    BY <1>1, <1>2, <1>3 DEF WorkLeft

\* Every step of the engine, or of its end, leaves the place where it was made.
LEMMA RunMoves ==
    /\ Run \/ Abort => pc # "returned" /\ pc' # pc
    /\ RetryRateLimited => pc = "returned" /\ pc' # pc /\ attempt' = attempt + 1
  <1>1. ASSUME Run  PROVE  pc # "returned" /\ pc' # pc
    <2>1. CASE HitIterationLimit \/ Iterate \/ StartSession \/ CompleteIssue
      BY <2>1 DEF HitIterationLimit, Iterate, StartSession, CompleteIssue, Return
    <2>2. CASE SkipStep \/ SessionRoutes
      BY <2>2 DEF SkipStep, SessionRoutes, InSession, TransitionStep, Return
    <2>3. CASE SessionStops \/ SessionFails \/ RefuseCompletion
      BY <2>3 DEF SessionStops, SessionFails, RefuseCompletion, InSession, StepFailed, Return
    <2>4. CASE SetUpContext
      BY <2>4 DEF SetUpContext
    <2> QED BY <1>1, <2>1, <2>2, <2>3, <2>4 DEF Run
  <1>2. Abort => pc # "returned" /\ pc' # pc
    BY DEF Abort, Running, Return
  <1>3. RetryRateLimited => pc = "returned" /\ pc' # pc /\ attempt' = attempt + 1
    BY DEF RetryRateLimited
  <1> QED BY <1>1, <1>2, <1>3

LEMMA WorkStep ==
    ASSUME TypeOK, BudgetInv, [Next]_vars
    PROVE  WorkRunsOut
  <1>1. /\ current_issue \in CurrentIssue /\ current_issue.total_iterations \in Nat
        /\ MaxTotalIterations \in Nat /\ attempt \in Nat /\ RateLimitAttempts \in Nat
        /\ 1 <= attempt /\ attempt <= RateLimitAttempts /\ pc \in PC
        /\ Left(current_issue) \in Nat
    BY LimitsAssumption DEF TypeOK, BudgetInv, CurrentIssue, Issue, Left
  <1>2. WorkLeft \in Nat /\ PlacesLeft \in Nat
    BY <1>1 DEF WorkLeft, PlacesLeft, PC
  <1>3. CASE Iterate
    <2> DEFINE ci == [current_issue EXCEPT !.total_iterations = @ + 1]
    <2>1. ci.total_iterations = current_issue.total_iterations + 1
      BY <1>1 DEF CurrentIssue, Issue
    <2>2. current_issue' = ci /\ pc = "top" /\ pc' = "body" /\ UNCHANGED attempt
      BY <1>3 DEF Iterate
    <2> HIDE DEF ci
    <2>3. Left(current_issue)' = Left(current_issue) - 1
      BY <1>1, <2>1, <2>2 DEF Left
    <2>4. PlacesLeft = 1 /\ PlacesLeft' = 3
      BY <2>2 DEF PlacesLeft
    <2>5. WorkLeft' < WorkLeft /\ WorkLeft' <= WorkLeft
      BY <1>1, <2>2, <2>3, <2>4 DEF WorkLeft
    <2> QED BY <1>2, <2>5 DEF WorkRunsOut
  <1>4. CASE StartSession
    <2>1. /\ UNCHANGED <<current_issue, attempt>> /\ pc = "body" /\ pc' = "session"
      BY <1>4 DEF StartSession
    <2>2. WorkLeft' < WorkLeft /\ WorkLeft' <= WorkLeft
      BY <2>1, WorkGoes
    <2> QED BY <1>2, <2>2 DEF WorkRunsOut
  <1>5. CASE SetUpContext
    <2>1. /\ pc = "selecting" /\ pc' = "top" /\ UNCHANGED attempt
          /\ Adopt \/ BeginAnew
      BY <1>5 DEF SetUpContext
    <2>2. current_issue.total_iterations = 0 /\ file.total_iterations = 0
      <3>1. file.total_iterations \in Nat
        BY DEF TypeOK, FileIssue, Issue
      <3> QED BY <2>1, <3>1 DEF BudgetInv
    <2>3. current_issue'.total_iterations = 0
      BY <2>1, <2>2, TakenUp
    <2>4. WorkLeft' < WorkLeft /\ WorkLeft' <= WorkLeft
      BY <2>1, <2>2, <2>3, WorkGoes
    <2> QED BY <1>2, <2>4 DEF WorkRunsOut
  <1>6. CASE RetryRateLimited
    <2>1. /\ UNCHANGED current_issue /\ attempt' = attempt + 1
          /\ pc = "returned" /\ pc' = "top"
      BY <1>6 DEF RetryRateLimited
    <2>2. PlacesLeft = 0 /\ PlacesLeft' = 1 /\ Left(current_issue)' = Left(current_issue)
      BY <2>1 DEF PlacesLeft, Left
    <2>3. WorkLeft' < WorkLeft /\ WorkLeft' <= WorkLeft
      BY <1>1, <2>1, <2>2 DEF WorkLeft
    <2> QED BY <1>2, <2>3 DEF WorkRunsOut
  <1>7. CASE Tools \/ UNCHANGED vars
    <2>1. UNCHANGED engine
      BY <1>7, ToolsKeepCount DEF vars
    <2>2. WorkLeft' = WorkLeft
      BY <2>1 DEF engine, WorkLeft, PlacesLeft, Left
    <2>3. ~(Run \/ Abort \/ RetryRateLimited)
      BY <2>1, RunMoves DEF engine
    <2> QED BY <1>2, <2>2, <2>3 DEF WorkRunsOut
  <1>8. CASE Restart
    <2>1. pc = "returned" /\ attempt' = 1
      BY <1>8 DEF Restart
    <2>2. ~ (Run \/ Abort \/ RetryRateLimited)
      BY <1>1, <2>1, <1>8, RunMoves DEF Restart, RetryRateLimited
    <2> QED BY <1>2, <1>8, <2>2 DEF WorkRunsOut
  <1>9. CASE /\ Run \/ Abort
             /\ ~Iterate /\ ~StartSession /\ ~SetUpContext
    <2>1. pc # "returned" /\ pc' # pc /\ ~Restart
      BY <1>9, RunMoves DEF Restart
    <2>2. /\ current_issue'.total_iterations = current_issue.total_iterations
          /\ pc' \in {"top", "returned"}
      BY <1>9, <2>1, CountKept
    <2>3. UNCHANGED attempt /\ (pc' = "top" => pc \in {"body", "session"})
      <3>1. CASE HitIterationLimit \/ SessionStops \/ CompleteIssue \/ Abort
        BY <3>1 DEF HitIterationLimit, SessionStops, CompleteIssue, Abort, Return
      <3>2. CASE SkipStep
        BY <3>2 DEF SkipStep
      <3>3. CASE SessionRoutes
        BY <3>3 DEF SessionRoutes, InSession
      <3>4. CASE SessionFails \/ RefuseCompletion
        BY <3>4 DEF SessionFails, RefuseCompletion, InSession, StepFailed
      <3> QED BY <1>9, <3>1, <3>2, <3>3, <3>4 DEF Run
    <2>4. pc \in {"top", "body", "session", "selecting"}
      BY <1>1, <2>1 DEF PC
    <2>5. WorkLeft' < WorkLeft /\ WorkLeft' <= WorkLeft
      BY <2>2, <2>3, <2>4, WorkGoes
    <2> QED BY <1>2, <2>1, <2>5 DEF WorkRunsOut
  <1> QED
    BY <1>3, <1>4, <1>5, <1>6, <1>7, <1>8, <1>9 DEF Next, Run

\* A process that works on an issue takes finitely many steps, for every limit,
\* number of retries and attempts, however its sessions fail, route back or are
\* skipped: IssueEngine.run and the retries around it count down a number.
THEOREM RunsOut == Spec => [][WorkRunsOut]_vars
  <1>1. TypeOK /\ BudgetInv /\ [Next]_vars => [WorkRunsOut]_vars
    BY WorkStep
  <1> QED BY <1>1, Inductive, PTL DEF Spec

=============================================================================
