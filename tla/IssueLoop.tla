----------------------------- MODULE IssueLoop ------------------------------
(***************************************************************************)
(* The inner loop: IssueEngine.run walking one issue through the workflow.  *)
(*                                                                         *)
(* The engine works on an object in memory, current_issue, and saves it to  *)
(* current_issue.json (variable file).  It never reads the file back while  *)
(* it runs; a new `claudesprint run` does, and continues from what it says. *)
(* Meanwhile the agent of a running session, or an operator in another      *)
(* shell, rewrites the file with claudesprint-tools.  Every access to the   *)
(* file holds the issue lock, so it is one step here.  The process may die  *)
(* between any two steps, a save may fail, and the call that logs a         *)
(* transition may raise after the save it follows.                          *)
(*                                                                         *)
(* Around the engine stand the callers that run it.  The first run begins   *)
(* with a fresh context, or with the file the selection session left        *)
(* (SprintEngine._setup_issue_context).  The retries after a rate limit     *)
(* (_execute_issue_with_retry) keep the object in memory; a new process, or *)
(* another turn of the outer loop, reloads the file.                        *)
(***************************************************************************)
EXTENDS Workflow

\* Any word `issue step` accepts that names no step: the file it leaves does
\* not load, until the step is set again.
Misspelled == "misspelled"

\* The step of a file that `issue init` wrote: its chunk type is none
\* CurrentIssue knows, so that it does not load whatever its step is.
Unloadable == "unloadable"

CONSTANTS
    MaxTotalIterations, \* config.max_total_iterations
    MaxRetry,           \* config.max_retry
    RateLimitAttempts,  \* config.rate_limit_retries, at least one attempt
    Changes,            \* file changes an agent may record
    ToolSteps,          \* words somebody may pass to `issue step`
    ToolTimes,          \* where the engine stands when tools are called
    GateSettings,       \* gate settings the configuration may have
    MaxRuns,            \* bound: processes started
    MaxDisturbances     \* bound: failing saves and logs, and tool calls

ASSUME LimitsAssumption ==
    /\ MaxTotalIterations \in Nat \ {0}
    /\ MaxRetry \in Nat \ {0}
    /\ RateLimitAttempts \in Nat \ {0}
    /\ MaxRuns \in Nat \ {0}
    /\ MaxDisturbances \in Nat

\* Where the engine stands: "selecting" is before its first run, while the
\* selection session is under way.
PC == {"selecting", "top", "body", "session", "returned"}

ASSUME InputsAssumption ==
    /\ ToolSteps \subseteq Step \cup {Misspelled}
    /\ ToolTimes \subseteq PC
    /\ GateSettings \subseteq Gates

VARIABLES
    pc,            \* where the engine stands
    exit_reason,   \* IssueResult.exit_reason, or how the process ended
    current_issue, \* the object in memory
    file,          \* current_issue.json
    gates,         \* execution_config of this process
    attempt,       \* tenacity's attempt number
    signal,        \* matched_signal of the last ROUTING_SIGNAL event
    runs, faults, tool_calls,  \* what the bounds count
    \* History, for the properties only.
    cleared,       \* verdicts reached since the code was last touched
    engine_step,   \* the step of the engine's last save
    overridden,    \* a process continued from a step the engine did not save
    forgotten,     \* how often the issue was begun anew, its file lost
    executed       \* step executions over all runs, until over the allowance

engine   == <<pc, exit_reason, current_issue, gates, attempt, signal>>
history  == <<cleared, engine_step, overridden, forgotten, executed>>
bounds   == <<runs, faults, tool_calls>>
vars     == <<engine, file, bounds, history>>

-----------------------------------------------------------------------------
(* State.                                                                   *)

\* What of CurrentIssue the loop reads and writes; current_failures is
\* whether the text is non-empty.
Issue(steps) == [step : steps, retry_count : Nat, current_failures : BOOLEAN,
                 total_iterations : Nat, changes : SUBSET Changes]

CurrentIssue == Issue(Step)

IssueExitReason == {"completed", "rate_limited", "max_retry",
                    "max_iterations", "crashed", "error"}

Verdict == {"tests", "browser", "review"}

Running == pc # "returned"

\* Sessions of these steps edit the code or its tests.
EditingSteps == {"implement", "write-tests", "fix-tests", "fix-code-review-issues"}

\* What a file may hold instead of a step.
FileIssue == Issue(Step \cup {Misspelled, Unloadable})

Blank(step) == [step |-> step, retry_count |-> 0, current_failures |-> FALSE,
                total_iterations |-> 0, changes |-> {}]

Fresh == Blank("read-docs")

\* The context _run_agent_selection writes for the selection session.
Selection == Blank("select-issue")

TypeOK ==
    /\ pc \in PC
    /\ exit_reason \in IssueExitReason \cup {"none", "aborted"}
    /\ current_issue \in CurrentIssue
    /\ file \in FileIssue
    /\ gates \in Gates
    /\ attempt \in 1 .. RateLimitAttempts
    /\ signal \in Signal
    /\ runs \in Nat /\ faults \in Nat /\ tool_calls \in Nat
    /\ cleared \subseteq Verdict
    /\ engine_step \in Step
    /\ overridden \in BOOLEAN /\ forgotten \in Nat
    /\ executed \in Nat

\* SprintEngine has just written the context for the selection session.  When it
\* selects without one it goes on with a fresh context at once.
Init ==
    /\ pc = "selecting"
    /\ exit_reason = "none"
    /\ current_issue = Selection
    /\ file = Selection
    /\ gates \in GateSettings
    /\ attempt = 1
    /\ signal = "no_signal"
    /\ runs = 1 /\ faults = 0 /\ tool_calls = 0
    /\ cleared = {}
    /\ engine_step = "select-issue"
    /\ overridden = FALSE /\ forgotten = 0
    /\ executed = 0

-----------------------------------------------------------------------------
(* Helpers of the actions.                                                  *)

Return(reason) == pc' = "returned" /\ exit_reason' = reason

Disturbed == faults + tool_calls >= MaxDisturbances

Fault == ~Disturbed /\ faults' = faults + 1

NoFault == UNCHANGED faults

\* The verdicts a disabled gate makes unnecessary.
Waived(g) == (IF g.require_testing THEN {} ELSE {"tests"}) \cup
             (IF g.require_browser_qa THEN {} ELSE {"browser"})

\* The verdict that leaving `from` for `to` stands for.
VerdictOf(from, to) ==
    {v \in Verdict :
        \/ v = "tests"   /\ from = "run-tests"          /\ to = "browser-validation"
        \/ v = "browser" /\ from = "browser-validation" /\ to = "code-review"
        \/ v = "review"  /\ from = "code-review"        /\ to = "update-docs"}

\* write_current_issue that returns True: the whole object replaces the file.
Save(ci) == file' = ci /\ engine_step' = ci.step

NotSaved == UNCHANGED <<file, engine_step>>

\* _transition_step, from `ci` (the object as it is in memory by now) to `to`:
\* validate, save, log.  A refused transition and a save that fails leave the
\* step where it was; so does, in memory only, a log call that raises after
\* the save.  `earned` are the verdicts of a transition that is made.
TransitionStep(ci, to, skipped, earned) ==
    LET moved == [ci EXCEPT !.step = to]
    IN  \/ /\ ValidTransition(gates, ci.step, to, skipped)
           /\ current_issue' = moved /\ Save(moved)
           /\ cleared' = cleared \cup earned
           /\ pc' = "top" /\ UNCHANGED exit_reason
           /\ NoFault
        \/ /\ ValidTransition(gates, ci.step, to, skipped)
           /\ current_issue' = ci
           /\ NotSaved \/ Save(moved)
           /\ cleared' = cleared \cup earned
           /\ Return("error")
           /\ Fault
        \/ /\ ~ValidTransition(gates, ci.step, to, skipped)
           /\ current_issue' = ci /\ NotSaved /\ UNCHANGED cleared
           /\ Return("error")
           /\ NoFault

-----------------------------------------------------------------------------
(* IssueEngine.run.                                                         *)

\* total_iterations survives rate limits and restarts in the file.
HitIterationLimit ==
    /\ pc = "top"
    /\ current_issue.total_iterations >= MaxTotalIterations
    /\ Return("max_iterations")
    /\ UNCHANGED <<current_issue, gates, attempt, signal, file, bounds, history>>

\* Mutant: the limit is checked but nothing is counted.
IterateUncounted ==
    /\ pc = "top"
    /\ current_issue.total_iterations < MaxTotalIterations
    /\ pc' = "body"
    /\ signal' = "no_signal"
    /\ UNCHANGED <<exit_reason, current_issue, gates, attempt, file, bounds, history>>

\* Mutant: the count is kept in memory until the next transition saves it.
IterateUnsaved ==
    /\ pc = "top"
    /\ current_issue.total_iterations < MaxTotalIterations
    /\ current_issue' = [current_issue EXCEPT !.total_iterations = @ + 1]
    /\ pc' = "body"
    /\ signal' = "no_signal"
    /\ UNCHANGED <<exit_reason, gates, attempt, file, bounds, history>>

\* The result of this save is not looked at.
Iterate ==
    /\ pc = "top"
    /\ current_issue.total_iterations < MaxTotalIterations
    /\ LET ci == [current_issue EXCEPT !.total_iterations = @ + 1]
       IN  /\ current_issue' = ci
           /\ \/ Save(ci) /\ NoFault
              \/ NotSaved /\ Fault
    /\ pc' = "body"
    /\ signal' = "no_signal"
    /\ UNCHANGED <<exit_reason, gates, attempt, runs, tool_calls, cleared,
                   overridden, forgotten, executed>>

\* A step whose gate is off: retry_count and current_failures stay as they are.
SkipStep ==
    /\ pc = "body"
    /\ ShouldSkipStep(gates, current_issue.step)
    /\ TransitionStep(current_issue, SkipTarget(gates, current_issue.step), TRUE,
                      Waived(gates))
    /\ UNCHANGED <<gates, attempt, signal, runs, tool_calls, overridden,
                   forgotten, executed>>

\* What the issue may take of step executions, all told: a file that is lost gives
\* back one budget, a save that fails one execution.
Allowance == MaxTotalIterations * (1 + forgotten) + faults

\* _execute_step enters the step's executor; for every step but complete-issue
\* that is a session of the agent.
StartSession ==
    /\ pc = "body"
    /\ ~ShouldSkipStep(gates, current_issue.step)
    /\ pc' = "session"
    /\ executed' = IF executed <= Allowance THEN executed + 1 ELSE executed
    /\ cleared' = IF current_issue.step \in EditingSteps THEN {} ELSE cleared
    /\ UNCHANGED <<exit_reason, current_issue, gates, attempt, signal, file,
                   bounds, engine_step, overridden, forgotten>>

InSession == pc = "session" /\ current_issue.step # "complete-issue"

\* The session ends in a rate limit, or its process died of a system error:
\* nothing is saved, so what tools wrote into the file stays there.
SessionStops ==
    /\ InSession
    /\ \E reason \in {"rate_limited", "crashed"} : Return(reason)
    /\ UNCHANGED <<current_issue, gates, attempt, signal, file, bounds, history>>

\* Mutant: the failure is not saved before the retry.
StepFailedUnsaved ==
    LET ci == [current_issue EXCEPT !.retry_count = @ + 1,
                                    !.current_failures = TRUE]
    IN  /\ current_issue' = ci
        /\ IF ci.retry_count >= MaxRetry
           THEN Return("max_retry")
           ELSE pc' = "top" /\ UNCHANGED exit_reason
        /\ UNCHANGED <<gates, attempt, signal, file, bounds, history>>

\* `not step_result.success`: count the failure, save, retry or give up.  A
\* save that fails here raises and ends the process.
StepFailed ==
    LET ci == [current_issue EXCEPT !.retry_count = @ + 1,
                                    !.current_failures = TRUE]
    IN  /\ current_issue' = ci
        /\ \/ /\ Save(ci) /\ NoFault
              /\ IF ci.retry_count >= MaxRetry
                 THEN Return("max_retry")
                 ELSE pc' = "top" /\ UNCHANGED exit_reason
           \/ NotSaved /\ Fault /\ Return("aborted")
        /\ UNCHANGED <<gates, attempt, signal, runs, tool_calls, cleared,
                       overridden, forgotten, executed>>

\* No prompt for the step, no signal where one is required, or a non-zero exit
\* where the routing table has nothing (select-issue).
SessionFails == InSession /\ StepFailed

\* The step succeeded.  Only select-issue, which has no routes, ends the issue
\* from here; nothing is saved then.
SessionRoutes ==
    /\ InSession
    /\ \E found \in Signal, to \in Step \cup {NoStep} :
        LET step == current_issue.step
            ci   == [current_issue EXCEPT !.retry_count = 0,
                                          !.current_failures = FALSE]
        IN  /\ ParsesTo(step, found, to)
            /\ step \in REQUIRES_EXPLICIT_SIGNAL => Matched(step, found)
            /\ signal' = IF Matched(step, found) THEN found ELSE "no_signal"
            /\ IF to = NoStep
               THEN /\ current_issue' = ci /\ NotSaved /\ NoFault
                    /\ UNCHANGED cleared
                    /\ Return("completed")
               ELSE TransitionStep(ci, to, FALSE, VerdictOf(step, to))
    /\ UNCHANGED <<gates, attempt, runs, tool_calls, overridden, forgotten, executed>>

\* CompletionStepExecutor, then the success branch of run(): nothing is saved.
CompleteIssue ==
    /\ pc = "session"
    /\ current_issue.step = "complete-issue"
    /\ ~current_issue.current_failures
    /\ current_issue' = [current_issue EXCEPT !.retry_count = 0]
    /\ Return("completed")
    /\ UNCHANGED <<gates, attempt, signal, file, bounds, history>>

\* The same executor when failures are outstanding: its next_step is ignored.
RefuseCompletion ==
    /\ pc = "session"
    /\ current_issue.step = "complete-issue"
    /\ current_issue.current_failures
    /\ StepFailed

\* The process is killed, or the issue lock cannot be had and the exception
\* leaves run().
Abort ==
    /\ Running /\ pc # "selecting"
    /\ Return("aborted")
    /\ UNCHANGED <<current_issue, gates, attempt, signal, file, bounds, history>>

-----------------------------------------------------------------------------
(* SprintEngine around it.                                                  *)

\* Mutant: attempts are not limited.
RetryForever ==
    /\ pc = "returned"
    /\ exit_reason = "rate_limited"
    /\ attempt' = attempt + 1
    /\ pc' = "top" /\ exit_reason' = "none"
    /\ UNCHANGED <<current_issue, gates, signal, file, bounds, history>>

\* The next attempt works on the same object; the file is not read.
RetryRateLimited ==
    /\ pc = "returned"
    /\ exit_reason = "rate_limited"
    /\ attempt < RateLimitAttempts
    /\ attempt' = attempt + 1
    /\ pc' = "top" /\ exit_reason' = "none"
    /\ UNCHANGED <<current_issue, gates, signal, file, bounds, history>>

\* The object is what the file holds.
Adopt ==
    /\ file.step \in Step
    /\ current_issue' = file
    /\ overridden' = (overridden \/ file.step # engine_step)
    /\ NotSaved

\* A fresh context is made and written.
BeginAnew ==
    /\ current_issue' = Fresh
    /\ Save(Fresh)
    /\ UNCHANGED overridden

\* The selection is over.  If its agent filled in the issue's id the file is
\* adopted as it is, step included; else, or if the issue was selected without a
\* session, the issue gets a fresh context.  A process that dies before this
\* selects again.
SetUpContext ==
    /\ pc = "selecting"
    /\ Adopt \/ BeginAnew
    /\ pc' = "top"
    /\ UNCHANGED <<exit_reason, gates, attempt, signal, bounds, cleared, forgotten,
                   executed>>

\* The issue is still in progress in the sprint and is selected again, by a new
\* process or by the next turn of the same loop: whatever the run before returned,
\* the process may have died before it marked the issue, or the mark have failed.
\* It continues from the file; if that does not load, or was cleared after the
\* completion although the mark had failed, it writes a fresh context.
Restart ==
    /\ pc = "returned"
    /\ runs < MaxRuns
    /\ runs' = runs + 1
    /\ \/ Adopt /\ UNCHANGED forgotten /\ NoFault
       \/ /\ BeginAnew /\ forgotten' = forgotten + 1
          /\ \/ file.step \notin Step /\ NoFault
             \/ exit_reason = "completed" /\ Fault
    /\ gates' \in GateSettings
    /\ attempt' = 1
    /\ signal' = "no_signal"
    /\ pc' = "top" /\ exit_reason' = "none"
    /\ UNCHANGED <<tool_calls, cleared, executed>>

-----------------------------------------------------------------------------
(* claudesprint-tools issue ...: load the file, change it, save it.         *)

Tool(changed) ==
    /\ pc \in ToolTimes
    /\ ~Disturbed
    /\ tool_calls' = tool_calls + 1
    /\ file' = IF file.step = Unloadable THEN file ELSE changed
    /\ UNCHANGED <<engine, runs, faults, history>>

ToolSetStep ==
    \E word \in ToolSteps :
        \/ Tool([file EXCEPT !.step = word])
        \/ Tool([file EXCEPT !.step = word, !.current_failures = FALSE,
                             !.retry_count = 0])

ToolRecordFailure ==
    \/ Tool([file EXCEPT !.current_failures = TRUE])
    \/ Tool([file EXCEPT !.current_failures = TRUE, !.retry_count = @ + 1])

\* Mutant: the tool starts from a new object instead of the one in the file.
ToolClearsEverything ==
    Tool([Fresh EXCEPT !.step = file.step, !.changes = file.changes])

ToolClearFailures ==
    Tool([file EXCEPT !.current_failures = FALSE, !.retry_count = 0])

ToolRecordChange ==
    \E c \in Changes : Tool([file EXCEPT !.changes = @ \cup {c}])

\* `issue init` of a pending issue, another than this one, replaces the file.
ToolInitIssue == Tool([file EXCEPT !.step = Unloadable])

-----------------------------------------------------------------------------
Run == \/ SetUpContext
       \/ HitIterationLimit \/ Iterate \/ SkipStep \/ StartSession
       \/ SessionStops \/ SessionFails \/ SessionRoutes
       \/ CompleteIssue \/ RefuseCompletion

Tools == \/ ToolSetStep \/ ToolRecordFailure \/ ToolClearFailures \/ ToolRecordChange
         \/ ToolInitIssue

Next == Run \/ Abort \/ RetryRateLimited \/ Restart \/ Tools

\* The loop goes on by itself, and a session ends: its runner kills it at its
\* timeout.  Nothing makes anybody start a process or call a tool.
Spec == Init /\ [][Next]_vars /\ WF_vars(Run)

-----------------------------------------------------------------------------
(* Properties.                                                              *)

\* The verdicts that stand between a change of the code and its commit.
BehindReview  == {"update-docs", "stage-changes", "commit-changes", "complete-issue"}
BehindBrowser == BehindReview \cup {"code-review"}
BehindTests   == BehindBrowser \cup {"browser-validation"}

RequiredVerdicts(step) ==
    {v \in Verdict :
        \/ v = "tests"   /\ step \in BehindTests
        \/ v = "browser" /\ step \in BehindBrowser
        \/ v = "review"  /\ step \in BehindReview}

\* No path through routes, skipped gates, retries, rate limits, crashes and
\* restarts (with other gate settings) brings the issue past a verification
\* step unless that step has passed, or its gate was off, since a session last
\* edited the code.  Nor does an issue complete so, but from one step: the
\* selection's own, when the engine was started on the file that session left.
\* A run that adopted a step some tool wrote is excepted.
VerifiedBeforeCommit ==
    ~overridden =>
        /\ RequiredVerdicts(current_issue.step) \subseteq cleared
        /\ exit_reason = "completed" =>
               cleared = Verdict \/ current_issue.step = "select-issue"

\* max_total_iterations bounds the step executions of the issue over all
\* attempts, runs and processes together: a file that is lost gives back one
\* budget, a save that fails one execution, and nothing else gives back any.
SessionBudget == executed <= Allowance

\* A process that dies anywhere leaves behind what the engine knew.  The file is
\* never behind by more iterations than saves have failed; without tools it is
\* ahead by a step only where the engine reports an error, and then by a valid
\* one; and without failing saves it differs only once the issue is completed.
CheckpointComplete ==
    /\ current_issue.total_iterations <= file.total_iterations + faults
    /\ tool_calls = 0 =>
        /\ file.step # current_issue.step =>
               /\ exit_reason = "error"
               /\ \E skipped \in BOOLEAN :
                      ValidTransition(gates, current_issue.step, file.step, skipped)
        /\ faults = 0 /\ exit_reason # "completed" => file = current_issue

\* The engine's own transitions are never refused, except that fix-tests
\* cannot be skipped when testing is off and browser QA is on.
RefusedOnlyAtFixTests ==
    exit_reason = "error" /\ faults = 0 =>
        /\ current_issue.step = "fix-tests"
        /\ gates = [require_testing |-> FALSE, require_browser_qa |-> TRUE]

\* Every run of the engine returns: however sessions fail, route back and are
\* skipped, total_iterations runs out.
EngineReturns == Running ~> ~Running

-----------------------------------------------------------------------------
(* The inner loop implements IssueRun.                                      *)

Left(ci) == MaxTotalIterations - ci.total_iterations

CheckpointState ==
    IF file.step \notin Step THEN "unreadable"
    ELSE IF file.step = engine_step THEN "own" ELSE "tampered"

Abstract == INSTANCE IssueRun WITH
    Budget     <- MaxTotalIterations,
    outcome    <- IF pc = "selecting" THEN "new"
                  ELSE IF Running THEN "running" ELSE exit_reason,
    left       <- Left(current_issue),
    saved      <- Left(file),
    checkpoint <- CheckpointState,
    verdicts   <- cleared,
    untouched  <- current_issue.step = "select-issue",
    trusted    <- ~overridden

\* Through every route, skip, retry, failing save, crash and tool call the inner
\* loop keeps what the outer loop is built on: no step gives back budget, the
\* review is passed after tests and browser, completion needs every verdict if
\* any work was done, and the next run has exactly what the checkpoint says.
ImplementsIssueRun == Abstract!Spec

-----------------------------------------------------------------------------
(* What comments in the code say, and the code does not do.                 *)

\* "We intentionally do NOT allow Claude to override the step field by writing
\* to current_issue.json" (step_executors.py:278): no process continues from a
\* step that a tool wrote.
StepNotOverridden == ~overridden

\* "select-issue is handled by SprintEngine, not IssueEngine"
\* (prompts/_common.xml.j2:115): no session of the engine is one of that step,
\* unless a tool put it into the file.
SelectionNotEngines ==
    pc = "session" /\ ~overridden => current_issue.step # "select-issue"

\* "All read/write operations acquire a lock to prevent race conditions between
\* the Engine main loop and Agent subprocesses" (issue_service.py:30): a change
\* an agent recorded stays recorded, far below the 20 that are kept.
ChangesKept == [][file.changes \subseteq file'.changes \/ forgotten' > forgotten]_vars
=============================================================================
