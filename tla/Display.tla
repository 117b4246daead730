------------------------------- MODULE Display -------------------------------
(***************************************************************************)
(* What `claudesprint run` shows: SprintLoop composed with the event bus and *)
(* its two subscribers, the log on the console (SimpleLogsOutput, with a     *)
(* throbber) and the dashboard.                                             *)
(*                                                                         *)
(* emit() calls the handlers of an event one after the other in the thread  *)
(* of the engine, so that an engine's step and what its events change are    *)
(* one action.  The loop emits an event at some of its steps and none at     *)
(* others; the subscribers never read sprint.json after the start and go by *)
(* the events alone.  Inside the inner loop (pc = "engine") the sessions of  *)
(* the agent begin, print and end.  Texts, colours and times are left out.  *)
(***************************************************************************)
EXTENDS SprintLoop

CONSTANT MaxCompletions  \* bound: issues completed by one process

ASSUME DisplayAssumption == MaxCompletions \in Nat

VARIABLES
    board, completed, current, step, \* the dashboard
    logged, log_step, throbber,      \* the log
    finished,  \* SprintEngine.run's issues_completed
    session,   \* a session of the inner loop runs
    \* History, for the properties only.
    unsaid     \* the last session ended in a failure, or without an event

Page == INSTANCE Dashboard

Log == INSTANCE Log

dashboard == <<board, completed, current, step>>
log       == <<logged, log_step, throbber>>
display   == <<dashboard, log, finished, session, unsaid>>
allvars   == <<vars, display>>

-----------------------------------------------------------------------------
(* State.                                                                   *)

DisplayTypeOK ==
    /\ Page!DashboardTypeOK /\ Log!LogTypeOK
    /\ finished \in Nat
    /\ session \in BOOLEAN /\ unsaid \in BOOLEAN
    /\ session => pc = "engine" /\ step = "step" /\ log_step

NothingShown ==
    /\ board = AllPending /\ completed = 0
    /\ current = NoIssue /\ step = "none"
    /\ logged = 0 /\ log_step = FALSE /\ throbber = FALSE
    /\ finished = 0 /\ session = FALSE /\ unsaid = FALSE

DisplayInit == Init /\ NothingShown

Completed(s) == Cardinality({i \in Issues : s[i] = "completed"})

-----------------------------------------------------------------------------
(* The steps of the loop with the events they emit.                         *)

\* The command reads the sprint, tells the log how much of it is completed and
\* connects the subscribers.
OnStart ==
    /\ pc = "idle" /\ pc' = "prepare"
    /\ Page!Start(AllPending)
    /\ Log!SetSprintInfo(Completed(sprint))
    /\ finished' = 0 /\ session' = FALSE /\ unsaid' = FALSE

\* SPRINT_STARTED comes with the statuses as they were before the checkout, and
\* with no issue completed.
SprintStarted ==
    /\ pc \in {"prepare", "branch"} /\ pc' = "loop"
    /\ Page!OnSprintStarted(IF pc = "branch" THEN loaded ELSE sprint, 0)
    /\ Log!Writes
    /\ UNCHANGED <<finished, session, unsaid>>

\* SPRINT_ITERATION, with the count of sprint.json, and SELECTING_ISSUE.
SprintIteration ==
    /\ pc = "loop" /\ pc' = "select"
    /\ Page!OnSprintIteration(Completed(sprint)) /\ Page!OnSelectingIssue
    /\ Log!Writes
    /\ UNCHANGED <<finished, session, unsaid>>

\* ISSUE_STARTED, once the context is set up.
IssueStarted ==
    /\ pc # "engine" /\ pc' = "engine"
    /\ Page!OnIssueStarted(issue)
    /\ Log!Writes
    /\ UNCHANGED <<finished, session, unsaid>>

\* ISSUE_COMPLETED, whether or not the sprint could be marked and the context
\* cleared.
IssueIsCompleted ==
    /\ pc = "clear" /\ pc' = "loop" /\ finished < MaxCompletions
    /\ finished' = finished + 1
    /\ Page!OnIssueCompleted
    /\ Log!OnIssueComplete
    /\ UNCHANGED <<session, unsaid>>

\* ISSUE_FAILED, for an issue marked as blocked; the log does not subscribe it.
IssueIsBlocked ==
    /\ pc \in {"mark", "save"} /\ pc' = "loop"
    /\ Page!OnIssueFailed(issue)
    /\ UNCHANGED <<log, finished, session, unsaid>>

\* run() returns.  Only the end of a completed sprint has an event,
\* SPRINT_COMPLETED, with the issues this process has completed.
OnReturn ==
    /\ pc # "idle" /\ pc' = "idle"
    /\ \/ exit_reason' = "completed" /\ Page!OnSprintCompleted(finished)
       \/ exit_reason' # "completed" /\ UNCHANGED dashboard
    /\ Log!Exit
    /\ session' = FALSE
    /\ UNCHANGED <<finished, unsaid>>

\* All other steps emit nothing these subscribers keep.
Quiet ==
    /\ \/ pc' = pc
       \/ pc' \in {"branch", "selecting", "setup", "mark", "save", "write", "clear"}
    /\ UNCHANGED display

Handled == \/ OnStart \/ SprintStarted \/ SprintIteration \/ IssueStarted
           \/ IssueIsCompleted \/ IssueIsBlocked \/ OnReturn \/ Quiet

-----------------------------------------------------------------------------
(* Sessions of the inner loop, and the events around them.                  *)

BetweenSessions == pc = "engine" /\ ~session /\ ~context.spent

\* STEP_STARTED.
StepStarted ==
    /\ BetweenSessions
    /\ session' = TRUE /\ unsaid' = FALSE
    /\ Page!OnStepStarted
    /\ Log!OnStepStart
    /\ UNCHANGED <<vars, finished>>

\* SUBPROCESS_OUTPUT, of the session of a step or of the one that selects.
SubprocessOutput ==
    /\ session \/ pc = "selecting"
    /\ Page!Refreshes
    /\ Log!OnSubprocessOutput
    /\ UNCHANGED <<vars, finished, session, unsaid>>

\* ROUTING_SIGNAL and STEP_COMPLETED.
StepCompleted ==
    /\ session /\ session' = FALSE
    /\ Page!Refreshes
    /\ Log!OnStepComplete
    /\ UNCHANGED <<vars, finished, unsaid>>

\* STEP_FAILED.
StepHasFailed ==
    /\ session /\ session' = FALSE /\ unsaid' = TRUE
    /\ Page!Refreshes
    /\ Log!OnStepFailure
    /\ UNCHANGED <<vars, finished>>

\* STEP_SKIPPED.
StepSkipped ==
    /\ BetweenSessions
    /\ Log!OnStepSkip
    /\ UNCHANGED <<vars, dashboard, finished, session, unsaid>>

\* A session that was rate limited or crashed, or whose step could not be left:
\* no event.
SessionEndsUnsaid ==
    /\ session /\ session' = FALSE /\ unsaid' = TRUE
    /\ UNCHANGED <<vars, dashboard, log, finished>>

-----------------------------------------------------------------------------
Sessions == StepStarted \/ SubprocessOutput \/ StepCompleted \/ StepHasFailed
            \/ StepSkipped \/ SessionEndsUnsaid

\* The inner loop returns between two sessions.
Returning == session => pc' = pc \/ exit_reason' = "aborted"

DisplayNext == (Next /\ Returning /\ Handled) \/ Sessions

DisplaySpec == DisplayInit /\ [][DisplayNext]_allvars

-----------------------------------------------------------------------------
(* Properties.                                                              *)

\* With no other hand in the sprint and no failing write.
Alone == tool_calls = 0 /\ faults = 0 /\ strayed = {}

\* What a card of the board may say of a status: an issue blocked by this process
\* is shown as pending.
ShownAs(status) == IF status = "blocked" THEN {"blocked", "pending"} ELSE {status}

\* When an issue is to be selected the board, built from events alone, says of
\* every issue what sprint.json says, over restarts and crashes; the count agrees
\* with the board, and no card is active.
BoardFollowsSprint ==
    pc = "select" /\ Alone =>
        /\ \A i \in Issues : board[i] \in ShownAs(sprint[i])
        /\ completed = Cardinality(Page!Column("completed"))
        /\ Page!Active = {}

\* So does the log, which counts completions and never looks again.
LogFollowsSprint == pc = "select" /\ Alone => logged = Completed(sprint)

\* The throbber spins only while a session runs, or after one that failed or of
\* whose end no event told.
ThrobberMeansWork == throbber => session \/ unsaid
=============================================================================
