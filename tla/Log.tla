--------------------------------- MODULE Log ---------------------------------
(***************************************************************************)
(* SimpleLogsOutput, the log on the console: what its handlers keep between  *)
(* two events, and its throbber.  Each operator is one of its methods, which *)
(* LogsEventSubscriber calls for an event.  Texts, colours and elapsed times *)
(* are left out.                                                            *)
(***************************************************************************)
EXTENDS Naturals

VARIABLES
    logged,    \* sprint_completed
    log_step,  \* current_step is set
    throbber   \* the throbber spins

log == <<logged, log_step, throbber>>

LogTypeOK == logged \in Nat /\ log_step \in BOOLEAN /\ throbber \in BOOLEAN

-----------------------------------------------------------------------------
(* ConsoleThrobber: to start it twice, or stop it when it stands, is nothing. *)

Start == throbber' = TRUE

Stop == throbber' = FALSE

-----------------------------------------------------------------------------
\* A new SimpleLogsOutput, as it is at the start of the run.
SetSprintInfo(n) == logged' = n /\ log_step' = FALSE /\ throbber' = FALSE

\* Mutant: the count of a line is not kept.
OnIssueCompleteUncounted == UNCHANGED log

OnIssueComplete == logged' = logged + 1 /\ UNCHANGED <<log_step, throbber>>

OnStepStart == Start /\ log_step' = TRUE /\ UNCHANGED logged

\* Mutant: the log keeps the step it has completed.
OnStepCompleteKeepsStep == Stop /\ UNCHANGED <<logged, log_step>>

OnStepComplete == Stop /\ log_step' = FALSE /\ UNCHANGED logged

OnStepSkip == Stop /\ UNCHANGED <<logged, log_step>>

\* The step is kept.
OnStepFailure == Stop /\ UNCHANGED <<logged, log_step>>

\* The throbber pauses while the line is written, and goes on if there is a step.
OnSubprocessOutput ==
    /\ \/ log_step /\ Start
       \/ ~log_step /\ Stop
    /\ UNCHANGED <<logged, log_step>>

\* The context manager around the run.
Exit == Stop /\ UNCHANGED <<logged, log_step>>

\* on_sprint_entered, on_sprint_iteration, on_selecting_issue, on_issue_entered,
\* on_routing_signal and on_output only write lines.
Writes == UNCHANGED log
=============================================================================
