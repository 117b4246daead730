------------------------------ MODULE IssueRun ------------------------------
(***************************************************************************)
(* What the outer loop may rely on when it hands an issue to the inner one, *)
(* with steps, routes, gates and retries left out: a budget that is used up *)
(* whatever happens, a checkpoint that a later process continues from, and  *)
(* verdicts without which the issue is not completed.                       *)
(*                                                                         *)
(* IssueLoop implements it.  SprintLoop's step EngineSaves stands for Spend *)
(* and Work here, IssueFailed and Crash for a Work that ends the run,       *)
(* IssueCompleted for Finish, IssueMaxIterations for Exhaust; its Setup is  *)
(* Continue or BeginAnew, also where a mark of the issue failed or the      *)
(* process died before it; its spent context is the one with nothing left.  *)
(***************************************************************************)
EXTENDS Naturals

CONSTANT Budget   \* step executions an issue may take

VARIABLES
    outcome,     \* "running", "new", or how the last run ended
    left,        \* of the budget, as the running process knows it
    saved,       \* of the budget, as the checkpoint has it
    checkpoint,  \* who wrote its step last, and whether it loads
    verdicts,    \* reached since the code was last touched
    untouched,   \* the run is at the step of the issue's selection
    trusted      \* no run has continued from a step that a tool wrote

vars == <<outcome, left, saved, checkpoint, verdicts, untouched, trusted>>

Verdict == {"tests", "browser", "review"}

Running == outcome = "running"

\* What may end a run in the middle.
Interrupted == {"rate_limited", "max_retry", "crashed", "error", "aborted"}

Init ==
    /\ outcome = "new"
    /\ left = Budget /\ saved = Budget
    /\ checkpoint = "own"
    /\ verdicts = {}
    /\ untouched = TRUE
    /\ trusted = TRUE

-----------------------------------------------------------------------------
(* A running process.                                                       *)

\* The checkpoint is replaced by what the process knows, or stays as it is.
Checkpoint(known) ==
    \/ saved' = known /\ checkpoint' = "own"
    \/ UNCHANGED <<saved, checkpoint>>

\* An edit makes the verdicts void; some are added; review comes last.
Judge ==
    \/ verdicts' = {}
    \/ \E new \in SUBSET Verdict :
        /\ trusted /\ "review" \in new => {"tests", "browser"} \subseteq verdicts
        /\ verdicts' = verdicts \cup new

\* Nothing gives back what is used up.
Spend ==
    /\ Running
    /\ left > 0
    /\ left' = left - 1
    /\ Checkpoint(left')
    /\ UNCHANGED <<outcome, verdicts, untouched, trusted>>

\* The run goes on, or stops in the middle of anything.
Work ==
    /\ Running
    /\ Checkpoint(left)
    /\ Judge
    /\ outcome' \in {"running"} \cup Interrupted
    /\ UNCHANGED <<left, untouched, trusted>>

\* The issue is finished with every verdict, or with no work done at all.
Finish ==
    /\ Running
    /\ trusted => verdicts = Verdict \/ untouched
    /\ outcome' = "completed"
    /\ UNCHANGED <<left, saved, checkpoint, verdicts, untouched, trusted>>

Exhaust ==
    /\ Running
    /\ left = 0
    /\ outcome' = "max_iterations"
    /\ UNCHANGED <<left, saved, checkpoint, verdicts, untouched, trusted>>

-----------------------------------------------------------------------------
(* Around it.                                                               *)

\* The same process tries again with what it has in memory.
Retry ==
    /\ outcome = "rate_limited"
    /\ outcome' = "running"
    /\ UNCHANGED <<left, saved, checkpoint, verdicts, untouched, trusted>>

\* The next run continues from the checkpoint.
Continue ==
    /\ ~Running /\ checkpoint # "unreadable"
    /\ outcome' = "running"
    /\ left' = saved
    /\ trusted' = (trusted /\ checkpoint = "own")
    /\ untouched' \in BOOLEAN /\ (trusted' => untouched' = untouched)
    /\ UNCHANGED <<saved, checkpoint, verdicts>>

\* It begins anew where nothing was begun yet, where the checkpoint does not load,
\* or where it was cleared after a completion that was not marked.
BeginAnew ==
    /\ outcome \in {"new", "completed"} \/ (~Running /\ checkpoint = "unreadable")
    /\ outcome' = "running"
    /\ left' = Budget /\ saved' = Budget /\ checkpoint' = "own"
    /\ untouched' = FALSE
    /\ UNCHANGED <<verdicts, trusted>>

\* A tool writes the step, though never the budget.
Tamper ==
    /\ checkpoint' \in {"own", "tampered", "unreadable"}
    /\ UNCHANGED <<outcome, left, saved, verdicts, untouched, trusted>>

-----------------------------------------------------------------------------
Next == \/ Spend \/ Work \/ Finish \/ Exhaust
        \/ Retry \/ Continue \/ BeginAnew \/ Tamper

Spec == Init /\ [][Next]_vars
=============================================================================
