------------------------------ MODULE Dashboard ------------------------------
(***************************************************************************)
(* DashboardServer and DashboardState: what the page in the browser says of *)
(* the sprint, built from the events alone.  Each operator is a handler.    *)
(* The board has a column for each status, and marks the card of the        *)
(* current issue as active.                                                 *)
(***************************************************************************)
EXTENDS Naturals, FiniteSets

CONSTANTS
    Issues,
    NoIssue,
    IssueStatus

VARIABLES
    board,     \* issues: issue -> status
    completed, \* completed_issues
    current,   \* current_issue_id
    step       \* current_step, as far as it matters

dashboard == <<board, completed, current, step>>

DashboardTypeOK ==
    /\ board \in [Issues -> IssueStatus]
    /\ completed \in Nat
    /\ current \in Issues \cup {NoIssue}
    /\ step \in {"none", "selecting-issue", "step"}

\* The cards of a column.
Column(status) == {i \in Issues : board[i] = status}

\* The cards marked as active.
Active == {i \in Issues : i = current}

-----------------------------------------------------------------------------
\* A new DashboardState; until the sprint starts its board is empty, which no
\* event before that can tell from a board of pending issues.
Start(statuses) ==
    board' = statuses /\ completed' = 0 /\ current' = NoIssue /\ step' = "none"

UpdateIssueStatus(issue, status) ==
    board' = [i \in Issues |-> IF i = issue THEN status ELSE board[i]]

OnSprintStarted(statuses, count) ==
    /\ board' = statuses
    /\ completed' = count
    /\ UNCHANGED <<current, step>>

OnSprintCompleted(count) == completed' = count /\ UNCHANGED <<board, current, step>>

OnSprintIteration(count) == completed' = count /\ UNCHANGED <<board, current>>

OnSelectingIssue == step' = "selecting-issue"

OnIssueStarted(issue) ==
    /\ current' = issue
    /\ UpdateIssueStatus(issue, "in_progress")
    /\ UNCHANGED <<completed, step>>

Forget == current' = NoIssue /\ step' = "none"

\* Mutant: the current issue is forgotten before its card is moved.
OnIssueCompletedTooLate == Forget /\ completed' = completed + 1 /\ UNCHANGED board

\* The card of the issue the event names is not looked at: the current one moves.
OnIssueCompleted ==
    /\ UpdateIssueStatus(current, "completed")
    /\ completed' = completed + 1
    /\ Forget

\* A blocked issue goes back to "pending".
OnIssueFailed(issue) ==
    /\ UpdateIssueStatus(issue, "pending")
    /\ Forget
    /\ UNCHANGED completed

OnStepStarted == step' = "step" /\ UNCHANGED <<board, completed, current>>

\* STEP_COMPLETED, STEP_FAILED and the output of the agent change no part of
\* this; for STEP_SKIPPED there is no handler.
Refreshes == UNCHANGED dashboard
=============================================================================
