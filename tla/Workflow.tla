------------------------------ MODULE Workflow ------------------------------
(***************************************************************************)
(* The workflow graph of one issue: the steps, the routing table between    *)
(* them, the execution gates that skip steps, and the validation of a step  *)
(* transition.  Everything here is a constant of the program; the loop that *)
(* walks the graph is module IssueLoop.                                      *)
(*                                                                         *)
(* A step is named by its value in the IssueStep enumeration.  A gate       *)
(* setting g is the pair of switches a ResolvedConfig carries.              *)
(***************************************************************************)
EXTENDS Naturals

TestingSteps   == {"write-tests", "run-tests", "fix-tests"}
BrowserQaSteps == {"browser-validation"}

Step == TestingSteps \cup BrowserQaSteps \cup
    {"select-issue", "read-docs", "implement", "code-review",
     "fix-code-review-issues", "update-docs", "stage-changes",
     "commit-changes", "complete-issue"}

\* StepResult.next_step = None.
NoStep == "none"

\* What RoutingSignalParser can extract: a word that some route is keyed by.
\* "no_signal" stands for no tag at all and for every other word.
Signal == {"pass", "fail", "skip", "issues", "fail_code", "fail_test",
           "test_fixed", "code_wrong", "default", "no_signal"}

Gates == [require_testing : BOOLEAN, require_browser_qa : BOOLEAN]

Route(from, on, to) == [from |-> from, on |-> on, to |-> to]

STEP_ROUTING ==
    { Route("read-docs",              "default",    "implement"),
      Route("implement",              "default",    "write-tests"),
      Route("write-tests",            "default",    "run-tests"),
      Route("run-tests",              "pass",       "browser-validation"),
      Route("run-tests",              "fail_code",  "implement"),
      Route("run-tests",              "fail_test",  "fix-tests"),
      Route("run-tests",              "default",    "browser-validation"),
      Route("fix-tests",              "test_fixed", "run-tests"),
      Route("fix-tests",              "code_wrong", "implement"),
      Route("fix-tests",              "default",    "run-tests"),
      Route("browser-validation",     "pass",       "code-review"),
      Route("browser-validation",     "fail",       "implement"),
      Route("browser-validation",     "skip",       "code-review"),
      Route("browser-validation",     "default",    "code-review"),
      Route("code-review",            "pass",       "update-docs"),
      Route("code-review",            "issues",     "fix-code-review-issues"),
      Route("code-review",            "default",    "update-docs"),
      Route("fix-code-review-issues", "default",    "run-tests"),
      Route("update-docs",            "default",    "stage-changes"),
      Route("stage-changes",          "default",    "commit-changes"),
      Route("commit-changes",         "default",    "complete-issue"),
      Route("complete-issue",         "default",    NoStep) }

REQUIRES_EXPLICIT_SIGNAL ==
    {"run-tests", "fix-tests", "browser-validation", "code-review"}

-----------------------------------------------------------------------------
(* Routing of a session's output.                                           *)

\* The parser found a signal that keys a route of this step.  The key may be
\* the word "default" itself: the table is looked up with whatever was found.
Matched(step, signal) ==
    \E r \in STEP_ROUTING : r.from = step /\ r.on = signal

\* ParseResult.next_step is `to`.
ParsesTo(step, signal, to) ==
    \/ Route(step, signal, to) \in STEP_ROUTING
    \/ /\ ~Matched(step, signal)
       /\ Route(step, "default", to) \in STEP_ROUTING
    \/ /\ \A r \in STEP_ROUTING : r.from # step
       /\ to = NoStep

-----------------------------------------------------------------------------
(* Gates.                                                                   *)

\* Mutant: browser QA hangs on the testing gate.
ShouldSkipStepOneGate(g, step) ==
    step \in TestingSteps \cup BrowserQaSteps /\ ~g.require_testing

ShouldSkipStep(g, step) ==
    \/ step \in TestingSteps   /\ ~g.require_testing
    \/ step \in BrowserQaSteps /\ ~g.require_browser_qa

\* Mutant: every skipped step leads to the review.
SkipTargetReview(g, step) == "code-review"

\* Where a skipped step leads; fix-tests does not look at the browser gate.
SkipTarget(g, step) ==
    IF step \in {"write-tests", "run-tests"} /\ g.require_browser_qa
    THEN "browser-validation"
    ELSE "code-review"

-----------------------------------------------------------------------------
(* Validation of a transition.                                              *)

Skippable(g) == {s \in Step : ShouldSkipStep(g, s)}

\* S holds every skippable step that the search from `from` visits.
ClosedUnderSkips(g, from, S) ==
    \A r \in STEP_ROUTING :
        r.from \in S \cup {from} /\ r.to \in Skippable(g) => r.to \in S

\* `to` is a route away from `from` or from a step visited through skippable
\* steps only: it is so from every closed set, hence from the least one.
IsReachableViaSkip(g, from, to) ==
    \A S \in SUBSET Skippable(g) :
        ClosedUnderSkips(g, from, S) =>
            \E r \in STEP_ROUTING : r.from \in S \cup {from} /\ r.to = to

ValidTransition(g, from, to, skipped) ==
    \/ \E r \in STEP_ROUTING : r.from = from /\ r.to = to
    \/ skipped /\ IsReachableViaSkip(g, from, to)
=============================================================================
