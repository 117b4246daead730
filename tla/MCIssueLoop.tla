---------------------------- MODULE MCIssueLoop -----------------------------
(* Instances of IssueLoop for TLC.                                          *)
EXTENDS IssueLoop

GateSetting(testing, browser) ==
    [require_testing |-> testing, require_browser_qa |-> browser]

\* Both gates on; only browser QA on, the setting with the dead end; none.
MCGateSettings == {GateSetting(TRUE, TRUE), GateSetting(FALSE, TRUE),
                   GateSetting(FALSE, FALSE)}

AllGateSettings == Gates
=============================================================================
