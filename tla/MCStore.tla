------------------------------- MODULE MCStore -------------------------------
(* Instances of Store for TLC: the schemes of the three files.               *)
EXTENDS Store

K(p, lk, tmp, chk) == [process |-> p, lock |-> lk, temp |-> tmp, check |-> chk]

Process(w) == IF w = "w1" THEN "p1" ELSE IF w = "w2" THEN "p2" ELSE "p3"

\* current_issue.json: the engine, and tools, in processes of their own.
IssueScheme == [w \in Writers |->
    K(Process(w), "retry", IF w = "w1" THEN "fixed" ELSE "own", FALSE)]

\* The same file, read and rewritten by two threads of one process.
ThreadScheme == [w \in Writers |->
    K(IF w = "w3" THEN "p3" ELSE "p1", "retry", "fixed", FALSE)]

\* sprint.json: nobody takes a lock.
SprintScheme == [w \in Writers |-> K(Process(w), "none", "fixed", FALSE)]

\* sprint.json through StateManager, beside a writer that does without.
StateScheme == [w \in Writers |->
    IF w = "w1" THEN K(Process(w), "none", "fixed", FALSE)
    ELSE K(Process(w), "once", "own", TRUE)]

MCSchemes == {IssueScheme, ThreadScheme, SprintScheme, StateScheme}
IssueOnly == {IssueScheme}
SprintOnly == {SprintScheme}
=============================================================================
