---------------------------- MODULE MCSprintLoop ----------------------------
(* An instance of SprintLoop for TLC: c waits for a, b depends on an issue   *)
(* the sprint does not have, and the priorities disagree with the order of   *)
(* the file.                                                                 *)
EXTENDS SprintLoop, Dependencies

MCDeps     == [i \in Issues |-> IF i = "c" THEN {"a"}
                                ELSE IF i = "b" THEN {"gone"} ELSE {}]
MCPosition == [i \in Issues |-> IF i = "a" THEN 1 ELSE IF i = "b" THEN 2 ELSE 3]
MCPriority == [i \in Issues |-> IF i = "b" THEN 0 ELSE 1]

\* What the search reports, by DetectionIsExact.
MCCyclic   == WaitForThemselves(MCDeps)

\* All sprints of three issues with up to two dependencies each, in any order,
\* on one another, on themselves, on an issue that does not exist, or one twice.
Graphs == [1 .. 3 -> BoundedSeq(1 .. 4, 2)]

\* The search names exactly the issues that wait for themselves: none of them is
\* missed because another branch had already visited it, no other issue is kept
\* from being selected, and every cycle it reports is one.  That needs checking once.
DetectionIsExact == runs = 0 => \A graph \in Graphs : IsExact(graph)
=============================================================================
