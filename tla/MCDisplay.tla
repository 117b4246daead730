----------------------------- MODULE MCDisplay -----------------------------
(* An instance of Display for TLC: b waits for a.                           *)
EXTENDS Display

MCDeps     == [i \in Issues |-> IF i = "b" THEN {"a"} ELSE {}]
MCPosition == [i \in Issues |-> IF i = "a" THEN 1 ELSE IF i = "b" THEN 2 ELSE 3]
MCPriority == [i \in Issues |-> 1]
=============================================================================
