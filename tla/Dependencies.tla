---------------------------- MODULE Dependencies ----------------------------
(***************************************************************************)
(* detect_cycles: the depth-first search that finds the issues which wait   *)
(* for themselves.  A graph is a function from the ids of the sprint's      *)
(* issues to their lists of dependencies, in which other ids may occur; ids *)
(* are numbers, in the order of the strings.                                *)
(*                                                                         *)
(* find_cycle_from calls itself; here its stack is part of the state of a   *)
(* search, and a turn is what happens between two looks at a list of        *)
(* dependencies: one more entry, or the return of a call.                   *)
(***************************************************************************)
EXTENDS Naturals, FiniteSets, SequencesExt

-----------------------------------------------------------------------------
(* The search.                                                              *)

Index(s, x) == CHOOSE k \in DOMAIN s : s[k] = x

\* The part of the path from `node` on, turned so that its least id is first.
Normalized(path, node) ==
    LET cycle == SubSeq(path, Index(path, node), Len(path))
        least == Index(cycle, Min(Range(cycle)))
    IN  SubSeq(cycle, least, Len(cycle)) \o SubSeq(cycle, 1, least - 1)
            \o <<cycle[least]>>

\* The nodes whose calls have not returned, those ever called for, how many
\* dependencies of each have been looked at, and the cycles found.
Begin(graph, root) ==
    [path |-> <<root>>, visited |-> {root},
     looked |-> [n \in DOMAIN graph |-> 0], cycles |-> {}]

\* What the call for a dependency does before it looks at its own.
FindCycleFrom(s, dep) ==
    IF dep \in Range(s.path)
    THEN [s EXCEPT !.cycles = @ \cup {Normalized(s.path, dep)}]
    ELSE IF dep \in s.visited
    THEN s
    ELSE [s EXCEPT !.visited = @ \cup {dep}, !.path = Append(@, dep)]

Turn(graph, s) ==
    IF s.path = <<>> THEN s
    ELSE LET node == Last(s.path)
             k    == s.looked[node] + 1
             next == [s EXCEPT !.looked[node] = k]
         IN  IF k > Len(graph[node]) THEN [next EXCEPT !.path = Front(@)]
             ELSE IF graph[node][k] \in DOMAIN graph
             THEN FindCycleFrom(next, graph[node][k])
             ELSE next

Search(graph, root) ==
    LET after[n \in Nat] ==
          IF n = 0 THEN Begin(graph, root) ELSE Turn(graph, after[n - 1])
    IN  after

\* A look at each entry of each list, and a return from each call.
Turns(graph) ==
    UNION {{n} \X (1 .. Len(graph[n]) + 1) : n \in DOMAIN graph}

Searched(graph, root) == Search(graph, root)[Cardinality(Turns(graph))]

\* Mutant: no search begins at a node that the first one has visited.
DetectCyclesOnce(graph) ==
    LET first == Searched(graph, Min(DOMAIN graph))
    IN  first.cycles \cup
        UNION {Searched(graph, root).cycles : root \in DOMAIN graph \ first.visited}

\* Every node is searched from anew.
DetectCycles(graph) == UNION {Searched(graph, root).cycles : root \in DOMAIN graph}

\* The ids get_available_issues leaves out.
CyclicIds(graph) == UNION {Range(cycle) : cycle \in DetectCycles(graph)}

-----------------------------------------------------------------------------
(* What it is to find.                                                      *)

Leads(graph, from, to) == to \in Range(graph[from])

\* With each of its ids a set has all ids of the sprint that one waits for.
Closed(deps, S) == \A n \in S : deps[n] \cap DOMAIN deps \subseteq S

\* The ids that wait for themselves: what an id waits for, directly or not, is
\* in every closed set with all it waits for directly.
WaitForThemselves(deps) ==
    {n \in DOMAIN deps : \A S \in SUBSET DOMAIN deps :
        Closed(deps, S) /\ deps[n] \cap DOMAIN deps \subseteq S => n \in S}

Edges(graph) == [n \in DOMAIN graph |-> Range(graph[n])]

\* A closed walk along dependencies that passes nothing twice and starts at its
\* least id, so that no cycle is reported in two forms.
IsReportedCycle(graph, cycle) ==
    /\ Len(cycle) > 1 /\ Range(cycle) \subseteq DOMAIN graph
    /\ cycle[1] = cycle[Len(cycle)] /\ cycle[1] = Min(Range(cycle))
    /\ IsInjective(Front(cycle))
    /\ \A k \in 1 .. Len(cycle) - 1 : Leads(graph, cycle[k], cycle[k + 1])

\* detect_cycles is right about this graph, and its calls have all returned.
IsExact(graph) ==
    /\ CyclicIds(graph) = WaitForThemselves(Edges(graph))
    /\ \A cycle \in DetectCycles(graph) : IsReportedCycle(graph, cycle)
    /\ \A root \in DOMAIN graph : Searched(graph, root).path = <<>>
=============================================================================
