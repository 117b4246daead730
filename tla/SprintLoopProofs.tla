-------------------------- MODULE SprintLoopProofs --------------------------
(* Theorems about SprintLoop, for every value of its constants.             *)
EXTENDS SprintLoop, FiniteSetTheorems, WellFoundedInduction, TLAPS

D == INSTANCE DependenciesProofs

-----------------------------------------------------------------------------
(* Choosing an issue.                                                       *)

\* Some issue of a set has the least value: the sets of those below each other
\* issue are finite, so one of them has no other inside.
LEMMA Least ==
    ASSUME NEW S \in SUBSET Issues, S # {}, NEW f \in [Issues -> Nat]
    PROVE  \E i \in S : \A j \in S : f[i] <= f[j]
  <1> DEFINE Below(i) == {j \in S : f[j] < f[i]}
             T        == {Below(i) : i \in S}
  <1>1. IsFiniteSet(S)
    BY IssuesAssumption, FS_Subset
  <1>2. IsWellFoundedOn(StrictSubsetOrdering(S), SUBSET S)
    BY <1>1, FS_StrictSubsetOrderingWellFounded, FS_FiniteSubsetsOfFinite
  <1>3. T \subseteq SUBSET S /\ T # {}
    OBVIOUS
  <1>4. PICK X \in T : \A Y \in T : <<Y, X>> \notin StrictSubsetOrdering(S)
    BY <1>2, <1>3, WFMin
  <1>5. PICK i \in S : X = Below(i)
    OBVIOUS
  <1>6. ASSUME NEW j \in S, ~ (f[i] <= f[j])
        PROVE  FALSE
    <2>1. f[i] \in Nat /\ f[j] \in Nat /\ \A k \in S : f[k] \in Nat
      OBVIOUS
    <2>2. j \in Below(i) /\ j \notin Below(j) /\ Below(j) \subseteq Below(i)
      BY <1>6, <2>1
    <2>3. <<Below(j), Below(i)>> \in StrictSubsetOrdering(S)
      BY <2>2 DEF StrictSubsetOrdering
    <2> QED BY <1>4, <1>5, <2>3
  <1> QED BY <1>6

\* What First and Highest choose is one of those they choose from.
LEMMA FirstIn ==
    ASSUME NEW S \in SUBSET Issues, S # {}
    PROVE  First(S) \in S
  <1>1. \E i \in S : \A j \in S : Position[i] <= Position[j]
    BY IssuesAssumption, Least
  <1> QED BY <1>1 DEF First

LEMMA HighestIn ==
    ASSUME NEW S \in SUBSET Issues, S # {}
    PROVE  Highest(S) \in S
  <1> DEFINE T == {i \in S : \A j \in S : Priority[i] <= Priority[j]}
  <1>1. T # {}
    BY IssuesAssumption, Least
  <1>2. First(T) \in T
    BY <1>1, FirstIn
  <1> QED BY <1>2 DEF Highest

LEMMA AvailableIn ==
    ASSUME NEW s, Available(s) # {}
    PROVE  Highest(Available(s)) \in Available(s)
  BY HighestIn DEF Available

LEMMA ToResumeIn ==
    ASSUME Resumable # {}
    PROVE  ToResume \in Resumable
  <1>1. Resumable \in SUBSET Issues
    BY DEF Resumable, InProgress
  <1>2. CASE \E i \in Resumable : Names(file, i)
    BY <1>2 DEF ToResume, Names
  <1>3. CASE ~ \E i \in Resumable : Names(file, i)
    BY <1>1, <1>3, FirstIn DEF ToResume
  <1> QED BY <1>2, <1>3

-----------------------------------------------------------------------------
(* TypeOK.                                                                  *)

\* Where run() stands while it has an issue.
Working == {"setup", "mark", "save", "write", "engine"}

\* Beside the types: while an issue is worked on there is one, a `sprint start`
\* under way has one, and an agent is asked only when there is a choice.
TypeInv ==
    /\ TypeOK
    /\ pc \in Working => issue \in Issues
    /\ tool.phase # "none" => tool.issue \in Issues
    /\ pc = "selecting" => Available(loaded) # {}

LEMMA TypeInit ==
    ASSUME Init
    PROVE  TypeInv
  BY DEF Init, TypeInv, TypeOK, Statuses, IssueStatus, AllPending, File, NoFile,
     ContextFor, Context, Nothing, PC, SprintExitReason, Tool, NoTool, Working

\* The values the actions build are of their types.
LEMMA Values ==
    /\ AllPending \in Statuses
    /\ \A i \in Issues \cup {NoIssue} : ContextFor(i) \in Context
    /\ \A i \in Issues \cup {NoIssue} : ContextFor(i) \in File
    /\ Context \subseteq File
    /\ NoFile \in File /\ Unreadable \in File
    /\ NoTool \in Tool /\ NoTool.phase = "none" /\ NoTool.copy = AllPending
  BY DEF AllPending, Statuses, IssueStatus, ContextFor, Context, File, NoFile,
     Unreadable, Nothing, NoTool, Tool

LEMMA StartedTool ==
    ASSUME NEW i \in Issues
    PROVE  LET t == [NoTool EXCEPT !.issue = i, !.phase = "checked"]
           IN  t \in Tool /\ t.issue = i /\ t.phase = "checked" /\ t.copy = AllPending
  BY Values DEF Tool

LEMMA ReadingTool ==
    ASSUME NEW t \in Tool, NEW s \in Statuses
    PROVE  LET u == [t EXCEPT !.phase = "read", !.copy = s]
           IN  u \in Tool /\ u.issue = t.issue /\ u.phase = "read" /\ u.copy = s
  BY DEF Tool

LEMMA MarkedStatus ==
    ASSUME NEW s \in Statuses, NEW i \in Issues, NEW st \in IssueStatus
    PROVE  /\ [s EXCEPT ![i] = st] \in Statuses
           /\ \A j \in Issues : [s EXCEPT ![i] = st][j] = IF j = i THEN st ELSE s[j]
  BY DEF Statuses

LEMMA Spent ==
    ASSUME context \in Context
    PROVE  /\ SpentContext \in Context /\ SpentContext \in File
           /\ SpentContext.issue = context.issue /\ SpentContext.spent
  BY Values DEF Context, SpentContext

\* Memory is dropped to values of its types.
LEMMA DropType ==
    ASSUME DropMemory
    PROVE  /\ loaded' \in Statuses /\ copy' \in Statuses
           /\ issue' \in Issues \cup {NoIssue}
           /\ context' \in Context /\ fresh' \in BOOLEAN
           /\ target' \in IssueStatus
  BY Values DEF DropMemory, DropContext, IssueStatus

LEMMA SelectType ==
    ASSUME TypeOK, NEW i \in Issues, Select(i), UNCHANGED <<sprint, tool>>,
           file' \in File, faults' \in Nat, runs' \in Nat, tool_calls' \in Nat,
           tool.phase # "none" => tool.issue \in Issues,
           strayed' \subseteq Issues, UNCHANGED <<done, reworked>>
    PROVE  TypeInv'
  BY DEF Select, Goto, TypeInv, TypeOK, PC, Working

LEMMA TypeStep ==
    ASSUME TypeInv, [Next]_vars
    PROVE  TypeInv'
  <1> USE DEF TypeInv, Working
  <1>0. /\ TypeOK
        /\ faults + 1 \in Nat /\ tool_calls + 1 \in Nat /\ runs + 1 \in Nat
        /\ iteration + 1 \in Nat
    BY DEF TypeOK
  <1>a. UNCHANGED loaded => (Available(loaded))' = Available(loaded)
    BY DEF Available, IsBlockedBy
  <1>1. CASE Start
    BY <1>0, <1>1 DEF Start, memory, history, TypeOK, PC
  <1>2. CASE Prepare
    BY <1>0, <1>2, DropType DEF Prepare, Goto, Exit, NoFault, Fault, memory, history,
       TypeOK, PC, SprintExitReason
  <1>3. CASE WriteBranch
    BY <1>0, <1>3, DropType DEF WriteBranch, NextIteration, Goto, NoFault, Fault,
       history, TypeOK, PC
  <1>4. CASE StopAtLimit
    BY <1>0, <1>4, DropType DEF StopAtLimit, Exit, bounds, history, TypeOK, PC,
       SprintExitReason
  <1>5. CASE Reload
    <2>1. iteration' \in Nat
      BY <1>0, <1>5 DEF Reload
    <2> QED
      BY <1>0, <1>5, <2>1, DropType DEF Reload, Exit, Goto, NoFault, Fault, history,
         TypeOK, PC, SprintExitReason
  <1>6. CASE ResumeInProgressIssue
    <2>1. ToResume \in Issues
      BY <1>6, ToResumeIn DEF ResumeInProgressIssue, Resumable, InProgress
    <2> QED
      BY <1>0, <1>6, <2>1, SelectType DEF ResumeInProgressIssue, bounds, history, TypeOK
  <1>7. CASE ContinuePendingIssue
    BY <1>0, <1>7, SelectType DEF ContinuePendingIssue, Continuable, bounds, history,
       TypeOK
  <1>8. CASE NoIssues
    BY <1>0, <1>8, DropType DEF NoIssues, Exit, bounds, history, TypeOK, PC,
       SprintExitReason
  <1>9. CASE OnlyOneIssue
    BY <1>0, <1>9, SelectType DEF OnlyOneIssue, Available, bounds, history, TypeOK
  <1>10. CASE AskAgent
    <2>1. Available(loaded) # {}
      BY <1>10, FS_EmptySet DEF AskAgent
    <2>2. Highest(Available(loaded)) \in Issues
      BY <2>1, AvailableIn DEF Available
    <2>3. CASE /\ file' = ContextFor(NoIssue)
               /\ Goto("selecting")
               /\ UNCHANGED <<limit, iteration, memory>>
               /\ NoFault
      BY <1>0, <1>a, <1>10, <2>1, <2>3, Values DEF AskAgent, Goto, NoFault, memory, history,
         TypeOK, PC
    <2>4. CASE Select(Highest(Available(loaded))) /\ UNCHANGED file /\ Fault
      BY <1>0, <1>10, <2>2, <2>4, SelectType DEF AskAgent, Fault, history, TypeOK
    <2> QED BY <1>10, <2>3, <2>4 DEF AskAgent
  <1>11. CASE AgentSelects
    BY <1>0, <1>11, SelectType DEF AgentSelects, bounds, TypeOK
  <1>12. CASE AgentFails
    <2>1. Highest(Available(loaded)) \in Issues
      BY <1>12, AvailableIn DEF AgentFails, Available
    <2> QED BY <1>0, <1>12, <2>1, SelectType DEF AgentFails, bounds, history, TypeOK
  <1>13. CASE Setup
    <2>1. Names(file, issue) => file \in Context
      BY <1>0, <1>13 DEF Setup, Names, TypeOK, File, Context
    <2>2. context' \in Context /\ fresh' \in BOOLEAN /\ loaded' \in Statuses
      BY <1>0, <1>13, <2>1, Values DEF Setup, TypeOK
    <2> QED
      BY <1>0, <1>13, <2>2 DEF Setup, Goto, bounds, TypeOK, PC, IssueStatus
  <1>14. CASE WriteContext
    BY <1>0, <1>14, DropType, Values DEF WriteContext, Exit, Goto, NoFault, Fault,
       memory, history, TypeOK, PC, SprintExitReason
  <1>15. ASSUME MarkReturns, pc \in {"mark", "save"}, sprint' \in Statuses,
                UNCHANGED <<file, limit, iteration, tool, runs, tool_calls, history>>,
                faults' \in Nat
         PROVE  TypeInv'
    <2>1. /\ pc' \in {"write", "engine", "clear", "loop"}
          /\ UNCHANGED exit_reason
          /\ \/ /\ copy' = AllPending
                /\ UNCHANGED <<loaded, issue, context, fresh, target>>
             \/ pc' \in {"clear", "loop"} /\ DropMemory
      BY <1>15 DEF MarkReturns, NextIteration, Goto
    <2>2. /\ loaded' \in Statuses /\ copy' \in Statuses
          /\ issue' \in Issues \cup {NoIssue}
          /\ context' \in Context /\ fresh' \in BOOLEAN
          /\ target' \in IssueStatus
      BY <1>0, <2>1, DropType, Values DEF TypeOK
    <2>3. pc' \in Working => issue' \in Issues
      BY <1>15, <2>1
    <2> QED BY <1>0, <1>15, <2>1, <2>2, <2>3 DEF history, TypeOK, PC
  <1>16. CASE MarkRead
    <2>1. CASE copy' = sprint /\ Goto("save") /\ NoFault
               /\ UNCHANGED <<loaded, issue, context, fresh, target>>
      BY <1>0, <1>16, <2>1 DEF MarkRead, Goto, NoFault, history, TypeOK, PC
    <2>2. CASE MarkReturns /\ Fault
      BY <1>0, <1>15, <1>16, <2>2 DEF MarkRead, Fault, TypeOK
    <2> QED BY <1>16, <2>1, <2>2 DEF MarkRead
  <1>17. CASE MarkSave
    <2>1. sprint' \in Statuses /\ faults' \in Nat
      BY <1>0, <1>17, MarkedStatus DEF MarkSave, NoFault, Fault, TypeOK
    <2> QED BY <1>15, <1>17, <2>1 DEF MarkSave
  <1>18. CASE IssueCompleted
    BY <1>0, <1>18, Values DEF IssueCompleted, Mark, Goto, DropContext, bounds, TypeOK,
       PC, IssueStatus
  <1>19. CASE IssueMaxIterations
    <2>1. file' \in File
      BY <1>0, <1>19, Spent DEF IssueMaxIterations, TypeOK
    <2> QED
      BY <1>0, <1>19, <2>1, Values DEF IssueMaxIterations, Mark, Goto, DropContext,
         bounds, history, TypeOK, PC, IssueStatus
  <1>20. CASE IssueFailed
    BY <1>0, <1>20, DropType DEF IssueFailed, Exit, bounds, history, TypeOK, PC,
       SprintExitReason
  <1>21. CASE ClearFile
    BY <1>0, <1>21, DropType, Values DEF ClearFile, NextIteration, Goto, NoFault, Fault,
       history, TypeOK, PC
  <1>22. CASE AgentWritesFile
    BY <1>0, <1>a, <1>22, Values DEF AgentWritesFile, control, memory, bounds, TypeOK
  <1>23. CASE EngineSaves
    BY <1>0, <1>23, Values, Spent DEF EngineSaves, control, memory, bounds, history,
       TypeOK
  <1>24. CASE Crash
    BY <1>0, <1>24, DropType DEF Crash, Exit, bounds, history, TypeOK, PC
  <1>25. CASE ToolStartIssue
    <2>1. PICK i \in Issues : tool' = [NoTool EXCEPT !.issue = i, !.phase = "checked"]
      BY <1>25 DEF ToolStartIssue
    <2>2. tool' \in Tool /\ tool'.issue \in Issues
      BY <2>1, StartedTool
    <2> QED
      BY <1>0, <1>a, <1>25, <2>2 DEF ToolStartIssue, ToolCall, control, memory, history,
         TypeOK
  <1>26. CASE ToolRead
    BY <1>0, <1>a, <1>26, ReadingTool DEF ToolRead, control, memory, bounds, history, TypeOK
  <1>27. CASE ToolWrite
    <2>1. sprint' \in Statuses
      BY <1>0, <1>27, MarkedStatus DEF ToolWrite, TypeOK, Tool, IssueStatus
    <2> QED
      BY <1>0, <1>a, <1>27, <2>1, Values DEF ToolWrite, control, memory, bounds, history,
         TypeOK
  <1>28. CASE ToolInitIssue
    <2>1. file' \in File
      BY <1>28, Values DEF ToolInitIssue
    <2> QED
      BY <1>0, <1>a, <1>28, <2>1 DEF ToolInitIssue, ToolCall, control, memory, history,
         TypeOK
  <1>29. CASE ResetCurrentIssue
    BY <1>0, <1>a, <1>29, Values DEF ResetCurrentIssue, ToolCall, control, memory,
       history, TypeOK
  <1>30. CASE UNCHANGED vars
    BY <1>0, <1>a, <1>30 DEF vars, control, memory, bounds, history, TypeOK
  <1> QED
    BY <1>1, <1>2, <1>3, <1>4, <1>5, <1>6, <1>7, <1>8, <1>9, <1>10, <1>11, <1>12,
       <1>13, <1>14, <1>16, <1>17, <1>18, <1>19, <1>20, <1>21, <1>22, <1>23, <1>24,
       <1>25, <1>26, <1>27, <1>28, <1>29, <1>30 DEF Next, Run, Tools

\* The state of a sprint run stays within its types, whatever an agent names and
\* the tools write.
THEOREM TypeCorrect == Spec => []TypeOK
  <1>1. Init => TypeInv
    BY TypeInit
  <1>2. TypeInv /\ [Next]_vars => TypeInv'
    BY TypeStep
  <1>3. TypeInv => TypeOK
    BY DEF TypeInv
  <1> QED BY <1>1, <1>2, <1>3, PTL DEF Spec

-----------------------------------------------------------------------------
(* CompletedByEngine, CompletedMeansDone, DependenciesRespected.            *)

\* What an issue depends on has been completed, or the agent strayed to it.
Ready(i) == i \in strayed \/ Deps[i] \cap Issues \subseteq done

\* Statuses somebody holds may be stale; they never promise too much.
Sound(s) == \A i \in Issues : /\ s[i] = "completed"   => i \in done
                              /\ s[i] = "in_progress" => Ready(i)

\* All four copies of the statuses are sound, and every issue that is selected,
\* or that a later process could go on with, is ready.
SoundInv ==
    /\ Sound(sprint) /\ Sound(loaded) /\ Sound(copy) /\ Sound(tool.copy)
    /\ file.issue \in Issues => Ready(file.issue)
    /\ context.issue \in Issues => Ready(context.issue)
    /\ issue \in Issues => Ready(issue)
    /\ tool.phase # "none" => Ready(tool.issue)
    /\ pc \in {"mark", "save"} /\ target = "completed" => issue \in done
    /\ exit_reason = "completed" => done = Issues

\* Dropped objects and files that do not load name no issue.
LEMMA Nameless ==
    /\ \A i \in Issues : AllPending[i] = "pending"
    /\ \A i : ContextFor(i).issue = i
    /\ NoIssue \notin Issues /\ NoFile.issue \notin Issues
    /\ Unreadable.issue \notin Issues
    /\ NoTool.phase = "none" /\ NoTool.copy = AllPending
    /\ "IMPLEMENT" \notin ChunkType
  BY IssuesAssumption DEF AllPending, ContextFor, NoFile, Unreadable, Nothing, NoTool,
     ChunkType

LEMMA SoundInit ==
    ASSUME Init
    PROVE  SoundInv
  BY Nameless DEF Init, SoundInv, Sound

\* Nothing that is held changes but for memory being dropped.
LEMMA SoundDrop ==
    ASSUME SoundInv, DropMemory, UNCHANGED <<sprint, tool, history>>,
           file'.issue \in Issues => file'.issue = file.issue,
           pc' \notin {"mark", "save"}, exit_reason' = "completed" => done = Issues
    PROVE  SoundInv'
  BY Nameless DEF SoundInv, Sound, Ready, DropMemory, DropContext, history

\* A ready issue is selected.
LEMMA SoundSelect ==
    ASSUME SoundInv, NEW i \in Issues, Select(i),
           strayed \subseteq strayed', i \in strayed' \/ Ready(i),
           UNCHANGED <<sprint, file, tool, done>>
    PROVE  SoundInv'
  BY DEF SoundInv, Sound, Ready, Select, Goto

\* What is on offer in sound statuses is ready.
LEMMA AvailableReady ==
    ASSUME NEW s, Sound(s), NEW i \in Available(s)
    PROVE  i \in Issues /\ Ready(i)
  BY DEF Available, IsBlockedBy, Sound, Ready

LEMMA SoundStep ==
    ASSUME TypeInv, SoundInv, [Next]_vars
    PROVE  SoundInv'
  <1>0. TypeOK /\ Sound(loaded) /\ Sound(sprint)
    BY DEF TypeInv, SoundInv
  <1>1. CASE Start
    BY <1>1 DEF Start, SoundInv, Sound, Ready, memory, history
  <1>2. CASE Prepare
    <2>1. CASE Goto("loop") /\ UNCHANGED memory
      BY <1>2, <2>1 DEF Prepare, Goto, SoundInv, Sound, Ready, memory, history
    <2>2. CASE /\ loaded' = sprint
               /\ Goto("branch")
               /\ UNCHANGED <<issue, context, fresh, target, copy>>
      BY <1>2, <2>2 DEF Prepare, Goto, SoundInv, Sound, Ready, history
    <2>3. CASE Exit("failed")
      BY <1>2, <2>3, SoundDrop DEF Prepare, Exit
    <2> QED BY <1>2, <2>1, <2>2, <2>3 DEF Prepare
  <1>3. CASE WriteBranch
    <2>1. CASE sprint' = loaded
      BY <1>3, <2>1, Nameless DEF WriteBranch, NextIteration, Goto, DropMemory,
         DropContext, SoundInv, Sound, Ready, history
    <2>2. CASE UNCHANGED sprint
      BY <1>3, <2>2, SoundDrop DEF WriteBranch, NextIteration, Goto, SoundInv
    <2> QED BY <1>3, <2>1, <2>2 DEF WriteBranch
  <1>4. CASE StopAtLimit
    BY <1>4, SoundDrop DEF StopAtLimit, Exit
  <1>5. CASE Reload
    <2>1. CASE /\ loaded' = sprint
               /\ Goto("select")
               /\ UNCHANGED <<issue, context, fresh, target, copy>>
      BY <1>5, <2>1 DEF Reload, Goto, SoundInv, Sound, Ready, history
    <2>2. CASE IsComplete(sprint) /\ Exit("completed")
      <3>1. done = Issues
        BY <1>0, <2>2 DEF IsComplete, Sound, TypeOK
      <3> QED BY <1>5, <2>2, <3>1, SoundDrop DEF Reload, Exit
    <2>3. CASE Exit("failed")
      BY <1>5, <2>3, SoundDrop DEF Reload, Exit
    <2> QED BY <1>5, <2>1, <2>2, <2>3 DEF Reload
  <1>6. CASE ResumeInProgressIssue
    <2>1. ToResume \in Issues /\ Ready(ToResume)
      BY <1>0, <1>6, ToResumeIn DEF ResumeInProgressIssue, Resumable, InProgress, Sound
    <2> QED BY <1>6, <2>1, SoundSelect DEF ResumeInProgressIssue, history
  <1>7. CASE ContinuePendingIssue
    <2>1. PICK i \in Issues : Names(file, i) /\ Select(i)
      BY <1>7 DEF ContinuePendingIssue, Continuable
    <2>2. Ready(i)
      BY <2>1 DEF Names, SoundInv
    <2> QED BY <1>7, <2>1, <2>2, SoundSelect DEF ContinuePendingIssue, history
  <1>8. CASE NoIssues
    BY <1>8, SoundDrop DEF NoIssues, Exit
  <1>9. CASE OnlyOneIssue
    <2>1. PICK i \in Available(loaded) : Select(i)
      BY <1>9 DEF OnlyOneIssue
    <2>2. i \in Issues /\ Ready(i)
      BY <1>0, AvailableReady
    <2> QED BY <1>9, <2>1, <2>2, SoundSelect DEF OnlyOneIssue, history
  <1>10. CASE AskAgent
    <2>1. Available(loaded) # {}
      BY <1>10, FS_EmptySet DEF AskAgent
    <2>2. Highest(Available(loaded)) \in Issues /\ Ready(Highest(Available(loaded)))
      BY <1>0, <2>1, AvailableIn, AvailableReady
    <2>3. CASE /\ file' = ContextFor(NoIssue)
               /\ Goto("selecting")
               /\ UNCHANGED memory
      BY <1>10, <2>3, Nameless DEF AskAgent, Goto, SoundInv, Sound, Ready, memory,
         history
    <2>4. CASE Select(Highest(Available(loaded))) /\ UNCHANGED file
      BY <1>10, <2>2, <2>4, SoundSelect DEF AskAgent, history
    <2> QED BY <1>10, <2>3, <2>4 DEF AskAgent
  <1>11. CASE AgentSelects
    <2>1. PICK i \in Issues :
             /\ Named => Names(file, i)
             /\ Select(i)
             /\ strayed' = IF Named THEN strayed
                           ELSE strayed \cup ({i} \ Available(loaded))
      BY <1>11 DEF AgentSelects
    <2>2. strayed \subseteq strayed' /\ (i \in strayed' \/ Ready(i))
      <3>1. CASE Named
        BY <2>1, <3>1 DEF Names, SoundInv
      <3>2. CASE ~Named /\ i \in Available(loaded)
        BY <1>0, <2>1, <3>2, AvailableReady
      <3>3. CASE ~Named /\ i \notin Available(loaded)
        BY <2>1, <3>3
      <3> QED BY <2>1, <3>1, <3>2, <3>3
    <2> QED BY <1>11, <2>1, <2>2, SoundSelect DEF AgentSelects
  <1>12. CASE AgentFails
    <2>1. Highest(Available(loaded)) \in Issues /\ Ready(Highest(Available(loaded)))
      BY <1>0, <1>12, AvailableIn, AvailableReady DEF AgentFails, TypeInv
    <2> QED BY <1>12, <2>1, SoundSelect DEF AgentFails, history
  <1>13. CASE Setup
    <2>1. /\ context'.issue = issue /\ issue \in Issues
          /\ loaded' = AllPending /\ target' = "in_progress"
          /\ UNCHANGED <<exit_reason, sprint, file, issue, copy, tool, done, strayed>>
      BY <1>13, Nameless DEF Setup, Names, Goto, TypeInv, Working
    <2> QED BY <2>1, Nameless DEF SoundInv, Sound, Ready
  <1>14. CASE WriteContext
    <2>1. CASE /\ file' = context
               /\ Goto("engine")
               /\ UNCHANGED memory
      BY <1>14, <2>1 DEF WriteContext, Goto, SoundInv, Sound, Ready, memory, history
    <2>2. CASE Exit("failed") /\ UNCHANGED file
      BY <1>14, <2>2, SoundDrop DEF WriteContext, Exit
    <2> QED BY <1>14, <2>1, <2>2 DEF WriteContext
  <1>15. ASSUME MarkReturns, Sound(sprint)', UNCHANGED <<file, tool, history>>
         PROVE  SoundInv'
    <2>1. /\ pc' \notin {"mark", "save"} /\ UNCHANGED exit_reason
          /\ \/ /\ copy' = AllPending
                /\ UNCHANGED <<loaded, issue, context, fresh, target>>
             \/ DropMemory
      BY <1>15 DEF MarkReturns, NextIteration, Goto
    <2>2. Sound(loaded)' /\ Sound(copy)' /\ Sound(tool.copy)'
      BY <1>15, <2>1, Nameless DEF SoundInv, Sound, Ready, DropMemory, history
    <2> QED
      BY <1>15, <2>1, <2>2, Nameless DEF SoundInv, Ready, DropMemory, DropContext,
         history
  <1>16. CASE MarkRead
    <2>1. CASE copy' = sprint /\ Goto("save")
               /\ UNCHANGED <<loaded, issue, context, fresh, target>>
      BY <1>16, <2>1 DEF MarkRead, Goto, SoundInv, Sound, Ready, history
    <2>2. CASE MarkReturns
      <3>1. Sound(sprint)'
        BY <1>0, <1>16 DEF MarkRead, Sound, Ready, history
      <3> QED BY <1>15, <1>16, <2>2, <3>1 DEF MarkRead
    <2> QED BY <1>16, <2>1, <2>2 DEF MarkRead
  <1>17. CASE MarkSave
    <2>1. CASE UNCHANGED sprint
      <3>1. Sound(sprint)'
        BY <1>0, <1>17, <2>1 DEF MarkSave, Sound, Ready, history
      <3> QED BY <1>15, <1>17, <3>1 DEF MarkSave
    <2>2. CASE sprint' = [copy EXCEPT ![issue] = target]
      <3>1. /\ issue \in Issues /\ copy \in Statuses /\ target \in IssueStatus
            /\ Sound(copy) /\ Ready(issue)
            /\ target = "completed" => issue \in done
        BY <1>17 DEF MarkSave, TypeInv, TypeOK, SoundInv, Working
      <3>2. \A j \in Issues : sprint'[j] = IF j = issue THEN target ELSE copy[j]
        BY <2>2, <3>1, MarkedStatus
      <3>3. Sound(sprint)'
        BY <1>17, <3>1, <3>2 DEF MarkSave, Sound, Ready, history
      <3> QED BY <1>15, <1>17, <3>3 DEF MarkSave
    <2> QED BY <1>17, <2>1, <2>2 DEF MarkSave
  <1>18. CASE IssueCompleted
    <2>1. issue \in Issues
      BY <1>18 DEF IssueCompleted, TypeInv, Working
    <2>2. done' = done \cup {issue} /\ done \subseteq Issues
      BY <1>0, <1>18 DEF IssueCompleted, TypeOK
    <2>3. Sound(sprint)' /\ Sound(loaded)' /\ Sound(copy)' /\ Sound(tool.copy)'
      BY <1>18, <2>2 DEF IssueCompleted, Mark, SoundInv, Sound, Ready
    <2> QED
      BY <1>18, <2>1, <2>2, <2>3, Nameless DEF IssueCompleted, Mark, Goto, DropContext,
         SoundInv, Ready
  <1>19. CASE IssueMaxIterations
    <2>1. /\ file'.issue \in {file.issue, context.issue} /\ target' = "blocked"
          /\ DropContext
          /\ UNCHANGED <<exit_reason, sprint, loaded, issue, copy, tool, history>>
      BY <1>0, <1>19, Spent DEF IssueMaxIterations, Mark, Goto, TypeOK
    <2> QED BY <2>1, Nameless DEF SoundInv, Sound, Ready, DropContext, history
  <1>20. CASE IssueFailed
    BY <1>20, SoundDrop DEF IssueFailed, Exit
  <1>21. CASE ClearFile
    BY <1>21, SoundDrop, Nameless DEF ClearFile, NextIteration, Goto, SoundInv
  <1>22. CASE AgentWritesFile
    <2>1. PICK i \in Issues :
             /\ file' = ContextFor(i)
             /\ strayed' = strayed \cup ({i} \ Available(loaded))
      BY <1>22 DEF AgentWritesFile
    <2>2. file'.issue = i /\ (i \in strayed' \/ Ready(i))
      BY <1>0, <2>1, Nameless, AvailableReady
    <2> QED
      BY <1>22, <2>1, <2>2 DEF AgentWritesFile, SoundInv, Sound, Ready, control, memory
  <1>23. CASE EngineSaves
    <2>1. /\ file'.issue = context.issue
          /\ UNCHANGED <<sprint, control, memory, tool, history>>
      BY <1>0, <1>23, Spent DEF EngineSaves, TypeOK
    <2> QED BY <2>1 DEF SoundInv, Sound, Ready, control, memory, history
  <1>24. CASE Crash
    BY <1>24, SoundDrop DEF Crash, Exit
  <1>25. CASE ToolStartIssue
    <2>1. PICK i \in Issues :
             /\ \A d \in Deps[i] : d \in Issues /\ sprint[d] = "completed"
             /\ tool' = [NoTool EXCEPT !.issue = i, !.phase = "checked"]
      BY <1>25 DEF ToolStartIssue
    <2>2. tool'.issue = i /\ tool'.copy = AllPending
      BY <2>1, StartedTool
    <2>3. Ready(i)
      BY <1>0, <2>1 DEF Sound, Ready
    <2> QED
      BY <1>25, <2>2, <2>3, Nameless DEF ToolStartIssue, SoundInv, Sound, Ready, control,
         memory, history
  <1>26. CASE ToolRead
    <2>1. tool'.issue = tool.issue /\ tool'.copy = sprint
      BY <1>0, <1>26, ReadingTool DEF ToolRead, TypeOK
    <2> QED
      BY <1>26, <2>1 DEF ToolRead, SoundInv, Sound, Ready, control, memory, history
  <1>27. CASE ToolWrite
    <2>1. /\ tool.issue \in Issues /\ tool.copy \in Statuses
          /\ Sound(tool.copy) /\ Ready(tool.issue)
      BY <1>0, <1>27 DEF ToolWrite, TypeInv, TypeOK, Tool, SoundInv
    <2>2. \A j \in Issues :
             sprint'[j] = IF j = tool.issue THEN "in_progress" ELSE tool.copy[j]
      BY <1>27, <2>1, MarkedStatus DEF ToolWrite, IssueStatus
    <2>3. Sound(sprint)'
      BY <1>27, <2>1, <2>2 DEF ToolWrite, Sound, Ready, history
    <2> QED
      BY <1>27, <2>3, Nameless DEF ToolWrite, SoundInv, Sound, Ready, control, memory,
         history
  <1>28. CASE ToolInitIssue
    <2>1. file'.issue \notin Issues
      BY <1>28, Nameless DEF ToolInitIssue
    <2> QED
      BY <1>28, <2>1 DEF ToolInitIssue, SoundInv, Sound, Ready, control, memory, history
  <1>29. CASE ResetCurrentIssue
    BY <1>29, Nameless DEF ResetCurrentIssue, SoundInv, Sound, Ready, control, memory,
       history
  <1>30. CASE UNCHANGED vars
    BY <1>30 DEF vars, SoundInv, Sound, Ready, control, memory, history
  <1> QED
    BY <1>1, <1>2, <1>3, <1>4, <1>5, <1>6, <1>7, <1>8, <1>9, <1>10, <1>11, <1>12,
       <1>13, <1>14, <1>16, <1>17, <1>18, <1>19, <1>20, <1>21, <1>22, <1>23, <1>24,
       <1>25, <1>26, <1>27, <1>28, <1>29, <1>30 DEF Next, Run, Tools

LEMMA SoundAlways == Spec => [](TypeInv /\ SoundInv)
  <1>1. Init => TypeInv /\ SoundInv
    BY TypeInit, SoundInit
  <1>2. TypeInv /\ SoundInv /\ [Next]_vars => (TypeInv /\ SoundInv)'
    BY TypeStep, SoundStep
  <1> QED BY <1>1, <1>2, PTL DEF Spec

\* No stale copy, crash or late tool makes sprint.json call an issue completed
\* that the inner loop has not completed.
THEOREM Completion == Spec => []CompletedByEngine
  <1>1. SoundInv => CompletedByEngine
    BY DEF SoundInv, Sound, CompletedByEngine
  <1> QED BY <1>1, SoundAlways, PTL

\* A run that ends as completed has had all its issues completed.
THEOREM SprintCompletion == Spec => []CompletedMeansDone
  <1>1. SoundInv => CompletedMeansDone
    BY DEF SoundInv, CompletedMeansDone
  <1> QED BY <1>1, SoundAlways, PTL

\* Only an agent that strays gets an issue begun before its dependencies.
THEOREM Dependencies == Spec => []DependenciesRespected
  <1>1. TypeInv /\ SoundInv => DependenciesRespected
    BY DEF TypeInv, Working, SoundInv, Ready, DependenciesRespected
  <1> QED BY <1>1, SoundAlways, PTL

-----------------------------------------------------------------------------
(* OneInProgress.                                                           *)

\* Without tools the engine alone writes sprint.json: the copy it writes back is
\* not stale, and while it works on an issue no other one is in progress.
OneInv ==
    /\ pc = "selecting" => InProgress(loaded) = {}
    /\ tool_calls = 0 =>
        /\ tool.phase = "none"
        /\ \A i, j \in InProgress(sprint) : i = j
        /\ pc \in {"branch", "select", "selecting", "setup"} => loaded = sprint
        /\ pc = "save" => copy = sprint
        /\ pc \in Working => InProgress(sprint) \subseteq {issue}

LEMMA OneInit ==
    ASSUME Init
    PROVE  OneInv
  BY Nameless DEF Init, OneInv, InProgress, Working

\* The process ends, or the loop goes round, and the sprint is as it was.
LEMMA OneOut ==
    ASSUME OneInv, UNCHANGED <<sprint, tool, tool_calls>>,
           pc' \in {"idle", "prepare", "loop", "clear"}
    PROVE  OneInv'
  BY DEF OneInv, InProgress, Working

\* The work on the issue goes on, and the sprint is as it was.
LEMMA OneStay ==
    ASSUME OneInv, UNCHANGED <<sprint, tool, tool_calls, issue>>, pc \in Working,
           pc' \in {"mark", "write", "engine"}
    PROVE  OneInv'
  BY DEF OneInv, InProgress, Working

\* An issue is selected that is in progress, or there is none that is.
LEMMA OneSelect ==
    ASSUME OneInv, pc \in {"select", "selecting"}, NEW i, Select(i),
           i \in InProgress(loaded) \/ InProgress(loaded) = {},
           UNCHANGED <<sprint, tool, tool_calls>>
    PROVE  OneInv'
  <1>1. UNCHANGED loaded /\ pc' = "setup" /\ issue' = i
    BY DEF Select, Goto
  <1>2. CASE i \in InProgress(loaded)
    BY <1>1, <1>2 DEF OneInv, InProgress, Working
  <1>3. CASE InProgress(loaded) = {}
    BY <1>1, <1>3 DEF OneInv, InProgress, Working
  <1> QED BY <1>2, <1>3

\* Once a tool has been called there is nothing to show but the first part.
LEMMA OneTools ==
    ASSUME TypeOK, OneInv, UNCHANGED <<pc, loaded>>, tool_calls' # 0
    PROVE  OneInv'
  BY DEF OneInv, InProgress

LEMMA OneStep ==
    ASSUME TypeInv, OneInv, [Next]_vars
    PROVE  OneInv'
  <1>0. TypeOK /\ tool_calls \in Nat
    BY DEF TypeInv, TypeOK
  <1>1. CASE Start
    BY <1>1, OneOut DEF Start
  <1>2. CASE Prepare
    BY <1>2 DEF Prepare, Goto, Exit, OneInv, InProgress, Working
  <1>3. CASE WriteBranch
    BY <1>3 DEF WriteBranch, NextIteration, Goto, OneInv, InProgress, Working
  <1>4. CASE StopAtLimit
    BY <1>4, OneOut DEF StopAtLimit, Exit, bounds
  <1>5. CASE Reload
    BY <1>5 DEF Reload, Goto, Exit, OneInv, InProgress, Working
  <1>6. CASE ResumeInProgressIssue
    BY <1>6, ToResumeIn, OneSelect DEF ResumeInProgressIssue, Resumable, bounds
  <1>7. CASE ContinuePendingIssue
    BY <1>7, OneSelect DEF ContinuePendingIssue, Resumable, bounds
  <1>8. CASE NoIssues
    BY <1>8, OneOut DEF NoIssues, Exit, bounds
  <1>9. CASE OnlyOneIssue
    BY <1>9, OneSelect DEF OnlyOneIssue, Choosing, Resumable, bounds
  <1>10. CASE AskAgent
    <2>1. pc = "select" /\ InProgress(loaded) = {}
      BY <1>10 DEF AskAgent, Choosing, Resumable
    <2>2. CASE Goto("selecting") /\ UNCHANGED memory
      BY <1>10, <2>1, <2>2 DEF AskAgent, Goto, memory, OneInv, InProgress, Working
    <2>3. CASE Select(Highest(Available(loaded)))
      BY <1>10, <2>1, <2>3, OneSelect DEF AskAgent
    <2> QED BY <1>10, <2>2, <2>3 DEF AskAgent
  <1>11. CASE AgentSelects
    BY <1>11, OneSelect DEF AgentSelects, OneInv, bounds
  <1>12. CASE AgentFails
    BY <1>12, OneSelect DEF AgentFails, OneInv, bounds
  <1>13. CASE Setup
    BY <1>13, OneStay DEF Setup, Goto, Working, bounds
  <1>14. CASE WriteContext
    BY <1>14, OneStay, OneOut DEF WriteContext, Goto, Exit, Working, memory
  <1>15. ASSUME MarkReturns
         PROVE  \/ pc' \in {"write", "engine"} /\ UNCHANGED issue /\ target = "in_progress"
                \/ pc' \in {"loop", "clear"}
    BY <1>15 DEF MarkReturns, NextIteration, Goto
  <1>16. CASE MarkRead
    <2>1. CASE copy' = sprint /\ Goto("save") /\ UNCHANGED issue
      BY <1>16, <2>1 DEF MarkRead, Goto, OneInv, InProgress, Working
    <2>2. CASE MarkReturns
      BY <1>15, <1>16, <2>2, OneStay, OneOut DEF MarkRead, Working
    <2> QED BY <1>16, <2>1, <2>2 DEF MarkRead
  <1>17. CASE MarkSave
    <2>1. CASE UNCHANGED sprint
      BY <1>15, <1>17, <2>1, OneStay, OneOut DEF MarkSave, Working
    <2>2. CASE sprint' = [copy EXCEPT ![issue] = target]
      <3>1. issue \in Issues /\ copy \in Statuses /\ target \in IssueStatus
        BY <1>17 DEF MarkSave, TypeInv, TypeOK, Working
      <3>2. \A j \in Issues : sprint'[j] = IF j = issue THEN target ELSE copy[j]
        BY <2>2, <3>1, MarkedStatus
      <3>3. tool_calls = 0 => InProgress(sprint)' \subseteq {issue}
        BY <1>17, <3>2 DEF MarkSave, OneInv, InProgress, Working
      <3>4. pc' \notin {"branch", "select", "selecting", "setup", "save"}
            /\ (pc' \in Working => UNCHANGED issue)
            /\ UNCHANGED <<tool, tool_calls>>
        BY <1>15, <1>17 DEF MarkSave, Working
      <3> QED BY <3>3, <3>4 DEF OneInv
    <2> QED BY <1>17, <2>1, <2>2 DEF MarkSave
  <1>18. CASE IssueCompleted
    BY <1>18, OneStay DEF IssueCompleted, Mark, Goto, Working, bounds
  <1>19. CASE IssueMaxIterations
    BY <1>19, OneStay DEF IssueMaxIterations, Mark, Goto, Working, bounds
  <1>20. CASE IssueFailed
    BY <1>20, OneOut DEF IssueFailed, Exit, bounds
  <1>21. CASE ClearFile
    BY <1>21, OneOut DEF ClearFile, NextIteration, Goto
  <1>22. CASE AgentWritesFile
    BY <1>22 DEF AgentWritesFile, control, memory, bounds, OneInv, InProgress, Working
  <1>23. CASE EngineSaves
    BY <1>23 DEF EngineSaves, control, memory, bounds, OneInv, InProgress, Working
  <1>24. CASE Crash
    BY <1>24, OneOut DEF Crash, Exit, bounds
  <1>25. CASE ToolStartIssue
    BY <1>0, <1>25, OneTools DEF ToolStartIssue, ToolCall, control, memory
  <1>26. CASE ToolRead
    BY <1>0, <1>26, OneTools DEF ToolRead, OneInv, control, memory, bounds
  <1>27. CASE ToolWrite
    BY <1>0, <1>27, OneTools DEF ToolWrite, OneInv, control, memory, bounds
  <1>28. CASE ToolInitIssue
    BY <1>0, <1>28, OneTools DEF ToolInitIssue, ToolCall, control, memory
  <1>29. CASE ResetCurrentIssue
    BY <1>0, <1>29, OneTools DEF ResetCurrentIssue, ToolCall, control, memory
  <1>30. CASE UNCHANGED vars
    BY <1>30 DEF vars, control, memory, bounds, OneInv, InProgress, Working
  <1> QED
    BY <1>1, <1>2, <1>3, <1>4, <1>5, <1>6, <1>7, <1>8, <1>9, <1>10, <1>11, <1>12,
       <1>13, <1>14, <1>16, <1>17, <1>18, <1>19, <1>20, <1>21, <1>22, <1>23, <1>24,
       <1>25, <1>26, <1>27, <1>28, <1>29, <1>30 DEF Next, Run, Tools

LEMMA OneAlways == Spec => [](TypeInv /\ OneInv)
  <1>1. Init => TypeInv /\ OneInv
    BY TypeInit, OneInit
  <1>2. TypeInv /\ OneInv /\ [Next]_vars => (TypeInv /\ OneInv)'
    BY TypeStep, OneStep
  <1> QED BY <1>1, <1>2, PTL DEF Spec

\* The engine on its own never has two issues in progress.
THEOREM AtMostOne == Spec => []OneInProgress
  <1>1. OneInv => OneInProgress
    <2>1. CASE tool_calls = 0 /\ OneInv
      <3>1. CASE InProgress(sprint) = {}
        BY <3>1, FS_EmptySet DEF OneInProgress
      <3>2. CASE InProgress(sprint) # {}
        <4>1. PICK i \in InProgress(sprint) : TRUE
          BY <3>2
        <4>2. InProgress(sprint) = {i}
          BY <2>1, <4>1 DEF OneInv
        <4>3. Cardinality({i}) = 1
          BY FS_Singleton
        <4> QED BY <4>2, <4>3 DEF OneInProgress
      <3> QED BY <3>1, <3>2
    <2> QED BY <2>1 DEF OneInProgress
  <1> QED BY <1>1, OneAlways, PTL

-----------------------------------------------------------------------------
(* CompletedIsFinal.                                                        *)

Undisturbed == tool_calls = 0 /\ strayed = {}

\* The engine has not given the issue another status yet.
Unfinished == \/ pc \in {"setup", "write", "engine"}
              \/ pc \in {"mark", "save"} /\ target # "completed"

\* Without tools and stray choices only a pending issue is begun and only one in
\* progress resumed, and nobody changes that while it is worked on.
FinalInv ==
    Undisturbed =>
        /\ pc = "selecting" /\ file.issue \in Issues => loaded[file.issue] = "pending"
        /\ Unfinished => sprint[issue] \in {"pending", "in_progress"}

LEMMA FinalInit ==
    ASSUME Init
    PROVE  FinalInv
  BY DEF Init, FinalInv, Unfinished

LEMMA FinalOut ==
    ASSUME ~Unfinished', pc' # "selecting"
    PROVE  FinalInv'
  BY DEF FinalInv

LEMMA FinalStay ==
    ASSUME FinalInv, Unfinished, UNCHANGED <<sprint, issue, tool_calls, strayed>>,
           pc' # "selecting"
    PROVE  FinalInv'
  BY DEF FinalInv, Undisturbed

LEMMA FinalSelect ==
    ASSUME OneInv, pc \in {"select", "selecting"}, NEW i \in Issues, Select(i),
           Undisturbed' => loaded[i] \in {"pending", "in_progress"},
           UNCHANGED <<sprint, tool_calls>>
    PROVE  FinalInv'
  <1>1. pc' = "setup" /\ issue' = i
    BY DEF Select, Goto
  <1>2. Undisturbed' => sprint = loaded
    BY DEF OneInv, Undisturbed
  <1> QED BY <1>1, <1>2 DEF FinalInv

LEMMA FinalStep ==
    ASSUME TypeInv, OneInv, FinalInv, [Next]_vars
    PROVE  FinalInv'
  <1>0. TypeOK /\ tool_calls \in Nat /\ tool_calls + 1 # 0
    BY DEF TypeInv, TypeOK
  <1>1. CASE Start
    BY <1>1, FinalOut DEF Start, Unfinished
  <1>2. CASE Prepare
    BY <1>2, FinalOut DEF Prepare, Goto, Exit, Unfinished
  <1>3. CASE WriteBranch
    BY <1>3, FinalOut DEF WriteBranch, NextIteration, Goto, Unfinished
  <1>4. CASE StopAtLimit
    BY <1>4, FinalOut DEF StopAtLimit, Exit, Unfinished
  <1>5. CASE Reload
    BY <1>5, FinalOut DEF Reload, Goto, Exit, Unfinished
  <1>6. CASE ResumeInProgressIssue
    <2>1. ToResume \in Issues /\ loaded[ToResume] = "in_progress"
      BY <1>6, ToResumeIn DEF ResumeInProgressIssue, Resumable, InProgress
    <2> QED BY <1>6, <2>1, FinalSelect DEF ResumeInProgressIssue, bounds
  <1>7. CASE ContinuePendingIssue
    BY <1>7, FinalSelect DEF ContinuePendingIssue, Continuable, bounds
  <1>8. CASE NoIssues
    BY <1>8, FinalOut DEF NoIssues, Exit, Unfinished
  <1>9. CASE OnlyOneIssue
    BY <1>9, FinalSelect DEF OnlyOneIssue, Choosing, Available, bounds
  <1>10. CASE AskAgent
    <2>1. Available(loaded) # {}
      BY <1>10, FS_EmptySet DEF AskAgent
    <2>2. /\ Highest(Available(loaded)) \in Issues
          /\ loaded[Highest(Available(loaded))] = "pending"
      BY <2>1, AvailableIn DEF Available
    <2>3. CASE file' = ContextFor(NoIssue) /\ Goto("selecting")
      BY <1>10, <2>3, Nameless DEF AskAgent, Goto, FinalInv, Unfinished
    <2>4. CASE Select(Highest(Available(loaded)))
      BY <1>10, <2>2, <2>4, FinalSelect DEF AskAgent, Choosing
    <2> QED BY <1>10, <2>3, <2>4 DEF AskAgent
  <1>11. CASE AgentSelects
    <2>1. PICK i \in Issues :
             /\ Named => Names(file, i)
             /\ Select(i)
             /\ strayed' = IF Named THEN strayed
                           ELSE strayed \cup ({i} \ Available(loaded))
      BY <1>11 DEF AgentSelects
    <2>2. Undisturbed' => Undisturbed
      BY <1>11, <2>1 DEF AgentSelects, Undisturbed, bounds
    <2>3. Undisturbed' => loaded[i] = "pending"
      <3>1. CASE Named
        BY <1>11, <2>1, <2>2, <3>1 DEF AgentSelects, Names, FinalInv
      <3>2. CASE ~Named
        BY <2>1, <3>2 DEF Undisturbed, Available
      <3> QED BY <3>1, <3>2
    <2> QED BY <1>11, <2>1, <2>3, FinalSelect DEF AgentSelects, bounds
  <1>12. CASE AgentFails
    <2>1. /\ Highest(Available(loaded)) \in Issues
          /\ loaded[Highest(Available(loaded))] = "pending"
      BY <1>12, AvailableIn DEF AgentFails, TypeInv, Available
    <2> QED BY <1>12, <2>1, FinalSelect DEF AgentFails, bounds
  <1>13. CASE Setup
    BY <1>13, FinalStay DEF Setup, Goto, Unfinished, bounds
  <1>14. CASE WriteContext
    BY <1>14, FinalStay, FinalOut DEF WriteContext, Goto, Exit, Unfinished, memory,
       history
  <1>15. ASSUME MarkReturns
         PROVE  \/ /\ pc' \in {"write", "engine"} /\ target = "in_progress"
                   /\ UNCHANGED issue
                \/ pc' \in {"loop", "clear"}
    BY <1>15 DEF MarkReturns, NextIteration, Goto
  <1>16. CASE MarkRead
    <2>1. CASE Goto("save") /\ UNCHANGED <<issue, target>>
      BY <1>16, <2>1 DEF MarkRead, Goto, FinalInv, Undisturbed, Unfinished, history
    <2>2. CASE MarkReturns
      BY <1>15, <1>16, <2>2, FinalStay, FinalOut DEF MarkRead, Unfinished, history
    <2> QED BY <1>16, <2>1, <2>2 DEF MarkRead
  <1>17. CASE MarkSave
    <2>1. CASE UNCHANGED sprint
      BY <1>15, <1>17, <2>1, FinalStay, FinalOut DEF MarkSave, Unfinished, history
    <2>2. CASE sprint' = [copy EXCEPT ![issue] = target]
      <3>1. issue \in Issues /\ copy \in Statuses /\ target \in IssueStatus
        BY <1>17 DEF MarkSave, TypeInv, TypeOK, Working
      <3>2. sprint'[issue] = target
        BY <2>2, <3>1, MarkedStatus
      <3> QED BY <1>15, <1>17, <3>2, FinalOut DEF MarkSave, FinalInv, Unfinished
    <2> QED BY <1>17, <2>1, <2>2 DEF MarkSave
  <1>18. CASE IssueCompleted
    BY <1>18, FinalOut DEF IssueCompleted, Mark, Goto, Unfinished
  <1>19. CASE IssueMaxIterations
    BY <1>19, FinalStay DEF IssueMaxIterations, Mark, Goto, Unfinished, bounds, history
  <1>20. CASE IssueFailed
    BY <1>20, FinalOut DEF IssueFailed, Exit, Unfinished
  <1>21. CASE ClearFile
    BY <1>21, FinalOut DEF ClearFile, NextIteration, Goto, Unfinished
  <1>22. CASE AgentWritesFile
    <2>1. PICK i \in Issues :
             /\ file' = ContextFor(i)
             /\ strayed' = strayed \cup ({i} \ Available(loaded))
      BY <1>22 DEF AgentWritesFile
    <2>2. Undisturbed' => loaded[i] = "pending"
      BY <2>1 DEF Undisturbed, Available
    <2>3. pc' = "selecting" /\ UNCHANGED loaded /\ file'.issue = i
      BY <1>22, <2>1, Nameless DEF AgentWritesFile, control, memory
    <2> QED BY <2>2, <2>3 DEF FinalInv, Unfinished
  <1>23. CASE EngineSaves
    BY <1>23, FinalStay DEF EngineSaves, Unfinished, control, memory, bounds, history
  <1>24. CASE Crash
    BY <1>24, FinalOut DEF Crash, Exit, Unfinished
  <1>25. CASE ToolStartIssue
    BY <1>0, <1>25 DEF ToolStartIssue, ToolCall, FinalInv, Undisturbed
  <1>26. CASE ToolRead
    BY <1>26 DEF ToolRead, OneInv, FinalInv, Undisturbed, bounds
  <1>27. CASE ToolWrite
    BY <1>27 DEF ToolWrite, OneInv, FinalInv, Undisturbed, bounds
  <1>28. CASE ToolInitIssue
    BY <1>0, <1>28 DEF ToolInitIssue, ToolCall, FinalInv, Undisturbed
  <1>29. CASE ResetCurrentIssue
    BY <1>0, <1>29 DEF ResetCurrentIssue, ToolCall, FinalInv, Undisturbed
  <1>30. CASE UNCHANGED vars
    BY <1>30 DEF vars, control, memory, bounds, history, FinalInv, Undisturbed,
       Unfinished
  <1> QED
    BY <1>1, <1>2, <1>3, <1>4, <1>5, <1>6, <1>7, <1>8, <1>9, <1>10, <1>11, <1>12,
       <1>13, <1>14, <1>16, <1>17, <1>18, <1>19, <1>20, <1>21, <1>22, <1>23, <1>24,
       <1>25, <1>26, <1>27, <1>28, <1>29, <1>30 DEF Next, Run, Tools

LEMMA FinalAlways == Spec => [](TypeInv /\ OneInv /\ FinalInv)
  <1>1. Init => TypeInv /\ OneInv /\ FinalInv
    BY TypeInit, OneInit, FinalInit
  <1>2. TypeInv /\ OneInv /\ FinalInv /\ [Next]_vars
           => (TypeInv /\ OneInv /\ FinalInv)'
    BY TypeStep, OneStep, FinalStep
  <1> QED BY <1>1, <1>2, PTL DEF Spec

\* sprint.json is written in three places only.
LEMMA SprintWrites ==
    ASSUME [Next]_vars
    PROVE  \/ UNCHANGED sprint
           \/ WriteBranch /\ sprint' = loaded
           \/ MarkSave /\ sprint' = [copy EXCEPT ![issue] = target]
           \/ ToolWrite
  <1>1. CASE Run
    <2>1. CASE WriteBranch
      BY <2>1 DEF WriteBranch
    <2>2. CASE MarkSave
      BY <2>2 DEF MarkSave
    <2>3. CASE Run /\ ~WriteBranch /\ ~MarkSave
      BY <2>3 DEF Run, Prepare, StopAtLimit, Reload, ResumeInProgressIssue,
         ContinuePendingIssue, NoIssues, OnlyOneIssue, AskAgent, AgentSelects,
         AgentFails, Setup, WriteContext, MarkRead, IssueCompleted, IssueMaxIterations,
         IssueFailed, ClearFile
    <2> QED BY <1>1, <2>1, <2>2, <2>3
  <1>2. CASE Tools
    BY <1>2 DEF Tools, ToolStartIssue, ToolRead, ToolInitIssue, ResetCurrentIssue
  <1>3. CASE Start \/ AgentWritesFile \/ EngineSaves \/ Crash \/ UNCHANGED vars
    BY <1>3 DEF Start, AgentWritesFile, EngineSaves, Crash, vars
  <1> QED BY <1>1, <1>2, <1>3 DEF Next

\* An issue that is completed stays so in sprint.json.
THEOREM Finality == Spec => CompletedIsFinal
  <1> DEFINE Kept == tool_calls' = 0 /\ strayed' = {} =>
                 \A i \in Issues : sprint[i] = "completed" => sprint'[i] = "completed"
  <1>1. TypeInv /\ OneInv /\ FinalInv /\ [Next]_vars => [Kept]_vars
    <2> SUFFICES ASSUME TypeInv, OneInv, FinalInv, [Next]_vars,
                        tool_calls' = 0, strayed' = {},
                        NEW i \in Issues, sprint[i] = "completed"
                 PROVE  sprint'[i] = "completed"
      OBVIOUS
    <2>1. CASE UNCHANGED sprint
      BY <2>1
    <2>2. CASE WriteBranch /\ sprint' = loaded
      BY <2>2 DEF WriteBranch, OneInv
    <2>3. CASE MarkSave /\ sprint' = [copy EXCEPT ![issue] = target]
      <3>1. issue \in Issues /\ copy \in Statuses /\ target \in IssueStatus
        BY <2>3 DEF MarkSave, TypeInv, TypeOK, Working
      <3>2. \A j \in Issues : sprint'[j] = IF j = issue THEN target ELSE copy[j]
        BY <2>3, <3>1, MarkedStatus
      <3>3. copy = sprint /\ (target # "completed" => sprint[issue] # "completed")
        BY <2>3 DEF MarkSave, OneInv, FinalInv, Undisturbed, Unfinished, history
      <3> QED BY <3>2, <3>3
    <2>4. CASE ToolWrite
      BY <2>4 DEF ToolWrite, OneInv, bounds
    <2> QED BY <2>1, <2>2, <2>3, <2>4, SprintWrites
  <1> QED BY <1>1, FinalAlways, PTL DEF Spec, CompletedIsFinal

-----------------------------------------------------------------------------
(* NoRework.                                                                *)

FaultFree == Undisturbed /\ faults = 0

\* The issue is on its way into the inner loop, and on its way out of it.
Entering == pc \in {"mark", "save"} /\ target = "in_progress"
Leaving  == pc = "engine" \/ (pc \in {"mark", "save"} /\ target # "in_progress")

Settled(i) == sprint[i] \in {"completed", "blocked"}

\* An issue that the inner loop completed either has its last status or is the
\* one in progress that current_issue.json names: it will be resumed.
ReworkInv ==
    FaultFree =>
        /\ reworked = {}
        /\ \A i \in done : Settled(i) \/ (sprint[i] = "in_progress" /\ file.issue = i)
        /\ pc = "clear" => \A i \in done : Settled(i)
        /\ Entering \/ pc \in {"write", "engine"} => context.issue = issue
        /\ Entering /\ ~fresh => file.issue = issue
        /\ pc = "write" => sprint[issue] = "in_progress"
        /\ Leaving => sprint[issue] = "in_progress" /\ file.issue = issue
        /\ pc \in {"mark", "save"} => target # "pending"

LEMMA ReworkInit ==
    ASSUME Init
    PROVE  ReworkInv
  BY DEF Init, ReworkInv, Entering, Leaving

\* A fault is seen by all that follows.
LEMMA ReworkFault ==
    ASSUME TypeOK, Fault
    PROVE  ReworkInv'
  BY DEF TypeOK, Fault, ReworkInv, FaultFree

\* A step that touches neither the files nor what has been done, and leads to
\* where nothing is asked of the issue.
LEMMA ReworkOut ==
    ASSUME ReworkInv, UNCHANGED <<sprint, file, tool_calls, faults, history>>,
           pc' \notin {"clear", "mark", "save", "write", "engine"}
    PROVE  ReworkInv'
  BY DEF ReworkInv, FaultFree, Undisturbed, Settled, Entering, Leaving, history

\* The same, when a stray choice may be added.
LEMMA ReworkSelect ==
    ASSUME ReworkInv, NEW i, Select(i), strayed \subseteq strayed',
           UNCHANGED <<sprint, file, tool_calls, faults, done, reworked>>
    PROVE  ReworkInv'
  BY DEF Select, Goto, ReworkInv, FaultFree, Undisturbed, Settled, Entering, Leaving

LEMMA ReworkStep ==
    ASSUME TypeInv, OneInv, FinalInv, ReworkInv, [Next]_vars
    PROVE  ReworkInv'
  <1> USE DEF FaultFree, Undisturbed
  <1>0. TypeOK /\ tool_calls \in Nat /\ tool_calls + 1 # 0
    BY DEF TypeInv, TypeOK
  <1>1. CASE Start
    BY <1>1, ReworkOut DEF Start, history
  <1>2. CASE Prepare
    <2>1. CASE Fault
      BY <1>0, <2>1, ReworkFault
    <2>2. CASE NoFault
      BY <1>2, <2>2, ReworkOut DEF Prepare, Goto, Exit, NoFault
    <2> QED BY <1>2, <2>1, <2>2 DEF Prepare
  <1>3. CASE WriteBranch
    <2>1. CASE Fault
      BY <1>0, <2>1, ReworkFault
    <2>2. CASE NoFault /\ sprint' = loaded /\ tool_calls = 0
      <3>1. UNCHANGED sprint
        BY <1>3, <2>2 DEF WriteBranch, OneInv
      <3> QED BY <1>3, <2>2, <3>1, ReworkOut DEF WriteBranch, NextIteration, Goto, NoFault
    <2>3. CASE tool_calls # 0
      BY <1>3, <2>3 DEF WriteBranch, ReworkInv
    <2> QED BY <1>3, <2>1, <2>2, <2>3 DEF WriteBranch
  <1>4. CASE StopAtLimit
    BY <1>4, ReworkOut DEF StopAtLimit, Exit, bounds
  <1>5. CASE Reload
    <2>1. CASE Fault
      BY <1>0, <2>1, ReworkFault
    <2>2. CASE NoFault
      BY <1>5, <2>2, ReworkOut DEF Reload, Goto, Exit, NoFault
    <2> QED BY <1>5, <2>1, <2>2 DEF Reload
  <1>6. CASE ResumeInProgressIssue
    BY <1>6, ReworkSelect DEF ResumeInProgressIssue, bounds, history
  <1>7. CASE ContinuePendingIssue
    BY <1>7, ReworkSelect DEF ContinuePendingIssue, bounds, history
  <1>8. CASE NoIssues
    BY <1>8, ReworkOut DEF NoIssues, Exit, bounds
  <1>9. CASE OnlyOneIssue
    BY <1>9, ReworkSelect DEF OnlyOneIssue, bounds, history
  <1>a. ASSUME pc \in {"select", "selecting"}, InProgress(loaded) = {},
               tool_calls = 0, FaultFree, NEW i \in done
        PROVE  Settled(i)
    <2>1. i \in Issues /\ sprint = loaded
      BY <1>0, <1>a DEF TypeOK, OneInv
    <2> QED BY <1>a, <2>1 DEF ReworkInv, InProgress
  <1>10. CASE AskAgent
    <2>1. CASE Fault
      BY <1>0, <2>1, ReworkFault
    <2>2. CASE Goto("selecting") /\ NoFault
      <3>1. pc = "select" /\ InProgress(loaded) = {}
        BY <1>10 DEF AskAgent, Choosing, Resumable
      <3>2. FaultFree' => FaultFree /\ \A i \in done : Settled(i)
        BY <1>a, <1>10, <2>2, <3>1 DEF AskAgent, NoFault, history
      <3> QED
        BY <1>10, <2>2, <3>2 DEF AskAgent, Goto, ReworkInv, Settled, Entering, Leaving,
           history
    <2> QED BY <1>10, <2>1, <2>2 DEF AskAgent
  <1>11. CASE AgentSelects
    BY <1>11, ReworkSelect DEF AgentSelects, bounds
  <1>12. CASE AgentFails
    BY <1>12, ReworkSelect DEF AgentFails, bounds, history
  <1>13. CASE Setup
    <2>1. /\ issue \in Issues /\ context'.issue = issue
          /\ fresh' = ~Names(file, issue) /\ target' = "in_progress"
          /\ pc = "setup" /\ pc' \in {"mark", "engine", "write"}
          /\ pc' # "mark" => loaded[issue] = "in_progress"
          /\ pc' = "engine" => Names(file, issue)
          /\ reworked' = IF Names(file, issue) THEN reworked
                         ELSE reworked \cup ({issue} \cap done)
          /\ UNCHANGED <<sprint, file, issue, tool_calls, faults, done, strayed>>
      BY <1>13, Nameless DEF Setup, Names, Goto, TypeInv, Working, bounds
    <2>2. FaultFree => loaded = sprint /\ sprint[issue] \in {"pending", "in_progress"}
      BY <2>1 DEF OneInv, FinalInv, Unfinished
    <2>3. FaultFree /\ issue \in done => Names(file, issue)
      BY <2>2 DEF ReworkInv, Settled, Names
    <2>4. FaultFree => reworked' = {}
      BY <2>1, <2>3 DEF ReworkInv
    <2> QED
      BY <2>1, <2>2, <2>4 DEF ReworkInv, Settled, Names, Entering, Leaving
  <1>14. CASE WriteContext
    <2>1. CASE Fault
      BY <1>0, <2>1, ReworkFault
    <2>2. CASE file' = context /\ Goto("engine") /\ UNCHANGED memory /\ NoFault
      <3>1. pc = "write" /\ pc' = "engine"
            /\ UNCHANGED <<sprint, issue, context, tool_calls, faults, history>>
        BY <1>14, <2>2 DEF WriteContext, Goto, NoFault, memory
      <3>2. FaultFree => /\ context.issue = issue /\ sprint[issue] = "in_progress"
                         /\ InProgress(sprint) \subseteq {issue}
        BY <3>1 DEF ReworkInv, OneInv, Working
      <3>3. FaultFree => \A i \in done : Settled(i) \/ i = issue
        BY <1>0, <3>2 DEF ReworkInv, InProgress, TypeOK
      <3> QED
        BY <2>2, <3>1, <3>2, <3>3 DEF ReworkInv, Settled, Entering, Leaving, history
    <2> QED BY <1>14, <2>1, <2>2 DEF WriteContext
  <1>15. ASSUME MarkReturns
         PROVE  \/ /\ pc' = (IF fresh THEN "write" ELSE "engine")
                   /\ target = "in_progress"
                   /\ UNCHANGED <<issue, context, fresh, target>>
                \/ pc' = "clear" /\ target = "completed"
                \/ pc' = "loop" /\ target \notin {"in_progress", "completed"}
    BY <1>15 DEF MarkReturns, NextIteration, Goto
  <1>16. CASE MarkRead
    <2>1. CASE Fault
      BY <1>0, <2>1, ReworkFault
    <2>2. CASE Goto("save") /\ NoFault /\ UNCHANGED <<issue, context, fresh, target>>
      BY <1>16, <2>2 DEF MarkRead, Goto, NoFault, ReworkInv, Settled, Entering, Leaving,
         history
    <2> QED BY <1>16, <2>1, <2>2 DEF MarkRead
  <1>17. CASE MarkSave
    <2>1. CASE Fault
      BY <1>0, <2>1, ReworkFault
    <2>2. CASE ~FaultFree
      BY <1>0, <1>17, <2>2 DEF MarkSave, NoFault, Fault, ReworkInv, history, TypeOK
    <2>3. CASE FaultFree /\ NoFault /\ sprint' = [copy EXCEPT ![issue] = target]
      <3>1. /\ issue \in Issues /\ copy \in Statuses /\ target \in IssueStatus
            /\ done \subseteq Issues
        BY <1>17 DEF MarkSave, TypeInv, TypeOK, Working
      <3>2. copy = sprint /\ pc = "save" /\ InProgress(sprint) \subseteq {issue}
        BY <1>17, <2>3 DEF MarkSave, OneInv, Working
      <3>3. \A j \in Issues : sprint'[j] = IF j = issue THEN target ELSE sprint[j]
        BY <2>3, <3>1, <3>2, MarkedStatus
      <3>4. UNCHANGED <<file, tool_calls, faults, history>>
        BY <1>17, <2>3 DEF MarkSave, NoFault
      <3>5. reworked' = {}
        BY <2>3, <3>4 DEF ReworkInv, history
      <3>6. \A i \in done : i # issue => Settled(i) /\ Settled(i)'
        BY <2>3, <3>1, <3>2, <3>3 DEF ReworkInv, Settled, InProgress
      <3>7. CASE target = "in_progress"
        <4>1. /\ pc' = (IF fresh THEN "write" ELSE "engine")
              /\ UNCHANGED <<issue, context, fresh, target>>
          BY <1>15, <1>17, <3>7 DEF MarkSave
        <4>2. /\ context.issue = issue /\ (~fresh => file.issue = issue)
              /\ sprint'[issue] = "in_progress"
          BY <2>3, <3>1, <3>2, <3>3, <3>7 DEF ReworkInv, Entering
        <4>3. issue \in done => file.issue = issue
          BY <2>3, <3>2, <3>7 DEF ReworkInv, FinalInv, Unfinished, Settled
        <4> QED
          BY <3>4, <3>5, <3>6, <4>1, <4>2, <4>3 DEF ReworkInv, Entering, Leaving, history
      <3>8. CASE target # "in_progress"
        <4>1. pc' \in {"clear", "loop"}
          BY <1>15, <1>17, <3>8 DEF MarkSave
        <4>2. sprint'[issue] \in {"completed", "blocked"}
          BY <2>3, <3>1, <3>2, <3>3, <3>8 DEF ReworkInv, IssueStatus
        <4>3. \A i \in done : sprint'[i] \in {"completed", "blocked"}
          BY <3>6, <4>2 DEF Settled
        <4> QED
          BY <3>4, <3>5, <4>1, <4>3 DEF ReworkInv, Settled, Entering, Leaving, history
      <3> QED BY <3>7, <3>8
    <2> QED BY <1>17, <2>1, <2>2, <2>3 DEF MarkSave
  <1>18. CASE IssueCompleted
    BY <1>18 DEF IssueCompleted, Mark, Goto, bounds, ReworkInv, Settled, Entering,
       Leaving
  <1>19. CASE IssueMaxIterations
    <2>1. file'.issue \in {file.issue, context.issue}
      BY <1>0, <1>19, Spent DEF IssueMaxIterations, TypeOK
    <2> QED
      BY <1>19, <2>1 DEF IssueMaxIterations, Mark, Goto, bounds, history, ReworkInv,
         Settled, Entering, Leaving
  <1>20. CASE IssueFailed
    BY <1>20, ReworkOut DEF IssueFailed, Exit, bounds
  <1>21. CASE ClearFile
    <2>1. CASE Fault
      BY <1>0, <2>1, ReworkFault
    <2>2. CASE NoFault
      BY <1>21, <2>2 DEF ClearFile, NextIteration, Goto, NoFault, history, ReworkInv,
         Settled, Entering, Leaving
    <2> QED BY <1>21, <2>1, <2>2 DEF ClearFile
  <1>22. CASE AgentWritesFile
    <2>1. /\ pc = "selecting" /\ strayed \subseteq strayed'
          /\ UNCHANGED <<sprint, pc, tool_calls, faults, done, reworked>>
      BY <1>22 DEF AgentWritesFile, control, bounds
    <2>2. FaultFree' => FaultFree /\ \A i \in done : Settled(i)
      BY <1>a, <2>1 DEF OneInv
    <2> QED BY <2>1, <2>2 DEF ReworkInv, Settled, Entering, Leaving
  <1>23. CASE EngineSaves
    <2>1. /\ pc = "engine" /\ file'.issue = context.issue
          /\ UNCHANGED <<sprint, control, memory, tool, bounds, history>>
      BY <1>0, <1>23, Spent DEF EngineSaves, TypeOK
    <2> QED
      BY <2>1 DEF control, memory, bounds, history, ReworkInv, Settled, Entering, Leaving
  <1>24. CASE Crash
    BY <1>24, ReworkOut DEF Crash, Exit, bounds
  <1>25. CASE ToolStartIssue
    BY <1>0, <1>25 DEF ToolStartIssue, ToolCall, ReworkInv
  <1>26. CASE ToolRead
    BY <1>26 DEF ToolRead, OneInv, ReworkInv, bounds
  <1>27. CASE ToolWrite
    BY <1>27 DEF ToolWrite, OneInv, ReworkInv, bounds
  <1>28. CASE ToolInitIssue
    BY <1>0, <1>28 DEF ToolInitIssue, ToolCall, ReworkInv
  <1>29. CASE ResetCurrentIssue
    BY <1>0, <1>29 DEF ResetCurrentIssue, ToolCall, ReworkInv
  <1>30. CASE UNCHANGED vars
    BY <1>30 DEF vars, control, memory, bounds, history, ReworkInv, Settled, Entering,
       Leaving
  <1> QED
    BY <1>1, <1>2, <1>3, <1>4, <1>5, <1>6, <1>7, <1>8, <1>9, <1>10, <1>11, <1>12,
       <1>13, <1>14, <1>16, <1>17, <1>18, <1>19, <1>20, <1>21, <1>22, <1>23, <1>24,
       <1>25, <1>26, <1>27, <1>28, <1>29, <1>30 DEF Next, Run, Tools

\* A crash between completing an issue and recording it costs no work.
THEOREM Resumption == Spec => []NoRework
  <1> DEFINE I == TypeInv /\ OneInv /\ FinalInv /\ ReworkInv
  <1>1. Init => I
    BY TypeInit, OneInit, FinalInit, ReworkInit
  <1>2. I /\ [Next]_vars => I'
    BY TypeStep, OneStep, FinalStep, ReworkStep
  <1>3. I => NoRework
    BY DEF ReworkInv, FaultFree, Undisturbed, NoRework
  <1> QED BY <1>1, <1>2, <1>3, PTL DEF Spec

-----------------------------------------------------------------------------
(* GivenUpForCause.                                                         *)

\* What the search is proved to be (Exact, in DependenciesProofs): no issue waits
\* for itself unreported.
CyclesReported == D!WaitForThemselves(Deps) \subseteq Cyclic

Cause == Cyclic # {} \/ \E i \in Issues : sprint[i] = "blocked"

\* An issue is looked for only in a sprint that is not complete; a process that
\* found none has ended, and nothing has changed since.
GivenUpInv ==
    /\ pc = "select" => ~IsComplete(loaded)
    /\ exit_reason = "no_issues" => pc = "idle"
    /\ tool_calls = 0 /\ exit_reason = "no_issues" => Cause

\* If nothing waits for itself, one of the issues that are not completed is not
\* blocked.  Otherwise each of them depends on another, and of the closed sets with
\* one of them a least one has a smaller one inside.
LEMMA SomethingLeft ==
    ASSUME CyclesReported, NEW s \in Statuses, ~IsComplete(s),
           InProgress(s) = {}, Cyclic = {}, \A i \in Issues : s[i] # "blocked"
    PROVE  Available(s) # {}
  <1> DEFINE S == {i \in Issues : s[i] # "completed"}
             F == {C \in SUBSET Issues : D!Closed(Deps, C) /\ C \cap S # {}}
  <1> SUFFICES ASSUME Available(s) = {}  PROVE  FALSE
    OBVIOUS
  <1>1. DOMAIN Deps = Issues /\ IsFiniteSet(Issues)
    BY IssuesAssumption
  <1>2. ASSUME NEW i \in S  PROVE  Deps[i] \cap S # {}
    <2>1. s[i] = "pending"
      BY DEF Statuses, IssueStatus, InProgress
    <2> QED BY <2>1 DEF Available, IsBlockedBy
  <1>3. Issues \in F
    BY <1>1 DEF IsComplete, D!Closed
  <1>4. PICK C \in F : \A X \in F : <<X, C>> \notin StrictSubsetOrdering(Issues)
    <2>1. IsWellFoundedOn(StrictSubsetOrdering(Issues), SUBSET Issues)
      BY <1>1, FS_StrictSubsetOrderingWellFounded, FS_FiniteSubsetsOfFinite
    <2>2. F \subseteq SUBSET Issues /\ F # {}
      BY <1>3
    <2> HIDE DEF F
    <2> QED BY <2>1, <2>2, WFMin
  <1>5. PICK n \in C : n \in S
    OBVIOUS
  <1>6. PICK X \in SUBSET Issues : /\ D!Closed(Deps, X) /\ n \notin X
                                  /\ Deps[n] \cap Issues \subseteq X
    <2>1. n \notin D!WaitForThemselves(Deps)
      BY DEF CyclesReported
    <2> QED BY <1>1, <1>5, <2>1 DEF D!WaitForThemselves
  <1>7. C \cap X \in F
    <2>1. D!Closed(Deps, C \cap X)
      BY <1>6 DEF D!Closed
    <2>2. PICK d \in Deps[n] : d \in S
      BY <1>2, <1>5
    <2>3. d \in C /\ d \in X
      BY <1>1, <1>5, <1>6, <2>2 DEF D!Closed
    <2> QED BY <2>1, <2>2, <2>3
  <1>8. <<C \cap X, C>> \in StrictSubsetOrdering(Issues)
    <2>1. C \cap X \subseteq C /\ C \cap X # C /\ C \in SUBSET Issues
      BY <1>5, <1>6
    <2> QED BY <2>1 DEF StrictSubsetOrdering
  <1> QED BY <1>4, <1>7, <1>8

LEMMA GivenUpStep ==
    ASSUME CyclesReported, TypeInv, OneInv, GivenUpInv, [Next]_vars
    PROVE  GivenUpInv'
  <1> USE DEF GivenUpInv
  <1>1. CASE Start
    BY <1>1 DEF Start
  <1>2. CASE Reload
    <2>1. tool_calls' = tool_calls
      BY <1>2 DEF Reload
    <2> QED BY <1>2, <2>1 DEF Reload, Goto, Exit, IsComplete
  <1>3. CASE NoIssues
    <2>1. pc' = "idle" /\ UNCHANGED <<sprint, tool_calls>>
      BY <1>3 DEF NoIssues, Exit, bounds
    <2>2. ASSUME tool_calls = 0, Cyclic = {}
          PROVE  \E i \in Issues : sprint[i] = "blocked"
      <3>1. loaded = sprint /\ ~IsComplete(loaded) /\ InProgress(loaded) = {}
            /\ Available(loaded) = {} /\ loaded \in Statuses
        BY <1>3, <2>2 DEF NoIssues, Choosing, Resumable, OneInv, TypeInv, TypeOK
      <3> QED BY <2>2, <3>1, SomethingLeft
    <2> QED BY <2>1, <2>2 DEF Cause
  <1>4. CASE ResumeInProgressIssue \/ ContinuePendingIssue \/ OnlyOneIssue \/ AskAgent
    BY <1>4 DEF ResumeInProgressIssue, ContinuePendingIssue, OnlyOneIssue, AskAgent,
                Choosing, Select, Goto
  <1>5. CASE Prepare \/ WriteBranch \/ StopAtLimit
    BY <1>5 DEF Prepare, WriteBranch, StopAtLimit, NextIteration, Goto, Exit
  <1>6. CASE AgentSelects \/ AgentFails
    BY <1>6 DEF AgentSelects, AgentFails, Select, Goto
  <1>7. CASE Setup \/ WriteContext
    BY <1>7 DEF Setup, WriteContext, Goto, Exit
  <1>8. CASE MarkRead \/ MarkSave
    BY <1>8 DEF MarkRead, MarkSave, MarkReturns, NextIteration, Goto
  <1>9. CASE IssueCompleted \/ IssueMaxIterations \/ IssueFailed \/ ClearFile \/ Crash
    BY <1>9 DEF IssueCompleted, IssueMaxIterations, IssueFailed, ClearFile, Crash, Mark,
                NextIteration, Goto, Exit, Engine
  <1>10. CASE AgentWritesFile \/ EngineSaves
    BY <1>10 DEF AgentWritesFile, EngineSaves, control
  <1>11. CASE ToolRead \/ ToolWrite
    <2>1. UNCHANGED <<control, loaded, tool_calls>> /\ tool.phase # "none"
      BY <1>11 DEF ToolRead, ToolWrite, memory, bounds
    <2>2. tool_calls # 0
      BY <2>1 DEF OneInv
    <2> QED BY <2>1, <2>2 DEF control, IsComplete
  <1>12. CASE ToolStartIssue \/ ToolInitIssue \/ ResetCurrentIssue
    <2>1. UNCHANGED <<control, loaded, sprint>>
      BY <1>12 DEF ToolStartIssue, ToolInitIssue, ResetCurrentIssue, memory
    <2>2. tool_calls' # 0
      <3>1. tool_calls' = tool_calls + 1
        BY <1>12 DEF ToolStartIssue, ToolInitIssue, ResetCurrentIssue, ToolCall
      <3>2. tool_calls \in Nat
        BY DEF TypeInv, TypeOK
      <3> QED BY <3>1, <3>2
    <2> QED BY <2>1, <2>2 DEF control, IsComplete
  <1>13. CASE UNCHANGED vars
    BY <1>13 DEF vars, control, memory, bounds, Cause, IsComplete
  <1> QED BY <1>1, <1>2, <1>3, <1>4, <1>5, <1>6, <1>7, <1>8, <1>9, <1>10, <1>11, <1>12,
             <1>13 DEF Next, Run, Tools

\* SprintEngine.run says NO_ISSUES only if detect_circular_dependencies reports
\* something, or an issue is blocked: of what is left one can always be selected.
THEOREM GivenUp ==
    ASSUME CyclesReported PROVE Spec => []GivenUpForCause
  <1> DEFINE I == TypeInv /\ OneInv /\ GivenUpInv
  <1>1. Init => I
    BY TypeInit, OneInit DEF Init, GivenUpInv
  <1>2. I /\ [Next]_vars => I'
    BY TypeStep, OneStep, GivenUpStep
  <1>3. I => GivenUpForCause
    BY DEF GivenUpInv, GivenUpForCause, Cause
  <1> QED BY <1>1, <1>2, <1>3, PTL DEF Spec

\* The same of the program as a whole, where what is reported is what the search
\* finds in the lists of the sprint, whatever they are.
COROLLARY GivenUpAfterSearch ==
    ASSUME NEW graph, D!IsGraph(graph),
           Deps = D!Edges(graph), Cyclic = D!CyclicIds(graph)
    PROVE  Spec => []GivenUpForCause
  <1>1. D!IsFiniteSet(Issues) /\ D!Nothing = Nothing /\ D!NoIssue = NoIssue
    BY IssuesAssumption DEF D!IsFiniteSet, IsFiniteSet, D!Nothing, Nothing,
       D!NoIssue, NoIssue
  <1>2. D!IsExact(graph)
    BY <1>1, IssuesAssumption, BoundsAssumption, D!Exact DEF D!Exact, D!IsExact
  <1>3. CyclesReported
    BY <1>2 DEF CyclesReported, D!IsExact
  <1> QED BY <1>3, GivenUp

-----------------------------------------------------------------------------
(* Why SprintEngine.run returns.                                            *)

Undone(s)     == {i \in Issues : s[i] \in {"pending", "in_progress"}}
Untouched(s)  == {i \in Issues : s[i] = "pending"}
IssuesLeft(s) == Cardinality(Undone(s)) + Cardinality(Untouched(s))

\* What of this iteration is decided is still right: the sprint is as it was read,
\* and the issue is one on which there is something to do.
Informed ==
    /\ pc \notin {"prepare", "branch"}
    /\ pc \in {"select", "selecting", "setup"} => loaded = sprint
    /\ pc = "selecting" => \A i \in Issues : Names(file, i) => i \in Undone(sprint)
    /\ pc \in Working => issue \in Undone(sprint)
    /\ pc \in {"mark", "save"} => target # "pending"
    /\ pc \in {"mark", "save"} /\ target = "in_progress" => issue \in Untouched(sprint)
    /\ pc = "save" => copy = sprint

\* Disturbances to come, and what is left to do of a tool call.
TroubleLeft ==
    3 * (MaxDisturbances - (faults + tool_calls))
        + CASE tool.phase = "none" -> 0 [] tool.phase = "read" -> 1 [] OTHER -> 2

\* Marks to be set; an iteration that was overtaken may undo all of them, once.
MarksLeft == CASE ~Engine            -> 0
               [] Engine /\ Informed  -> IssuesLeft(sprint)
               [] Engine /\ ~Informed -> 2 * Cardinality(Issues) + 1

PlacesLeft ==
    CASE pc = "idle"   -> 0  [] pc = "save"      -> 1 [] pc = "mark"   -> 2
      [] pc = "engine" -> 3  [] pc = "write"     -> 4 [] pc = "setup"  -> 5
      [] pc = "selecting" -> 6 [] pc = "select"  -> 7 [] pc = "loop"   -> 8
      [] pc = "clear"  -> 9  [] pc = "branch"    -> 10 [] pc = "prepare" -> 11

Nearer == \/ TroubleLeft' < TroubleLeft
          \/ TroubleLeft' = TroubleLeft /\ MarksLeft' < MarksLeft
          \/ /\ TroubleLeft' = TroubleLeft /\ MarksLeft' = MarksLeft
             /\ PlacesLeft' < PlacesLeft

AsNear == UNCHANGED <<TroubleLeft, MarksLeft, PlacesLeft>>

\* Each step of the loop comes nearer to the end of the process, in the order of
\* these three numbers, and nothing but a new process leads away from it.
SprintRunsOut ==
    /\ TroubleLeft \in Nat /\ MarksLeft \in Nat /\ PlacesLeft \in Nat
    /\ Run /\ strayed' = {} => Nearer
    /\ ~Start /\ strayed' = {} => Nearer \/ AsNear

DisturbInv == faults + tool_calls <= MaxDisturbances

LEMMA DisturbStep ==
    ASSUME TypeInv, DisturbInv, [Next]_vars
    PROVE  DisturbInv'
  <1>1. faults \in Nat /\ tool_calls \in Nat /\ MaxDisturbances \in Nat
    BY BoundsAssumption DEF TypeInv, TypeOK
  <1>2. \/ UNCHANGED <<faults, tool_calls>>
        \/ Fault /\ UNCHANGED tool_calls
        \/ ToolCall /\ UNCHANGED faults
    BY DEF Next, Run, Tools, Start, Prepare, WriteBranch, StopAtLimit, Reload,
       ResumeInProgressIssue, ContinuePendingIssue, NoIssues, OnlyOneIssue, AskAgent,
       AgentSelects, AgentFails, Setup, WriteContext, MarkRead, MarkSave, IssueCompleted,
       IssueMaxIterations, IssueFailed, ClearFile, AgentWritesFile, EngineSaves, Crash,
       ToolStartIssue, ToolRead, ToolWrite, ToolInitIssue, ResetCurrentIssue, NoFault,
       bounds, vars
  <1> QED BY <1>1, <1>2 DEF DisturbInv, Fault, ToolCall, Disturbed

\* The sets that are counted are finite.
LEMMA Counts ==
    ASSUME NEW s
    PROVE  /\ IsFiniteSet(Undone(s)) /\ IsFiniteSet(Untouched(s))
           /\ Cardinality(Undone(s)) \in Nat /\ Cardinality(Untouched(s)) \in Nat
           /\ IssuesLeft(s) \in Nat /\ Cardinality(Issues) \in Nat
           /\ IssuesLeft(s) < 2 * Cardinality(Issues) + 1
  <1>1. Undone(s) \in SUBSET Issues /\ Untouched(s) \in SUBSET Issues
    BY DEF Undone, Untouched
  <1>2. /\ IsFiniteSet(Undone(s)) /\ Cardinality(Undone(s)) <= Cardinality(Issues)
        /\ IsFiniteSet(Untouched(s)) /\ Cardinality(Untouched(s)) <= Cardinality(Issues)
    BY <1>1, IssuesAssumption, FS_Subset
  <1>3. /\ Cardinality(Issues) \in Nat
        /\ Cardinality(Undone(s)) \in Nat /\ Cardinality(Untouched(s)) \in Nat
    BY <1>2, IssuesAssumption, FS_CardinalityType
  <1> QED BY <1>2, <1>3 DEF IssuesLeft

\* A mark that is due leaves fewer to be set.
LEMMA Marking ==
    ASSUME NEW s \in Statuses, NEW i \in Undone(s), NEW status \in IssueStatus,
           status # "pending", status = "in_progress" => i \in Untouched(s)
    PROVE  IssuesLeft([s EXCEPT ![i] = status]) < IssuesLeft(s)
  <1> DEFINE t == [s EXCEPT ![i] = status]
  <1>1. /\ i \in Issues /\ t[i] = status
        /\ \A j \in Issues : j # i => t[j] = s[j]
    BY DEF Undone, Statuses
  <1> HIDE DEF t
  <1>2. CASE status = "in_progress"
    <2>1. Undone(t) = Undone(s)
      BY <1>1, <1>2 DEF Undone
    <2>2. Untouched(t) = Untouched(s) \ {i}
      BY <1>1, <1>2 DEF Untouched
    <2>3. Cardinality(Untouched(t)) = Cardinality(Untouched(s)) - 1
      BY <1>2, <2>2, Counts, FS_RemoveElement
    <2> QED BY <2>1, <2>3, Counts DEF IssuesLeft, t
  <1>3. CASE status # "in_progress"
    <2>1. Undone(t) = Undone(s) \ {i}
      BY <1>1, <1>3 DEF Undone
    <2>2. Untouched(t) \in SUBSET Untouched(s)
      BY <1>1 DEF Untouched
    <2>3. Cardinality(Undone(t)) = Cardinality(Undone(s)) - 1
      BY <2>1, Counts, FS_RemoveElement
    <2>4. Cardinality(Untouched(t)) <= Cardinality(Untouched(s))
      BY <2>2, Counts, FS_Subset
    <2>5. /\ Cardinality(Undone(s)) \in Nat /\ Cardinality(Untouched(s)) \in Nat
          /\ Cardinality(Untouched(t)) \in Nat
      BY Counts
    <2> QED BY <2>3, <2>4, <2>5 DEF IssuesLeft, t
  <1> QED BY <1>2, <1>3

\* The three numbers are numbers.
LEMMA Numbers ==
    ASSUME TypeInv, DisturbInv
    PROVE  /\ TroubleLeft \in Nat /\ MarksLeft \in Nat /\ PlacesLeft \in Nat
           /\ MarksLeft <= 2 * Cardinality(Issues) + 1
  <1>1. faults \in Nat /\ tool_calls \in Nat /\ MaxDisturbances \in Nat
    BY BoundsAssumption DEF TypeInv, TypeOK
  <1>2. pc \in PC
    BY DEF TypeInv, TypeOK
  <1>3. TroubleLeft \in Nat
    BY <1>1 DEF TroubleLeft, DisturbInv
  <1>4. MarksLeft \in Nat /\ MarksLeft <= 2 * Cardinality(Issues) + 1
    BY Counts DEF MarksLeft
  <1>5. PlacesLeft \in Nat
    BY <1>2 DEF PlacesLeft, PC
  <1> QED BY <1>3, <1>4, <1>5

\* A failing read or write, or a step of a tool.
LEMMA Disturbing ==
    ASSUME TypeInv, DisturbInv,
           \/ Fault /\ UNCHANGED <<tool, tool_calls>>
           \/ /\ ToolCall /\ UNCHANGED faults
              /\ tool' = tool \/ tool.phase = "none"
           \/ /\ UNCHANGED <<faults, tool_calls>>
              /\ \/ tool.phase = "checked" /\ tool'.phase = "read"
                 \/ tool.phase = "read" /\ tool'.phase = "none"
    PROVE  TroubleLeft' < TroubleLeft
  <1>1. faults \in Nat /\ tool_calls \in Nat /\ MaxDisturbances \in Nat
    BY BoundsAssumption DEF TypeInv, TypeOK
  <1> DEFINE Rest(t) == CASE t.phase = "none" -> 0 [] t.phase = "read" -> 1 [] OTHER -> 2
  <1>2. /\ TroubleLeft = 3 * (MaxDisturbances - (faults + tool_calls)) + Rest(tool)
        /\ TroubleLeft' = 3 * (MaxDisturbances - (faults' + tool_calls')) + Rest(tool')
    BY DEF TroubleLeft
  <1>3. Rest(tool) \in 0 .. 2 /\ Rest(tool') \in 0 .. 2
    OBVIOUS
  <1>4. CASE Fault /\ UNCHANGED <<tool, tool_calls>>
    BY <1>1, <1>2, <1>3, <1>4 DEF Fault
  <1>5. CASE ToolCall /\ UNCHANGED faults
    BY <1>1, <1>2, <1>3, <1>5 DEF ToolCall
  <1>6. CASE /\ UNCHANGED <<faults, tool_calls>>
             /\ \/ tool.phase = "checked" /\ tool'.phase = "read"
                \/ tool.phase = "read" /\ tool'.phase = "none"
    <2>1. Rest(tool') < Rest(tool)
      BY <1>6
    <2> HIDE DEF Rest
    <2> QED BY <1>1, <1>2, <1>3, <1>6, <2>1
  <1> QED BY <1>4, <1>5, <1>6

\* Nothing was disturbed.
Undisturbing == UNCHANGED <<tool, faults, tool_calls>>

\* The process ends.
LEMMA Ending ==
    ASSUME TypeInv, DisturbInv, Undisturbing, Engine, pc' = "idle"
    PROVE  Nearer
  <1>1. TroubleLeft' = TroubleLeft
    BY DEF Undisturbing, TroubleLeft
  <1>2. MarksLeft' = 0 /\ PlacesLeft' = 0
    BY DEF MarksLeft, PlacesLeft, Engine
  <1>3. PlacesLeft # 0 /\ MarksLeft \in Nat /\ PlacesLeft \in Nat
    <2>1. pc \in PC \ {"idle"}
      BY DEF TypeInv, TypeOK, Engine
    <2>2. PlacesLeft # 0
      BY <2>1 DEF PlacesLeft, PC
    <2> QED BY <2>2, Numbers
  <1> QED BY <1>1, <1>2, <1>3 DEF Nearer

\* The iteration goes on, as well informed as before.
LEMMA GoingOn ==
    ASSUME TypeInv, DisturbInv, Undisturbing, UNCHANGED sprint,
           Engine, Engine', PlacesLeft' < PlacesLeft, Informed => Informed'
    PROVE  Nearer
  <1>1. TroubleLeft' = TroubleLeft
    BY DEF Undisturbing, TroubleLeft
  <1>2. MarksLeft' = MarksLeft \/ MarksLeft' < MarksLeft
    <2>1. CASE Informed
      <3>1. MarksLeft = IssuesLeft(sprint)
        BY <2>1 DEF MarksLeft
      <3>2. MarksLeft' = IssuesLeft(sprint)'
        BY <2>1 DEF MarksLeft
      <3> QED BY <3>1, <3>2 DEF IssuesLeft, Undone, Untouched
    <2>2. CASE ~Informed /\ Informed'
      <3>1. MarksLeft = 2 * Cardinality(Issues) + 1
        BY <2>2 DEF MarksLeft
      <3>2. MarksLeft' = IssuesLeft(sprint')
        BY <2>2 DEF MarksLeft, IssuesLeft, Undone, Untouched
      <3> QED BY <3>1, <3>2, Counts
    <2>3. CASE ~Informed /\ ~Informed'
      BY <2>3 DEF MarksLeft
    <2> QED BY <2>1, <2>2, <2>3
  <1> QED BY <1>1, <1>2 DEF Nearer

\* Marks have been set, or what a stale copy undid is known.
LEMMA MarkSet ==
    ASSUME TypeInv, DisturbInv, Undisturbing, Engine, Engine', Informed',
           Informed => IssuesLeft(sprint') < IssuesLeft(sprint)
    PROVE  Nearer
  <1>1. TroubleLeft' = TroubleLeft
    BY DEF Undisturbing, TroubleLeft
  <1>2. MarksLeft' = IssuesLeft(sprint')
    BY DEF MarksLeft, IssuesLeft, Undone, Untouched
  <1>3. MarksLeft = IF Informed THEN IssuesLeft(sprint) ELSE 2 * Cardinality(Issues) + 1
    BY DEF MarksLeft
  <1>4. MarksLeft' < MarksLeft
    BY <1>2, <1>3, Counts
  <1> QED BY <1>1, <1>4 DEF Nearer

\* A failing read or write brings the end nearer, whatever else it does.
LEMMA Failing ==
    ASSUME TypeInv, DisturbInv, Fault, UNCHANGED <<tool, tool_calls>>
    PROVE  Nearer
  BY Disturbing DEF Nearer

\* An issue is selected.
LEMMA Selecting ==
    ASSUME TypeInv, DisturbInv, Undisturbing, UNCHANGED sprint,
           pc \in {"select", "selecting"}, NEW i, Select(i),
           Informed => i \in Undone(sprint)
    PROVE  Nearer
  <1>1. pc' = "setup" /\ issue' = i /\ loaded' = loaded
    BY DEF Select, Goto
  <1>2. Engine /\ Engine' /\ PlacesLeft' < PlacesLeft
    BY <1>1 DEF Engine, PlacesLeft
  <1>3. Informed => Informed'
    BY <1>1 DEF Informed, Working, Undone
  <1> QED BY <1>2, <1>3, GoingOn

\* The loop stays where it is.
LEMMA Staying ==
    ASSUME TypeInv, DisturbInv, Undisturbing, UNCHANGED <<sprint, pc>>,
           Informed => Informed'
    PROVE  Nearer \/ AsNear
  <1>1. TroubleLeft' = TroubleLeft /\ PlacesLeft' = PlacesLeft
    BY DEF Undisturbing, TroubleLeft, PlacesLeft
  <1>2. IssuesLeft(sprint)' = IssuesLeft(sprint)
    BY DEF IssuesLeft, Undone, Untouched
  <1>3. CASE Informed <=> Informed'
    <2>1. MarksLeft' = MarksLeft
      BY <1>2, <1>3 DEF MarksLeft, Engine
    <2> QED BY <1>1, <2>1 DEF AsNear
  <1>4. CASE Engine /\ ~Informed /\ Informed'
    <2>1. /\ MarksLeft = 2 * Cardinality(Issues) + 1
          /\ MarksLeft' = IssuesLeft(sprint)
      BY <1>2, <1>4 DEF MarksLeft, Engine
    <2> QED BY <1>1, <2>1, Counts DEF Nearer
  <1>5. CASE ~Engine
    <2>1. MarksLeft' = 0 /\ MarksLeft = 0
      BY <1>5 DEF MarksLeft, Engine
    <2> QED BY <1>1, <2>1 DEF AsNear
  <1> QED BY <1>3, <1>4, <1>5

\* Where mark_issue_status returns to, and what is known there.
LEMMA MarkReturned ==
    ASSUME TypeInv, pc \in {"mark", "save"}, MarkReturns
    PROVE  /\ pc' \in {"write", "engine", "clear", "loop"}
           /\ pc' \in {"write", "engine"} => target = "in_progress" /\ issue' = issue
  BY DEF MarkReturns, Goto, NextIteration

\* The steps of mark_issue_status.
LEMMA MarkNears ==
    ASSUME TypeInv, DisturbInv, MarkRead \/ MarkSave
    PROVE  Nearer
  <1>1. issue \in Issues /\ sprint \in Statuses /\ target \in IssueStatus
    BY DEF TypeInv, TypeOK, Working, MarkRead, MarkSave
  <1>2. CASE Fault
    BY <1>2, Failing DEF MarkRead, MarkSave
  <1>3. CASE MarkRead /\ ~Fault
    <2>1. /\ pc = "mark" /\ pc' = "save" /\ copy' = sprint
          /\ UNCHANGED <<sprint, issue, target>> /\ Undisturbing
      BY <1>3 DEF MarkRead, Goto, NoFault, Undisturbing
    <2>2. Engine /\ Engine' /\ PlacesLeft' < PlacesLeft
      BY <2>1 DEF Engine, PlacesLeft
    <2>3. Informed => Informed'
      BY <2>1 DEF Informed, Working, Undone, Untouched
    <2> QED BY <2>1, <2>2, <2>3, GoingOn
  <1>4. CASE MarkSave /\ ~Fault
    <2>1. /\ pc = "save" /\ MarkReturns /\ Undisturbing
          /\ sprint' = [copy EXCEPT ![issue] = target]
      BY <1>4 DEF MarkSave, NoFault, Undisturbing
    <2>2. /\ pc' \in {"write", "engine", "clear", "loop"}
          /\ pc' \in {"write", "engine"} => target = "in_progress" /\ issue' = issue
      BY <2>1, MarkReturned
    <2>3. pc' \in {"write", "engine"} => issue' \in Undone(sprint')
      <3>1. copy \in Statuses
        BY DEF TypeInv, TypeOK
      <3>2. sprint'[issue] = target
        BY <1>1, <2>1, <3>1, MarkedStatus
      <3> QED BY <1>1, <2>2, <3>2 DEF Undone
    <2>4. Engine /\ Engine' /\ Informed'
      BY <2>1, <2>2, <2>3 DEF Engine, Informed, Working, Undone
    <2>5. Informed => IssuesLeft(sprint') < IssuesLeft(sprint)
      <3> SUFFICES ASSUME Informed
                   PROVE  IssuesLeft(sprint') < IssuesLeft(sprint)
        OBVIOUS
      <3>1. /\ issue \in Undone(sprint) /\ target # "pending" /\ copy = sprint
            /\ target = "in_progress" => issue \in Untouched(sprint)
        BY <2>1 DEF Informed, Working
      <3> QED BY <1>1, <2>1, <3>1, Marking
    <2> QED BY <2>1, <2>4, <2>5, MarkSet
  <1> QED BY <1>2, <1>3, <1>4

\* The steps that choose an issue.
LEMMA SelectNears ==
    ASSUME TypeInv, DisturbInv, strayed' = {},
           \/ ResumeInProgressIssue \/ ContinuePendingIssue \/ NoIssues \/ OnlyOneIssue
           \/ AskAgent \/ AgentSelects \/ AgentFails
    PROVE  Nearer
  <1>1. pc \in {"select", "selecting"} /\ Informed => loaded = sprint
    BY DEF Informed
  <1>2. \A i \in Available(loaded) : i \in Undone(loaded)
    BY DEF Available, Undone
  <1>3. CASE ResumeInProgressIssue
    <2>1. ToResume \in Undone(loaded)
      BY <1>3, ToResumeIn DEF ResumeInProgressIssue, Resumable, InProgress, Undone
    <2> QED BY <1>1, <1>3, <2>1, Selecting
            DEF ResumeInProgressIssue, bounds, Undisturbing
  <1>4. CASE ContinuePendingIssue
    <2>1. PICK i \in Continuable : Select(i)
      BY <1>4 DEF ContinuePendingIssue
    <2>2. i \in Undone(loaded)
      BY <2>1 DEF Continuable, Undone
    <2> QED BY <1>1, <1>4, <2>1, <2>2, Selecting
            DEF ContinuePendingIssue, bounds, Undisturbing
  <1>5. CASE NoIssues
    BY <1>5, Ending DEF NoIssues, Choosing, Exit, bounds, Undisturbing, Engine
  <1>6. CASE OnlyOneIssue
    <2>1. PICK i \in Available(loaded) : Select(i)
      BY <1>6 DEF OnlyOneIssue
    <2> QED BY <1>1, <1>2, <1>6, <2>1, Selecting
            DEF OnlyOneIssue, Choosing, bounds, Undisturbing
  <1>7. CASE AskAgent /\ Fault
    BY <1>7, Failing DEF AskAgent
  <1>8. CASE AskAgent /\ ~Fault
    <2>1. /\ pc = "select" /\ pc' = "selecting" /\ file' = ContextFor(NoIssue)
          /\ UNCHANGED <<sprint, loaded>> /\ Undisturbing
      BY <1>8 DEF AskAgent, Choosing, Goto, NoFault, Undisturbing, memory
    <2>2. Engine /\ Engine' /\ PlacesLeft' < PlacesLeft
      BY <2>1 DEF Engine, PlacesLeft
    <2>3. \A i \in Issues : ~Names(file', i)
      BY <2>1, IssuesAssumption DEF Names, ContextFor
    <2>4. Informed => Informed'
      BY <2>1, <2>3 DEF Informed, Working, Names
    <2> QED BY <2>1, <2>2, <2>4, GoingOn
  <1>9. CASE AgentSelects
    <2>1. PICK i \in Issues : /\ Named => Names(file, i)
                              /\ Select(i)
                              /\ strayed' = IF Named THEN strayed
                                            ELSE strayed \cup ({i} \ Available(loaded))
      BY <1>9 DEF AgentSelects
    <2>2. pc = "selecting"
      BY <1>9 DEF AgentSelects
    <2>3. Informed => i \in Undone(sprint)
      <3>1. CASE Named
        BY <2>1, <2>2, <3>1 DEF Informed
      <3>2. CASE ~Named
        <4>1. i \in Available(loaded)
          BY <2>1, <3>2
        <4> QED BY <1>1, <1>2, <2>2, <4>1
      <3> QED BY <3>1, <3>2
    <2> QED BY <1>9, <2>1, <2>3, Selecting DEF AgentSelects, bounds, Undisturbing
  <1>10. CASE AgentFails
    <2>1. Highest(Available(loaded)) \in Available(loaded)
      BY <1>10, AvailableIn DEF AgentFails, TypeInv
    <2> QED BY <1>1, <1>2, <1>10, <2>1, Selecting DEF AgentFails, bounds, Undisturbing
  <1> QED BY <1>3, <1>4, <1>5, <1>6, <1>7, <1>8, <1>9, <1>10

\* Every step the process takes by itself.
LEMMA RunNears ==
    ASSUME TypeInv, DisturbInv, strayed' = {}, Run
    PROVE  Nearer
  <1>1. CASE Prepare
    <2>1. CASE Fault
      BY <1>1, <2>1, Failing DEF Prepare
    <2>2. CASE ~Fault
      <3>1. /\ pc = "prepare" /\ pc' \in {"loop", "branch"} /\ Undisturbing
            /\ UNCHANGED sprint
        BY <1>1, <2>2 DEF Prepare, Goto, NoFault, Undisturbing
      <3>2. /\ Engine /\ Engine' /\ PlacesLeft' < PlacesLeft /\ ~Informed
        BY <3>1 DEF Engine, PlacesLeft, Informed
      <3> QED BY <3>1, <3>2, GoingOn
    <2> QED BY <2>1, <2>2
  <1>2. CASE WriteBranch
    <2>1. CASE Fault
      BY <1>2, <2>1, Failing DEF WriteBranch
    <2>2. CASE ~Fault
      <3>1. pc = "branch" /\ pc' = "loop" /\ Undisturbing
        BY <1>2, <2>2 DEF WriteBranch, NextIteration, Goto, NoFault, Undisturbing
      <3>2. Engine /\ Engine' /\ ~Informed /\ Informed'
        BY <3>1 DEF Engine, Informed, Working
      <3> QED BY <3>1, <3>2, MarkSet
    <2> QED BY <2>1, <2>2
  <1>3. CASE StopAtLimit
    BY <1>3, Ending DEF StopAtLimit, Exit, bounds, Undisturbing, Engine
  <1>4. CASE Reload
    <2>1. CASE Fault
      BY <1>4, <2>1, Failing DEF Reload
    <2>2. CASE Exit("completed") /\ NoFault
      BY <1>4, <2>2, Ending DEF Reload, Exit, NoFault, Undisturbing, Engine
    <2>3. CASE Goto("select") /\ NoFault /\ loaded' = sprint
      <3>1. pc = "loop" /\ pc' = "select" /\ Undisturbing /\ UNCHANGED sprint
        BY <1>4, <2>3 DEF Reload, Goto, NoFault, Undisturbing
      <3>2. Engine /\ Engine' /\ PlacesLeft' < PlacesLeft
        BY <3>1 DEF Engine, PlacesLeft
      <3>3. Informed'
        BY <2>3, <3>1 DEF Informed, Working
      <3> QED BY <3>1, <3>2, <3>3, GoingOn
    <2> QED BY <1>4, <2>1, <2>2, <2>3 DEF Reload
  <1>5. CASE \/ ResumeInProgressIssue \/ ContinuePendingIssue \/ NoIssues
             \/ OnlyOneIssue \/ AskAgent \/ AgentSelects \/ AgentFails
    BY <1>5, SelectNears
  <1>6. CASE Setup
    <2>1. /\ pc = "setup" /\ pc' \in {"mark", "engine", "write"}
          /\ pc' = "mark" => loaded[issue] # "in_progress"
          /\ target' = "in_progress" /\ UNCHANGED <<sprint, issue>> /\ Undisturbing
      BY <1>6 DEF Setup, Goto, bounds, Undisturbing
    <2>2. Engine /\ Engine' /\ PlacesLeft' < PlacesLeft
      BY <2>1 DEF Engine, PlacesLeft
    <2>3. Informed => Informed'
      BY <2>1 DEF Informed, Working, Undone, Untouched
    <2> QED BY <2>1, <2>2, <2>3, GoingOn
  <1>7. CASE WriteContext
    <2>1. CASE Fault
      BY <1>7, <2>1, Failing DEF WriteContext
    <2>2. CASE ~Fault
      <3>1. /\ pc = "write" /\ pc' = "engine" /\ Undisturbing
            /\ UNCHANGED <<sprint, issue>>
        BY <1>7, <2>2 DEF WriteContext, Goto, NoFault, Undisturbing, memory
      <3>2. Engine /\ Engine' /\ PlacesLeft' < PlacesLeft
        BY <3>1 DEF Engine, PlacesLeft
      <3>3. Informed => Informed'
        BY <3>1 DEF Informed, Working, Undone
      <3> QED BY <3>1, <3>2, <3>3, GoingOn
    <2> QED BY <2>1, <2>2
  <1>8. CASE MarkRead \/ MarkSave
    BY <1>8, MarkNears
  <1>9. CASE IssueCompleted \/ IssueMaxIterations
    <2>1. /\ pc = "engine" /\ pc' = "mark" /\ target' \in {"completed", "blocked"}
          /\ UNCHANGED <<sprint, issue>> /\ Undisturbing
      BY <1>9 DEF IssueCompleted, IssueMaxIterations, Mark, Goto, bounds, Undisturbing
    <2>2. Engine /\ Engine' /\ PlacesLeft' < PlacesLeft
      BY <2>1 DEF Engine, PlacesLeft
    <2>3. Informed => Informed'
      BY <2>1 DEF Informed, Working, Undone
    <2> QED BY <2>1, <2>2, <2>3, GoingOn
  <1>10. CASE IssueFailed
    BY <1>10, Ending DEF IssueFailed, Exit, bounds, Undisturbing, Engine
  <1>11. CASE ClearFile
    <2>1. CASE Fault
      BY <1>11, <2>1, Failing DEF ClearFile
    <2>2. CASE ~Fault
      <3>1. pc = "clear" /\ pc' = "loop" /\ Undisturbing /\ UNCHANGED sprint
        BY <1>11, <2>2 DEF ClearFile, NextIteration, Goto, NoFault, Undisturbing
      <3>2. Engine /\ Engine' /\ PlacesLeft' < PlacesLeft /\ Informed'
        BY <3>1 DEF Engine, PlacesLeft, Informed, Working
      <3> QED BY <3>1, <3>2, GoingOn
    <2> QED BY <2>1, <2>2
  <1> QED BY <1>1, <1>2, <1>3, <1>4, <1>5, <1>6, <1>7, <1>8, <1>9, <1>10, <1>11 DEF Run

\* What happens around it: the agent, the inner loop, a kill, the tools.
LEMMA AroundNears ==
    ASSUME TypeInv, DisturbInv, strayed' = {},
           AgentWritesFile \/ EngineSaves \/ Crash \/ Tools \/ UNCHANGED vars
    PROVE  Nearer \/ AsNear
  <1>1. CASE AgentWritesFile
    <2>1. PICK i \in Issues : /\ file' = ContextFor(i)
                              /\ strayed' = strayed \cup ({i} \ Available(loaded))
      BY <1>1 DEF AgentWritesFile
    <2>2. /\ pc = "selecting" /\ UNCHANGED <<sprint, pc, loaded>> /\ Undisturbing
      BY <1>1 DEF AgentWritesFile, control, memory, bounds, Undisturbing
    <2>3. i \in Undone(loaded)
      BY <2>1 DEF Available, Undone
    <2>4. \A j \in Issues : Names(file', j) => j = i
      BY <2>1 DEF Names, ContextFor
    <2>5. Informed => Informed'
      BY <2>2, <2>3, <2>4 DEF Informed, Working, Names
    <2> QED BY <2>2, <2>5, Staying
  <1>2. CASE EngineSaves
    <2>1. /\ pc = "engine" /\ UNCHANGED <<sprint, pc, issue>> /\ Undisturbing
      BY <1>2 DEF EngineSaves, control, memory, bounds, Undisturbing
    <2>2. Informed => Informed'
      BY <2>1 DEF Informed, Working, Undone
    <2> QED BY <2>1, <2>2, Staying
  <1>3. CASE Crash
    BY <1>3, Ending DEF Crash, Exit, bounds, Undisturbing
  <1>4. CASE Tools
    <2>1. \/ /\ ToolCall /\ UNCHANGED faults
             /\ tool' = tool \/ tool.phase = "none"
          \/ /\ UNCHANGED <<faults, tool_calls>>
             /\ \/ tool.phase = "checked" /\ tool'.phase = "read"
                \/ tool.phase = "read" /\ tool'.phase = "none"
      <3>1. CASE ToolStartIssue \/ ToolInitIssue \/ ResetCurrentIssue
        BY <3>1 DEF ToolStartIssue, ToolInitIssue, ResetCurrentIssue
      <3>2. CASE ToolRead
        <4>1. tool \in Tool /\ sprint \in Statuses
          BY DEF TypeInv, TypeOK
        <4> QED BY <3>2, <4>1, ReadingTool DEF ToolRead, bounds
      <3>3. CASE ToolWrite
        BY <3>3, Values DEF ToolWrite, bounds
      <3> QED BY <1>4, <3>1, <3>2, <3>3 DEF Tools
    <2> QED BY <2>1, Disturbing DEF Nearer
  <1>5. CASE UNCHANGED vars
    <2>1. /\ UNCHANGED <<sprint, pc, loaded, file, issue, target, copy>>
          /\ Undisturbing
      BY <1>5 DEF vars, control, memory, bounds, Undisturbing
    <2>2. Informed => Informed'
      BY <2>1 DEF Informed, Working, Undone, Untouched, Names
    <2> QED BY <2>1, <2>2, Staying
  <1> QED BY <1>1, <1>2, <1>3, <1>4, <1>5

\* The part of SprintReturns that is about states and steps: while the agent
\* keeps to what is on offer, every step of SprintEngine.run leads to its end.
THEOREM SprintEnds == Spec => [][SprintRunsOut]_vars
  <1> DEFINE I == TypeInv /\ DisturbInv
  <1>1. Init => I
    <2>1. Init => DisturbInv
      <3>1. MaxDisturbances \in Nat
        BY BoundsAssumption
      <3>2. Init => faults = 0 /\ tool_calls = 0
        BY DEF Init
      <3> QED BY <3>1, <3>2 DEF DisturbInv
    <2> QED BY <2>1, TypeInit
  <1>2. I /\ [Next]_vars => I'
    BY TypeStep, DisturbStep
  <1>3. I /\ [Next]_vars => SprintRunsOut
    <2> SUFFICES ASSUME TypeInv, DisturbInv, [Next]_vars
                 PROVE  SprintRunsOut
      OBVIOUS
    <2>1. TroubleLeft \in Nat /\ MarksLeft \in Nat /\ PlacesLeft \in Nat
      BY Numbers
    <2>2. Run /\ strayed' = {} => Nearer
      BY RunNears
    <2>3. ~Start /\ strayed' = {} => Nearer \/ AsNear
      BY <2>2, AroundNears DEF Next
    <2> QED BY <2>1, <2>2, <2>3 DEF SprintRunsOut
  <1> QED BY <1>1, <1>2, <1>3, PTL DEF Spec

=============================================================================
