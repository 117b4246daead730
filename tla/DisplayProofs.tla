---------------------------- MODULE DisplayProofs ----------------------------
(***************************************************************************)
(* Theorems about Display, for every sprint and any number of processes.     *)
(***************************************************************************)
EXTENDS Display, SprintLoopProofs

\* The throbber spins, and the log has a step, for a session or for one whose end no
\* event told; a step kept over the end of a run goes with the next start.
IInv ==
    /\ ThrobberMeansWork
    /\ log_step => session \/ unsaid \/ pc = "idle"

\* Nothing begins in a process that is not there but a new one.
LEMMA FromIdle == ASSUME Next, pc = "idle" PROVE pc' \in {"idle", "prepare"}
<1>1. ~Run
  BY DEF Run, Prepare, WriteBranch, StopAtLimit, Reload, ResumeInProgressIssue,
         ContinuePendingIssue, NoIssues, OnlyOneIssue, Choosing, AskAgent, AgentSelects,
         AgentFails, Setup, WriteContext, MarkRead, MarkSave, IssueCompleted,
         IssueMaxIterations, IssueFailed, ClearFile
<1>2. ~AgentWritesFile /\ ~EngineSaves /\ ~Crash
  BY DEF AgentWritesFile, EngineSaves, Crash, Engine
<1>3. Tools => pc' = pc
  BY DEF Tools, ToolStartIssue, ToolRead, ToolWrite, ToolInitIssue, ResetCurrentIssue,
         control
<1> QED BY <1>1, <1>2, <1>3 DEF Next, Start

LEMMA SprintSteps == ASSUME IInv, Next, Handled PROVE IInv'
<1> USE DEF IInv, ThrobberMeansWork
<1>1. pc = "idle" => pc' \in {"idle", "prepare"}
  BY FromIdle
<1>2. CASE OnStart
  BY <1>2 DEF OnStart, Log!SetSprintInfo
<1>3. CASE SprintStarted \/ SprintIteration \/ IssueStarted \/ Quiet
  <2>1. UNCHANGED <<throbber, log_step, session, unsaid>>
    BY <1>3 DEF SprintStarted, SprintIteration, IssueStarted, Quiet, Log!Writes, Log!log,
                display, log
  <2>2. pc = "idle" => pc' = "idle"
    BY <1>1, <1>3 DEF SprintStarted, SprintIteration, IssueStarted, Quiet
  <2> QED BY <2>1, <2>2
<1>4. CASE IssueIsCompleted \/ IssueIsBlocked
  BY <1>4 DEF IssueIsCompleted, IssueIsBlocked, Log!OnIssueComplete, log
<1>5. CASE OnReturn
  BY <1>5 DEF OnReturn, Log!Exit, Log!Stop
<1> QED BY <1>2, <1>3, <1>4, <1>5 DEF Handled

LEMMA SessionSteps == ASSUME IInv, Sessions PROVE IInv'
<1> USE DEF IInv, ThrobberMeansWork, vars, control
<1>1. CASE StepStarted
  BY <1>1 DEF StepStarted
<1>2. CASE SubprocessOutput
  BY <1>2 DEF SubprocessOutput, Log!OnSubprocessOutput, Log!Start, Log!Stop
<1>3. CASE StepCompleted
  BY <1>3 DEF StepCompleted, Log!OnStepComplete, Log!Stop
<1>4. CASE StepHasFailed
  BY <1>4 DEF StepHasFailed
<1>5. CASE StepSkipped
  BY <1>5 DEF StepSkipped, Log!OnStepSkip, Log!Stop
<1>6. CASE SessionEndsUnsaid
  BY <1>6 DEF SessionEndsUnsaid
<1> QED BY <1>1, <1>2, <1>3, <1>4, <1>5, <1>6 DEF Sessions

\* SimpleLogsOutput: the throbber spins only while a session runs, or after one that
\* failed or of whose end no event told.
THEOREM Throbber == DisplaySpec => []ThrobberMeansWork
<1>1. DisplayInit => IInv
  BY DEF DisplayInit, NothingShown, IInv, ThrobberMeansWork
<1>2. IInv /\ [DisplayNext]_allvars => IInv'
  <2>1. UNCHANGED allvars /\ IInv => IInv'
    BY DEF allvars, vars, control, display, log, IInv, ThrobberMeansWork
  <2> QED BY <2>1, SprintSteps, SessionSteps DEF DisplayNext
<1>3. IInv => ThrobberMeansWork
  BY DEF IInv
<1> QED BY <1>1, <1>2, <1>3, PTL DEF DisplaySpec

-----------------------------------------------------------------------------
(* What the loop does, as far as the displays depend on it.                 *)

SprintInv == TypeInv /\ OneInv /\ FinalInv /\ ReworkInv

LEMMA SprintStep == ASSUME SprintInv, [Next]_vars PROVE SprintInv'
BY TypeStep, OneStep, FinalStep, ReworkStep DEF SprintInv

\* A failing write, a tool call and a stray choice are remembered.
LEMMA StillFaultFree == ASSUME TypeOK, [Next]_vars, FaultFree' PROVE FaultFree
<1>1. faults' \in {faults, faults + 1} /\ tool_calls' \in {tool_calls, tool_calls + 1}
      /\ strayed \subseteq strayed'
  <2>1. CASE Start \/ UNCHANGED vars
    BY <2>1 DEF Start, vars, bounds, history
  <2>2. CASE Prepare \/ WriteBranch \/ StopAtLimit \/ Reload
    BY <2>2 DEF Prepare, WriteBranch, StopAtLimit, Reload, Fault, NoFault, bounds, history
  <2>3. CASE \/ ResumeInProgressIssue \/ ContinuePendingIssue \/ NoIssues \/ OnlyOneIssue
             \/ AskAgent \/ AgentFails
    BY <2>3 DEF ResumeInProgressIssue, ContinuePendingIssue, NoIssues, OnlyOneIssue,
                AskAgent, AgentFails, Fault, NoFault, bounds, history
  <2>4. CASE AgentSelects \/ AgentWritesFile
    BY <2>4 DEF AgentSelects, AgentWritesFile, bounds
  <2>5. CASE Setup \/ WriteContext \/ MarkRead \/ MarkSave \/ ClearFile
    BY <2>5 DEF Setup, WriteContext, MarkRead, MarkSave, ClearFile, Fault, NoFault,
                bounds, history
  <2>6. CASE IssueCompleted \/ IssueMaxIterations \/ IssueFailed \/ EngineSaves \/ Crash
    BY <2>6 DEF IssueCompleted, IssueMaxIterations, IssueFailed, EngineSaves, Crash,
                bounds, history
  <2>7. CASE Tools
    BY <2>7 DEF Tools, ToolStartIssue, ToolRead, ToolWrite, ToolInitIssue,
                ResetCurrentIssue, ToolCall, bounds, history
  <2> QED BY <2>1, <2>2, <2>3, <2>4, <2>5, <2>6, <2>7 DEF Next, Run
<1> QED BY <1>1 DEF FaultFree, Undisturbed, TypeOK

\* The places run() goes through while nothing fails.
Move ==
    \/ pc' = pc /\ UNCHANGED <<issue, target>>
    \/ pc' = "idle"
    \/ pc = "idle" /\ pc' = "prepare"
    \/ pc = "prepare" /\ pc' \in {"branch", "loop"}
    \/ pc = "branch" /\ pc' = "loop"
    \/ pc = "loop" /\ pc' = "select"
    \/ pc = "select" /\ pc' \in {"selecting", "setup"}
    \/ pc = "selecting" /\ pc' = "setup"
    \/ pc = "setup" /\ pc' = "mark" /\ issue' = issue /\ target' = "in_progress"
    \/ pc = "setup" /\ pc' \in {"write", "engine"} /\ issue' = issue
    \/ pc = "mark" /\ pc' = "save" /\ UNCHANGED <<issue, target>>
    \/ pc = "save" /\ target = "in_progress" /\ pc' \in {"write", "engine"}
                   /\ issue' = issue
    \/ pc = "save" /\ target = "completed" /\ pc' = "clear"
    \/ pc = "save" /\ target = "blocked" /\ pc' = "loop"
    \/ pc = "write" /\ pc' = "engine" /\ issue' = issue
    \/ pc = "engine" /\ pc' = "mark" /\ issue' = issue
                     /\ target' \in {"completed", "blocked"}
    \/ pc = "clear" /\ pc' = "loop"

LEMMA Moves == ASSUME SprintInv, [Next]_vars, FaultFree' PROVE Move
<1> USE DEF Move, Goto, Exit, memory, control
<1>0. FaultFree /\ ~Fault
  BY StillFaultFree DEF SprintInv, TypeInv, TypeOK, FaultFree, Fault
<1>1. CASE Start \/ UNCHANGED vars
  BY <1>1 DEF Start, vars
<1>2. CASE Prepare \/ WriteBranch \/ StopAtLimit \/ Reload
  BY <1>2 DEF Prepare, WriteBranch, StopAtLimit, Reload, NextIteration
<1>3. CASE ResumeInProgressIssue \/ ContinuePendingIssue \/ NoIssues \/ OnlyOneIssue
  BY <1>3 DEF ResumeInProgressIssue, ContinuePendingIssue, NoIssues, OnlyOneIssue,
              Choosing, Select
<1>4. CASE AskAgent \/ AgentFails \/ AgentSelects \/ AgentWritesFile
  BY <1>4 DEF AskAgent, AgentFails, AgentSelects, AgentWritesFile, Choosing, Select
<1>5. CASE Setup
  BY <1>5 DEF Setup
<1>6. CASE WriteContext
  BY <1>0, <1>6 DEF WriteContext
<1>7. CASE MarkRead
  BY <1>0, <1>7 DEF MarkRead
<1>8. CASE MarkSave
  <2>1. target \in {"in_progress", "completed", "blocked"}
    BY <1>0, <1>8 DEF MarkSave, SprintInv, TypeInv, TypeOK, IssueStatus, ReworkInv
  <2> QED BY <1>8, <2>1 DEF MarkSave, MarkReturns, NextIteration
<1>9. CASE IssueCompleted \/ IssueMaxIterations \/ IssueFailed
  BY <1>9 DEF IssueCompleted, IssueMaxIterations, IssueFailed, Mark
<1>10. CASE ClearFile
  BY <1>10 DEF ClearFile, NextIteration
<1>11. CASE EngineSaves \/ Crash
  BY <1>11 DEF EngineSaves, Crash
<1>12. CASE Tools
  BY <1>12 DEF Tools, ToolStartIssue, ToolRead, ToolWrite, ToolInitIssue,
               ResetCurrentIssue
<1> QED BY <1>1, <1>2, <1>3, <1>4, <1>5, <1>6, <1>7, <1>8, <1>9, <1>10, <1>11, <1>12
        DEF Next, Run

Marked == pc = "save" /\ pc' \notin {"save", "idle"}

\* A status changes where mark_issue_status writes it, and nowhere else.
LEMMA Written ==
    ASSUME SprintInv, [Next]_vars, FaultFree', pc' # "idle"
    PROVE  IF Marked THEN sprint' = [sprint EXCEPT ![issue] = target]
           ELSE UNCHANGED sprint
<1>0. FaultFree /\ ~Fault
  BY StillFaultFree DEF SprintInv, TypeInv, TypeOK, FaultFree, Fault
<1>1. CASE MarkSave
  <2>1. sprint' = [copy EXCEPT ![issue] = target] /\ copy = sprint
    BY <1>0, <1>1 DEF MarkSave, SprintInv, OneInv, FaultFree, Undisturbed
  <2>2. Marked
    BY <1>1 DEF MarkSave, MarkReturns, NextIteration, Goto, Marked
  <2> QED BY <2>1, <2>2
<1>2. CASE WriteBranch
  BY <1>0, <1>2 DEF WriteBranch, Marked, SprintInv, OneInv, FaultFree, Undisturbed
<1>3. CASE ToolWrite
  BY <1>0, <1>3 DEF ToolWrite, SprintInv, OneInv, FaultFree, Undisturbed
<1>4. CASE ~MarkSave /\ ~WriteBranch /\ ~ToolWrite
  <2>1. UNCHANGED sprint
    BY <1>4, SprintWrites
  <2>2. ~Marked
    <3>1. ASSUME pc = "save" PROVE pc' \in {"save", "idle"}
      BY <1>4, <3>1 DEF Next, Run, Tools, Start, Prepare, StopAtLimit, Reload,
         ResumeInProgressIssue, ContinuePendingIssue, NoIssues, OnlyOneIssue, Choosing,
         AskAgent, AgentSelects, AgentFails, AgentWritesFile, Setup, WriteContext, MarkRead,
         IssueCompleted, IssueMaxIterations, IssueFailed, ClearFile, EngineSaves, Crash,
         Exit, ToolStartIssue, ToolRead, ToolInitIssue, ResetCurrentIssue, control, vars
    <3> QED BY <3>1 DEF Marked
  <2> QED BY <2>1, <2>2
<1> QED BY <1>1, <1>2, <1>3, <1>4

-----------------------------------------------------------------------------
(* LogFollowsSprint.                                                        *)

Finished(s) == {i \in Issues : s[i] = "completed"}

\* The log has counted what sprint.json has as completed; one less between the
\* two steps that end an issue.
LogInv ==
    FaultFree =>
        /\ logged \in Nat
        /\ pc \notin {"idle", "clear"} => logged = Cardinality(Finished(sprint))
        /\ pc = "clear" => logged + 1 = Cardinality(Finished(sprint))

LEMMA CountOneMore ==
    ASSUME NEW s \in Statuses, NEW i \in Issues, NEW status \in IssueStatus,
           s[i] # "completed"
    PROVE  LET t == [s EXCEPT ![i] = status]
           IN  IF status = "completed"
               THEN Cardinality(Finished(t)) = Cardinality(Finished(s)) + 1
               ELSE Finished(t) = Finished(s)
<1> DEFINE t == [s EXCEPT ![i] = status]
<1>1. \A j \in Issues : t[j] = IF j = i THEN status ELSE s[j]
  BY DEF Statuses
<1>2. CASE status = "completed"
  <2>1. Finished(t) = Finished(s) \cup {i} /\ i \notin Finished(s)
    BY <1>1, <1>2 DEF Finished
  <2>2. IsFiniteSet(Finished(s))
    BY IssuesAssumption, FS_Subset DEF Finished
  <2> QED BY <1>2, <2>1, <2>2, FS_AddElement
<1>3. CASE status # "completed"
  BY <1>1, <1>3 DEF Finished
<1> QED BY <1>2, <1>3

LEMMA CountInNat == Cardinality(Finished(sprint)) \in Nat
<1>1. IsFiniteSet(Finished(sprint))
  BY IssuesAssumption, FS_Subset DEF Finished
<1> QED BY <1>1, FS_CardinalityType

\* What is counted before and after a status was written.
LEMMA CountWritten ==
    ASSUME SprintInv, [Next]_vars, FaultFree', Marked
    PROVE  /\ pc' = "clear" =>
                Cardinality(Finished(sprint')) = Cardinality(Finished(sprint)) + 1
           /\ pc' # "clear" => Finished(sprint') = Finished(sprint)
<1>0. FaultFree
  BY StillFaultFree DEF SprintInv, TypeInv
<1>1. sprint' = [sprint EXCEPT ![issue] = target]
  BY Written DEF Marked
<1>2. sprint \in Statuses /\ issue \in Issues /\ target \in IssueStatus
  BY DEF Marked, SprintInv, TypeInv, TypeOK, Working
<1>3. sprint[issue] # "completed"
  BY <1>0 DEF Marked, SprintInv, FinalInv, Unfinished, ReworkInv, Leaving, FaultFree
<1>4. pc' = "clear" <=> target = "completed"
  BY Moves DEF Move, Marked
<1> QED BY <1>1, <1>2, <1>3, <1>4, CountOneMore

LEMMA LogSprintStep ==
    ASSUME SprintInv, LogInv, Next, Handled PROVE LogInv'
<1> SUFFICES ASSUME FaultFree', pc' # "idle"
             PROVE  /\ logged' \in Nat
                    /\ pc' # "clear" => logged' = Cardinality(Finished(sprint'))
                    /\ pc' = "clear" => logged' + 1 = Cardinality(Finished(sprint'))
  <2>1. FaultFree' => logged' \in Nat
    <3>1. CASE OnStart
      BY <3>1, CountInNat DEF OnStart, Log!SetSprintInfo, Completed, Finished
    <3>2. CASE IssueIsCompleted
      BY <3>2, StillFaultFree DEF IssueIsCompleted, Log!OnIssueComplete, LogInv,
                                  SprintInv, TypeInv
    <3>3. CASE ~OnStart /\ ~IssueIsCompleted
      <4>1. UNCHANGED logged
        BY <3>3 DEF Handled, SprintStarted, SprintIteration, IssueStarted, IssueIsBlocked,
           OnReturn, Quiet, Log!Writes, Log!Exit, Log!log, log, display
      <4> QED BY <4>1, StillFaultFree DEF LogInv, SprintInv, TypeInv
    <3> QED BY <3>1, <3>2, <3>3
  <2> QED BY <2>1 DEF LogInv
<1>0. FaultFree /\ Move
  BY StillFaultFree, Moves DEF SprintInv, TypeInv
<1>1. CASE pc = "idle"
  <2>1. pc' = "prepare" /\ UNCHANGED sprint
    BY <1>0, <1>1, Written DEF Move, Marked
  <2>2. OnStart
    BY <1>1, <2>1 DEF Handled, SprintStarted, SprintIteration, IssueIsCompleted,
                      IssueIsBlocked, IssueStarted, OnReturn, Quiet
  <2> QED BY <2>1, <2>2, CountInNat DEF OnStart, Log!SetSprintInfo, Completed, Finished
<1>2. CASE pc = "clear" /\ pc' = "loop"
  <2>1. UNCHANGED sprint
    BY <1>2, Written DEF Marked
  <2>2. IssueIsCompleted
    BY <1>2 DEF Handled, OnStart, SprintStarted, SprintIteration, IssueStarted,
                IssueIsBlocked, OnReturn, Quiet
  <2> QED BY <1>0, <1>2, <2>1, <2>2 DEF LogInv, IssueIsCompleted, Log!OnIssueComplete
<1>3. CASE pc = "clear" /\ pc' # "loop"
  <2>1. pc' = "clear" /\ UNCHANGED sprint
    BY <1>0, <1>3, Written DEF Move, Marked
  <2>2. Quiet
    BY <1>3, <2>1 DEF Handled, OnStart, SprintStarted, SprintIteration, IssueStarted,
                      IssueIsCompleted, IssueIsBlocked, OnReturn
  <2> QED BY <1>0, <1>3, <2>1, <2>2 DEF LogInv, Quiet, display, log
<1>4. CASE pc \notin {"idle", "clear"}
  <2>1. UNCHANGED logged
    BY <1>4 DEF Handled, OnStart, SprintStarted, SprintIteration, IssueStarted,
                IssueIsCompleted, IssueIsBlocked, OnReturn, Quiet, Log!Writes, Log!Exit,
                Log!log, log, display
  <2>2. CASE Marked
    BY <1>0, <1>4, <2>1, <2>2, CountWritten, CountInNat DEF LogInv
  <2>3. CASE ~Marked
    <3>1. pc' # "clear"
      BY <1>0, <1>4, <2>3 DEF Move, Marked
    <3> QED BY <1>0, <1>4, <2>1, <2>3, <3>1, Written DEF LogInv
  <2> QED BY <2>2, <2>3
<1> QED BY <1>1, <1>2, <1>3, <1>4

LEMMA LogSessionStep == ASSUME LogInv, Sessions PROVE LogInv'
<1>1. UNCHANGED <<vars, logged>>
  BY DEF Sessions, StepStarted, SubprocessOutput, StepCompleted, StepHasFailed, StepSkipped,
         SessionEndsUnsaid, Log!OnStepStart, Log!OnSubprocessOutput, Log!OnStepComplete,
         Log!OnStepFailure, Log!OnStepSkip, log
<1> QED BY <1>1 DEF LogInv, FaultFree, Undisturbed, vars, control, bounds, history

\* SimpleLogsOutput counts completions for itself, and its count is that of
\* sprint.json whenever an issue is to be selected, after restarts and crashes too.
THEOREM LogFollows == DisplaySpec => []LogFollowsSprint
<1> DEFINE I == SprintInv /\ LogInv
<1>1. DisplayInit => I
  <2>1. DisplayInit => SprintInv
    BY TypeInit, OneInit, FinalInit, ReworkInit DEF DisplayInit, SprintInv
  <2>2. DisplayInit => LogInv
    BY DEF DisplayInit, NothingShown, Init, LogInv
  <2> QED BY <2>1, <2>2
<1>2. I /\ [DisplayNext]_allvars => I'
  <2> SUFFICES ASSUME I, [DisplayNext]_allvars PROVE I'
    OBVIOUS
  <2>1. CASE Next /\ Handled
    BY <2>1, SprintStep, LogSprintStep
  <2>2. CASE Sessions
    <3>1. UNCHANGED vars
      BY <2>2 DEF Sessions, StepStarted, SubprocessOutput, StepCompleted, StepHasFailed,
                  StepSkipped, SessionEndsUnsaid
    <3> QED BY <2>2, <3>1, SprintStep, LogSessionStep
  <2>3. CASE UNCHANGED allvars
    <3>1. UNCHANGED <<vars, logged>>
      BY <2>3 DEF allvars, display, log
    <3>2. LogInv'
      BY <3>1 DEF LogInv, FaultFree, Undisturbed, vars, control, bounds, history
    <3> QED BY <3>1, <3>2, SprintStep
  <2> QED BY <2>1, <2>2, <2>3 DEF DisplayNext
<1>3. I => LogFollowsSprint
  BY DEF LogInv, LogFollowsSprint, Alone, FaultFree, Undisturbed, Completed, Finished
<1> QED BY <1>1, <1>2, <1>3, PTL DEF DisplaySpec

-----------------------------------------------------------------------------
(* BoardFollowsSprint.                                                      *)

\* Before SPRINT_STARTED the board shows nothing of the sprint.
Shown == pc \notin {"idle", "prepare", "branch"}

\* The card that need not be where the sprint has its issue: that of the issue
\* being worked on, or of the one just completed.
Behind == IF pc \in {"mark", "save", "write", "engine"} THEN {issue}
          ELSE IF pc = "clear" THEN {current} ELSE {}

\* All other cards are in their places, and the active card is that of the issue
\* the inner loop works on.
BoardInv ==
    FaultFree =>
        /\ Shown => \A i \in Issues \ Behind : board[i] \in ShownAs(sprint[i])
        /\ Leaving => current = issue
        /\ pc = "clear" => current \in Issues /\ sprint[current] = "completed"
        /\ pc \notin {"idle", "clear"} /\ ~Leaving => current = NoIssue
        /\ pc = "select" => completed = Cardinality(Page!Column("completed"))

\* A board that follows the sprint has the same cards completed.
LEMMA SameCompleted ==
    ASSUME NEW s \in Statuses, \A i \in Issues : board[i] \in ShownAs(s[i])
    PROVE  Page!Column("completed") = Finished(s)
BY DEF Page!Column, Finished, ShownAs, Statuses

\* Which event belongs to which move.
LEMMA Emitted ==
    ASSUME Handled, pc' # "idle"
    PROVE  /\ pc = "idle" /\ pc' = "prepare" => OnStart
           /\ pc \in {"prepare", "branch"} /\ pc' = "loop" => SprintStarted
           /\ pc = "loop" /\ pc' = "select" => SprintIteration
           /\ pc # "engine" /\ pc' = "engine" => IssueStarted
           /\ pc = "clear" /\ pc' = "loop" => IssueIsCompleted
           /\ pc = "save" /\ pc' = "loop" => IssueIsBlocked
           /\ pc' \in {pc, "branch", "selecting", "setup", "mark", "save", "write", "clear"} =>
                UNCHANGED dashboard
BY DEF Handled, OnStart, SprintStarted, SprintIteration, IssueStarted, IssueIsCompleted,
       IssueIsBlocked, OnReturn, Quiet, display

\* A status is written for the issue that is worked on.
LEMMA OthersKept ==
    ASSUME SprintInv, [Next]_vars, FaultFree', pc' # "idle"
    PROVE  /\ \A i \in Issues : sprint'[i] = IF Marked /\ i = issue THEN target ELSE sprint[i]
           /\ Marked => issue \in Issues
<1>1. sprint \in Statuses
  BY DEF SprintInv, TypeInv, TypeOK
<1>2. Marked => issue \in Issues
  BY DEF Marked, SprintInv, TypeInv, Working
<1> QED BY <1>1, <1>2, Written DEF Statuses

LEMMA BoardSprintStep ==
    ASSUME SprintInv, BoardInv, Next, Handled PROVE BoardInv'
<1> SUFFICES ASSUME FaultFree', pc' # "idle" PROVE BoardInv'
  BY DEF BoardInv, Shown, Leaving
<1>0. FaultFree /\ Move
  BY StillFaultFree, Moves DEF SprintInv, TypeInv
<1>t. sprint \in Statuses /\ (pc \in Working => issue \in Issues) /\ NoIssue \notin Issues
  BY IssuesAssumption DEF SprintInv, TypeInv, TypeOK
<1>1. CASE pc' = pc /\ UNCHANGED <<issue, target>>
  <2>1. UNCHANGED <<sprint, dashboard>>
    BY <1>1, Emitted, Written DEF Marked
  <2> QED BY <1>0, <1>1, <2>1 DEF BoardInv, Shown, Behind, Leaving, dashboard, Page!Column
<1>2. CASE pc = "idle" /\ pc' = "prepare"
  BY <1>2, Emitted DEF OnStart, Page!Start, BoardInv, Shown, Leaving
<1>3. CASE pc = "prepare" /\ pc' = "branch"
  BY <1>0, <1>3, Emitted DEF BoardInv, Shown, Leaving, dashboard
<1>4. CASE pc \in {"prepare", "branch"} /\ pc' = "loop"
  <2>1. SprintStarted /\ UNCHANGED sprint
    BY <1>4, Emitted, Written DEF Marked
  <2>2. pc = "branch" => loaded = sprint
    BY <1>0 DEF SprintInv, OneInv, FaultFree, Undisturbed
  <2>3. board' = sprint /\ UNCHANGED current
    BY <1>4, <2>1, <2>2 DEF SprintStarted, Page!OnSprintStarted
  <2> QED BY <1>0, <1>4, <2>1, <2>3 DEF BoardInv, Shown, Behind, Leaving, ShownAs
<1>5. CASE pc = "loop" /\ pc' = "select"
  <2>1. SprintIteration /\ UNCHANGED sprint
    BY <1>5, Emitted, Written DEF Marked
  <2>2. UNCHANGED <<board, current>> /\ completed' = Cardinality(Finished(sprint))
    BY <2>1 DEF SprintIteration, Page!OnSprintIteration, Completed, Finished
  <2>3. \A i \in Issues : board[i] \in ShownAs(sprint[i])
    BY <1>0, <1>5 DEF BoardInv, Shown, Behind
  <2>4. Page!Column("completed")' = Finished(sprint)
    BY <1>t, <2>2, <2>3, SameCompleted DEF Page!Column
  <2> QED BY <1>0, <1>5, <2>1, <2>2, <2>3, <2>4 DEF BoardInv, Shown, Behind, Leaving
<1>6. CASE pc \in {"select", "selecting"} /\ pc' \in {"selecting", "setup"} /\ pc' # pc
  <2>1. UNCHANGED <<sprint, dashboard>>
    BY <1>6, Emitted, Written DEF Marked
  <2> QED BY <1>0, <1>6, <2>1 DEF BoardInv, Shown, Behind, Leaving, dashboard
<1>7. CASE pc = "setup" /\ issue' = issue
           /\ (pc' = "write" \/ (pc' = "mark" /\ target' = "in_progress"))
  <2>1. UNCHANGED <<sprint, dashboard>>
    BY <1>7, Emitted, Written DEF Marked
  <2> QED BY <1>0, <1>7, <2>1 DEF BoardInv, Shown, Behind, Leaving, dashboard
<1>8. CASE pc \in {"setup", "save", "write"} /\ pc' = "engine" /\ issue' = issue
  <2>1. IssueStarted
    BY <1>8, Emitted
  <2>2. current' = issue /\ \A i \in Issues \ {issue} : board'[i] = board[i]
    BY <2>1 DEF IssueStarted, Page!OnIssueStarted, Page!UpdateIssueStatus
  <2>3. \A i \in Issues \ {issue} : board[i] \in ShownAs(sprint[i])
    BY <1>0, <1>8 DEF BoardInv, Shown, Behind
  <2>4. \A i \in Issues \ {issue} : sprint'[i] = sprint[i]
    BY <1>8, OthersKept
  <2> QED BY <1>8, <2>2, <2>3, <2>4 DEF BoardInv, Shown, Behind, Leaving
<1>9. CASE pc = "mark" /\ pc' = "save" /\ UNCHANGED <<issue, target>>
  <2>1. UNCHANGED <<sprint, dashboard>>
    BY <1>9, Emitted, Written DEF Marked
  <2> QED BY <1>0, <1>9, <2>1 DEF BoardInv, Shown, Behind, Leaving, dashboard
<1>10. CASE pc = "save" /\ target = "in_progress" /\ pc' = "write" /\ issue' = issue
  <2>1. UNCHANGED dashboard /\ \A i \in Issues \ {issue} : sprint'[i] = sprint[i]
    BY <1>10, Emitted, OthersKept
  <2> QED BY <1>0, <1>10, <2>1 DEF BoardInv, Shown, Behind, Leaving, dashboard
<1>11. CASE pc = "save" /\ target = "completed" /\ pc' = "clear"
  <2>1. UNCHANGED dashboard /\ current = issue
    BY <1>0, <1>11, Emitted DEF BoardInv, Leaving
  <2>2. /\ issue \in Issues /\ sprint'[issue] = "completed"
        /\ \A i \in Issues \ {issue} : sprint'[i] = sprint[i]
    BY <1>11, <1>t, OthersKept DEF Marked, Working
  <2> QED BY <1>0, <1>11, <2>1, <2>2 DEF BoardInv, Shown, Behind, Leaving, dashboard
<1>12. CASE pc = "save" /\ target = "blocked" /\ pc' = "loop"
  <2>1. IssueIsBlocked
    BY <1>12, Emitted
  <2>2. /\ current' = NoIssue
        /\ \A i \in Issues : board'[i] = IF i = issue THEN "pending" ELSE board[i]
    BY <2>1 DEF IssueIsBlocked, Page!OnIssueFailed, Page!UpdateIssueStatus, Page!Forget
  <2>3. /\ sprint'[issue] = "blocked"
        /\ \A i \in Issues \ {issue} : sprint'[i] = sprint[i]
    BY <1>12, <1>t, OthersKept DEF Marked, Working
  <2>4. \A i \in Issues : board'[i] \in ShownAs(sprint'[i])
    BY <1>0, <1>12, <2>2, <2>3 DEF BoardInv, Shown, Behind, ShownAs
  <2> QED BY <1>12, <2>2, <2>4 DEF BoardInv, Shown, Behind, Leaving
<1>13. CASE pc = "engine" /\ pc' = "mark" /\ issue' = issue
            /\ target' \in {"completed", "blocked"}
  <2>1. UNCHANGED <<sprint, dashboard>>
    BY <1>13, Emitted, Written DEF Marked
  <2> QED BY <1>0, <1>13, <2>1 DEF BoardInv, Shown, Behind, Leaving, dashboard
<1>14. CASE pc = "clear" /\ pc' = "loop"
  <2>1. IssueIsCompleted /\ UNCHANGED sprint
    BY <1>14, Emitted, Written DEF Marked
  <2>2. /\ current' = NoIssue
        /\ \A i \in Issues : board'[i] = IF i = current THEN "completed" ELSE board[i]
    BY <2>1 DEF IssueIsCompleted, Page!OnIssueCompleted, Page!UpdateIssueStatus, Page!Forget
  <2>3. \A i \in Issues : board'[i] \in ShownAs(sprint[i])
    BY <1>0, <1>14, <2>2 DEF BoardInv, Shown, Behind, ShownAs
  <2> QED BY <1>14, <2>1, <2>2, <2>3 DEF BoardInv, Shown, Behind, Leaving
<1> QED BY <1>0, <1>1, <1>2, <1>3, <1>4, <1>5, <1>6, <1>7, <1>8, <1>9, <1>10, <1>11,
           <1>12, <1>13, <1>14 DEF Move

LEMMA BoardSessionStep == ASSUME BoardInv, Sessions PROVE BoardInv'
<1>1. UNCHANGED <<vars, board, completed, current>>
  BY DEF Sessions, StepStarted, SubprocessOutput, StepCompleted, StepHasFailed, StepSkipped,
         SessionEndsUnsaid, Page!OnStepStarted, Page!Refreshes, Page!dashboard, dashboard
<1> QED BY <1>1 DEF BoardInv, FaultFree, Undisturbed, Shown, Behind, Leaving, Page!Column,
                    vars, control, memory, bounds, history

\* DashboardState, which sees events only, has every card in the column of its issue
\* whenever an issue is to be selected, and the right count.
THEOREM BoardFollows == DisplaySpec => []BoardFollowsSprint
<1> DEFINE I == SprintInv /\ BoardInv
<1>1. DisplayInit => I
  <2>1. DisplayInit => SprintInv
    BY TypeInit, OneInit, FinalInit, ReworkInit DEF DisplayInit, SprintInv
  <2>2. DisplayInit => BoardInv
    BY DEF DisplayInit, Init, BoardInv, Shown, Leaving
  <2> QED BY <2>1, <2>2
<1>2. I /\ [DisplayNext]_allvars => I'
  <2> SUFFICES ASSUME I, [DisplayNext]_allvars PROVE I'
    OBVIOUS
  <2>1. CASE Next /\ Handled
    BY <2>1, SprintStep, BoardSprintStep
  <2>2. CASE Sessions
    <3>1. UNCHANGED vars
      BY <2>2 DEF Sessions, StepStarted, SubprocessOutput, StepCompleted, StepHasFailed,
                  StepSkipped, SessionEndsUnsaid
    <3> QED BY <2>2, <3>1, SprintStep, BoardSessionStep
  <2>3. CASE UNCHANGED allvars
    <3>1. UNCHANGED <<vars, board, completed, current>>
      BY <2>3 DEF allvars, display, dashboard
    <3>2. BoardInv'
      BY <3>1 DEF BoardInv, FaultFree, Undisturbed, Shown, Behind, Leaving, Page!Column,
                  vars, control, memory, bounds, history
    <3> QED BY <3>1, <3>2, SprintStep
  <2> QED BY <2>1, <2>2, <2>3 DEF DisplayNext
<1>3. I => BoardFollowsSprint
  BY IssuesAssumption DEF BoardInv, BoardFollowsSprint, Alone, FaultFree, Undisturbed,
     Shown, Behind, Leaving, Page!Active
<1> QED BY <1>1, <1>2, <1>3, PTL DEF DisplaySpec
=============================================================================
