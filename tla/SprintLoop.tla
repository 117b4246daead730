----------------------------- MODULE SprintLoop -----------------------------
(***************************************************************************)
(* The outer loop: SprintEngine.run taking the issues of a sprint one after *)
(* the other through the inner loop, which is one step here (IssueLoop has  *)
(* its inside).                                                             *)
(*                                                                         *)
(* The statuses of the issues live in sprint.json (variable sprint), which  *)
(* no lock protects: the engine and claudesprint-tools read the whole file, *)
(* change one status and write the whole file back.  The issue being worked *)
(* on lives in current_issue.json (variable file).  The loop decides on the *)
(* copy it loaded at the top of an iteration (loaded).  A process may be    *)
(* killed between any two steps; the lock file sees to it that there is at  *)
(* most one, and the next one starts from the two files.                    *)
(***************************************************************************)
EXTENDS Naturals, FiniteSets

CONSTANTS
    Issues,            \* issue ids of the sprint
    Deps,              \* Issue.dependencies; may name ids the sprint lacks
    Cyclic,            \* what detect_circular_dependencies reports
    Position,          \* place of an issue in sprint.json
    Priority,          \* 0 is critical
    IterationLimits,   \* max_iterations of a process; 0 is unlimited
    MaxRuns,           \* bound: processes started
    MaxDisturbances    \* bound: failing reads and writes, and tool calls

NoIssue == "no_issue"

\* What read_current_issue finds when it returns None: no file, and a file that
\* does not pass validation.
Nothing == {"no_file", "unreadable"}

ASSUME IssuesAssumption ==
    /\ IsFiniteSet(Issues) /\ Issues # {}
    /\ Issues \cap (Nothing \cup {NoIssue}) = {}
    /\ Cyclic \subseteq Issues
    /\ DOMAIN Deps = Issues
    /\ Position \in [Issues -> Nat] /\ Priority \in [Issues -> Nat]
    /\ \A i, j \in Issues : Position[i] = Position[j] => i = j

ASSUME BoundsAssumption ==
    /\ IterationLimits \subseteq Nat
    /\ MaxRuns \in Nat /\ MaxDisturbances \in Nat

VARIABLES
    sprint,      \* issue -> status, in sprint.json
    file,        \* current_issue.json
    pc,          \* where SprintEngine.run stands; "idle": no process
    exit_reason, \* how the last process ended
    limit,       \* its max_iterations
    iteration,   \* counted only under a limit
    loaded,      \* the Sprint object of this iteration
    issue,       \* the selected issue
    context,     \* the CurrentIssue object in memory
    fresh,       \* the context is new and still has to be written
    target,      \* the status mark_issue_status is to set
    copy,        \* the Sprint object it has read
    tool,        \* a `sprint start` under way
    runs, faults, tool_calls,  \* what the bounds count
    \* History, for the properties only.
    done,        \* issues the inner loop has completed
    strayed,     \* issues the agent named though they were not available
    reworked     \* issues of done that were begun anew

memory  == <<loaded, issue, context, fresh, target, copy>>
control == <<pc, exit_reason, limit, iteration>>
bounds  == <<runs, faults, tool_calls>>
history == <<done, strayed, reworked>>
vars    == <<sprint, file, control, memory, tool, bounds, history>>

-----------------------------------------------------------------------------
(* State.                                                                   *)

IssueStatus == {"pending", "in_progress", "completed", "blocked"}

Statuses == [Issues -> IssueStatus]

\* What of CurrentIssue the outer loop tells apart; spent: total_iterations
\* has reached the limit.
Context == [issue : Issues \cup {NoIssue}, spent : BOOLEAN]

\* A file that does not load has one of Nothing for an issue.
File == [issue : Issues \cup {NoIssue} \cup Nothing, spent : BOOLEAN]

ContextFor(i) == [issue |-> i, spent |-> FALSE]

NoFile     == ContextFor("no_file")
Unreadable == ContextFor("unreadable")

\* SprintExitReason; "failed" is ERROR, MAX_RETRY or RATE_LIMITED.
SprintExitReason == {"completed", "max_iterations", "failed", "no_issues"}

PC == {"idle", "prepare", "branch", "loop", "select", "selecting", "setup", "mark", "save",
       "write", "engine", "clear"}

Engine == pc # "idle"

NoTool == [issue |-> NoIssue, phase |-> "none", copy |-> [i \in Issues |-> "pending"]]

Tool == [issue : Issues \cup {NoIssue}, phase : {"none", "checked", "read"},
         copy : Statuses]

TypeOK ==
    /\ sprint \in Statuses /\ loaded \in Statuses /\ copy \in Statuses
    /\ file \in File
    /\ pc \in PC
    /\ exit_reason \in SprintExitReason \cup {"none", "aborted"}
    /\ limit \in IterationLimits \cup {0} /\ iteration \in Nat
    /\ issue \in Issues \cup {NoIssue}
    /\ context \in Context /\ fresh \in BOOLEAN
    /\ target \in IssueStatus
    /\ tool \in Tool
    /\ runs \in Nat /\ faults \in Nat /\ tool_calls \in Nat
    /\ done \subseteq Issues /\ strayed \subseteq Issues /\ reworked \subseteq Issues

AllPending == [i \in Issues |-> "pending"]

Init ==
    /\ sprint = AllPending /\ loaded = AllPending /\ copy = AllPending
    /\ file = NoFile
    /\ pc = "idle" /\ exit_reason = "none"
    /\ limit = 0 /\ iteration = 0
    /\ issue = NoIssue /\ context = ContextFor(NoIssue) /\ fresh = FALSE
    /\ target = "pending"
    /\ tool = NoTool
    /\ runs = 0 /\ faults = 0 /\ tool_calls = 0
    /\ done = {} /\ strayed = {} /\ reworked = {}

-----------------------------------------------------------------------------
(* Helpers of the actions.                                                  *)

Disturbed == faults + tool_calls >= MaxDisturbances

Fault == ~Disturbed /\ faults' = faults + 1

NoFault == UNCHANGED faults

Goto(place) == pc' = place /\ UNCHANGED exit_reason

\* Objects are dropped as soon as no later step reads them.
DropContext == context' = ContextFor(NoIssue) /\ fresh' = FALSE

DropMemory ==
    /\ loaded' = AllPending /\ issue' = NoIssue
    /\ DropContext
    /\ target' = "pending" /\ copy' = AllPending

\* run() returns or the process dies.
Exit(reason) == pc' = "idle" /\ exit_reason' = reason /\ DropMemory

NextIteration == Goto("loop") /\ DropMemory

\* read_current_issue() returned an object with this issue_id.
Names(f, i) == f.issue = i

\* Mutant: a dependency the sprint lacks blocks, as it does in `sprint start`.
BlockedByMissing(s, i) == \E d \in Deps[i] : d \notin Issues \/ s[d] # "completed"

\* Mutant: only a pending dependency blocks.
BlockedByPending(s, i) == \E d \in Deps[i] \cap Issues : s[d] = "pending"

\* Issue.is_blocked_by: a dependency that is not in the sprint does not block.
IsBlockedBy(s, i) == \E d \in Deps[i] \cap Issues : s[d] # "completed"

\* Sprint.get_available_issues.
Available(s) == {i \in Issues : /\ s[i] = "pending"
                                /\ ~IsBlockedBy(s, i)
                                /\ i \notin Cyclic}

InProgress(s) == {i \in Issues : s[i] = "in_progress"}

First(S) == CHOOSE i \in S : \A j \in S : Position[i] <= Position[j]

\* _fallback_priority_selection.
Highest(S) ==
    First({i \in S : \A j \in S : Priority[i] <= Priority[j]})

\* Mutant: only the issue of current_issue.json is resumed.
ResumableByName == {i \in InProgress(loaded) : Names(file, i)}

Resumable == InProgress(loaded)

\* _get_in_progress_issue, when there is one.
ToResume == IF \E i \in Resumable : Names(file, i) THEN file.issue ELSE First(Resumable)

-----------------------------------------------------------------------------
(* SprintEngine.run: up to the loop, and the top of the loop.               *)

\* A process gets the lock.
Start ==
    /\ pc = "idle"
    /\ runs < MaxRuns
    /\ runs' = runs + 1
    /\ limit' \in IterationLimits
    /\ iteration' = 0
    /\ pc' = "prepare" /\ exit_reason' = "none"
    /\ UNCHANGED <<sprint, file, memory, tool, faults, tool_calls, history>>

\* _prepare_sprint: read the sprint and see to it that its git branch is checked
\* out; a checkout is followed by writing the sprint back.
Prepare ==
    /\ pc = "prepare"
    /\ \/ Goto("loop") /\ UNCHANGED memory /\ NoFault
       \/ /\ loaded' = sprint
          /\ Goto("branch") /\ NoFault
          /\ UNCHANGED <<issue, context, fresh, target, copy>>
       \/ Exit("failed") /\ Fault
    /\ UNCHANGED <<sprint, file, limit, iteration, tool, runs, tool_calls, history>>

\* Nobody looks at whether the sprint was written.
WriteBranch ==
    /\ pc = "branch"
    /\ \/ sprint' = loaded /\ NoFault
       \/ UNCHANGED sprint /\ Fault
    /\ NextIteration
    /\ UNCHANGED <<file, limit, iteration, tool, runs, tool_calls, history>>

AtLimit == limit > 0 /\ iteration >= limit

\* _should_stop.
StopAtLimit ==
    /\ pc = "loop" /\ AtLimit
    /\ Exit("max_iterations")
    /\ UNCHANGED <<sprint, file, limit, iteration, tool, bounds, history>>

\* Mutant: blocked issues do not keep a sprint from being complete.
NothingLeft(s) == \A i \in Issues : s[i] \in {"completed", "blocked"}

IsComplete(s) == \A i \in Issues : s[i] = "completed"

\* Reload the sprint; if that fails, or nothing is left to do, return.
Reload ==
    /\ pc = "loop" /\ ~AtLimit
    /\ iteration' = IF limit = 0 THEN 0 ELSE iteration + 1
    /\ \/ /\ ~IsComplete(sprint)
          /\ loaded' = sprint
          /\ Goto("select") /\ NoFault
          /\ UNCHANGED <<issue, context, fresh, target, copy>>
       \/ IsComplete(sprint) /\ Exit("completed") /\ NoFault
       \/ Exit("failed") /\ Fault
    /\ UNCHANGED <<sprint, file, limit, tool, runs, tool_calls, history>>

-----------------------------------------------------------------------------
(* select_issue.                                                            *)

Select(i) ==
    /\ issue' = i
    /\ Goto("setup")
    /\ UNCHANGED <<limit, iteration, loaded, context, fresh, target, copy>>

ResumeInProgressIssue ==
    /\ pc = "select"
    /\ Resumable # {}
    /\ Select(ToResume)
    /\ UNCHANGED <<sprint, file, tool, bounds, history>>

\* Mutant: the issue in the file is continued whatever its status.
ContinuableAnyway == {i \in Issues : Names(file, i)}

\* The issue in the file, if it is pending in the sprint; what it depends on does
\* not matter.
Continuable == {i \in Issues : Names(file, i) /\ loaded[i] = "pending"}

ContinuePendingIssue ==
    /\ pc = "select"
    /\ Resumable = {}
    /\ \E i \in Continuable : Select(i)
    /\ UNCHANGED <<sprint, file, tool, bounds, history>>

Choosing == pc = "select" /\ Resumable = {} /\ Continuable = {}

NoIssues ==
    /\ Choosing
    /\ Available(loaded) = {}
    /\ Exit("no_issues")
    /\ UNCHANGED <<sprint, file, limit, iteration, tool, bounds, history>>

OnlyOneIssue ==
    /\ Choosing
    /\ \E i \in Available(loaded) : Available(loaded) = {i} /\ Select(i)
    /\ UNCHANGED <<sprint, file, tool, bounds, history>>

\* _run_agent_selection puts an empty context into current_issue.json; when it
\* cannot, the choice falls back at once.
AskAgent ==
    /\ Choosing
    /\ Cardinality(Available(loaded)) > 1
    /\ \/ /\ file' = ContextFor(NoIssue)
          /\ Goto("selecting")
          /\ UNCHANGED <<limit, iteration, memory>>
          /\ NoFault
       \/ /\ Select(Highest(Available(loaded))) /\ UNCHANGED file
          /\ Fault
    /\ UNCHANGED <<sprint, tool, runs, tool_calls, history>>

Named == \E i \in Issues : Names(file, i)

\* The session writes an issue into current_issue.json itself; of several such
\* writes the last one counts, so it makes one.
AgentWritesFile ==
    /\ pc = "selecting" /\ ~Named
    /\ \E i \in Issues :
        /\ file' = ContextFor(i)
        /\ strayed' = strayed \cup ({i} \ Available(loaded))
    /\ UNCHANGED <<sprint, control, memory, tool, bounds, done, reworked>>

\* Mutant: an id that the sprint does not have is taken, too.
AgentSelectsAnything ==
    /\ pc = "selecting" /\ ~Named
    /\ \E i \in Issues \cup UNION {Deps[j] : j \in Issues} : Select(i)
    /\ UNCHANGED <<sprint, file, tool, bounds, history>>

\* _parse_selection_result finds an issue of the sprint: the one in the file,
\* else one named in the output.  Nothing asks whether it is available.
AgentSelects ==
    /\ pc = "selecting"
    /\ \E i \in Issues :
        /\ Named => Names(file, i)
        /\ Select(i)
        /\ strayed' = IF Named THEN strayed
                      ELSE strayed \cup ({i} \ Available(loaded))
    /\ UNCHANGED <<sprint, file, tool, bounds, done, reworked>>

\* Rate limit, crash, missing prompt, SPRINT_COMPLETE, BLOCKED, or no issue
\* found: _fallback_priority_selection, among what was available before.
AgentFails ==
    /\ pc = "selecting"
    /\ Select(Highest(Available(loaded)))
    /\ UNCHANGED <<sprint, file, tool, bounds, history>>

-----------------------------------------------------------------------------
(* _setup_issue_context.                                                    *)

\* Continue the context in the file if it is the issue's, else make a new one;
\* mark the issue in progress unless the loaded sprint already has it so.
Setup ==
    /\ pc = "setup"
    /\ LET keep == Names(file, issue)
       IN  /\ context' = IF keep THEN file ELSE ContextFor(issue)
           /\ fresh' = ~keep
           /\ reworked' = IF keep THEN reworked
                          ELSE reworked \cup ({issue} \cap done)
           /\ Goto(IF loaded[issue] # "in_progress" THEN "mark"
                   ELSE IF keep THEN "engine" ELSE "write")
    /\ target' = "in_progress"
    /\ loaded' = AllPending
    /\ UNCHANGED <<sprint, file, limit, iteration, issue, copy, tool, bounds,
                   done, strayed>>

WriteContext ==
    /\ pc = "write"
    /\ \/ /\ file' = context
          /\ Goto("engine") /\ NoFault
          /\ UNCHANGED memory
       \/ Exit("failed") /\ Fault /\ UNCHANGED file
    /\ UNCHANGED <<sprint, limit, iteration, tool, runs, tool_calls, history>>

-----------------------------------------------------------------------------
(* SprintService.mark_issue_status: nobody looks at what it returns.        *)

MarkReturns ==
    CASE target = "in_progress" ->
            /\ Goto(IF fresh THEN "write" ELSE "engine")
            /\ copy' = AllPending
            /\ UNCHANGED <<loaded, issue, context, fresh, target>>
      [] target = "completed" -> Goto("clear") /\ DropMemory
      [] OTHER -> NextIteration

MarkRead ==
    /\ pc = "mark"
    /\ \/ /\ copy' = sprint
          /\ Goto("save") /\ NoFault
          /\ UNCHANGED <<loaded, issue, context, fresh, target>>
       \/ MarkReturns /\ Fault
    /\ UNCHANGED <<sprint, file, limit, iteration, tool, runs, tool_calls, history>>

MarkSave ==
    /\ pc = "save"
    /\ \/ sprint' = [copy EXCEPT ![issue] = target] /\ NoFault
       \/ UNCHANGED sprint /\ Fault
    /\ MarkReturns
    /\ UNCHANGED <<file, limit, iteration, tool, runs, tool_calls, history>>

-----------------------------------------------------------------------------
(* The inner loop, and _handle_issue_result.                                *)

SpentContext == [context EXCEPT !.spent = TRUE]

\* The inner loop saves its object again and again, and may be in its last
\* iteration.  A spent context is returned at once.
EngineSaves ==
    /\ pc = "engine"
    /\ ~context.spent
    /\ file' \in {context, SpentContext}
    /\ UNCHANGED <<sprint, control, memory, tool, bounds, history>>

Mark(status) ==
    /\ target' = status
    /\ Goto("mark")
    /\ DropContext
    /\ UNCHANGED <<limit, iteration, loaded, issue, copy>>

\* Mutant: current_issue.json is cleared before the sprint is updated.
CompletedClearsFirst ==
    /\ pc = "engine"
    /\ ~context.spent
    /\ done' = done \cup {issue}
    /\ file' = NoFile
    /\ Mark("completed")
    /\ UNCHANGED <<sprint, tool, bounds, strayed, reworked>>

IssueCompleted ==
    /\ pc = "engine"
    /\ ~context.spent
    /\ done' = done \cup {issue}
    /\ Mark("completed")
    /\ UNCHANGED <<sprint, file, tool, bounds, strayed, reworked>>

\* Mutants: the issue counts as done; it goes back among the pending ones.
MaxIterationsCompletes ==
    /\ pc = "engine"
    /\ file' \in {file} \cup (IF context.spent THEN {} ELSE {SpentContext})
    /\ Mark("completed")
    /\ UNCHANGED <<sprint, tool, bounds, history>>

MaxIterationsRequeues ==
    /\ pc = "engine"
    /\ file' \in {file} \cup (IF context.spent THEN {} ELSE {SpentContext})
    /\ Mark("pending")
    /\ UNCHANGED <<sprint, tool, bounds, history>>

\* Of what the last iteration saved a tool or a failing save may leave nothing.
IssueMaxIterations ==
    /\ pc = "engine"
    /\ file' \in {file} \cup (IF context.spent THEN {} ELSE {SpentContext})
    /\ Mark("blocked")
    /\ UNCHANGED <<sprint, tool, bounds, history>>

\* MAX_RETRY, CRASHED, ERROR, and RATE_LIMITED when the attempts run out: the
\* issue stays in progress.
IssueFailed ==
    /\ pc = "engine"
    /\ ~context.spent
    /\ Exit("failed")
    /\ UNCHANGED <<sprint, file, limit, iteration, tool, bounds, history>>

\* clear_current_issue after the completion was marked, or was not.
ClearFile ==
    /\ pc = "clear"
    /\ \/ file' = NoFile /\ NoFault
       \/ UNCHANGED file /\ Fault
    /\ NextIteration
    /\ UNCHANGED <<sprint, limit, iteration, tool, runs, tool_calls, history>>

Crash ==
    /\ Engine
    /\ Exit("aborted")
    /\ UNCHANGED <<sprint, file, limit, iteration, tool, bounds, history>>

-----------------------------------------------------------------------------
(* claudesprint-tools and `claudesprint reset`, called by an agent, by an    *)
(* operator, or by an agent that outlived its session.                      *)

ToolCall == ~Disturbed /\ tool_calls' = tool_calls + 1

\* `sprint start`: the checks, on a first copy of the file.
ToolStartIssue ==
    /\ tool.phase = "none"
    /\ ToolCall
    /\ \E i \in Issues :
        /\ sprint[i] \notin {"completed", "in_progress"}
        /\ \A d \in Deps[i] : d \in Issues /\ sprint[d] = "completed"
        /\ tool' = [NoTool EXCEPT !.issue = i, !.phase = "checked"]
    /\ UNCHANGED <<sprint, file, control, memory, runs, faults, history>>

\* Then mark_issue_status, which reads the file again and writes it back.
ToolRead ==
    /\ tool.phase = "checked"
    /\ tool' = [tool EXCEPT !.phase = "read", !.copy = sprint]
    /\ UNCHANGED <<sprint, file, control, memory, bounds, history>>

ToolWrite ==
    /\ tool.phase = "read"
    /\ sprint' = [tool.copy EXCEPT ![tool.issue] = "in_progress"]
    /\ tool' = NoTool
    /\ UNCHANGED <<file, control, memory, bounds, history>>

ChunkType == {"select", "implement", "test", "review", "fix", "complete"}

\* `issue init`, for a pending issue only.  The file it writes is of chunk type
\* "IMPLEMENT", and one that CurrentIssue does not validate does not load.
ToolInitIssue ==
    /\ ToolCall
    /\ \E i \in Issues :
        /\ sprint[i] = "pending"
        /\ file' = IF "IMPLEMENT" \in ChunkType THEN ContextFor(i) ELSE Unreadable
    /\ UNCHANGED <<sprint, control, memory, tool, runs, faults, history>>

\* `claudesprint reset`.
ResetCurrentIssue ==
    /\ ToolCall
    /\ file' = NoFile
    /\ UNCHANGED <<sprint, control, memory, tool, runs, faults, history>>

-----------------------------------------------------------------------------
\* The steps a running process takes by itself.
Run == \/ Prepare \/ WriteBranch
       \/ StopAtLimit \/ Reload
       \/ ResumeInProgressIssue \/ ContinuePendingIssue \/ NoIssues \/ OnlyOneIssue
       \/ AskAgent \/ AgentSelects \/ AgentFails
       \/ Setup \/ WriteContext \/ MarkRead \/ MarkSave
       \/ IssueCompleted \/ IssueMaxIterations \/ IssueFailed \/ ClearFile

Tools == ToolStartIssue \/ ToolRead \/ ToolWrite \/ ToolInitIssue \/ ResetCurrentIssue

Next == Start \/ Run \/ AgentWritesFile \/ EngineSaves \/ Crash \/ Tools

\* Sessions time out and the inner loop returns (IssueLoop's EngineReturns), so
\* a process goes on; nothing makes anybody start one or call a tool.
Spec == Init /\ [][Next]_vars /\ WF_vars(Run)

-----------------------------------------------------------------------------
(* Properties.                                                              *)

\* The sprint has an issue as completed only if the inner loop completed it,
\* through stale copies, crashes and tools that write their copy back late.
CompletedByEngine == \A i \in Issues : sprint[i] = "completed" => i \in done

\* A process that reports the sprint as complete has seen every issue completed
\* by the inner loop, whatever rewrote sprint.json meanwhile.
CompletedMeansDone == exit_reason = "completed" => done = Issues

\* Work is begun on an issue only when all it depends on has been completed,
\* unless the agent named that issue although it was not on offer.
DependenciesRespected ==
    pc = "engine" /\ issue \notin strayed => Deps[issue] \cap Issues \subseteq done

\* Without tools, failing writes and stray choices, no crash makes the loop
\* begin anew an issue that the inner loop had completed: the sprint is updated
\* before the context is cleared.
NoRework == tool_calls = 0 /\ faults = 0 /\ strayed = {} => reworked = {}

\* Without tools there is never a second issue in progress, however writes
\* fail, processes die and the agent chooses.
OneInProgress == tool_calls = 0 => Cardinality(InProgress(sprint)) <= 1

\* Without tools a sprint is given up for want of issues only if one has run out
\* of iterations, or issues wait for themselves: resumption, dependencies the
\* sprint lacks, failing writes and crashes leave nothing behind that can be
\* neither selected nor continued.
GivenUpForCause ==
    tool_calls = 0 /\ exit_reason = "no_issues" =>
        Cyclic # {} \/ \E i \in Issues : sprint[i] = "blocked"

\* Without tools and stray choices a completed issue stays completed.
CompletedIsFinal ==
    [][tool_calls' = 0 /\ strayed' = {} =>
        \A i \in Issues : sprint[i] = "completed" => sprint'[i] = "completed"]_vars

\* A process comes to an end even without an iteration limit, unless the agent
\* keeps naming issues that are not on offer.
SprintReturns == Engine ~> (~Engine \/ strayed # {})

=============================================================================
