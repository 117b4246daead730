# A verification project for ClaudeSprint

ClaudeSprint drives a coding agent through the issues of a sprint: an outer loop
(`core/sprint_engine.py`) selects one issue after the other, an inner loop
(`core/issue_engine.py`) walks each through a fixed workflow of thirteen steps, most of
which are one session of the agent. All state that survives a process is in two JSON
files, and the agent changes them, too, with the `claudesprint-tools` command.

This directory holds TLA+ modules of that system, configurations that check them with TLC,
and theorems about them that TLAPS proves for every value of the constants.

    tlc -workers 2 -config IssueLoop.cfg MCIssueLoop      about two minutes
    tlc -workers 2 -config SprintLoop.cfg MCSprintLoop    about two minutes
    tlc -workers 2 -config Store.cfg MCStore              about one minute
    tlc -workers 2 -config Runner.cfg MCRunner            two to three minutes
    tlc -workers 2 -config Heartbeat.cfg MCHeartbeat      seconds
    tlc -workers 2 -config Display.cfg MCDisplay          seconds
    tlc -workers 2 -config Setup.cfg MCSetup              half a minute
    tlapm IssueLoopProofs.tla       and likewise SprintLoopProofs, DependenciesProofs, StoreProofs,
                                    RunnerProofs, HeartbeatProofs, DisplayProofs, SetupProofs

## Inventory

| Component | State | Operations | Works with |
|---|---|---|---|
| Issue engine: `core/issue_engine.py`, `core/step_executors.py` | the `CurrentIssue` object in memory: step, retry count, failures, total iterations | `run`, `_execute_step`, `_transition_step`, `_get_skip_result` | saves to `current_issue.json`; runs sessions; returns an exit reason |
| Sprint engine: `core/sprint_engine.py`, `core/issue_state_machine.py` | the `Sprint` object of this iteration, the selected issue | `run`, `select_issue`, `_setup_issue_context`, `_handle_issue_result` | calls the issue engine; reads and rewrites `sprint.json`; holds the sprint lock |
| Routing: `core/routing_parser.py` | none | `parse` | gives the issue engine the next step |
| Issue store: `services/issue_service.py` | `current_issue.json`, `current_issue.log` | read, write, clear, log | issue lock; shared with the tools |
| Sprint store: `services/sprint_service.py`, `models/sprint.py` | `sprint.json` | read, write, `mark_issue_status`, `get_available_issues` | no lock |
| Tools: `tools/*.py` | none of its own | `issue step/change/failure/clear-failures/init`, `sprint start` | called by the agent during sessions, or by an operator, on both files |
| Locks: `utils/lock.py`, `utils/issue_lock.py`, `services/session_state.py` | lock files, `_acquired` | acquire, release | one sprint process; one access of the issue file |
| JSON store, state manager: `services/base/json_store.py`, `services/state_manager.py` | temporary files, version of a snapshot | write, `atomic_update` | under both stores |
| Dependency graph: `utils/graph.py` | none | `detect_cycles` | which issues are available |
| Runner, process manager: `core/claude_runner.py`, `utils/process_manager.py` | the child, its reader thread, tracked pids and groups | run with timeout, kill, register, signal handler | every session |
| Heartbeat: `services/heartbeat_service.py` | last pulse, monitor thread or task | start, stop, reset, pulse | emits on the event bus; not started by the loops |
| Event bus, log, dashboard: `events/`, `simple_logs.py`, `dashboard/` | subscribers; what has been counted and is displayed | emit, one handler per event | fed by both loops in the engine's thread |
| Configuration: `models/config.py`, `services/configuration_manager.py`, `services/global_config_service.py` | two TOML files, the environment, the settings of a run | merge, ask for a model, `config init/edit` | read at the start of each run |
| Repository set-up: `services/init_repo_service.py`, `services/claude_settings_service.py`, `services/optional_features_service.py` | `.claudesprint/`, `.claude/settings.json` and its backup | `init-repo`, `features refresh`, `inject_hooks` | writes the file `run` reads, and one that belongs to the user |
| Prompts, git, notifications, Claude hook, health check, validators | files read at start or written once | | listed in PROJECT.json |

What makes this system hard to test:

- *Two writers of each file.* Every access of the issue file takes a lock, but the engine
  keeps its object over a whole session and then writes all of it. `sprint.json` has no
  lock at all: each status change reads and rewrites the whole file.
- *Locks made of files.* The lock is on an inode and is looked for by its name; the holder removes the name
  when it is done. Temporary files have a fixed name in one writer and an own one in another.
- *Death at any moment.* Sessions last many minutes; a process is killed, runs into a rate
  limit or crashes between any two writes. The next one has only the two files.
- *Children that do not cooperate.* A session's child hangs, ignores SIGTERM, dies of a signal, or leaves helpers
  that hold its output open; a signal handler runs on top of the thread it interrupts.
- *Failures nobody looks at.* Several writes return False into the void; others raise.
- *Loops that must end.* The workflow graph has cycles that reset the retry counter, and
  the outer loop has no bound of its own.
- *Displays built from events alone.* The log and the board never look at `sprint.json` after
  the start of a run; some steps of the loop emit an event, others none.
- *Settings that change between processes, and in them.* An issue stopped with one setting of the gates
  may be continued with another; the user edits files which commands merge into at the same time.

What makes each component correct: the inner loop never gets an issue past a verification
step without its verdict, stays in its budget over all restarts, can be continued from its
file, and returns; the outer loop never calls an issue completed that was not, keeps the
order of dependencies, neither repeats nor forgets work, works on one issue at a time, and
returns; the locks exclude; the stores never publish a mixture; the cycle detection finds
the issues that can never become available; the runner leaves no process behind and tells the truth of
a session; the monitor reports each hang once; the displays agree with the sprint; a run has the settings its
environment and its files say, and set-up keeps what is the user's.

## The modules

| Module | Contents |
|---|---|
| `Workflow` | the constants of the program: steps, `STEP_ROUTING`, gates, skip targets, `ValidTransition` |
| `IssueRun` | abstract specification: what the outer loop relies on when it hands an issue to the inner one |
| `IssueLoop` | the inner loop, its retries and restarts, and the tools (extends `Workflow`, implements `IssueRun`) |
| `SprintLoop` | the outer loop, `sprint.json`, the tools and `reset` |
| `Dependencies` | `detect_cycles`, its recursion as an explicit stack, and what it is to find; used by `MCSprintLoop` and the proofs |
| `Store` | one JSON file, the threads and processes that update it, their locks and temporary files |
| `Runner` | sessions as child processes, the process manager, signals |
| `Heartbeat` | both heartbeat services with their monitors |
| `Log`, `Dashboard` | the handlers of the two subscribers, one operator for each |
| `Display` | `SprintLoop` composed with the event bus, `Log` and `Dashboard` |
| `Config` | the layers of the configuration, the commands that write them, and runs that read them |
| `Setup` | `init-repo`, `features refresh` and the user beside them (extends `Config`) |
| `MC...` | instances for TLC |
| `...Proofs` | theorems about `IssueLoop`, `SprintLoop`, `Dependencies`, `Store`, `Runner`, `Heartbeat`, `Display`, `Setup` |

`Runner` is the inside of what `IssueLoop` calls a session, `IssueLoop` the inside of what `SprintLoop` calls
`engine`, and `Store` the inside of what both call a write of a file.

### IssueLoop

`current_issue` is the object in memory, `file` what `current_issue.json` holds; both are
records of the fields the loop decides on. `changes` stands for the lists the agent adds to.
`pc` is `selecting` while the selection session is under way and follows `run()` from then on: `top` is the check of the iteration limit, `body` the decision
to skip or execute, `session` the executor at work, `returned` the engine's return or
the process's end. One action is one stretch of code between two points where something
else can happen: a save of the file, a session, a return.

| Code | Action |
|---|---|
| limit check; count and save | `HitIterationLimit`; `Iterate` |
| skipped step | `SkipStep` |
| executor entered; rate limit or crash; failure; success | `StartSession`; `SessionStops`; `SessionFails`; `SessionRoutes` |
| `CompletionStepExecutor` | `CompleteIssue`, `RefuseCompletion` |
| `_transition_step` | operator `TransitionStep`, a part of the actions that make a transition |
| process killed, exception out of `run` | `Abort` |
| `_execute_issue_with_retry` | `RetryRateLimited`: same object, file not read |
| `_run_agent_selection`: the context it writes | `Init` |
| `_setup_issue_context`, first time | `SetUpContext`: `Adopt` the file as the session left it, if its agent filled in the issue's id; else `BeginAnew` |
| `_setup_issue_context`, in a next process or turn of the outer loop | `Restart`: `Adopt`, or `BeginAnew` if the file does not load, or was cleared after a completion whose mark had failed |
| `issue step`, `failure`, `clear-failures`, `change`, `init` | `Tool...` on the file only |

An engine may be started on the selection session's file, with the step `select-issue` that `_run_agent_selection` wrote.
No route leads away from that step, so that one session with exit code 0 completes the issue with nothing done: this is the
exception `VerifiedBeforeCommit` names, and the subject of the run `selection_session`. An issue may be run again after *any* exit
reason, completion included: as long as it is not marked, because the process died first or the mark failed, it is still in
progress and is selected again.

A save that fails is a `Fault`. What it does depends on the place, as in the code: the save at the
top of the loop is ignored, the one after a failed step raises, the one in a
transition rolls the object back, and so does a log entry that fails after the save, when the
file already has the new step.

History variables serve the properties only. `cleared` is the set of verdicts (tests, browser,
review) reached since a session last edited the code; a gate that is off waives its verdict. `engine_step`
is the step of the engine's last save; `overridden` says that a process continued from another
one, `forgotten` counts how often an issue was begun anew because its file was lost. `executed` counts step executions over all
processes, up to one more than the `Allowance`: the limit, once more for each time the file was lost, and one for each save that failed.

### IssueRun, and the refinement

`IssueRun` knows no steps, routes or gates: a run spends a budget, keeps a checkpoint, collects verdicts and
ends in one exit reason; whatever that is, a later run continues from the checkpoint (`Continue`), or begins anew where there is none
(`BeginAnew`). It finishes with every verdict, or without any work if it was started on the selection's own step (`untouched`). `IssueLoop` contains the mapping
(`Abstract == INSTANCE IssueRun WITH ...`): the budget is the iteration limit, `left` and `saved` what the counts in memory and
in the file leave of it, `checkpoint` whether the file loads and whether a tool wrote its step, `verdicts` the history variable
`cleared`, `untouched` that the engine stands at `select-issue`, `trusted` that no process has continued from a step of another hand. `ImplementsIssueRun` is checked
by the run `issue_loop` and proved in `IssueLoopProofs`.

### SprintLoop

`sprint` is the status of every issue in `sprint.json`; `file` is `current_issue.json`,
reduced to the issue it names and whether its iterations are spent, or one of two ways not to
load. `loaded` and `copy` are the `Sprint` objects the loop and `mark_issue_status` hold;
both may be stale. `pc` names the place in `run()`:

    idle -> prepare [-> branch] -> loop -> select [-> selecting] -> setup
         [-> mark -> save] [-> write] -> engine -> mark -> save [-> clear] -> loop

Reading the sprint (`MarkRead`) and writing it back (`MarkSave`) are two steps, and so are
the checks, the read and the write of `sprint start`; everything else may happen between them. The inner loop is the
place `engine`: it may save its object any number of times (`EngineSaves`) and returns one of
completed, max_iterations, or a failure that ends the process. That it returns is what `EngineReturns` of
`IssueLoop` says, and how it may end is what `IssueRun` says. `_setup_sprint_branch` writes back the sprint it was given before the
checkout (`Prepare`, `WriteBranch`). Objects no later step reads are reset, which keeps the state space small and loses
nothing.

The agent of a selection session may name any issue of the sprint, in its output or through the
file (`AgentSelects`, `AgentWritesFile`); `strayed` remembers those that were not on offer. `done` is the
set of issues the inner loop completed, `reworked` those of them that were begun anew.
`Deps` may name ids the sprint lacks. `Cyclic`, the issues `detect_cycles` reports, is any
subset of the issues in the module and in its proofs; in `MCSprintLoop` it is `WaitForThemselves(MCDeps)`, which is what the search
reports by `DetectionIsExact`.

### Dependencies

A graph is a function from the ids of a sprint to their lists of dependencies. `find_cycle_from` calls itself once for each
dependency. Here the calls that have not returned are the `path` of a search, which is what the code's parameter of that name
holds; `looked` is how far the `for` loop of each call has come. A `Turn` is one round of that loop with what the inner call does before
its own loop begins (`FindCycleFrom`), or the return of a call. A search is the function `Search` from the number of turns to where it stands then,
and is over after as many turns as the lists have entries, plus one return for each (`Turns`). `DetectCycles` searches from every node anew, with nothing visited,
as the code does.

`WaitForThemselves` says without an algorithm what is to be found: an id waits for itself if it is in every set that
is closed under dependencies and contains those it has itself.

### Store

One file, its writers, and the lock file. A lock file is a name (`lock_file`: the inode it stands for) and what
each thread has opened under it (`fd`); `depth` is the counter of `filelock` per thread, `acquired` the flag of
the `LockFile` object that threads of a process share. Every system call is an action:

| Code | Action |
|---|---|
| `FileLock.acquire`: open, then flock | `OpenLock`, `Flock` |
| the retry loop of `IssueLock.locked`, its timeout | `Wait`, `Retry`, `GiveUp` |
| the pid written into the lock file | `WritePid` |
| read; the caller's change and the version check | `Read`, `Modify` |
| temporary file opened, written, renamed | `OpenTemp`, `FillTemp`, `Rename` |
| `LockFile.release`: nothing, unlock, unlink | `ReleaseNothing`, `Unlock`, `Unlink` |
| a process is killed | `Crash` |

The data is the set of updates in it. A text may be broken: an empty or mixed file that does not parse.
A handle follows the file it writes into through a rename, so that a writer whose temporary file was renamed by another
one writes into the published file. `stolen` remembers that an unlink took the name of a lock file somebody had open.

`scheme` says who locks and how, and which temporary file is used. `MCStore` has the four combinations of the code: the
issue file (`IssueScheme`), the same from two threads of one process, who share the cached lock object (`ThreadScheme`),
`sprint.json` (`SprintScheme`, no lock), and `sprint.json` through `StateManager` beside an unlocked writer (`StateScheme`).

### Runner

One session after the other. The number of a session stands for its pid and its process group. When its processes are gone
and the child has been waited for, a process outside the program may take that number, and may lead a group of it (`NumberTaken`,
`stranger`, `leader`); `struck` are those that `cleanup_all` has signalled. `mode` is how a session is run:
`_execute_session` with its reader thread (sync), `run_prompt_async`, or `stream_prompt`. `pc` is the place of
the main thread:

    idle -> spawned -> registering -> prompt -> waiting [-> closing] [-> terminating]
         [-> joining] -> unregister -> unregistering -> idle

| Code | Action |
|---|---|
| `Popen`, `create_subprocess_exec` | `Spawn` |
| `register_pid`, `unregister_pid`, under the lock | `RegisterPid`/`Registered`, `UnregisterPid`/`Return` |
| writing the prompt, its exceptions | `SendPrompt`, `AbandonStream`, `SessionRaises` |
| the polling loop and its timeout | `PollSync`, `TimeoutSync` |
| `stdout.close()` before the kill | `CloseStdout` (all is read), `CloseStdoutAfterLine` (the reader lets go of its lock) |
| `gather(read_task, process.wait())`, `wait_for` | `WaitAsync`, `TimeoutAsync` |
| end of a stream, line timeout | `EndStream` |
| `_force_kill_process` | `ForceKill` |
| joining the reader, closing under it after five seconds | `JoinReader`, `CloseStuckReader` |
| signal handler and `cleanup_all`, atexit | `BeginCleanup`, `CleanupTerm`, `CleanupKill`, `SecondSignal` |
| the child | `ChildStartsHelper`, `ChildEnds`, `HelperEnds`, `WatcherReaps` |
| the kernel | `NumberTaken` |

`unregister_pid` asks for the group of a child that has been reaped already, so that it fails and the group stays tracked; only where
the number has been taken by the leader of a group does it find one. What is signalled at exit is every group of an earlier session:
a helper that is left there, or a stranger that leads a group of that number, which `StrangersSpared` names. Two simplifications:
sessions of the program do not get each other's numbers, and no number is taken between the start of a child and its registration.

While `cleanup` is not `none` the main thread stands still, as it does under a Python signal handler; if it stood inside the
lock of the process manager, the handler waits for ever. Exit codes are those Popen reports: a death by signal is negative.

### Heartbeat

`running`, `stop_event`, `current_step` and `hung_notified` are the fields of the service; `inactive` is the time since
the last pulse, up to the timeout. Each monitor is at `test`, `waiting`, `check` or `report`: the check is under
the lock, the report outside it. `caller` is the one thread or task that calls start, stop and reset; pulses come
at any time. A stop waits two seconds (`Joined`, `JoinTimesOut`), which only a monitor in a callback outlasts. In the async service
a callback holds up the loop, and with it the caller.

### Log, Dashboard, Display

`Log` and `Dashboard` have one operator for each handler, over the fields the handlers keep: the count and the throbber of
the log, the board, the count, the current issue and the step of the page. `Display` conjoins every step of `SprintLoop` with what
its events change. `emit` calls the handlers in the thread of the engine, so that a step and its events are one action. Each of `OnStart`,
`SprintStarted`, ..., `OnReturn` names the change of `pc` at which the code emits; `Quiet` is the rest. Sessions of the inner
loop begin, print and end while `pc = "engine"`, with their own events.

### Config and Setup

A file of settings is `Absent`, `Damaged` or a function from settings to what it says: nothing (`Unset`), the default, a value of
the user's, or one out of bounds. Settings are of two kinds, those both files have a place for (`Shared`) and those
only the project's has (`Local`); for some `run` has a flag (`Flagged`: `--debug-conversations`), which is set on top of
what the layers give. Steps are of two kinds as well: those with a default model of their own, and those without
(`select-issue`, `run-tests`, `stage-changes`, `commit-changes`), for which the project's `default_model` counts. `FromProjectRoot` merges the layers as
`ClaudesprintConfig.from_project_root` does, with the step that fills in defaults before the merge; `GetConfig` is
the beginning of a run, `StartServices` the first look of its `ConfigurationManager`, which keeps what it reads.

`settings` and `backup` are `.claude/settings.json` and its copy: how often the list of each event has each entry
(nothing depends on their order), and the plugins. `command` is the one command that runs, and its place:

    config -> read -> backup -> open -> write

`WriteConfig`, `ReadSettings`, `BackupSettings`, `OpenSettings`, `WriteSettings`, each with its failure. `OpenSettings`
empties the file, as `write_text` does; `CommandDies` may follow any of them. `EditSettings` and `RestoreBackup` are the
user, at any time; `raced` says that the user saved the file between the read and the write of a command.

## What is checked

Safety properties exclude, by name, the disturbances under which the code gives no
guarantee, and only those: `faults = 0` where a failing write is enough, `tool_calls = 0` where a racing
tool is enough, `strayed = {}` where the agent's choice is, `~stolen` where a lock lost its name, `failed` and
`untracked` where a session raised or was interrupted before its pid was registered, `overridden` where a tool has written the step a
process continues from. `tool_calls = 0` leaves out more than operators: the prompt of the selection session itself
suggests `claudesprint-tools sprint start`, so that `NoRework`, `OneInProgress`, `CompletedIsFinal` and `GivenUpForCause` are about sessions
whose agent leaves the statuses to the engine. `CompletedByEngine`, `CompletedMeansDone` and `DependenciesRespected` are about all of them.

| Run | Property | Says |
|---|---|---|
| `issue_loop` | `TypeOK` | the state is well typed |
| | `VerifiedBeforeCommit` | no path through routes, skips, retries, crashes and restarts with other gates brings an issue behind a verification step, or to its end, without the verdict since the last edit, but for the completion straight from the selection's file |
| | `SessionBudget` | `max_total_iterations` bounds the executions over all attempts and processes: only a lost file gives back one budget, and a failed save one execution |
| | `CheckpointComplete` | the file is never behind by more counts than saves failed, ahead by a valid step only after an error, and without failing saves equal until completion |
| | `RefusedOnlyAtFixTests` | the engine's own transitions are refused in one situation only |
| | `ImplementsIssueRun` | what the outer loop sees is a behaviour of `IssueRun` |
| | `EngineReturns` | every run of the engine returns |
| `sprint_loop` | `TypeOK` | the state is well typed |
| | `CompletedByEngine` | a completed status was earned, whatever the disturbances |
| | `CompletedMeansDone` | a process that reports completion is right, whatever the disturbances |
| | `DependenciesRespected` | work begins after the dependencies, unless the agent strayed |
| | `NoRework` | a crash between completing and recording costs no work |
| | `OneInProgress` | at most one issue is in progress |
| | `GivenUpForCause` | "no issues" is said only of a sprint with a blocked issue or a cycle: nothing gets stuck unselected |
| | `DetectionIsExact` | `detect_cycles` names exactly the issues that wait for themselves, and reports cycles only |
| | `CompletedIsFinal` | no step takes a completion back |
| | `SprintReturns` | a process ends unless the agent keeps straying |
| `store` | `ExclusionUnlessStolen` | two holders of the lock only after an unlink took the name of an open lock file |
| | `FileStaysWhole` | nobody sees an empty or mixed file, if the writers exclude each other or only one uses the fixed temporary name |
| | `UpdatesStay` | an update reported as written is not lost among writers that all lock |
| | `LockNotLeaked` | a thread behind `locked()` holds nothing |
| | `RefusedByLivingHolder` | no lock file of a dead process refuses anybody |
| `runner` | `ChildGone` | a session that returns has no child left |
| | `LeftoversTracked` | helpers left in the background are tracked by their group |
| | `ExitLeavesNothing` | wherever a signal arrives, the program's end leaves no process of a session |
| | `SuccessIsReal` | success is reported only of a child that ended with 0 after its output |
| | `StrangersSpared` | `cleanup_all` signals no outside process that has taken a session's number, but the leader of a group of it and the named cases |
| | `SessionEnds` | async sessions and streams end, whatever the child does |
| | `SignalEnds` | a signal ends the program, unless it interrupts the process manager inside its lock |
| `heartbeat` | `OneMonitor` | one monitor at most, until a stop gave up on one |
| | `ReportedOnce` | no interleaving of pulses, restarts and checks reports a step twice |
| | `HangReported` | a hang is reported unless it ends before |
| `display` | `BoardFollowsSprint` | at each selection the board and its count say what `sprint.json` says, and no card is active |
| | `LogFollowsSprint` | so does the count in the log |
| | `ThrobberMeansWork` | the throbber spins only for a session, or after one that failed or whose end had no event |
| `setup` | `EnvironmentFirst` | a setting named in the environment is overwritten by nothing the files say or have filled in, only by a flag |
| | `ModelFixed` | a run keeps its models though the user edits the file under it |
| | `UserHooksKept` | no sequence of injections drops or invents an entry of the user's |
| | `HooksOnce` | no sequence of injections, edits and restored backups doubles one of ClaudeSprint's entries |
| | `DamageRecoverable` | a command that dies in the write, and the commands after it, leave the user's entries in the backup |

Each property comes with a mutant in the module (operators marked *Mutant*): a plausible bug
under which TLC finds the property violated.

Five more runs are expected to fail. Each states what a comment or a document of the repository says, and TLC shows
the code doing otherwise; the findings in PROJECT.json quote both.

| Run | Violated | In short |
|---|---|---|
| `step_override` | `StepNotOverridden` | the next process adopts a step the agent wrote into the file |
| `lost_change` | `ChangesKept` | the engine's save overwrites what the agent recorded |
| `lock_exclusion` | `MutualExclusion` | release unlocks and then unlinks: who locked the file in between holds a lock without a name |
| `timeout_kills` | `TimeoutKills` | closing the output of a child that hangs silently waits for that child, and comes before the kill |
| `selection_session` | `SelectionNotEngines` | the engine adopts the file of the selection session and runs a select-issue session, after which the issue is complete |

### Bounds

| Run | Bound | Why it is enough |
|---|---|---|
| `issue_loop` | `MaxTotalIterations = 11` | the shortest walk from read-docs to complete-issue takes ten iterations with all gates on: issues complete, and one detour or retry runs into the limit |
| | `MaxRetry = 2`, `RateLimitAttempts = 2` | one retry that is allowed, one that is the last |
| | `MaxRuns = 2`, three gate settings | one restart with another setting: both gates, browser QA alone (the setting with the dead end), none; a second restart starts from the same kinds of file |
| | `MaxDisturbances = 1` | one failing save or log, or one tool call, at any place of the walk |
| | `ToolSteps` | a step behind every verification (commit-changes) and a word that is no step; the step with no route, select-issue, is there from the start |
| `sprint_loop` | three issues | one dependency, one id that is missing, a choice that needs the agent |
| | `MaxRuns = 3` | a process that crashes, its successor that crashes, and the one that finishes |
| | `IterationLimits = {0, 1}` | unlimited, and a limit that is hit |
| | `MaxDisturbances = 1` | one failing read or write, or one tool call of three steps that races the loop |
| | graphs of three issues, two dependencies each at most | all 9261 of them: loops of one to three, two loops that share a node, tails into loops, an unknown id, an id listed twice. `DetectionIsExact` is about constants and evaluated in the first states only (`runs = 0`) |
| `store` | three writers, four inodes | a holder, one that has opened the lock file, and one that comes after the unlink; each may have an inode and there is one to create |
| | `MaxUpdates = 3`, `MaxTries = 2` | one writer that updates twice beside another; a retry that succeeds and one that gives up |
| `runner` | `MaxSessions = 2` | a session that meets what the one before it has left, in each pair of modes |
| | `MaxFaults = 1` | one exception in one of them, or one number that is taken again |
| `heartbeat` | `Timeout = 2`, two steps | inactive, almost too long, too long; a change of step |
| | three monitors | two that a stop gave up on, and the current one |
| `display` | `MaxRuns = 2`, three issues | a second process takes over the board's statuses of the first |
| | `MaxDisturbances = 0` | the properties promise nothing of the display when another hand writes `sprint.json` |
| | `MaxCompletions = 3` | every issue is completed by the process that is shown; more only by rework |
| `setup` | one setting, which both files have and a flag sets, one value, one model, one user entry | layers are merged setting by setting, and a setting only the project's file has goes the same way with one layer less; entries are filtered one by one; two kinds of feature change different events |
| | `Apart` | a state constraint: runs and the injection of hooks have only `config.toml` in common, which injection neither reads nor writes; they are explored one beside the other and not in all combinations, nor is a run under way with each global file, which it does not read any more |

Deadlock is not checked: every one of these systems stops, when the bound on processes, sessions or updates is used
up, when an issue has been completed, or, in `runner`, where a handler waits for a lock its own thread holds, which is
a hazard of the code that `SessionEnds` and `SignalEnds` name.

### Fairness

*The loops.* Weak fairness of `Run`, the steps a running process takes by itself, and of nothing
else. The code is one thread that always goes on: a session ends because its runner kills it
at its timeout (`SessionEnds` shows where that holds, `timeout_kills` where it does not), and a lock is given up waiting for after ten seconds. Nothing is assumed of crashes, new
processes, tool calls or of what a session answers: an adversary picks the answers. `SprintLoop` counts the
return of the inner loop among these steps; `EngineReturns` justifies it.

*Runner.* Weak fairness of `Program`, the main thread with its timeouts, and of `Cleanup`, the handler. Nothing makes a child read
its prompt, print, end or start anything: those steps are in `Environment`.

*Heartbeat.* Weak fairness of each monitor: threads are scheduled and callbacks return. Nothing makes time pass or a pulse come.

`Store`, `Display` and `Setup` have safety properties only and no fairness.

## What is proved

Every safety property of the runs is proved for every value of the constants: any limits, any number of processes, threads,
sessions and disturbances, any sprint with any dependencies, priorities and gate settings, any entries of the user's. The assumptions are those the modules
state: limits and bounds are natural numbers, positive where the configuration requires it; the set of issues is
finite, not empty, and their places in the file differ (`IssuesAssumption`); writers are finitely many and their schemes are
of the kinds of the code (`StoreAssumption`); modes and services are those of the code (`RunnerAssumption`, `HeartbeatAssumption`);
a file that is there is told from one that is not (`FilesAssumption`, `ContentsAssumption`), and the user's hooks are not ClaudeSprint's
(`SetupAssumption`). `GivenUp` takes one assumption of its own, which `GivenUpAfterSearch` discharges.

| Theorem | Property | Argument |
|---|---|---|
| `IssueLoopProofs!TypeCorrect` | `TypeOK` | inductive; needs the routing table to lead to steps only, and `attempt` to stay in range |
| `Verified` | `VerifiedBeforeCommit` | the step of the memory is `select-issue` only if the engine was started on the selection's file, from which it never gets away; for any other step the file satisfies the same requirement as the memory wherever the two may differ in their step, and `cleared` grows exactly along the edges that lead behind a verification step |
| `Budget`, `Checkpoint` | `SessionBudget`, `CheckpointComplete` | each execution has an iteration of its own, which the file counts, a failed save excuses, or a lost file took with it (`BudgetInv`), and memory is ahead of the file by no more than the saves that failed; where memory and file differ in their step, the last save was that of a transition the log failed after (`StepsSaved`) |
| `Refusals` | `RefusedOnlyAtFixTests` | every route is valid by itself; for skips the least closed set of skippable steps is computed per gate setting |
| `Implements` | `ImplementsIssueRun` | each action maps to one of `IssueRun` or a stutter, `SetUpContext` and `Restart` to `Continue` or `BeginAnew`; the guard of `Finish` comes from `Verified`, the verdicts an action adds from the edge it takes |
| `RunsOut` | | `WorkRunsOut`: one number, below |
| `SprintLoopProofs!TypeCorrect` | `TypeOK` | with the existence of first and highest-priority issues in a finite set, by well-founded induction on positions and priorities |
| `Completion`, `SprintCompletion`, `Dependencies` | `CompletedByEngine`, `CompletedMeansDone`, `DependenciesRespected` | `SoundInv`: every copy of the sprint anybody holds is sound, in memory, in the tool, in the file; stale copies know less, never more |
| `AtMostOne` | `OneInProgress` | `OneInv`: without tools the copies that will be written back equal the file, and what is in progress is what the loop works on |
| `Finality` | `CompletedIsFinal` | `FinalInv`: what is selected, marked or saved is not completed in the file |
| `Resumption` | `NoRework` | `ReworkInv`: an issue that is done either has its last status or is the one in progress that the file names, so it is resumed |
| `GivenUp` | `GivenUpForCause` | if nothing waits for itself, then of the issues that are not completed one has all its dependencies behind it and is available: otherwise each would wait for another, and of the closed sets that contain one of them a least one would have a smaller one inside. Assumes that what waits for itself is reported (`CyclesReported`) |
| `GivenUpAfterSearch` | `GivenUpForCause` | the same without that assumption, from `DependenciesProofs!Exact`: the outer loop with the search it really uses, for a sprint with any lists of dependencies |
| `SprintEnds` | | `SprintRunsOut`: three nested counts, below |
| `DependenciesProofs!Exact` | | for every finite graph, with loops, repeated and unknown ids. A search ends: every turn uses up one of `Turns` for good (`TurnTakesSlot`). What it reports is a cycle: its path is a walk along dependencies without repetition. It finds each cycle it can reach back to its root: when it is over, what was visited is closed under dependencies, so an id that waits for itself is reached from itself, and the edge back into the path was looked at while its root was on it |
| `Detection` | `DetectionIsExact` | `Exact`, for the graphs of the run |
| `StoreProofs!Exclusion` | `ExclusionUnlessStolen` | `Named`: until a name is stolen every open lock file is the one the name stands for, so that holders have the same inode (`OneHolder`), which `Free` forbids |
| `NotLeaked`, `Refused` | `LockNotLeaked`, `RefusedByLivingHolder` | `Place`: what a thread with a lock object of its own has opened, holds and has flagged follows from where it stands |
| `StaysWhole` | `FileStaysWhole` | `TempInv`: the fixed temporary file is whole between fill and rename, and no handle but its writer's is in it |
| `Stay` | `UpdatesStay` | `UpdateInv`: what the holder has read is what the file holds until its rename |
| `RunnerProofs!Gone`, `Leftovers`, `NothingLeft`, `Spared` | `ChildGone`, `LeftoversTracked`, `ExitLeavesNothing`, `StrangersSpared` | `GroupsKnown`, `PidsKnown`: in every place of the main thread, what lives of earlier sessions is in `groups`, and of the current one in `pids`, or in one of the named sets; a handler on top of any place finds the same. `Taken`: a number is taken only when nothing of its session is left, so that forgetting its group then loses nobody; and a stranger is signalled only by its own number in `pids`, or as a leader (`StruckIsTracked`) |
| `Success` | `SuccessIsReal` | `CodeKnown`: where the code is known it is the status of the child, or the time had expired |
| `HeartbeatProofs!One` | `OneMonitor` | `Known`: until a stop gives up on one, a monitor that lives is the one in `thread`, and a service that does not run is waiting for it |
| `Once` | `ReportedOnce` | `Flagged`: a report of the step implies the flag, which is set under the lock that guards the check |
| `DisplayProofs!Throbber` | `ThrobberMeansWork` | the log has a step only while a session runs or after one whose end was not told, and the throbber spins only with it; outside the engine neither is left over |
| `LogFollows` | `LogFollowsSprint` | `LogInv`: the count of the log is that of `sprint.json`, but for the one issue between its completion and the event that tells of it |
| `BoardFollows` | `BoardFollowsSprint` | `BoardInv`: every card is where its status puts it, except that of the issue at work; both rest on `OneInv` and `FinalInv` of `SprintLoopProofs` |
| `SetupProofs!ImplementsConfig` | | for a run, `init-repo` and `features refresh` are one more editor of `config.toml`: each step maps to one of `Config` or a stutter |
| `Kept`, `Once`, `Recoverable` | `UserHooksKept`, `HooksOnce`, `DamageRecoverable` | `HooksInv`: the file, the backup and what a command is about to write are each, if they are anything, proper contents without an entry of ClaudeSprint's twice; what the command is about to write has the user's entries unless the user saved in between; and while the file is or may soon be damaged, the backup has them |
| `Environment`, `Model` | `EnvironmentFirst`, `ModelFixed` | inductive over `Config`, carried over to `Setup` by `ImplementsConfig` |

None of the properties is inductive: each speaks of one file, one status or one place, while a step
preserves it only because of copies in flight, open handles or places passed before. All invariants were checked with TLC before they were
proved.

### Why the loops end

Liveness is out of the prover's reach, but not the argument it rests on. For both loops a measure is proved that every step of the loop makes
smaller; that such a step is always possible while the loop runs, and is taken in the end, is what remains of `EngineReturns` and `SprintReturns` and is left to TLC.

*Inner loop* (`IssueLoopProofs!RunsOut`). `WorkLeft` adds up the iterations left of the limit, the places left in this iteration and the attempts left after
rate limits. However routes, skips and failures lead around the graph, a step of the engine, its abort and a retry make it smaller, no tool makes it larger,
and only a new process does.

*Outer loop* (`SprintLoopProofs!SprintEnds`). Without an iteration limit nothing is counted; what ends it is that each iteration changes a status in one
direction. The measure has three parts, the first of which counts most: disturbances still to come, marks still to be set (an issue may be marked as in progress,
and as completed or blocked), and places left in this iteration. An iteration is `Informed` as long as what it has decided is still
right; then the mark it sets is one of those to be set. One that was overtaken, by a tool or by the sprint written back with
the branch, may undo all of them, but only one iteration for each disturbance, or at the start of the process, is: hence the second part is larger than any number of marks while an iteration is
not informed. With the agent's choice among what is on offer (`strayed = {}`), every step of `run` makes the measure smaller, and no other
step but the start of a process makes it larger.

### Only model-checked

Liveness under fairness: `EngineReturns`, `SprintReturns`, `SessionEnds`, `SignalEnds`, `HangReported`. It needs `ENABLED`, which the prover does not reason about.

## What is not modelled

- The text of prompts, logs and messages; waiting and back-off between attempts.
- A transient failure to read `current_issue.json`, which the code cannot tell from a file
  that is not there.
- What a session does inside: it answers anything, may edit code in the steps that do, and may call tools.
- The metadata of a sprint, its history and its creation; the log of the current issue beyond that it may fail.
- The events of a stream and their parsing; the dashboard's web server and its clients; the settings by their forty names;
  `.gitignore`, the prompts' directory and the installation of features.
- Components without state of their own, or that only wrap a command, listed as not modelled in PROJECT.json with the reason for each:
  prompts and specs, git, notifications, the Claude hook, validators, health check, the iteration tracker, plumbing.

### Observed while modelling, without a run of their own

In the engines:

- The routing word `default` counts as an explicit signal for steps that require one.
- With testing off and browser QA on, fix-tests is skipped to a step it has no valid transition to: the engine returns an error, in every
  process that continues this issue. `RefusedOnlyAtFixTests` says that this is the only such place.
- `issue init`, which the prompt of the selection session suggests, writes the chunk type `IMPLEMENT`, which the model of the file does not
  accept; the file does not load (`ToolInitIssue`), and the engine begins with a fresh context.
- An issue the agent names is not checked against its dependencies (`sprint_engine.py:614`; `docs/concepts/architecture.md:35` says selection
  follows them); hence `strayed`.
- The engine locks `.claudesprint/project/.loop.lock`; `is_session_active` looks at `.claudesprint/state/sprint.lock`, which nothing creates.
- `sprint_completed` reports the issues of this process only, not of the sprint (`sprint_engine.py:1147`).
- Nothing in the repository constructs a `StateManager`.

In the runner and the heartbeat:

- A child that dies of a signal has a negative code and is categorised as rejected, not as a crash.
- The prompt is written before any time limit starts, so that a child that reads nothing holds up the engine.
- A signal that arrives inside `register_pid` or `unregister_pid` waits for a lock its own thread holds.
- The process manager's handler imports a module that does not exist (`claudesprint.core.state_manager`) and swallows the error.
- After a report, pulses of the same step do not re-arm the monitor: a second hang of the same step is not reported. Nothing in the repository
  starts a heartbeat or subscribes its event.

In the displays:

- A blocked issue is shown as pending; `SPRINT_STARTED` always reports that none is completed; COMPLETE_ISSUE has no `STEP_COMPLETED`.
- The handler for the output of a session reads `current_issue.json` for every line.
- Notifications are sent from the engine's thread, one after the other.

In the configuration and the set-up:

- As soon as a project has a configuration file, the global one says nothing: `_get_project_config_values` returns every field, those the file
  does not mention with their defaults, and these overwrite the global values (`GetProjectConfigValues`, `FromProjectRoot`), although
  `models/config.py:44` has the global file as the layer below.
- The global `defaults.model` is read by nobody; the project's `default_model` reaches only the steps without a default of their own.
- A value out of bounds in a file ends the command with an uncaught `ValidationError`, while a file that is no TOML is silently ignored.
- Environment variables for notifications are not looked at; `docs/guides/configuration.md:110` names a file `config/notifications.json`, the code
  reads `config.toml`.
- `init-repo --force` and `features refresh --force` overwrite the user's `config.toml`; a crash in that write leaves it empty or the directory without one, and
  `init-repo` then refuses to run.
- `enabledPlugins` are only ever added; an entry that combines a user's hook with one of ClaudeSprint's is dropped whole; `.gitignore` is
  rewritten in place without a backup.

## What is left

In the order of what it would add: an abstract sprint of which
`SprintLoop` without disturbances is an implementation, and an atomic file of which `Store` without thefts is one, both with proofs; measures like those of the loops
for sessions and signals; the waiting between rate-limited attempts, with the time a limit
is lifted; the retries of the runner itself; the metadata and the history in `sprint.json`.
