------------------------------- MODULE Runner -------------------------------
(***************************************************************************)
(* ClaudeRunner and ProcessManager: sessions of the agent, one after the    *)
(* other, each a child process in a process group of its own.               *)
(*                                                                         *)
(* A session is run in one of three ways: by polling, with a thread that    *)
(* reads the output (sync); by asyncio (async); or line by line (stream).   *)
(* The child may print or be silent, exit, die, hang, ignore SIGTERM, and   *)
(* start a helper of its own that inherits its group and its output.  A     *)
(* signal may arrive at any time; its handler runs on top of the main       *)
(* thread, which stands still meanwhile.                                    *)
(*                                                                         *)
(* The number of a session stands for its pid and its process group; when   *)
(* the last process of both is gone and the child has been waited for, a    *)
(* process that has nothing to do with the program may take the number.     *)
(***************************************************************************)
EXTENDS Integers, FiniteSets

CONSTANTS
    Modes,       \* ways sessions are run
    MaxSessions, \* bound: sessions begun
    MaxFaults    \* bound: exceptions of a session or its reader, and numbers taken again

ASSUME RunnerAssumption ==
    /\ Modes \subseteq {"sync", "async", "stream"}
    /\ MaxSessions \in Nat /\ MaxFaults \in Nat

VARIABLES
    pc,         \* where the main thread stands
    mode,       \* how the current session is run
    session,    \* its number
    exit_code,  \* what the session has found out so far
    expired,    \* the time limit of the session is over
    closed,     \* stdout has been closed in the main thread
    unread,     \* sessions whose reader of the output ended in an exception
    category,   \* failure_category of the last result
    child,      \* children that run
    helper,     \* sessions with a helper that runs
    status,     \* exit status of the children that have ended
    reaped,     \* children that have been waited for
    pids, groups, pid_lock,  \* ProcessManager
    stranger,   \* numbers of ended sessions that an outside process has taken
    leader,     \* those of them that lead a process group of that number
    cleanup,    \* how far cleanup_all is, in the signal handler or at exit
    faults,     \* what MaxFaults counts
    \* History, for the properties only.
    failed,     \* sessions that ended in an exception
    untracked,  \* sessions whose group is not known
    struck,     \* strangers that cleanup_all has signalled
    abandoned,  \* streams whose child died before it read its prompt
    impatient   \* a second signal ended the program during the cleanup

main      == <<mode, session, exit_code, expired, closed, unread, category>>
processes == <<child, helper, status, reaped>>
manager   == <<pids, groups, pid_lock>>
outside   == <<stranger, leader, struck>>
history   == <<failed, untracked, abandoned, impatient>>
vars      == <<pc, main, processes, manager, outside, cleanup, faults, history>>

-----------------------------------------------------------------------------
(* State.                                                                   *)

Sessions == 1 .. MaxSessions

\* Exit codes as Popen and asyncio report them: death by a signal is negative.
Killed == 0 - 9
ExitStatus == {0, 1, 137, Killed}
Unknown == 999

FailureCategory == {"none", "rate_limited", "timeout", "rejected", "system_error"}

PC == {"idle", "spawned", "registering", "prompt", "waiting", "closing",
       "terminating", "joining", "unregister", "unregistering", "exited"}

TypeOK ==
    /\ pc \in PC /\ mode \in Modes \cup {"none"}
    /\ session \in 0 .. MaxSessions
    /\ exit_code \in ExitStatus \cup {124, Unknown}
    /\ pc = "unregister" /\ mode # "stream" => exit_code # Unknown
    /\ expired \in BOOLEAN /\ closed \in BOOLEAN /\ unread \subseteq Sessions
    /\ category \in FailureCategory
    /\ child \subseteq Sessions /\ helper \subseteq Sessions
    /\ status \in [Sessions -> ExitStatus \cup {Unknown}]
    /\ reaped \subseteq Sessions
    /\ pids \subseteq Sessions /\ groups \subseteq Sessions
    /\ pid_lock \in BOOLEAN /\ cleanup \in {"none", "begun", "grace"}
    /\ stranger \subseteq Sessions /\ leader \subseteq Sessions /\ struck \subseteq Sessions
    /\ faults \in Nat
    /\ failed \subseteq Sessions /\ untracked \subseteq Sessions
    /\ abandoned \subseteq Sessions /\ impatient \in BOOLEAN

Init ==
    /\ pc = "idle" /\ mode = "none" /\ session = 0
    /\ exit_code = Unknown /\ expired = FALSE /\ closed = FALSE /\ unread = {}
    /\ category = "none"
    /\ child = {} /\ helper = {}
    /\ status = [s \in Sessions |-> Unknown] /\ reaped = {}
    /\ pids = {} /\ groups = {} /\ pid_lock = FALSE
    /\ stranger = {} /\ leader = {} /\ struck = {}
    /\ cleanup = "none"
    /\ faults = 0
    /\ failed = {} /\ untracked = {} /\ abandoned = {} /\ impatient = FALSE

-----------------------------------------------------------------------------
(* Helpers of the actions.                                                  *)

\* The main thread is at this place, and no cleanup runs on top of it.
At(place) == pc = place /\ cleanup = "none"

Goto(place) == pc' = place

Alive == session \in child

\* The last process that could write into the pipe is gone, or nobody reads it.
ReaderDone == session \in unread \/ session \notin child \cup helper

\* poll(), wait(): a child that has ended is reaped.
Reap == reaped' = reaped \cup ({session} \ child)

NoChange == UNCHANGED <<child, helper, status>>

\* _categorize_failure.
Categorize(code, timed_out, rate_limited) ==
    CASE code = 0                     -> "none"
      [] timed_out \/ code = 124      -> "timeout"
      [] rate_limited                 -> "rate_limited"
      [] code >= 128                  -> "system_error"
      [] OTHER                        -> "rejected"

-----------------------------------------------------------------------------
(* Starting a session.                                                      *)

\* create_subprocess_exec or Popen with start_new_session.
Spawn ==
    /\ At("idle") /\ session < MaxSessions
    /\ session' = session + 1
    /\ mode' \in Modes
    /\ exit_code' = Unknown /\ expired' = FALSE /\ closed' = FALSE
    /\ child' = child \cup {session + 1}
    /\ untracked' = untracked \cup {session + 1}
    /\ Goto("spawned")
    /\ UNCHANGED <<outside, unread, category, helper, status, reaped, manager, cleanup,
                   faults, failed, abandoned, impatient>>

\* register_pid, which holds the lock while it asks for the group; the group
\* of a child that has been reaped by then is not found.
RegisterPid ==
    /\ At("spawned") /\ ~pid_lock
    /\ pid_lock' = TRUE
    /\ pids' = pids \cup {session}
    /\ groups' = groups \cup ({session} \ reaped)
    /\ untracked' = IF session \in reaped THEN untracked ELSE untracked \ {session}
    /\ Goto("registering")
    /\ UNCHANGED <<outside, main, processes, cleanup, faults, failed, abandoned, impatient>>

Registered ==
    /\ At("registering")
    /\ pid_lock' = FALSE
    /\ Goto("prompt")
    /\ UNCHANGED <<outside, main, processes, pids, groups, cleanup, faults, history>>

\* The prompt is written, before any time limit begins: a child that reads
\* nothing holds it up if it does not fit into the pipe.  A broken pipe is
\* ignored where the end of the child will be noticed anyway.
SendPrompt ==
    /\ At("prompt")
    /\ Goto("waiting")
    /\ UNCHANGED <<outside, main, processes, manager, cleanup, faults, history>>

\* The child is ended by SIGTERM or, when the grace period is over, by SIGKILL,
\* and waited for; what runs in its group is left alone.
Kill ==
    /\ child' = child \ {session}
    /\ \/ Alive /\ \E code \in {0, 1, Killed} : status' = [status EXCEPT ![session] = code]
       \/ ~Alive /\ UNCHANGED status
    /\ reaped' = reaped \cup {session}
    /\ UNCHANGED helper

\* When the pipe is broken stream_prompt kills the child and returns at once; it
\* does not unregister it.
AbandonStream ==
    /\ At("prompt") /\ mode = "stream"
    /\ Kill
    /\ abandoned' = abandoned \cup {session}
    /\ Goto("idle")
    /\ UNCHANGED <<outside, main, manager, cleanup, faults, failed, untracked, impatient>>

\* Writing the prompt raises something else: the session is unregistered and
\* returns a system error; nobody kills the child.
SessionRaises ==
    /\ At("prompt") /\ mode # "stream" /\ faults < MaxFaults
    /\ faults' = faults + 1
    /\ failed' = failed \cup {session}
    /\ exit_code' = 1
    /\ Goto("unregister")
    /\ UNCHANGED <<outside, mode, session, expired, closed, unread, category, processes,
                   manager, cleanup, untracked, abandoned, impatient>>

\* The reader catches what decoding, an overlong line or on_output raises, and
\* reads no more.
ReaderFails ==
    /\ At("waiting") /\ faults < MaxFaults
    /\ faults' = faults + 1
    /\ unread' = unread \cup {session}
    /\ UNCHANGED <<outside, pc, mode, session, exit_code, expired, closed, category,
                   processes, manager, cleanup, history>>

-----------------------------------------------------------------------------
(* Waiting for its end.                                                     *)

\* Mutant: the time spent reading the output is not limited.
ExpireWhileSilent ==
    /\ At("waiting") /\ ~expired /\ mode = "sync"
    /\ expired' = TRUE
    /\ UNCHANGED <<outside, pc, mode, session, exit_code, closed, unread, category,
                   processes, manager, cleanup, faults, history>>

\* claude_timeout, or the line_timeout of a stream.
Expire ==
    /\ At("waiting") /\ ~expired
    /\ expired' = TRUE
    /\ UNCHANGED <<outside, pc, mode, session, exit_code, closed, unread, category, processes,
                   manager, cleanup, faults, history>>

\* The polling loop sees the child's end; the reader thread is joined next.
PollSync ==
    /\ At("waiting") /\ mode = "sync" /\ ~expired /\ ~Alive
    /\ Reap /\ NoChange
    /\ exit_code' = status[session]
    /\ Goto("joining")
    /\ UNCHANGED <<outside, mode, session, expired, closed, unread, category, manager, cleanup,
                   faults, history>>

\* The loop gives up; a child that still runs is dealt with, stdout first.
TimeoutSync ==
    /\ At("waiting") /\ mode = "sync" /\ expired
    /\ Reap /\ NoChange
    /\ exit_code' = 124
    /\ Goto(IF Alive THEN "closing" ELSE "joining")
    /\ UNCHANGED <<outside, mode, session, expired, closed, unread, category, manager, cleanup,
                   faults, history>>

\* stdout.close() waits for the lock the reader thread holds in readline(): it
\* gets it when there is a line to read or nothing more to come.
CloseStdout ==
    /\ At("closing") /\ ReaderDone
    /\ closed' = TRUE
    /\ Goto("terminating")
    /\ UNCHANGED <<outside, mode, session, exit_code, expired, unread, category, processes,
                   manager, cleanup, faults, history>>

CloseStdoutAfterLine ==
    /\ At("closing") /\ ~ReaderDone
    /\ closed' = TRUE
    /\ Goto("terminating")
    /\ UNCHANGED <<outside, mode, session, exit_code, expired, unread, category, processes,
                   manager, cleanup, faults, history>>

\* Mutant: the end of the output counts as the end of the child.
OutputEndsAsync ==
    /\ At("waiting") /\ mode = "async" /\ ~expired
    /\ session \notin helper
    /\ exit_code' = IF session \in reaped THEN status[session] ELSE 0
    /\ Goto("unregister")
    /\ UNCHANGED <<outside, mode, session, expired, closed, unread, category, processes,
                   manager, cleanup, faults, history>>

\* gather(read_task, process.wait()): both the output and the child have ended.
WaitAsync ==
    /\ At("waiting") /\ mode = "async" /\ ~expired
    /\ ReaderDone /\ session \in reaped
    /\ exit_code' = status[session]
    /\ Goto("unregister")
    /\ UNCHANGED <<outside, mode, session, expired, closed, unread, category, processes,
                   manager, cleanup, faults, history>>

\* Mutant: the child is left alone on a timeout.
LeaveAsync ==
    /\ At("waiting") /\ mode = "async" /\ expired
    /\ exit_code' = 124
    /\ Goto("unregister")
    /\ UNCHANGED <<outside, mode, session, expired, closed, unread, category, processes,
                   manager, cleanup, faults, history>>

\* The reader is cancelled and the child, unless it has been reaped, killed.
TimeoutAsync ==
    /\ At("waiting") /\ mode = "async" /\ expired
    /\ exit_code' = 124
    /\ Goto(IF session \in reaped THEN "unregister" ELSE "terminating")
    /\ UNCHANGED <<outside, mode, session, expired, closed, unread, category, processes,
                   manager, cleanup, faults, history>>

\* The end of the output, the line timeout or the total timeout: in each case
\* the child is killed if it has not been reaped.
EndStream ==
    /\ At("waiting") /\ mode = "stream"
    /\ ReaderDone \/ expired
    /\ Goto(IF session \in reaped THEN "unregister" ELSE "terminating")
    /\ UNCHANGED <<outside, main, processes, manager, cleanup, faults, history>>

\* _force_kill_process.
ForceKill ==
    /\ At("terminating")
    /\ Kill
    /\ Goto(IF mode = "sync" THEN "joining" ELSE "unregister")
    /\ UNCHANGED <<outside, main, manager, cleanup, faults, history>>

\* The reader thread has ended, or is given up on: at the end of the output, or
\* because stdout was closed.
JoinReader ==
    /\ At("joining") /\ (ReaderDone \/ closed)
    /\ Goto("unregister")
    /\ UNCHANGED <<outside, main, processes, manager, cleanup, faults, history>>

\* A reader that is stuck after five seconds has stdout closed under it, which
\* waits as before.
CloseStuckReader ==
    /\ At("joining") /\ ~closed /\ ~ReaderDone
    /\ closed' = TRUE
    /\ UNCHANGED <<outside, pc, mode, session, exit_code, expired, unread, category, processes,
                   manager, cleanup, faults, history>>

-----------------------------------------------------------------------------
(* Ending it.                                                               *)

\* Mutant: the group is forgotten together with the pid.
UnregisterGroup ==
    /\ At("unregister") /\ ~pid_lock
    /\ pid_lock' = TRUE
    /\ pids' = pids \ {session}
    /\ groups' = groups \ {session}
    /\ Goto("unregistering")
    /\ UNCHANGED <<outside, main, processes, cleanup, faults, history>>

\* Mutant: nothing is forgotten about a child that has been reaped.
UnregisterRunning ==
    /\ At("unregister") /\ ~pid_lock
    /\ pid_lock' = TRUE
    /\ pids' = IF session \in reaped THEN pids ELSE pids \ {session}
    /\ groups' = IF session \in reaped THEN groups ELSE groups \ {session}
    /\ Goto("unregistering")
    /\ UNCHANGED <<outside, main, processes, cleanup, faults, history>>

\* unregister_pid: the group of a child that has been reaped is not found, and
\* stays; unless the number leads a group again, which is taken for the child's.
UnregisterPid ==
    /\ At("unregister") /\ ~pid_lock
    /\ pid_lock' = TRUE
    /\ pids' = pids \ {session}
    /\ groups' = groups \ ({session} \ (reaped \ leader))
    /\ Goto("unregistering")
    /\ UNCHANGED <<outside, main, processes, cleanup, faults, history>>

\* A session that raised is a system error whatever its code.
Return ==
    /\ At("unregistering")
    /\ pid_lock' = FALSE
    /\ \E rate_limited \in BOOLEAN :
        category' = IF session \in failed THEN "system_error"
                    ELSE IF mode = "stream" THEN "none"
                    ELSE Categorize(exit_code, exit_code = 124, rate_limited)
    /\ Goto("idle")
    /\ UNCHANGED <<outside, mode, session, exit_code, expired, closed, unread, processes, pids,
                   groups, cleanup, faults, history>>

-----------------------------------------------------------------------------
(* The end of the program.                                                  *)

\* The handler of a signal begins wherever the main thread stands, but not inside
\* stdout.close(), which is not interrupted; the atexit hook, between two sessions.
BeginCleanup ==
    /\ pc \notin {"closing", "exited"} /\ cleanup = "none"
    /\ cleanup' = "begun"
    /\ UNCHANGED <<outside, pc, main, processes, manager, faults, history>>

Tracked == pids \cup groups

\* Of the processes the signals reach these are ended; an outside process is
\* reached by its pid, or as the leader of its group.
End(children, helpers) ==
    /\ struck' = struck \cup (stranger \cap pids) \cup (leader \cap groups)
    /\ child' = child \ children
    /\ helper' = helper \ helpers
    /\ status' = [s \in Sessions |-> IF s \in child \cap children THEN Killed ELSE status[s]]
    /\ UNCHANGED <<reaped, stranger, leader>>

\* Mutant: the lock is not given back.
CleanupTermKeepsLock ==
    /\ cleanup = "begun" /\ ~pid_lock
    /\ pid_lock' = TRUE
    /\ \E C \in SUBSET Tracked, H \in SUBSET groups : End(C, H)
    /\ cleanup' = "grace"
    /\ UNCHANGED <<pc, main, pids, groups, faults, history>>

\* cleanup_all waits for the lock, which the thread it interrupted may hold; then
\* SIGTERM to all groups and pids, which some processes survive.
CleanupTerm ==
    /\ cleanup = "begun" /\ ~pid_lock
    /\ \E C \in SUBSET Tracked, H \in SUBSET groups : End(C, H)
    /\ cleanup' = "grace"
    /\ UNCHANGED <<pc, main, manager, faults, history>>

\* Mutant: only the children are killed.
CleanupKillChildren ==
    /\ cleanup = "grace" /\ ~pid_lock
    /\ End(Tracked, {})
    /\ pids' = {} /\ groups' = {}
    /\ cleanup' = "none"
    /\ Goto("exited")
    /\ UNCHANGED <<main, pid_lock, faults, history>>

\* Two seconds later SIGKILL; then the handler raises the signal once more and
\* the program ends.
CleanupKill ==
    /\ cleanup = "grace" /\ ~pid_lock
    /\ End(Tracked, groups)
    /\ pids' = {} /\ groups' = {}
    /\ cleanup' = "none"
    /\ Goto("exited")
    /\ UNCHANGED <<main, pid_lock, faults, history>>

\* A signal during the cleanup: _cleaned_up is set, so its handler ends the
\* program at once.
SecondSignal ==
    /\ cleanup # "none"
    /\ impatient' = TRUE
    /\ cleanup' = "none"
    /\ Goto("exited")
    /\ UNCHANGED <<outside, main, processes, manager, faults, failed, untracked, abandoned>>

-----------------------------------------------------------------------------
(* The child.                                                               *)

ChildStartsHelper(s) ==
    /\ s \in child
    /\ helper' = helper \cup {s}
    /\ UNCHANGED <<outside, pc, main, child, status, reaped, manager, cleanup, faults, history>>

ChildEnds(s) ==
    /\ s \in child
    /\ child' = child \ {s}
    /\ \E code \in ExitStatus : status' = [status EXCEPT ![s] = code]
    /\ UNCHANGED <<outside, pc, main, helper, reaped, manager, cleanup, faults, history>>

HelperEnds(s) ==
    /\ s \in helper
    /\ helper' = helper \ {s}
    /\ UNCHANGED <<outside, pc, main, child, status, reaped, manager, cleanup, faults, history>>

\* asyncio's child watcher reaps at any time.
WatcherReaps ==
    /\ mode \in {"async", "stream"} /\ session \notin child \cup reaped
    /\ session > 0 /\ pc # "exited"
    /\ reaped' = reaped \cup {session}
    /\ UNCHANGED <<outside, pc, main, child, helper, status, manager, cleanup, faults, history>>

\* The number of a session becomes free when its child has been waited for and
\* nothing runs in its group; not in the moment before it is registered.
NumberTaken(s) ==
    /\ s \in reaped \ (helper \cup stranger)
    /\ pc = "spawned" => s # session
    /\ pc # "exited" /\ faults < MaxFaults
    /\ faults' = faults + 1
    /\ stranger' = stranger \cup {s}
    /\ leader' \in {leader, leader \cup {s}}
    /\ UNCHANGED <<pc, main, processes, manager, cleanup, struck, failed, untracked,
                   abandoned, impatient>>

-----------------------------------------------------------------------------
\* What the program does by itself: a session, once begun, and a handler.  That
\* a child reads its prompt, prints a line, ends, or starts a helper is up to it.
Program == \/ RegisterPid \/ Registered \/ AbandonStream
           \/ Expire \/ PollSync \/ TimeoutSync \/ CloseStdout
           \/ WaitAsync \/ TimeoutAsync \/ EndStream \/ ForceKill
           \/ JoinReader \/ UnregisterPid \/ Return

Environment == \/ SendPrompt \/ CloseStdoutAfterLine \/ CloseStuckReader
               \/ WatcherReaps
               \/ \E s \in Sessions : ChildStartsHelper(s) \/ ChildEnds(s) \/ HelperEnds(s)
                                     \/ NumberTaken(s)

Cleanup == CleanupTerm \/ CleanupKill

Next == \/ Spawn \/ Program \/ SessionRaises \/ ReaderFails
        \/ BeginCleanup \/ Cleanup \/ SecondSignal
        \/ Environment

\* A thread that can go on does, and timeouts expire.  Nothing makes a child
\* print or end, nor a signal arrive.
Spec == Init /\ [][Next]_vars /\ WF_vars(Program) /\ WF_vars(Cleanup)

-----------------------------------------------------------------------------
(* Properties.                                                              *)

\* When a session has returned its child is gone, however it was run and
\* whatever the child did, unless the session raised.
ChildGone == pc = "idle" => child \subseteq failed

\* What a session leaves running in the background is still tracked, by its
\* group, so that it ends with the program; unless the session raised, or its
\* child was reaped before it was registered.
LeftoversTracked ==
    pc = "idle" => helper \subseteq groups \cup failed \cup untracked

\* A program that ends by itself or by a signal leaves no process of a session
\* behind, wherever it was interrupted; but for sessions that raised or were not
\* yet registered, and for a second signal during the cleanup.
ExitLeavesNothing ==
    pc = "exited" /\ ~impatient => child \cup helper \subseteq failed \cup untracked

\* A session is reported as a success only if its child ended by itself, with
\* status 0, and all of its output had been read by then or the reader had failed.
SuccessIsReal ==
    pc = "unregistering" /\ exit_code = 0 /\ mode # "stream" =>
        /\ status[session] = 0 /\ ~expired
        /\ session \notin child
        /\ mode = "async" => session \notin helper \ unread

\* cleanup_all does not signal a process that has taken the number of an ended
\* session; but for one that leads a process group of that number, which stays
\* tracked, for a stream whose child died before its prompt, and for the session
\* it interrupts.
StrangersSpared ==
    [][struck' \ struck \subseteq
        leader \cup abandoned \cup (IF pc = "idle" THEN {} ELSE {session})]_vars

\* A session run by asyncio or as a stream ends once its prompt is written:
\* neither a child that hangs silently nor one that ignores SIGTERM nor a helper
\* that keeps the output open holds it up, unless a signal interrupts it inside
\* the lock.
SessionEnds ==
    (pc \notin {"idle", "spawned", "registering", "prompt"} /\ mode # "sync") ~>
        (pc \in {"idle", "exited"} \/ (cleanup = "begun" /\ pid_lock))

\* A signal whose handler begins ends the program, unless it interrupts
\* register_pid or unregister_pid inside the lock.
SignalEnds == (cleanup = "begun" /\ ~pid_lock) ~> pc = "exited"

-----------------------------------------------------------------------------
(* What the docs say, and the code does not do.                             *)

\* "Close stdout FIRST to unblock reader thread immediately" (claude_runner.py:361):
\* a session that times out goes on to kill its child.
TimeoutKills == pc = "closing" ~> (pc # "closing" \/ cleanup # "none")
=============================================================================
