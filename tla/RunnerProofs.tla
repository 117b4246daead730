---------------------------- MODULE RunnerProofs ----------------------------
(***************************************************************************)
(* Theorems about Runner, for any number of sessions and exceptions, in     *)
(* every way of running a session.                                          *)
(***************************************************************************)
EXTENDS Runner, TLAPS

\* A number that has not been given to a session yet is known nowhere.
Fresh ==
    /\ child \cup helper \cup reaped \subseteq 1 .. session
    /\ pc \notin {"idle", "exited"} => session \in Sessions
    /\ child \cap reaped = {}
    /\ \A s \in (1 .. session) \ child : status[s] # Unknown

\* A child outlives the session it belongs to only if that raised.
Ended ==
    /\ child \subseteq failed \cup {session}
    /\ pc = "idle" => child \subseteq failed
    /\ pc \in {"joining", "unregister", "unregistering"} => session \in reaped \cup failed

\* A number is taken by an outside process only when nothing has it any more.
Taken == stranger \subseteq reaped \ helper

\* Every session is tracked by its group, unless its number is taken, until the cleanup has killed the groups.
GroupsKnown ==
    /\ pc # "exited" => 1 .. session \subseteq groups \cup failed \cup untracked \cup leader
    /\ leader \subseteq stranger
    /\ pc = "exited" => cleanup = "none"
    /\ ExitLeavesNothing

\* No pid is tracked but that of the session that runs.
PidsKnown ==
    /\ pids \subseteq abandoned \cup {session}
    /\ pc \in {"idle", "spawned", "unregistering"} => pids \subseteq abandoned

\* Where an exit code of 0 may come from.
CodeKnown ==
    /\ pc \in {"spawned", "registering", "prompt", "waiting"} => exit_code = Unknown
    /\ pc \in {"joining", "unregister", "unregistering"} /\ mode # "stream" => exit_code # Unknown
    /\ pc \in {"closing", "terminating"} /\ mode # "stream" => exit_code = 124
    /\ pc \in {"joining", "unregister", "unregistering"} /\ exit_code = 0 /\ mode # "stream" =>
        /\ status[session] = 0 /\ ~expired
        /\ session \notin child
        /\ mode = "async" => session \notin helper \ unread

\* What the sessions have left, and where; what is known of the one at hand.
SessionsKnown == Fresh /\ Ended /\ Taken /\ PidsKnown
ResultsKnown == GroupsKnown /\ CodeKnown

IInv == TypeOK /\ SessionsKnown /\ ResultsKnown

-----------------------------------------------------------------------------
LEMMA InitInvariant == ASSUME RunnerAssumption, Init PROVE IInv
<1>1. TypeOK
  <2>1. 0 \in 0 .. MaxSessions
    BY DEF RunnerAssumption
  <2>2. expired \in BOOLEAN /\ closed \in BOOLEAN /\ pid_lock \in BOOLEAN /\ impatient \in BOOLEAN
    BY Zenon DEF Init
  <2> QED BY <2>1, <2>2 DEF Init, TypeOK, PC, FailureCategory, ExitStatus, Unknown
<1>2. Fresh /\ Ended /\ Taken /\ PidsKnown
  BY DEF Init, Fresh, Ended, Taken, PidsKnown
<1>3. GroupsKnown /\ CodeKnown
  BY DEF Init, GroupsKnown, ExitLeavesNothing, CodeKnown
<1> QED BY <1>1, <1>2, <1>3 DEF IInv, SessionsKnown, ResultsKnown

\* Ending the child of a session keeps the exit statuses in order.
LEMMA KillStatus ==
  ASSUME TypeOK, Fresh, session \in Sessions, Kill
  PROVE  /\ status' \in [Sessions -> ExitStatus \cup {Unknown}]
         /\ \A s \in (1 .. session) \ child' : status'[s] # Unknown
<1>1. CASE Alive
  <2>1. PICK code \in {0, 1, Killed} : status' = [status EXCEPT ![session] = code]
    BY <1>1 DEF Kill
  <2>2. code \in ExitStatus /\ code # Unknown
    BY DEF ExitStatus, Unknown, Killed
  <2> QED BY <2>1, <2>2 DEF Kill, TypeOK, Fresh, Sessions
<1>2. CASE ~Alive
  BY <1>2 DEF Kill, Alive, TypeOK, Fresh, Sessions
<1> QED BY <1>1, <1>2

LEMMA Preserved == ASSUME RunnerAssumption, IInv, [Next]_vars PROVE IInv'
<1> USE DEF IInv, At, Goto, main, processes, manager, outside, history, Sessions, PC,
            ExitStatus, Unknown, Killed, Fresh, Ended, Taken, GroupsKnown, ExitLeavesNothing, PidsKnown,
            CodeKnown, SessionsKnown, ResultsKnown
<1>1. CASE Spawn
  <2>1. expired' \in BOOLEAN /\ closed' \in BOOLEAN
    BY <1>1, Zenon DEF Spawn
  <2>2. TypeOK'
    BY <1>1, <2>1 DEF Spawn, TypeOK, RunnerAssumption
  <2>3. (SessionsKnown /\ ResultsKnown)'
    BY <1>1 DEF Spawn, TypeOK
  <2> QED BY <2>2, <2>3
<1>2. CASE RegisterPid
  BY <1>2 DEF RegisterPid, TypeOK
<1>3. CASE Registered
  <2>1. pid_lock' \in BOOLEAN
    BY <1>3, Zenon DEF Registered
  <2> QED BY <1>3, <2>1 DEF Registered, TypeOK
<1>4. CASE SendPrompt
  BY <1>4 DEF SendPrompt, TypeOK
<1>5. CASE AbandonStream
  <2>1. session \in Sessions /\ Kill
    BY <1>5 DEF AbandonStream
  <2>2. /\ status' \in [Sessions -> ExitStatus \cup {Unknown}]
        /\ \A s \in (1 .. session) \ child' : status'[s] # Unknown
    BY <2>1, KillStatus
  <2>3. TypeOK'
    BY <1>5, <2>1, <2>2 DEF AbandonStream, Kill, TypeOK
  <2>4. (SessionsKnown /\ ResultsKnown)'
    BY <1>5, <2>1, <2>2 DEF AbandonStream, Kill, TypeOK
  <2> QED BY <2>3, <2>4
<1>6. CASE SessionRaises
  BY <1>6 DEF SessionRaises, TypeOK
<1>7. CASE ReaderFails
  BY <1>7 DEF ReaderFails, TypeOK
<1>8. CASE Expire
  BY <1>8 DEF Expire, TypeOK
<1>9. CASE PollSync
  <2>1. TypeOK'
    BY <1>9 DEF PollSync, Reap, NoChange, Alive, TypeOK
  <2>2. SessionsKnown'
    BY <1>9 DEF PollSync, Reap, NoChange, Alive, TypeOK
  <2>3. ResultsKnown'
    BY <1>9 DEF PollSync, Reap, NoChange, Alive, TypeOK
  <2> QED BY <2>1, <2>2, <2>3
<1>10. CASE TimeoutSync
  <2>1. TypeOK'
    BY <1>10 DEF TimeoutSync, Reap, NoChange, Alive, TypeOK
  <2>2. SessionsKnown'
    BY <1>10 DEF TimeoutSync, Reap, NoChange, Alive, TypeOK
  <2>3. ResultsKnown'
    BY <1>10 DEF TimeoutSync, Reap, NoChange, Alive, TypeOK
  <2> QED BY <2>1, <2>2, <2>3
<1>11. CASE CloseStdout
  BY <1>11 DEF CloseStdout, TypeOK
<1>12. CASE CloseStdoutAfterLine
  BY <1>12 DEF CloseStdoutAfterLine, TypeOK
<1>13. CASE WaitAsync
  <2>1. TypeOK'
    BY <1>13 DEF WaitAsync, ReaderDone, TypeOK
  <2>2. SessionsKnown'
    BY <1>13 DEF WaitAsync, ReaderDone, TypeOK
  <2>3. ResultsKnown'
    BY <1>13 DEF WaitAsync, ReaderDone, TypeOK
  <2> QED BY <2>1, <2>2, <2>3
<1>14. CASE TimeoutAsync
  <2>1. TypeOK'
    BY <1>14 DEF TimeoutAsync, TypeOK
  <2>2. SessionsKnown'
    BY <1>14 DEF TimeoutAsync, TypeOK
  <2>3. ResultsKnown'
    BY <1>14 DEF TimeoutAsync, TypeOK
  <2> QED BY <2>1, <2>2, <2>3
<1>15. CASE EndStream
  BY <1>15 DEF EndStream, TypeOK
<1>16. CASE ForceKill
  <2>1. session \in Sessions /\ Kill
    BY <1>16 DEF ForceKill
  <2>2. /\ status' \in [Sessions -> ExitStatus \cup {Unknown}]
        /\ \A s \in (1 .. session) \ child' : status'[s] # Unknown
    BY <2>1, KillStatus
  <2>3. TypeOK'
    BY <1>16, <2>1, <2>2 DEF ForceKill, Kill, TypeOK
  <2>4. (SessionsKnown /\ ResultsKnown)'
    BY <1>16, <2>1, <2>2 DEF ForceKill, Kill, TypeOK
  <2> QED BY <2>3, <2>4
<1>17. CASE JoinReader
  <2>1. TypeOK'
    BY <1>17 DEF JoinReader, ReaderDone, TypeOK
  <2>2. SessionsKnown'
    BY <1>17 DEF JoinReader, ReaderDone, TypeOK
  <2>3. ResultsKnown'
    BY <1>17 DEF JoinReader, ReaderDone, TypeOK
  <2> QED BY <2>1, <2>2, <2>3
<1>18. CASE CloseStuckReader
  BY <1>18 DEF CloseStuckReader, TypeOK
<1>19. CASE UnregisterPid
  <2>1. TypeOK'
    BY <1>19 DEF UnregisterPid, TypeOK
  <2>2. SessionsKnown'
    BY <1>19 DEF UnregisterPid, TypeOK
  <2>3. ResultsKnown'
    BY <1>19 DEF UnregisterPid, TypeOK
  <2> QED BY <2>1, <2>2, <2>3
<1>20. CASE Return
  <2>1. pid_lock' \in BOOLEAN
    BY <1>20, Zenon DEF Return
  <2>2. exit_code \in Int
    BY DEF TypeOK
  <2>3. category' \in FailureCategory
    BY <1>20, <2>2 DEF Return, Categorize, FailureCategory
  <2>5. TypeOK'
    BY <1>20, <2>1, <2>3 DEF Return, TypeOK
  <2>6. SessionsKnown'
    BY <1>20, <2>1, <2>3 DEF Return, TypeOK
  <2>7. ResultsKnown'
    BY <1>20, <2>1, <2>3 DEF Return, TypeOK
  <2> QED BY <2>5, <2>6, <2>7
<1>21. CASE BeginCleanup
  <2>1. TypeOK'
    BY <1>21 DEF BeginCleanup, TypeOK
  <2>2. SessionsKnown'
    BY <1>21 DEF BeginCleanup, TypeOK
  <2>3. ResultsKnown'
    BY <1>21 DEF BeginCleanup, TypeOK
  <2> QED BY <2>1, <2>2, <2>3
<1>22. CASE CleanupTerm
  <2>1. TypeOK'
    BY <1>22 DEF CleanupTerm, End, Tracked, TypeOK
  <2>2. SessionsKnown'
    BY <1>22 DEF CleanupTerm, End, Tracked, TypeOK
  <2>3. ResultsKnown'
    BY <1>22 DEF CleanupTerm, End, Tracked, TypeOK
  <2> QED BY <2>1, <2>2, <2>3
<1>23. CASE CleanupKill
  <2>1. TypeOK'
    BY <1>23 DEF CleanupKill, End, Tracked, TypeOK
  <2>2. SessionsKnown'
    BY <1>23 DEF CleanupKill, End, Tracked, TypeOK
  <2>3. ResultsKnown'
    BY <1>23 DEF CleanupKill, End, Tracked, TypeOK
  <2> QED BY <2>1, <2>2, <2>3
<1>24. CASE SecondSignal
  <2>1. TypeOK'
    BY <1>24 DEF SecondSignal, TypeOK
  <2>2. SessionsKnown'
    BY <1>24 DEF SecondSignal, TypeOK
  <2>3. ResultsKnown'
    BY <1>24 DEF SecondSignal, TypeOK
  <2> QED BY <2>1, <2>2, <2>3
<1>25. CASE WatcherReaps
  <2>1. TypeOK'
    BY <1>25 DEF WatcherReaps, TypeOK
  <2>2. SessionsKnown'
    BY <1>25 DEF WatcherReaps, TypeOK
  <2>3. ResultsKnown'
    BY <1>25 DEF WatcherReaps, TypeOK
  <2> QED BY <2>1, <2>2, <2>3
<1>26. ASSUME NEW s \in Sessions, ChildStartsHelper(s) PROVE IInv'
  <2>1. TypeOK'
    BY <1>26 DEF ChildStartsHelper, TypeOK
  <2>2. SessionsKnown'
    BY <1>26 DEF ChildStartsHelper, TypeOK
  <2>3. ResultsKnown'
    BY <1>26 DEF ChildStartsHelper, TypeOK
  <2> QED BY <2>1, <2>2, <2>3
<1>27. ASSUME NEW s \in Sessions, ChildEnds(s) PROVE IInv'
  <2>1. TypeOK'
    BY <1>27 DEF ChildEnds, TypeOK
  <2>2. SessionsKnown'
    BY <1>27 DEF ChildEnds, TypeOK
  <2>3. ResultsKnown'
    BY <1>27 DEF ChildEnds, TypeOK
  <2> QED BY <2>1, <2>2, <2>3
<1>28. ASSUME NEW s \in Sessions, HelperEnds(s) PROVE IInv'
  <2>1. TypeOK'
    BY <1>28 DEF HelperEnds, TypeOK
  <2>2. SessionsKnown'
    BY <1>28 DEF HelperEnds, TypeOK
  <2>3. ResultsKnown'
    BY <1>28 DEF HelperEnds, TypeOK
  <2> QED BY <2>1, <2>2, <2>3
<1>29. ASSUME NEW s \in Sessions, NumberTaken(s) PROVE IInv'
  <2>1. TypeOK'
    BY <1>29 DEF NumberTaken, TypeOK
  <2>2. SessionsKnown'
    BY <1>29 DEF NumberTaken, TypeOK
  <2>3. ResultsKnown'
    BY <1>29 DEF NumberTaken, TypeOK
  <2> QED BY <2>1, <2>2, <2>3
<1>30. CASE UNCHANGED vars
  <2>1. TypeOK'
    BY <1>30 DEF vars, TypeOK
  <2>2. SessionsKnown'
    BY <1>30 DEF vars, TypeOK
  <2>3. ResultsKnown'
    BY <1>30 DEF vars, TypeOK
  <2> QED BY <2>1, <2>2, <2>3
<1> HIDE DEF IInv, Sessions
<1>31. CASE Program
  BY <1>31, <1>2, <1>3, <1>5, <1>8, <1>9, <1>10, <1>11, <1>13, <1>14, <1>15, <1>16, <1>17,
     <1>19, <1>20, Zenon DEF Program
<1>32. CASE Environment
  BY <1>32, <1>4, <1>12, <1>18, <1>25, <1>26, <1>27, <1>28, <1>29, Zenon DEF Environment
<1>33. CASE Cleanup
  BY <1>33, <1>22, <1>23, Zenon DEF Cleanup
<1> QED BY <1>1, <1>6, <1>7, <1>21, <1>24, <1>30, <1>31, <1>32, <1>33, Zenon DEF Next

-----------------------------------------------------------------------------
\* Every reachable state of the runner satisfies the invariant the theorems below
\* follow from.
THEOREM Invariant == Spec => []IInv
<1>1. Init => IInv
  BY RunnerAssumption, InitInvariant
<1>2. IInv /\ [Next]_vars => IInv'
  BY RunnerAssumption, Preserved
<1> QED BY <1>1, <1>2, PTL DEF Spec

\* The variables of the runner keep their types.
THEOREM Typed == Spec => []TypeOK
<1>1. IInv => TypeOK
  BY DEF IInv
<1> QED BY <1>1, Invariant, PTL

\* ClaudeRunner: when a session has returned its child is gone, unless it raised.
THEOREM Gone == Spec => []ChildGone
<1>1. IInv => ChildGone
  BY DEF IInv, SessionsKnown, ResultsKnown, Ended, ChildGone
<1> QED BY <1>1, Invariant, PTL

\* ProcessManager: what a session leaves in the background is tracked by its group.
THEOREM Leftovers == Spec => []LeftoversTracked
<1>1. IInv => LeftoversTracked
  BY DEF IInv, SessionsKnown, ResultsKnown, Fresh, Taken, GroupsKnown, LeftoversTracked
<1> QED BY <1>1, Invariant, PTL

\* cleanup_all: wherever it interrupts the main thread, the program leaves no process
\* of a session behind, the named exceptions apart.
THEOREM NothingLeft == Spec => []ExitLeavesNothing
<1>1. IInv => ExitLeavesNothing
  BY DEF IInv, SessionsKnown, ResultsKnown, GroupsKnown
<1> QED BY <1>1, Invariant, PTL

\* A success is one: the child ended with status 0 and its output was read.
THEOREM Success == Spec => []SuccessIsReal
<1>1. IInv => SuccessIsReal
  BY DEF IInv, SessionsKnown, ResultsKnown, CodeKnown, SuccessIsReal
<1> QED BY <1>1, Invariant, PTL

\* cleanup_all signals only what is tracked: of the processes that took the number of
\* an ended session, the leaders of a group and those whose pid is known.
LEMMA StruckIsTracked ==
  ASSUME Next PROVE struck' \ struck \subseteq leader \cup pids
<1>1. CASE CleanupTerm
  BY <1>1 DEF CleanupTerm, End
<1>2. CASE CleanupKill
  BY <1>2 DEF CleanupKill, End
<1>3. CASE ~CleanupTerm /\ ~CleanupKill
  <2>1. struck' = struck
    BY <1>3 DEF Next, Program, Environment, Cleanup, outside, Spawn, RegisterPid,
        Registered, SendPrompt, AbandonStream, SessionRaises, ReaderFails, Expire, PollSync,
        TimeoutSync, CloseStdout, CloseStdoutAfterLine, WaitAsync, TimeoutAsync, EndStream,
        ForceKill, JoinReader, CloseStuckReader, UnregisterPid, Return, BeginCleanup,
        SecondSignal, WatcherReaps, ChildStartsHelper, ChildEnds, HelperEnds, NumberTaken
  <2> QED BY <2>1
<1> QED BY <1>1, <1>2, <1>3

\* unregister_pid and cleanup_all: of the processes that took the number of an ended
\* session only the named ones are signalled.
THEOREM Spared == Spec => StrangersSpared
<1>1. ASSUME IInv, Next
      PROVE  struck' \ struck \subseteq
               leader \cup abandoned \cup (IF pc = "idle" THEN {} ELSE {session})
  <2>1. struck' \ struck \subseteq leader \cup pids
    BY <1>1, StruckIsTracked
  <2>2. pids \subseteq abandoned \cup (IF pc = "idle" THEN {} ELSE {session})
    BY <1>1 DEF IInv, SessionsKnown, PidsKnown
  <2> QED BY <2>1, <2>2
<1>2. IInv /\ [Next]_vars => [struck' \ struck \subseteq
        leader \cup abandoned \cup (IF pc = "idle" THEN {} ELSE {session})]_vars
  BY <1>1
<1> QED BY <1>2, Invariant, PTL DEF Spec, StrangersSpared
=============================================================================
