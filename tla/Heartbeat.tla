------------------------------ MODULE Heartbeat ------------------------------
(***************************************************************************)
(* HeartbeatService and AsyncHeartbeatService: a monitor that wakes up now  *)
(* and then and reports, once, a step without a pulse for too long.         *)
(*                                                                         *)
(* One caller starts, stops and resets the service; pulses come from any    *)
(* thread.  In the threaded service stop() waits two seconds for a monitor, *)
(* which may be in a callback for longer; the event it is to see at its     *)
(* next turn is the same for all monitors, and start() clears it.  In the   *)
(* async one the monitor is a task of the caller's loop, and the callback   *)
(* holds up the loop.                                                       *)
(***************************************************************************)
EXTENDS Naturals, FiniteSets

CONSTANTS
    Kinds,     \* services looked at: "thread", "async"
    Steps,     \* steps that send pulses
    Timeout,   \* in units of time
    Monitors   \* bound: monitors alive at once

NoStep == ""

ASSUME HeartbeatAssumption ==
    /\ Kinds \subseteq {"thread", "async"}
    /\ NoStep \notin Steps
    /\ Timeout \in Nat \ {0}

VARIABLES
    kind,          \* fixed at the start
    running,       \* _running
    stop_event,    \* _stop_event
    inactive,      \* time since _last_pulse, as far as it matters
    current_step,  \* _current_step
    hung_notified, \* _hung_notified
    thread,        \* _thread, or _monitor_task: none or one
    monitor,       \* where each monitor stands
    caller,        \* where the caller of start, stop and reset stands
    \* History, for the properties only.
    reports,       \* reports begun for the current step
    overrun        \* a stop gave up waiting for its monitor

service == <<running, stop_event, inactive, current_step, hung_notified>>
vars    == <<kind, service, thread, monitor, caller, reports, overrun>>

-----------------------------------------------------------------------------
Alive == {m \in Monitors : monitor[m] # "ended"}

TypeOK ==
    /\ kind \in Kinds
    /\ running \in BOOLEAN /\ stop_event \in BOOLEAN
    /\ inactive \in 0 .. Timeout
    /\ current_step \in Steps \cup {NoStep}
    /\ hung_notified \in BOOLEAN
    /\ thread \subseteq Monitors /\ Cardinality(thread) <= 1
    /\ monitor \in [Monitors -> {"test", "waiting", "check", "report", "ended"}]
    /\ caller \in {"idle", "stopping", "resetting"}
    /\ running => thread # {}
    /\ reports \in Nat /\ overrun \in BOOLEAN

Init ==
    /\ kind \in Kinds
    /\ running = FALSE /\ stop_event = FALSE
    /\ inactive = 0 /\ current_step = NoStep /\ hung_notified = FALSE
    /\ thread = {}
    /\ monitor = [m \in Monitors |-> "ended"]
    /\ caller = "idle"
    /\ reports = 0 /\ overrun = FALSE

-----------------------------------------------------------------------------
(* Pulses and time.                                                         *)

Pulse(step) ==
    /\ inactive' = 0
    /\ current_step' = step
    /\ \/ step = current_step /\ UNCHANGED <<hung_notified, reports>>
       \/ step # current_step /\ hung_notified' = FALSE /\ reports' = 0
    /\ UNCHANGED <<kind, running, stop_event, thread, monitor, caller, overrun>>

Tick ==
    /\ inactive < Timeout
    /\ inactive' = inactive + 1
    /\ UNCHANGED <<kind, running, stop_event, current_step, hung_notified, thread,
                   monitor, caller, reports, overrun>>

-----------------------------------------------------------------------------
(* The caller.  A callback of a task runs in its loop.                      *)

CallerRuns == kind = "async" => \A m \in Monitors : monitor[m] # "report"

Start ==
    /\ caller = "idle" /\ CallerRuns /\ ~running
    /\ running' = TRUE /\ stop_event' = FALSE /\ inactive' = 0
    /\ \E m \in Monitors \ Alive :
        thread' = {m} /\ monitor' = [monitor EXCEPT ![m] = "test"]
    /\ UNCHANGED <<kind, current_step, hung_notified, caller, reports, overrun>>

\* stop(), or the one reset() begins with.
Stop ==
    /\ caller = "idle" /\ CallerRuns /\ running
    /\ running' = FALSE /\ stop_event' = TRUE
    /\ caller' \in {"stopping", "resetting"}
    /\ UNCHANGED <<kind, inactive, current_step, hung_notified, thread, monitor, reports,
                   overrun>>

\* reset() forgets the step and the notification.
Leave ==
    /\ thread' = {} /\ caller' = "idle"
    /\ IF caller = "resetting"
       THEN current_step' = NoStep /\ hung_notified' = FALSE /\ reports' = 0
       ELSE UNCHANGED <<current_step, hung_notified, reports>>
    /\ UNCHANGED <<kind, running, stop_event, inactive, monitor>>

Waited == caller # "idle" /\ CallerRuns

\* Mutant: nobody waits for the monitor to end.
JoinedAnyway == Waited /\ Leave /\ UNCHANGED overrun

Joined == Waited /\ thread \cap Alive = {} /\ Leave /\ UNCHANGED overrun

\* Two seconds are over; only a callback takes that long.
JoinTimesOut == Waited /\ (\E m \in thread : monitor[m] = "report") /\ Leave /\ overrun' = TRUE

\* reset() of a service that does not run.
ResetStopped ==
    /\ caller = "idle" /\ CallerRuns /\ ~running
    /\ current_step' = NoStep /\ hung_notified' = FALSE /\ reports' = 0
    /\ UNCHANGED <<kind, running, stop_event, inactive, thread, monitor, caller, overrun>>

-----------------------------------------------------------------------------
(* _monitor_loop.                                                           *)

Become(m, place) == monitor' = [monitor EXCEPT ![m] = place]

\* The condition of the loop, and the wait.
Test(m) ==
    /\ monitor[m] = "test"
    /\ Become(m, IF stop_event THEN "ended" ELSE "waiting")
    /\ UNCHANGED <<kind, service, thread, caller, reports, overrun>>

Wake(m) ==
    /\ monitor[m] = "waiting"
    /\ Become(m, IF stop_event THEN "ended" ELSE "check")
    /\ UNCHANGED <<kind, service, thread, caller, reports, overrun>>

\* Mutant: the flag is not yet set when the report begins.
CheckThenFlag(m) ==
    /\ monitor[m] = "check"
    /\ \/ /\ ~running /\ Become(m, "ended") /\ UNCHANGED reports
       \/ /\ running /\ inactive = Timeout /\ ~hung_notified
          /\ reports' = reports + 1
          /\ Become(m, "report")
       \/ /\ running /\ (inactive < Timeout \/ hung_notified)
          /\ Become(m, "test") /\ UNCHANGED reports
    /\ UNCHANGED <<kind, service, thread, caller, overrun>>

\* Under the lock; the report itself is made outside.
Check(m) ==
    /\ monitor[m] = "check"
    /\ \/ /\ ~running
          /\ Become(m, "ended")
          /\ UNCHANGED <<hung_notified, reports>>
       \/ /\ running /\ inactive = Timeout /\ ~hung_notified
          /\ hung_notified' = TRUE /\ reports' = reports + 1
          /\ Become(m, "report")
       \/ /\ running /\ (inactive < Timeout \/ hung_notified)
          /\ Become(m, "test")
          /\ UNCHANGED <<hung_notified, reports>>
    /\ UNCHANGED <<kind, running, stop_event, inactive, current_step, thread, caller,
                   overrun>>

\* Mutant: what the callback raises ends the monitor.
ReportedOrRaised(m) ==
    /\ monitor[m] = "report"
    /\ \E place \in {"test", "ended"} : Become(m, place)
    /\ UNCHANGED <<kind, service, thread, caller, reports, overrun>>

\* The event is emitted and the callback called; what they raise is logged.
Reported(m) ==
    /\ monitor[m] = "report"
    /\ Become(m, "test")
    /\ UNCHANGED <<kind, service, thread, caller, reports, overrun>>

-----------------------------------------------------------------------------
Monitor(m) == Test(m) \/ Wake(m) \/ Check(m) \/ Reported(m)

Next == \/ \E s \in Steps : Pulse(s)
        \/ Tick
        \/ Start \/ Stop \/ Joined \/ JoinTimesOut \/ ResetStopped
        \/ \E m \in Monitors : Monitor(m)

\* Monitors are scheduled and callbacks return.
Spec == Init /\ [][Next]_vars /\ \A m \in Monitors : WF_vars(Monitor(m))

-----------------------------------------------------------------------------
(* Properties.                                                              *)

\* One monitor at most, until a stop gave up on one; in the async service, always.
OneMonitor == kind = "async" \/ ~overrun => Cardinality(Alive) <= 1

\* A step is reported once between two changes of the step, however many monitors
\* there are by then.
ReportedOnce == reports <= 1

\* A hang is reported, unless the step sends a pulse or the service is stopped
\* before; or had been reported before in the same step, pulses in between or not.
HangReported ==
    (running /\ inactive = Timeout /\ ~hung_notified) ~>
        (hung_notified \/ ~running \/ inactive < Timeout)
=============================================================================
