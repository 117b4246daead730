-------------------------- MODULE HeartbeatProofs --------------------------
(***************************************************************************)
(* Theorems about Heartbeat, for every set of steps, every timeout and      *)
(* every number of monitors, in both services.                              *)
(***************************************************************************)
EXTENDS Heartbeat, FiniteSetTheorems, TLAPS

\* Every monitor alive is the one the service knows of, and there is none once
\* the service has stopped; up to the first stop that gave up on one.
Quiet == kind = "async" \/ ~overrun

Known ==
    /\ thread = {} \/ \E m \in Monitors : thread = {m}
    /\ caller # "idle" => ~running
    /\ Quiet => Alive \subseteq thread
    /\ Quiet /\ ~running /\ caller = "idle" => Alive = {}

\* The flag is set before a report is counted, and both are reset together.
Flagged == reports = 0 \/ (reports = 1 /\ hung_notified)

IInv == Known /\ Flagged

-----------------------------------------------------------------------------
LEMMA InitKnown == Init => IInv
<1> SUFFICES ASSUME Init PROVE IInv
  OBVIOUS
<1>1. Alive = {}
  BY DEF Init, Alive
<1>2. Known BY <1>1 DEF Init, Known
<1>3. Flagged BY DEF Init, Flagged
<1> QED BY <1>2, <1>3 DEF IInv

\* Steps of a monitor that make no new one.
LEMMA MonitorSteps ==
  ASSUME Known, NEW m \in Monitors, NEW place, monitor[m] # "ended",
         monitor' = [monitor EXCEPT ![m] = place],
         UNCHANGED <<kind, running, thread, caller, overrun>>
  PROVE  Known'
<1>1. Alive' \subseteq Alive
  BY DEF Alive
<1> QED BY <1>1 DEF Known, Quiet

LEMMA Preserved == ASSUME HeartbeatAssumption, IInv, [Next]_vars PROVE IInv'
<1> USE DEF IInv
<1>1. ASSUME NEW s \in Steps, Pulse(s) PROVE IInv'
  <2>1. Known' BY <1>1 DEF Pulse, Known, Alive, Quiet
  <2>2. Flagged' BY <1>1 DEF Pulse, Flagged
  <2> QED BY <2>1, <2>2
<1>2. CASE Tick
  <2>1. Known'
    <3>1. Alive' = Alive /\ (Quiet' <=> Quiet)
      BY <1>2 DEF Tick, Alive, Quiet
    <3> QED BY <1>2, <3>1 DEF Tick, Known
  <2>2. Flagged' BY <1>2 DEF Tick, Flagged
  <2> QED BY <2>1, <2>2
<1>3. CASE Start
  <2>1. Flagged' BY <1>3 DEF Start, Flagged
  <2>2. PICK m \in Monitors \ Alive :
          thread' = {m} /\ monitor' = [monitor EXCEPT ![m] = "test"]
    BY <1>3 DEF Start
  <2>3. Alive' \subseteq Alive \cup {m}
    BY <2>2 DEF Alive
  <2>4. Quiet' => Alive = {}
    BY <1>3 DEF Start, Known, Quiet
  <2>5. Known'
    BY <1>3, <2>2, <2>3, <2>4 DEF Start, Known
  <2> QED BY <2>1, <2>5
<1>4. CASE Stop
  <2>1. Known'
    <3>1. Alive' = Alive /\ (Quiet' <=> Quiet)
      BY <1>4 DEF Stop, Alive, Quiet
    <3> QED BY <1>4, <3>1 DEF Stop, Known
  <2>2. Flagged' BY <1>4 DEF Stop, Flagged
  <2> QED BY <2>1, <2>2
<1>5. ASSUME Leave PROVE Flagged'
  BY <1>5 DEF Leave, Flagged
<1>6. CASE Joined
  <2>1. Flagged' BY <1>5, <1>6 DEF Joined
  <2>2. Quiet => Alive = {}
    BY <1>6 DEF Joined, Known
  <2>3. Alive' = Alive /\ (Quiet' <=> Quiet)
    BY <1>6 DEF Joined, Leave, Alive, Quiet
  <2>4. Known'
    BY <1>6, <2>2, <2>3 DEF Joined, Leave, Known
  <2> QED BY <2>1, <2>4
<1>7. CASE JoinTimesOut
  <2>1. Flagged' BY <1>5, <1>7 DEF JoinTimesOut
  <2>2. kind # "async"
    BY <1>7 DEF JoinTimesOut, Waited, CallerRuns, Known
  <2>3. ~Quiet'
    BY <1>7, <2>2 DEF JoinTimesOut, Leave, Quiet
  <2>4. Known'
    BY <1>7, <2>3 DEF JoinTimesOut, Leave, Known
  <2> QED BY <2>1, <2>4
<1>8. CASE ResetStopped
  <2>1. Known'
    <3>1. Alive' = Alive /\ (Quiet' <=> Quiet)
      BY <1>8 DEF ResetStopped, Alive, Quiet
    <3> QED BY <1>8, <3>1 DEF ResetStopped, Known
  <2>2. Flagged' BY <1>8 DEF ResetStopped, Flagged
  <2> QED BY <2>1, <2>2
<1>9. ASSUME NEW m \in Monitors, Monitor(m) PROVE IInv'
  <2>1. CASE Test(m)
    <3>1. Known' BY <2>1, MonitorSteps DEF Test, Become, service
    <3>2. Flagged' BY <2>1 DEF Test, Flagged, service
    <3> QED BY <3>1, <3>2
  <2>2. CASE Wake(m)
    <3>1. Known' BY <2>2, MonitorSteps DEF Wake, Become, service
    <3>2. Flagged' BY <2>2 DEF Wake, Flagged, service
    <3> QED BY <3>1, <3>2
  <2>3. CASE Check(m)
    <3>1. Known' BY <2>3, MonitorSteps DEF Check, Become
    <3>2. ASSUME hung_notified' = hung_notified, reports' = reports PROVE Flagged'
      BY <3>2, Zenon DEF Flagged
    <3>3. ASSUME ~hung_notified, hung_notified' = TRUE, reports' = reports + 1
          PROVE  Flagged'
      <4>1. reports = 0 BY <3>3, Zenon DEF Flagged
      <4>2. reports' = 1 BY <3>3, <4>1
      <4>3. hung_notified' BY <3>3, Zenon
      <4> QED BY <4>2, <4>3, Zenon DEF Flagged
    <3>4. Flagged' BY <2>3, <3>2, <3>3 DEF Check
    <3> QED BY <3>1, <3>4
  <2>4. CASE Reported(m)
    <3>1. Known' BY <2>4, MonitorSteps DEF Reported, Become, service
    <3>2. Flagged' BY <2>4 DEF Reported, Flagged, service
    <3> QED BY <3>1, <3>2
  <2> QED BY <1>9, <2>1, <2>2, <2>3, <2>4 DEF Monitor
<1>10. CASE UNCHANGED vars
  <2>1. Known'
    <3>1. Alive' = Alive /\ (Quiet' <=> Quiet)
      BY <1>10 DEF vars, service, Alive, Quiet
    <3> QED BY <1>10, <3>1 DEF vars, service, Known
  <2>2. Flagged' BY <1>10 DEF vars, service, Flagged
  <2> QED BY <2>1, <2>2
<1> QED
  BY <1>1, <1>2, <1>3, <1>4, <1>6, <1>7, <1>8, <1>9, <1>10 DEF Next

THEOREM Invariant == Spec => []IInv
<1>1. IInv /\ [Next]_vars => IInv'
  BY Preserved, HeartbeatAssumption
<1> QED BY InitKnown, <1>1, PTL DEF Spec

-----------------------------------------------------------------------------
\* However often and in whatever order the service is started, stopped and reset,
\* at most one monitor is alive; in the threaded service as long as no stop has
\* given up on one that was in its callback.
THEOREM One == Spec => []OneMonitor
<1>1. Known => OneMonitor
  <2> SUFFICES ASSUME Known, Quiet PROVE Cardinality(Alive) <= 1
    BY DEF OneMonitor, Quiet
  <2>1. CASE Alive = {}
    <3>1. Cardinality(Alive) = 0 BY <2>1, FS_EmptySet
    <3> QED BY <3>1
  <2>2. ASSUME NEW m \in Monitors, Alive = {m} PROVE Cardinality(Alive) <= 1
    <3>1. Cardinality({m}) = 1 BY FS_Singleton
    <3> QED BY <2>2, <3>1
  <2>3. Alive = {} \/ \E m \in Monitors : Alive = {m}
    BY DEF Known
  <2> QED BY <2>1, <2>2, <2>3
<1> QED BY Invariant, <1>1, PTL DEF IInv

\* Two monitors alive at once do not report the same hang twice.
THEOREM Once == Spec => []ReportedOnce
<1>1. IInv => ReportedOnce
  BY DEF IInv, Flagged, ReportedOnce
<1> QED BY Invariant, <1>1, PTL
=============================================================================
