---------------------------- MODULE MCHeartbeat ----------------------------
(* Instances of Heartbeat for TLC.                                          *)
EXTENDS Heartbeat

ThreeMonitors == 1 .. 3
=============================================================================
