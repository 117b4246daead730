------------------------------ MODULE MCRunner ------------------------------
(* Instances of Runner for TLC.                                             *)
EXTENDS Runner

AllModes == {"sync", "async", "stream"}
SyncOnly == {"sync"}
=============================================================================
