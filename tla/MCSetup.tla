------------------------------ MODULE MCSetup ------------------------------
(* Instances of Setup for TLC.                                              *)
EXTENDS Setup

\* Bound: runs and the injection of hooks have only .claudesprint/config.toml
\* in common, which injection neither reads nor writes; they are explored one
\* beside the other, and not in each combination.  Nor is a run that is under
\* way explored with each global file, which it does not read any more.
Apart ==
    /\ \/ settings = Absent /\ backup = Absent /\ command.at \in {"idle", "config"}
       \/ /\ run = "none" /\ globalFile = Absent
          /\ projectFile \in {Absent, EmptyFile, DEFAULT_PROJECT_CONFIG_TOML}
    /\ run = "running" => globalFile = Absent
=============================================================================
