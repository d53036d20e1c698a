---------------------------- MODULE MCDiskBackup ----------------------------
(* Instances of DiskBackup for TLC. *)
EXTENDS DiskBackup, TLC

AllFaults == {"check", "sql", "freeze", "unfreeze", "image", "group", "upload",
              "labels", "delete", "stop", "kill"}

(* Everything fails, for the two workflows that share every action with the
   others; then all workflows without failing statements and deletes. *)
SafetyScenarios ==
    {[workflows |-> {"disk", "sg"}, flagSets |-> FlagSets, faults |-> AllFaults],
     [workflows |-> Workflows, flagSets |-> {s \in FlagSets : "freeze" \in s},
      faults |-> AllFaults \ {"sql", "delete"}]}

(* Everything but a kill and a failing thaw. *)
LiveScenarios ==
    {[workflows |-> {"disk", "sg", "change"},
      flagSets |-> {s \in FlagSets : {"abandon", "confirm"} \subseteq s},
      faults |-> AllFaults \ {"kill", "unfreeze"}]}

Interchangeable == Permutations(Procs)
=============================================================================
