----------------------------- MODULE MCHeartbeat -----------------------------
(* Instances of Heartbeat for TLC: the constants are given in the configuration
   files. *)
EXTENDS Heartbeat

==============================================================================
