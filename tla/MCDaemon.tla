------------------------------- MODULE MCDaemon -------------------------------
(* Instances of Daemon for TLC: every bound is a constant of the module, given in
   the configuration files. *)
EXTENDS Daemon
================================================================================
