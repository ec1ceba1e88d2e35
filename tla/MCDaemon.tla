------------------------------ MODULE MCDaemon -------------------------------
(* Daemon, for TLC: the constants are in the configuration.                  *)
EXTENDS Daemon
=============================================================================
