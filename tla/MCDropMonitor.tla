--------------------------- MODULE MCDropMonitor ----------------------------
(* The instance of DropMonitor for TLC: its constants are bounds, all given  *)
(* in the configuration.                                                     *)
EXTENDS DropMonitor
=============================================================================
