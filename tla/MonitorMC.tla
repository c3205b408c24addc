----------------------------- MODULE MonitorMC ------------------------------
(* Small instances of Monitor for TLC: see the Monitor_*.cfg files. *)
EXTENDS Monitor

=============================================================================
