-------------------------- MODULE OnlineMonitorMC --------------------------
(* Small instances of OnlineMonitor for TLC: see the OnlineMonitor_*.cfg files. *)
EXTENDS OnlineMonitor

=============================================================================
