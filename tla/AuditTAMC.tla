----------------------------- MODULE AuditTAMC ------------------------------
(* Small instances of AuditTA for TLC: see the AuditTA_*.cfg files. *)
EXTENDS AuditTA

=============================================================================
