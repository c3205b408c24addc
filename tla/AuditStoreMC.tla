---------------------------- MODULE AuditStoreMC ----------------------------
(* Small instances of AuditStore for TLC: see the AuditStore_*.cfg files. *)
EXTENDS AuditStore

=============================================================================
