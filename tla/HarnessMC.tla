----------------------------- MODULE HarnessMC -----------------------------
(* Small instances of Harness for TLC: see the Harness_*.cfg files. *)
EXTENDS Harness

=============================================================================
