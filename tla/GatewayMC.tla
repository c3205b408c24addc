------------------------------ MODULE GatewayMC -----------------------------
(* Small instances of Gateway for TLC: see the Gateway*.cfg files. *)
EXTENDS Gateway, TLC

=============================================================================
