--------------------------- MODULE MockGatewayMC ---------------------------
(* A small instance of MockGateway for TLC: see MockGateway.cfg. *)
EXTENDS MockGateway

=============================================================================
