-------------------------- MODULE MCGatewayShutdown -------------------------
(***************************************************************************)
(* Instances of GatewayShutdown for TLC.                                   *)
(***************************************************************************)
EXTENDS GatewayShutdown, TLC

Symmetry == Permutations(Span)

=============================================================================
