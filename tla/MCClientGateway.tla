-------------------------- MODULE MCClientGateway ---------------------------
(***************************************************************************)
(* Instances of ClientGateway for TLC.                                     *)
(***************************************************************************)
EXTENDS ClientGateway, TLC

Symmetry == Permutations(InstanceID)

=============================================================================
