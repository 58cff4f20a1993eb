----------------------------- MODULE MCRegistry -----------------------------
(***************************************************************************)
(* Instances of Registry for TLC.                                          *)
(***************************************************************************)
EXTENDS Registry, TLC

\* ids and service names are interchangeable
Symmetry == Permutations(InstanceID) \cup Permutations(Service)

=============================================================================
