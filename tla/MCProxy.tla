------------------------------ MODULE MCProxy -------------------------------
(***************************************************************************)
(* Instances of Proxy for TLC.                                             *)
(***************************************************************************)
EXTENDS Proxy, TLC

P(segs) == [segments |-> segs, slash |-> FALSE]

\* "GET:/users/:id", which passes from one service to another
OneKey == {[Method |-> "GET", Path |-> P(<<"users", ":id">>)]}

\* what KeyOverlapAssumption says it is
MCOverlap == {pair \in Key \X Key : KeysOverlap(pair[1], pair[2])}

MCLiteral == {"users", "me"}
MCRequestPaths == {P(<<"users", "me">>)}

\* ids, service names and goroutines are interchangeable
Symmetry == Permutations(InstanceID) \cup Permutations(Service)
                \cup Permutations(Handling)

=============================================================================
