--------------------------- MODULE MCProxyBalance ---------------------------
(***************************************************************************)
(* Instances of ProxyBalance for TLC.                                      *)
(***************************************************************************)
EXTENDS ProxyBalance

P(segs) == [segments |-> segs, slash |-> FALSE]
Get(path) == [Method |-> "GET", Path |-> path]

\* "/users/:id" and "/posts/:id", which do not overlap
TwoKeys == {Get(P(<<"users", ":id">>)), Get(P(<<"posts", ":id">>))}

\* what KeyOverlapAssumption says it is
MCOverlap == {pair \in Key \X Key : KeysOverlap(pair[1], pair[2])}

MCRequestPaths == {P(<<s, "users">>) : s \in Literal}

=============================================================================
