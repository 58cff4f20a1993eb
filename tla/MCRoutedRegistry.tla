-------------------------- MODULE MCRoutedRegistry --------------------------
(***************************************************************************)
(* Instances of RoutedRegistry for TLC: one method, a few full paths.      *)
(***************************************************************************)
EXTENDS RoutedRegistry

P(segs) == [segments |-> segs, slash |-> FALSE]
Get(path) == [Method |-> "GET", Path |-> path]

\* "/users/:id" and "/:page/me", which overlap, and "/users/:id/posts"
ThreeKeys == {Get(P(<<"users", ":id">>)), Get(P(<<":page", "me">>)),
              Get(P(<<"users", ":id", "posts">>))}

\* what KeyOverlapAssumption says it is
MCOverlap == {pair \in Key \X Key : KeysOverlap(pair[1], pair[2])}

MCLiteral == {"users", "me", "posts"}

\* every path of two or three segments
MCRequestPaths ==
    [segments : UNION {[1 .. n -> Literal] : n \in 2 .. 3}, slash : {FALSE}]

=============================================================================
