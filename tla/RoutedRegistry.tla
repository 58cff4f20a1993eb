--------------------------- MODULE RoutedRegistry ---------------------------
(***************************************************************************)
(* The registry with real route keys, and the proxy's lookup in it.  A key *)
(* is a method and a full path; the overlap of two keys, which the         *)
(* registry's collision check uses, is computed from the paths.            *)
(***************************************************************************)
EXTENDS Registry, Routing

CONSTANTS HTTPMethod, RequestPaths

\* checkPatternCollision: same method, overlapping normalized paths
KeysOverlap(k, other) ==
    /\ k.Method = other.Method
    /\ pathsOverlap(normalizePath(k.Path), normalizePath(other.Path))

ASSUME KeyAssumption == Key \subseteq [Method : HTTPMethod, Path : Pattern]
ASSUME KeyOverlapAssumption ==
    Overlap = {pair \in Key \X Key : KeysOverlap(pair[1], pair[2])}
ASSUME RequestAssumption == RequestPaths \subseteq RequestPath

-----------------------------------------------------------------------------

\* the loop of MatchRoute: the keys of this method whose pattern matches
MatchingKeys(m, path) ==
    {k \in DOMAIN routes : k.Method = m /\ matchPathWithParams(k.Path, path)}

(***************************************************************************)
(* MatchRoute: the services it may answer with.  An exact key wins; else   *)
(* the first match in the random order of a map iteration.  The empty set  *)
(* is nil, the 404 of the proxy.                                           *)
(***************************************************************************)
MatchRoute(m, path) ==
    LET exactKey == [Method |-> m, Path |-> path]
    IN IF exactKey \in DOMAIN routes
       THEN {routes[exactKey]}
       ELSE {routes[k] : k \in MatchingKeys(m, path)}

-----------------------------------------------------------------------------

(***************************************************************************)
(* The proxy never has a choice between services: whatever the iteration   *)
(* order, a request goes to one service.  With strict pattern matching the *)
(* registry's collision check must exclude every ambiguity of the matcher. *)
(* Holds with one handler for patterns made of literals and :names; with a *)
(* "*", which takes paths of any length, it fails.                         *)
(***************************************************************************)
UnambiguousRouting ==
    \A m \in HTTPMethod, path \in RequestPaths :
        \A s, t \in MatchRoute(m, path) : s = t

=============================================================================
