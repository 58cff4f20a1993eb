------------------------------ MODULE MCTokens ------------------------------
(***************************************************************************)
(* Instances of Tokens for TLC.                                            *)
(***************************************************************************)
EXTENDS Tokens, TLC

CONSTANTS a, b, read

\* a route of a that needs a scope and a public one of b
MCRoute == {[service |-> a, Public |-> FALSE, Scopes |-> {read}],
            [service |-> b, Public |-> TRUE, Scopes |-> {}]}

\* a takes tokens from everybody, b not from itself
MCAllowedIssuers == (a :> {}) @@ (b :> {Gateway, a})

=============================================================================
