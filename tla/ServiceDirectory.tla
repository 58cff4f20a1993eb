-------------------------- MODULE ServiceDirectory --------------------------
(***************************************************************************)
(* What the registry promises to the services and to the proxy, without    *)
(* its indexes, its clock, its lock or its two-step registration: a set of *)
(* members, each of one service, and a table of route owners.  A member    *)
(* joins with a set of keys none of which belongs to another service; a    *)
(* service owns its keys until its last member has left.                   *)
(***************************************************************************)
CONSTANTS Service, Key, InstanceID

VARIABLES member,   \* id -> the service it is an instance of
          owner     \* key -> the service that owns it

dirVars == <<member, owner>>

DirInit == member = << >> /\ owner = << >>

Join(i, s, K) ==
    /\ i \notin DOMAIN member
    /\ \A k \in K : k \in DOMAIN owner => owner[k] = s
    /\ member' = [j \in DOMAIN member \cup {i} |-> IF j = i THEN s ELSE member[j]]
    /\ owner' = [k \in DOMAIN owner \cup K |-> IF k \in K THEN s ELSE owner[k]]

Leave(i) ==
    /\ i \in DOMAIN member
    /\ member' = [j \in DOMAIN member \ {i} |-> member[j]]
    /\ LET alive == {member[j] : j \in DOMAIN member \ {i}}
       IN owner' = [k \in {k \in DOMAIN owner : owner[k] \in alive} |-> owner[k]]

\* the directory lives in memory only
Lose == member' = << >> /\ owner' = << >>

DirNext ==
    \/ \E i \in InstanceID, s \in Service, K \in SUBSET Key : Join(i, s, K)
    \/ \E i \in InstanceID : Leave(i)
    \/ Lose

DirSpec == DirInit /\ [][DirNext]_dirVars

=============================================================================
