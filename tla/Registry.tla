------------------------------ MODULE Registry ------------------------------
(***************************************************************************)
(* The service registry of the gateway (internal/application): three maps  *)
(* behind one read-write lock, the handlers that change them, and the      *)
(* cleanup loop that expires instances whose heartbeats stopped.           *)
(*                                                                         *)
(* Every critical section is one action.  Register is two, because it      *)
(* validates the routes under the read lock, releases it, and inserts      *)
(* under the write lock: anything may happen in between.  The body of      *)
(* cleanup is a scan and then one removal per expired instance; the write  *)
(* lock is held from the scan to the last removal.                         *)
(*                                                                         *)
(* Time is relative: an instance carries the time elapsed since its last   *)
(* heartbeat, and the cleanup loop the time since its ticker last fired.   *)
(***************************************************************************)
EXTENDS Integers, Sequences, FiniteSets

CONSTANTS
    Service,                \* service names
    Key,                    \* route keys, "METHOD:/full/path"
    Overlap,                \* pairs of keys: same method, overlapping paths
    InstanceID,             \* instance UUIDs
    Handler,                \* HTTP handlers that may run Register at once
    TTL,                    \* config.HeartbeatTTL
    Second,                 \* one second, in the unit of TTL
    Lag,                    \* scheduling delay of the cleanup goroutine
    MaxDelay,               \* bound on the time from validation to insertion
    StrictPatternMatching   \* config.StrictPatternMatching

(***************************************************************************)
(* cleanupLoop: the ticker's period, half the TTL but at least a second.   *)
(***************************************************************************)
Interval == IF TTL \div 2 < Second THEN Second ELSE TTL \div 2

(***************************************************************************)
(* The heartbeat interval Register answers with, the TTL in whole seconds, *)
(* and the one the client then keeps: it takes 0 for ten seconds.          *)
(***************************************************************************)
HeartbeatInterval == (TTL \div Second) * Second
ClientInterval == IF HeartbeatInterval = 0 THEN 10 * Second ELSE HeartbeatInterval

ASSUME OverlapAssumption == Overlap \subseteq Key \X Key
ASSUME TimeAssumption == /\ TTL \in Nat \ {0}
                         /\ Second \in Nat \ {0}
                         /\ Lag \in Nat
                         /\ Lag < Interval
                         /\ MaxDelay \in 0 .. TTL
ASSUME StrictAssumption == StrictPatternMatching \in BOOLEAN

VARIABLES
    instances,   \* r.instances: id -> service, status, age of last heartbeat
    services,    \* r.services: service -> its instance ids, oldest first
    routes,      \* r.routes: key -> owning service
    pending,     \* Register calls between RUnlock and Lock
    toRemove,    \* cleanup: expired ids not yet removed; # {}: lock is held
    looping,     \* the cleanup goroutine has not returned
    stopped,     \* stopCh is closed
    timer        \* time since the ticker fired last

vars == <<instances, services, routes, pending, toRemove, looping, stopped, timer>>

-----------------------------------------------------------------------------

(***************************************************************************)
(* Ages saturate at AgeCap, which no test in the code and no property      *)
(* tells apart from a larger age.                                          *)
(***************************************************************************)
AgeCap == 2 * TTL + Interval + Lag + 1

Instance == [ServiceName : Service,
             Status : {"healthy", "unhealthy"},
             elapsed : 0 .. AgeCap]

Registration == [ServiceName : Service,
                 Routes : SUBSET Key,
                 instanceID : InstanceID,
                 waited : 0 .. MaxDelay]

(***************************************************************************)
(* The maps hold only what the handlers put there, and the cleanup only    *)
(* removes instances that are still registered.                            *)
(***************************************************************************)
TypeOK ==
    /\ DOMAIN instances \subseteq InstanceID
    /\ instances \in [DOMAIN instances -> Instance]
    /\ DOMAIN services \subseteq Service
    /\ services \in [DOMAIN services -> Seq(InstanceID)]
    /\ DOMAIN routes \subseteq Key
    /\ routes \in [DOMAIN routes -> Service]
    /\ DOMAIN pending \subseteq Handler
    /\ pending \in [DOMAIN pending -> Registration]
    /\ toRemove \subseteq DOMAIN instances
    /\ looping \in BOOLEAN
    /\ stopped \in BOOLEAN
    /\ timer \in 0 .. Interval + Lag

(***************************************************************************)
(* NewRegistry and Start: empty maps, the ticker just created.             *)
(***************************************************************************)
Init ==
    /\ instances = << >>
    /\ services = << >>
    /\ routes = << >>
    /\ pending = << >>
    /\ toRemove = {}
    /\ looping = TRUE
    /\ stopped = FALSE
    /\ timer = 0

-----------------------------------------------------------------------------
(***************************************************************************)
(* Collision detection.                                                    *)
(***************************************************************************)

\* checkExactCollision: the key is taken by another service
ExactCollision(s, k) == k \in DOMAIN routes /\ routes[k] # s

\* checkPatternCollision: another service has an overlapping key
PatternCollision(s, k) ==
    \E other \in DOMAIN routes : routes[other] # s /\ <<k, other>> \in Overlap

\* variant that must fail: only exact collisions are looked for
ExactValidRoutes(s, K) == \A k \in K : ~ ExactCollision(s, k)

\* ValidateRoutes reports no collision
ValidRoutes(s, K) ==
    \A k \in K : /\ ~ ExactCollision(s, k)
                 /\ StrictPatternMatching => ~ PatternCollision(s, k)

-----------------------------------------------------------------------------
(***************************************************************************)
(* The handlers.  mu is free unless the cleanup holds it.                  *)
(***************************************************************************)

Unlocked == toRemove = {}

\* RegisterRequest.Validate, of what matters here: at least one route
Validate(K) == K # {}

(***************************************************************************)
(* Register, up to RUnlock, and the choice of a UUID nobody has.  A        *)
(* request that is not valid or that collides is refused and changes       *)
(* nothing.                                                                *)
(***************************************************************************)
RegisterValidate(h, s, K, i) ==
    /\ Unlocked
    /\ h \notin DOMAIN pending
    /\ Validate(K)
    /\ ValidRoutes(s, K)
    /\ i \notin DOMAIN instances
    /\ \A g \in DOMAIN pending : pending[g].instanceID # i
    /\ pending' = [g \in DOMAIN pending \cup {h} |->
                     IF g = h THEN [ServiceName |-> s, Routes |-> K,
                                    instanceID |-> i, waited |-> 0]
                              ELSE pending[g]]
    /\ UNCHANGED <<instances, services, routes, toRemove, looping, stopped, timer>>

(***************************************************************************)
(* Register, from Lock on.  The timestamp was read at some moment since    *)
(* the validation, so the heartbeat may already be old when the instance   *)
(* becomes visible.                                                        *)
(***************************************************************************)
RegisterCommit(h, age) ==
    /\ Unlocked
    /\ h \in DOMAIN pending
    /\ age <= pending[h].waited
    /\ LET s == pending[h].ServiceName
           K == pending[h].Routes
           i == pending[h].instanceID
       IN /\ instances' = [j \in DOMAIN instances \cup {i} |->
                             IF j = i THEN [ServiceName |-> s,
                                            Status |-> "healthy",
                                            elapsed |-> age]
                                      ELSE instances[j]]
          /\ services' = [t \in DOMAIN services \cup {s} |->
                            IF t # s THEN services[t]
                            ELSE IF t \in DOMAIN services THEN Append(services[t], i)
                            ELSE <<i>>]
          /\ routes' = [k \in DOMAIN routes \cup K |->
                          IF k \in K THEN s ELSE routes[k]]
    /\ pending' = [g \in DOMAIN pending \ {h} |-> pending[g]]
    /\ UNCHANGED <<toRemove, looping, stopped, timer>>

\* variant that must fail: append(ids[:n], ids[n+2:])
GreedyDrop(ids, i) ==
    LET n == CHOOSE n \in 1 .. Len(ids) : ids[n] = i
    IN SubSeq(ids, 1, n - 1) \o SubSeq(ids, n + 2, Len(ids))

(***************************************************************************)
(* The entry of id i dropped from an id list: append(ids[:n], ids[n+1:]).  *)
(***************************************************************************)
Drop(ids, i) ==
    IF \E n \in 1 .. Len(ids) : ids[n] = i
    THEN LET n == CHOOSE n \in 1 .. Len(ids) :
                    ids[n] = i /\ \A m \in 1 .. n - 1 : ids[m] # i
         IN SubSeq(ids, 1, n - 1) \o SubSeq(ids, n + 1, Len(ids))
    ELSE ids

\* variants that must fail: the routes stay, or go with any instance
RemoveLeavingRoutes(i) ==
    LET s    == instances[i].ServiceName
        rest == Drop(services[s], i)
    IN /\ instances' = [j \in DOMAIN instances \ {i} |-> instances[j]]
       /\ services' = [t \in {t \in DOMAIN services : t # s \/ rest # << >>} |->
                         IF t = s THEN rest ELSE services[t]]
       /\ routes' = routes

RemoveWithRoutes(i) ==
    LET s    == instances[i].ServiceName
        rest == Drop(services[s], i)
    IN /\ instances' = [j \in DOMAIN instances \ {i} |-> instances[j]]
       /\ services' = [t \in {t \in DOMAIN services : t # s \/ rest # << >>} |->
                         IF t = s THEN rest ELSE services[t]]
       /\ routes' = [k \in {k \in DOMAIN routes : routes[k] # s} |-> routes[k]]

(***************************************************************************)
(* The common body of Deregister and removeInstanceLocked: the last        *)
(* instance of a service takes the service and all its routes with it.     *)
(***************************************************************************)
Remove(i) ==
    LET s    == instances[i].ServiceName
        rest == Drop(services[s], i)
    IN /\ instances' = [j \in DOMAIN instances \ {i} |-> instances[j]]
       /\ IF rest = << >>
          THEN /\ services' = [t \in DOMAIN services \ {s} |-> services[t]]
               /\ routes' = [k \in {k \in DOMAIN routes : routes[k] # s} |-> routes[k]]
          ELSE /\ services' = [services EXCEPT ![s] = rest]
               /\ routes' = routes

\* variant that must fail: not excluded by a cleanup in progress
UnlockedDeregister(i) ==
    /\ i \in DOMAIN instances
    /\ Remove(i)
    /\ UNCHANGED <<pending, toRemove, looping, stopped, timer>>

(***************************************************************************)
(* Deregister.  An unknown id is ErrInstanceNotFound and changes nothing.  *)
(***************************************************************************)
Deregister(i) ==
    /\ Unlocked
    /\ i \in DOMAIN instances
    /\ Remove(i)
    /\ UNCHANGED <<pending, toRemove, looping, stopped, timer>>

\* variant that must fail: not excluded by a cleanup in progress
UnlockedHeartbeat(i) ==
    /\ i \in DOMAIN instances
    /\ instances' = [instances EXCEPT ![i].elapsed = 0]
    /\ UNCHANGED <<services, routes, pending, toRemove, looping, stopped, timer>>

(***************************************************************************)
(* Heartbeat.  Only the timestamp is refreshed: the status stays as it is. *)
(* An unknown id is ErrInstanceNotFound and changes nothing.               *)
(***************************************************************************)
Heartbeat(i) ==
    /\ Unlocked
    /\ i \in DOMAIN instances
    /\ instances' = [instances EXCEPT ![i].elapsed = 0]
    /\ UNCHANGED <<services, routes, pending, toRemove, looping, stopped, timer>>

-----------------------------------------------------------------------------
(***************************************************************************)
(* The cleanup loop.                                                       *)
(***************************************************************************)

\* variant that must fail: the late instances are sorted out first
ExpiredIfNotLate(i) == instances[i].elapsed > 2 * TTL /\ instances[i].elapsed <= TTL

Expired(i) == instances[i].elapsed > 2 * TTL

\* variant that must fail: cleanup marks nothing
UnmarkedStatus(i) == instances[i].Status

\* the status cleanup leaves a surviving instance with
StatusAfterScan(i) ==
    IF ~ Expired(i) /\ instances[i].elapsed > TTL THEN "unhealthy"
    ELSE instances[i].Status

(***************************************************************************)
(* The ticker fires: cleanup takes the lock, collects the expired          *)
(* instances and marks the late ones.  A ticker keeps its phase, so a      *)
(* cleanup that started late does not delay the next one.                  *)
(***************************************************************************)
CleanupScan ==
    /\ Unlocked
    /\ looping
    /\ timer >= Interval
    /\ toRemove' = {i \in DOMAIN instances : Expired(i)}
    /\ instances' = [i \in DOMAIN instances |->
                       [instances[i] EXCEPT !.Status = StatusAfterScan(i)]]
    /\ timer' = timer - Interval
    /\ UNCHANGED <<services, routes, pending, looping, stopped>>

\* removeInstanceLocked; toRemove is in the random order of a map iteration
CleanupRemove(i) ==
    /\ i \in toRemove
    /\ Remove(i)
    /\ toRemove' = toRemove \ {i}
    /\ UNCHANGED <<pending, looping, stopped, timer>>

\* Stop closes the channel; a cleanup in progress or due may still run
Stop ==
    /\ ~ stopped
    /\ stopped' = TRUE
    /\ UNCHANGED <<instances, services, routes, pending, toRemove, looping, timer>>

\* cleanupLoop selects stopCh and returns
CleanupLoopExit ==
    /\ Unlocked
    /\ looping
    /\ stopped
    /\ looping' = FALSE
    /\ UNCHANGED <<instances, services, routes, pending, toRemove, stopped, timer>>

-----------------------------------------------------------------------------

(***************************************************************************)
(* One unit of time.  The cleanup goroutine is scheduled within Lag of its *)
(* tick and handlers commit within MaxDelay of their validation.  The      *)
(* cleanup itself takes no time.                                           *)
(***************************************************************************)
Tick ==
    /\ Unlocked
    /\ looping => timer < Interval + Lag
    /\ \A h \in DOMAIN pending : pending[h].waited < MaxDelay
    /\ instances' = [i \in DOMAIN instances |->
                       [instances[i] EXCEPT !.elapsed =
                          IF @ < AgeCap THEN @ + 1 ELSE @]]
    /\ pending' = [h \in DOMAIN pending |->
                     [pending[h] EXCEPT !.waited = @ + 1]]
    /\ timer' = IF looping THEN timer + 1 ELSE timer
    /\ UNCHANGED <<services, routes, toRemove, looping, stopped>>

(***************************************************************************)
(* The gateway process dies and is started again: nothing is persisted.    *)
(***************************************************************************)
Restart ==
    /\ instances' = << >>
    /\ services' = << >>
    /\ routes' = << >>
    /\ pending' = << >>
    /\ toRemove' = {}
    /\ looping' = TRUE
    /\ stopped' = FALSE
    /\ timer' = 0

Next ==
    \/ \E h \in Handler, s \in Service, K \in SUBSET Key, i \in InstanceID :
          RegisterValidate(h, s, K, i)
    \/ \E h \in Handler, age \in 0 .. MaxDelay : RegisterCommit(h, age)
    \/ \E i \in InstanceID : Deregister(i)
    \/ \E i \in InstanceID : Heartbeat(i)
    \/ CleanupScan
    \/ \E i \in InstanceID : CleanupRemove(i)
    \/ Stop
    \/ CleanupLoopExit
    \/ Tick
    \/ Restart

Spec == Init /\ [][Next]_vars

(***************************************************************************)
(* Time passes, the runtime schedules the cleanup goroutine once its       *)
(* ticker fired, and a handler that validated gets the lock.  No fairness  *)
(* on heartbeats, deregistrations or on new registrations: those are up to *)
(* the clients.                                                            *)
(***************************************************************************)
Fairness ==
    /\ WF_vars(Tick)
    /\ WF_vars(CleanupScan)
    /\ WF_vars(\E i \in InstanceID : CleanupRemove(i))
    /\ WF_vars(\E h \in Handler, age \in 0 .. MaxDelay : RegisterCommit(h, age))

FairSpec == Spec /\ Fairness

-----------------------------------------------------------------------------
(***************************************************************************)
(* Safety.                                                                 *)
(***************************************************************************)

(***************************************************************************)
(* The two indexes agree: r.services lists, for each service, exactly the  *)
(* ids of r.instances that belong to it, each once, and has no entry for a *)
(* service without instances.  Register, Deregister and cleanup each       *)
(* maintain both maps by hand.                                             *)
(***************************************************************************)
EveryInstanceListed ==
    \A i \in DOMAIN instances :
        LET s == instances[i].ServiceName
        IN s \in DOMAIN services /\ \E n \in 1 .. Len(services[s]) : services[s][n] = i

ListsExact ==
    \A s \in DOMAIN services :
        /\ services[s] # << >>
        /\ \A n \in 1 .. Len(services[s]) :
              /\ services[s][n] \in DOMAIN instances
              /\ instances[services[s][n]].ServiceName = s
        /\ \A m, n \in 1 .. Len(services[s]) :
              services[s][m] = services[s][n] => m = n

IndexConsistent == EveryInstanceListed /\ ListsExact

(***************************************************************************)
(* A route always leads somewhere: the service that owns a key has an      *)
(* instance.  The routes of a service go with its last instance, whether   *)
(* it deregistered or expired.                                             *)
(***************************************************************************)
RoutesBacked == \A k \in DOMAIN routes : routes[k] \in DOMAIN services

(***************************************************************************)
(* While the cleanup loop runs, an instance that counts as healthy sent a  *)
(* heartbeat at most TTL plus one (late) cleanup period ago.  Insertion    *)
(* with an already stale timestamp does not escape the next scan.  (An     *)
(* instance may expire without ever being marked; the lock hides it.)      *)
(***************************************************************************)
HealthyFresh ==
    looping => \A i \in DOMAIN instances \ toRemove :
        instances[i].Status = "healthy" => instances[i].elapsed <= TTL + timer

(***************************************************************************)
(* While the cleanup loop runs, nothing stays registered for longer than   *)
(* twice the TTL plus one (late) cleanup period after its last heartbeat,  *)
(* other than what the cleanup in progress is about to remove.             *)
(***************************************************************************)
ExpiredRemoved ==
    looping => \A i \in DOMAIN instances \ toRemove :
        instances[i].elapsed <= 2 * TTL + timer

(***************************************************************************)
(* With strict pattern matching, overlapping keys belong to one service.   *)
(* Holds when registrations do not interleave (one handler).               *)
(***************************************************************************)
PatternsDisjoint ==
    StrictPatternMatching =>
        \A k, other \in DOMAIN routes :
            <<k, other>> \in Overlap => routes[k] = routes[other]

(***************************************************************************)
(* A service that stays registered keeps its routes: no step hands a key   *)
(* of a live service to another one, or drops it.  This is what Register   *)
(* promises with its collision check; it holds when registrations do not   *)
(* interleave (one handler) and fails when they do.                        *)
(***************************************************************************)
RoutesKept ==
    [][\A k \in DOMAIN routes :
         routes[k] \in DOMAIN services' =>
           k \in DOMAIN routes' /\ routes'[k] = routes[k]]_vars

(***************************************************************************)
(* The cleanup removes nobody who is late by less than a TTL: an instance  *)
(* that heartbeats at the announced interval, with a delay below the TTL,  *)
(* stays, even if its heartbeat comes while the cleanup is at work.  For a *)
(* TTL below a second, which is announced as 0, this cannot be kept.       *)
(***************************************************************************)
KeepsPunctual ==
    [][Second <= TTL =>
         \A i \in DOMAIN instances \ DOMAIN instances' :
             \/ instances[i].elapsed > TTL + ClientInterval
             \/ Deregister(i)
             \/ Restart]_vars

(***************************************************************************)
(* The registry implements the directory it promises: the two maps kept by *)
(* hand, the two-step registration and the cleanup's removals one by one   *)
(* look, from outside, like members that join and leave at once, never     *)
(* with a key of another service.  Like RoutesKept, it holds when          *)
(* registrations do not interleave.                                        *)
(***************************************************************************)
member == [i \in DOMAIN instances |-> instances[i].ServiceName]

Directory == INSTANCE ServiceDirectory WITH owner <- routes

ImplementsDirectory == Directory!DirSpec

(***************************************************************************)
(* Liveness: an instance whose heartbeats stop is removed, unless the      *)
(* registry is stopped.                                                    *)
(***************************************************************************)
SilentRemoved ==
    \A i \in InstanceID :
        (i \in DOMAIN instances /\ instances[i].elapsed > 0)
            ~> (i \notin DOMAIN instances \/ instances[i].elapsed = 0 \/ stopped)

=============================================================================
