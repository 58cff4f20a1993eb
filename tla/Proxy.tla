------------------------------- MODULE Proxy --------------------------------
(***************************************************************************)
(* The proxy (internal/infrastructure/proxy) and its load balancer, over   *)
(* the registry.  ProxyHandler.Handle reads the registry twice, the routes *)
(* and then the healthy instances of the service it found, and lets go of  *)
(* the lock in between; authentication and the other requests' selections  *)
(* come in between too.                                                    *)
(*                                                                         *)
(* A member of Handling is a goroutine of the HTTP server.  It serves one  *)
(* request after another.                                                  *)
(***************************************************************************)
EXTENDS RoutedRegistry

CONSTANTS
    Handling,    \* goroutines that run Handle
    MaxWait,     \* bound on the time from a request's arrival to its forwarding
    Cycle,       \* the round-robin counter is kept modulo Cycle
    None         \* no service

\* no list of instances tells a counter from the counter modulo Cycle
ASSUME CycleAssumption ==
    /\ IsFiniteSet(InstanceID)
    /\ Cycle \in Nat \ {0}
    /\ \A n \in 1 .. Cardinality(InstanceID) : Cycle % n = 0
ASSUME WaitAssumption == MaxWait \in Nat
ASSUME NoneAssumption == None \notin Service

VARIABLES
    req,       \* the request each goroutine handles
    counter    \* RoundRobinBalancer.counter

proxyVars == <<vars, req, counter>>

-----------------------------------------------------------------------------

\* the bound that a target's silence is to keep
MaxSilence == TTL + Interval + Lag + MaxWait

(***************************************************************************)
(* entry is match.Entry.ServiceName, healthy the slice GetHealthyInstances *)
(* returned.  waited is the time since the routes were read and silent the *)
(* longest time since a heartbeat of an instance in healthy; steady says   *)
(* that the service has had a healthy instance ever since.                 *)
(***************************************************************************)
Req == [stage : {"idle", "auth", "select", "forward"},
        entry : Service \cup {None},
        steady : BOOLEAN,
        healthy : Seq(InstanceID),
        waited : 0 .. MaxWait,
        silent : 0 .. AgeCap + MaxWait]

(***************************************************************************)
(* What Handle works with has the shape it needs: no request gets as far   *)
(* as Select with an empty list, so that its nil is never seen.            *)
(***************************************************************************)
ProxyTypeOK ==
    /\ TypeOK
    /\ \A g \in Handling : req[g] \in Req
    /\ counter \in 0 .. Cycle - 1
    /\ \A g \in Handling : req[g].stage = "select" => req[g].healthy # << >>

\* nothing that is read of a request in this stage
At(stage) == [stage |-> stage, entry |-> None, steady |-> FALSE,
              healthy |-> << >>, waited |-> 0, silent |-> 0]

ProxyInit ==
    /\ Init
    /\ req = [g \in Handling |-> At("idle")]
    /\ counter = 0

-----------------------------------------------------------------------------
(***************************************************************************)
(* Queries of the registry, under the read lock.                           *)
(***************************************************************************)

IsHealthy(i) == i \in DOMAIN instances /\ instances[i].Status = "healthy"

\* the services with a healthy instance, in terms of r.instances alone
Available == {instances[i].ServiceName : i \in {j \in DOMAIN instances : IsHealthy(j)}}

\* variants that must fail: an unhealthy first instance ends the loop, the
\* status is not looked at
HealthyPrefix(s) ==
    IF s \notin DOMAIN services \/ ~ IsHealthy(services[s][1]) THEN << >>
    ELSE SelectSeq(services[s], IsHealthy)

GetInstances(s) == IF s \notin DOMAIN services THEN << >> ELSE services[s]

\* the loop over the ids of a service, after n of them
Healthy(ids) ==
    LET healthy[n \in 0 .. Len(ids)] ==
          IF n = 0 THEN << >>
          ELSE IF IsHealthy(ids[n]) THEN Append(healthy[n - 1], ids[n])
          ELSE healthy[n - 1]
    IN healthy

GetHealthyInstances(s) ==
    IF s \notin DOMAIN services THEN << >> ELSE Healthy(services[s])[Len(services[s])]

-----------------------------------------------------------------------------
(***************************************************************************)
(* ProxyHandler.Handle.                                                    *)
(***************************************************************************)

(***************************************************************************)
(* A request arrives and MatchRoute reads the routes.  Without a match it  *)
(* is answered 404, which changes nothing.                                 *)
(***************************************************************************)
Match(g, m, path) ==
    /\ req[g].stage = "idle"
    /\ Unlocked
    /\ \E s \in MatchRoute(m, path) :
          req' = [req EXCEPT ![g] = [At("auth") EXCEPT
                    !.entry = s, !.steady = s \in Available]]
    /\ UNCHANGED <<vars, counter>>

\* AuthenticateRequest has answered 401, 403 or 500; see Tokens
Denied(g) ==
    /\ req[g].stage = "auth"
    /\ req' = [req EXCEPT ![g] = At("idle")]
    /\ UNCHANGED <<vars, counter>>

\* variant that must fail: the list is not looked at
PickUnchecked(g) ==
    /\ req[g].stage = "auth"
    /\ Unlocked
    /\ req' = [req EXCEPT ![g] = [At("select") EXCEPT
                 !.healthy = GetHealthyInstances(req[g].entry),
                 !.waited = req[g].waited]]
    /\ UNCHANGED <<vars, counter>>

\* AuthenticateRequest let the request pass; the healthy instances are read
Pick(g) ==
    /\ req[g].stage = "auth"
    /\ Unlocked
    /\ LET found == GetHealthyInstances(req[g].entry)
           ages  == {instances[found[n]].elapsed : n \in 1 .. Len(found)}
       IN /\ found # << >>
          /\ req' = [req EXCEPT ![g] = [At("select") EXCEPT
                       !.healthy = found, !.waited = req[g].waited,
                       !.silent = CHOOSE a \in ages : \A b \in ages : b <= a]]
    /\ UNCHANGED <<vars, counter>>

\* the same, and there is none: 503
Unavailable(g) ==
    /\ req[g].stage = "auth"
    /\ Unlocked
    /\ GetHealthyInstances(req[g].entry) = << >>
    /\ req' = [req EXCEPT ![g] = At("idle")]
    /\ UNCHANGED <<vars, counter>>

\* RoundRobinBalancer.Select: one atomic counter for all services
Chosen(list) == list[(counter % Len(list)) + 1]

Select(g) ==
    /\ req[g].stage = "select"
    /\ counter' = (counter + 1) % Cycle
    /\ req' = [req EXCEPT ![g] = At("forward")]
    /\ UNCHANGED vars

\* ServeHTTP: the instance's answer, or 502 if it cannot be reached
Forward(g) ==
    /\ req[g].stage = "forward"
    /\ req' = [req EXCEPT ![g] = At("idle")]
    /\ UNCHANGED <<vars, counter>>

-----------------------------------------------------------------------------

(***************************************************************************)
(* A step of the registry, as the requests observe it.  They do not see    *)
(* what the cleanup has not finished.                                      *)
(***************************************************************************)
Observe ==
    req' = [g \in Handling |->
              [req[g] EXCEPT !.steady = @ /\ (Unlocked' => req[g].entry \in Available')]]

\* a step of the registry other than the passing of time or a restart
RegistryStep ==
    /\ \/ \E h \in Handler, s \in Service, K \in SUBSET Key, i \in InstanceID :
             RegisterValidate(h, s, K, i)
       \/ \E h \in Handler, age \in 0 .. MaxDelay : RegisterCommit(h, age)
       \/ \E i \in InstanceID : Deregister(i) \/ Heartbeat(i) \/ CleanupRemove(i)
       \/ CleanupScan \/ Stop \/ CleanupLoopExit
    /\ Observe
    /\ UNCHANGED counter

\* time passes, and no request is selected for later than MaxWait
ProxyTick ==
    /\ Tick
    /\ \A g \in Handling : req[g].stage \in {"auth", "select"} => req[g].waited < MaxWait
    /\ req' = [g \in Handling |->
                 CASE req[g].stage = "auth" -> [req[g] EXCEPT !.waited = @ + 1]
                   [] req[g].stage = "select" -> [req[g] EXCEPT !.waited = @ + 1,
                                                                !.silent = @ + 1]
                   [] OTHER -> req[g]]
    /\ UNCHANGED counter

\* the requests end with the process
ProxyRestart ==
    /\ Restart
    /\ req' = [g \in Handling |-> At("idle")]
    /\ counter' = 0

ProxyNext ==
    \/ \E g \in Handling, m \in HTTPMethod, path \in RequestPaths : Match(g, m, path)
    \/ \E g \in Handling : \/ Denied(g) \/ Pick(g) \/ Unavailable(g)
                           \/ Select(g) \/ Forward(g)
    \/ RegistryStep
    \/ ProxyTick
    \/ ProxyRestart

ProxySpec == ProxyInit /\ [][ProxyNext]_proxyVars

-----------------------------------------------------------------------------

(***************************************************************************)
(* While the cleanup loop runs, no request is forwarded to an instance     *)
(* that was silent for longer than MaxSilence: the TTL, one late cleanup   *)
(* and the request's own time.  The instance is taken from a list that may *)
(* be out of date, and the pointers in it outlive the registration.        *)
(***************************************************************************)
TargetFresh ==
    looping => \A g \in Handling :
        req[g].stage = "select" => req[g].silent <= MaxSilence

(***************************************************************************)
(* No false 503: a request that found its route is refused for want of a   *)
(* healthy instance only if the service was without one at some moment     *)
(* since, whatever came in between: one of its instances marked or gone,   *)
(* another service in its place, a restart.                                *)
(***************************************************************************)
ServedWhileAvailable ==
    [][\A g \in Handling : Unavailable(g) => ~ req[g].steady]_proxyVars

=============================================================================
