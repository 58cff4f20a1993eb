--------------------------- MODULE ClientGateway ----------------------------
(***************************************************************************)
(* A registry client and the gateway it registers with.  The gateway is    *)
(* the ServiceDirectory that Registry implements, behind the HTTP handlers *)
(* of handler/registry.go; it may forget an instance (cleanup) or all of   *)
(* them (a restart), and other services register with it too.              *)
(***************************************************************************)
EXTENDS RegistryClient

CONSTANTS Service, Key,
          Self, SelfRoutes,   \* the client's service and routes
          MaxFaults           \* bound on the faults that hit the client

ASSUME SelfAssumption == Self \in Service /\ SelfRoutes \subseteq Key
ASSUME FaultsAssumption == MaxFaults \in Nat

VARIABLES member, owner,   \* the directory
          faults           \* restarts and untimely expiries so far

INSTANCE ServiceDirectory

gatewayVars == <<member, owner, faults>>
sessionVars == <<clientVars, gatewayVars>>

SessionInit == ClientInit /\ DirInit /\ faults = 0

-----------------------------------------------------------------------------
(***************************************************************************)
(* The HTTP handlers.                                                      *)
(***************************************************************************)

\* UUIDs are never reused: ids that the gateway or the client still know
KnownIDs == DOMAIN member \cup {instanceID} \cup {rpc[t].id : t \in Thread}
              \cup {r.id : r \in stray}

Collides == \E k \in SelfRoutes : k \in DOMAIN owner /\ owner[k] # Self

Answer(t, code, id) == rpc' = [rpc EXCEPT ![t].code = code, ![t].id = id]

\* an open request that has not been answered
Waiting(t, op) == rpc[t].op = op /\ rpc[t].code = "none"

OnlyRpc == UNCHANGED <<localVars, pc, attempt, stray, losses, unanswered, faults>>

\* RegistryHandler.Register: 201 or 409
HandleRegister(t) ==
    /\ Waiting(t, "register")
    /\ \/ Collides /\ Answer(t, "conflict", NoID) /\ UNCHANGED <<member, owner>>
       \/ \E i \in InstanceID \ KnownIDs :
             ~ Collides /\ Join(i, Self, SelfRoutes) /\ Answer(t, "created", i)
    /\ OnlyRpc

\* RegistryHandler.Heartbeat: 200 or 404
HandleHeartbeat(t) ==
    /\ Waiting(t, "heartbeat")
    /\ Answer(t, IF rpc[t].id \in DOMAIN member THEN "ok" ELSE "notfound", rpc[t].id)
    /\ UNCHANGED <<member, owner>>
    /\ OnlyRpc

\* RegistryHandler.Deregister: 200 or 404
HandleDeregister(t) ==
    /\ Waiting(t, "deregister")
    /\ IF rpc[t].id \in DOMAIN member
       THEN Leave(rpc[t].id) /\ Answer(t, "ok", rpc[t].id)
       ELSE UNCHANGED <<member, owner>> /\ Answer(t, "notfound", rpc[t].id)
    /\ OnlyRpc

(***************************************************************************)
(* A request whose sender no longer waits arrives after all, or never.     *)
(***************************************************************************)
HandleStray(r) ==
    /\ r \in stray
    /\ stray' = stray \ {r}
    /\ \/ /\ r.op = "register" /\ ~ Collides
          /\ \E i \in InstanceID \ KnownIDs : Join(i, Self, SelfRoutes)
       \/ r.op = "deregister" /\ r.id \in DOMAIN member /\ Leave(r.id)
       \/ UNCHANGED <<member, owner>>
    /\ UNCHANGED <<localVars, pc, attempt, rpc, losses, unanswered, faults>>

-----------------------------------------------------------------------------
(***************************************************************************)
(* What else happens at the gateway.                                       *)
(***************************************************************************)

\* the instances that are new or that the heartbeat goroutine keeps alive
KeptAlive ==
    IF pc["hb"] = "idle" /\ pc["reg"] \notin {"wait", "start"} THEN {}
    ELSE {instanceID} \cup {rpc[t].id : t \in Thread}

\* cleanup removes an instance nobody sends heartbeats for
ExpireSilent(i) ==
    /\ i \in DOMAIN member
    /\ i \notin KeptAlive
    /\ Leave(i)
    /\ UNCHANGED <<clientVars, faults>>

\* cleanup removes one whose heartbeats came too late: a fault
ExpireLate(i) ==
    /\ i \in DOMAIN member
    /\ i \in KeptAlive
    /\ faults < MaxFaults
    /\ faults' = faults + 1
    /\ Leave(i)
    /\ UNCHANGED clientVars

\* the gateway restarts with an empty registry
Restart ==
    /\ faults < MaxFaults
    /\ faults' = faults + 1
    /\ Lose
    /\ UNCHANGED clientVars

\* another service registers, maybe a route the client had
OtherRegisters(i, s, K) ==
    /\ s # Self /\ K # {}
    /\ i \notin KnownIDs
    /\ Join(i, s, K)
    /\ UNCHANGED <<clientVars, faults>>

-----------------------------------------------------------------------------

Handle(t) == HandleRegister(t) \/ HandleHeartbeat(t) \/ HandleDeregister(t)

SessionNext ==
    \/ ClientStep /\ UNCHANGED gatewayVars
    \/ ClientEnvironment /\ UNCHANGED gatewayVars
    \/ \E t \in Thread : Handle(t)
    \/ \E r \in stray : HandleStray(r)
    \/ \E i \in InstanceID : ExpireSilent(i) \/ ExpireLate(i)
    \/ Restart
    \/ \E i \in InstanceID, s \in Service, K \in SUBSET Key : OtherRegisters(i, s, K)

SessionSpec == SessionInit /\ [][SessionNext]_sessionVars

(***************************************************************************)
(* The runtime runs every goroutine of the client and the gateway answers  *)
(* every request that reaches it.  The heartbeat goroutine's select takes  *)
(* either ready case with the same probability, so it misses neither       *)
(* stopCh nor the ticker forever.  A cancelled call returns.  The gateway  *)
(* removes instances without heartbeats (Registry, SilentRemoved).         *)
(* Nothing is assumed of the service, its contexts, the network or the     *)
(* faults.                                                                 *)
(***************************************************************************)
ThreadStep(t) ==
    \/ t \in {"reg", "hb"} /\ (SendRegister(t) \/ RegisterCreated(t) \/ RegisterConflict(t)
                               \/ RetryRegister(t))
    \/ t = "reg" /\ StartHeartbeat
    \/ t = "hb" /\ (HeartbeatOK \/ HeartbeatNotFound)
    \/ t = "hb" /\ Cancelled(t) /\ (AbandonRegister(t) \/ CallFails(t))
    \/ t \in {"dereg", "shut"} /\ Deregistered(t)
    \/ t = "shut" /\ (ShutdownClose \/ ShutdownJoin)

SessionFairness ==
    /\ \A t \in Thread :
          /\ WF_sessionVars(ThreadStep(t) /\ UNCHANGED gatewayVars)
          /\ WF_sessionVars(Handle(t))
    /\ WF_sessionVars(\E i \in InstanceID : ExpireSilent(i))
    /\ SF_sessionVars(HeartbeatExit /\ UNCHANGED gatewayVars)
    /\ SF_sessionVars(SendHeartbeat /\ UNCHANGED gatewayVars)

FairSession == SessionSpec /\ SessionFairness

-----------------------------------------------------------------------------

SessionTypeOK ==
    /\ ClientTypeOK
    /\ DOMAIN member \subseteq InstanceID
    /\ member \in [DOMAIN member -> Service]
    /\ DOMAIN owner \subseteq Key
    /\ owner \in [DOMAIN owner -> Service]
    /\ faults \in 0 .. MaxFaults

\* the instances the gateway has of the client's service
Own == {i \in DOMAIN member : member[i] = Self}

(***************************************************************************)
(* Every registration the client does not know of was a call it gave up:   *)
(* retries, re-registrations and gateway restarts add no other duplicate.  *)
(***************************************************************************)
DuplicatesExplained == Cardinality(Own) <= 1 + unanswered

(***************************************************************************)
(* Once Shutdown returned nil the heartbeat goroutine is gone, has no call *)
(* open, and the instance the client knew last is deregistered.  Holds     *)
(* when Shutdown is the last call.                                         *)
(***************************************************************************)
ShutdownQuiet ==
    pc["shut"] = "nil" => /\ pc["hb"] = "idle"
                          /\ rpc["hb"].op = "none"
                          /\ instanceID \notin DOMAIN member

(***************************************************************************)
(* "Graceful shutdown (stops heartbeat + deregisters)": nothing of the     *)
(* service is left at the gateway when Shutdown returned nil.              *)
(***************************************************************************)
ShutdownLeavesNothing == pc["shut"] = "nil" => Own = {}

(***************************************************************************)
(* "Deregister the service": it stays deregistered.                        *)
(***************************************************************************)
DeregisterSticks == pc["dereg"] = "nil" => Own = {}

(***************************************************************************)
(* A registered client that is not shut down gets back into the registry   *)
(* after any restart or expiry and whatever calls fail, unless another     *)
(* service took one of its routes meanwhile.                               *)
(***************************************************************************)
Recovers == registered ~> (instanceID \in DOMAIN member \/ Collides \/ stopped)

(***************************************************************************)
(* Shutdown returns, even when the heartbeat goroutine is in the middle of *)
(* a call or of a re-registration.                                         *)
(***************************************************************************)
ShutdownReturns ==
    pc["shut"] = "closing" ~> pc["shut"] \in {"nil", "timeout", "error", "repeated"}

(***************************************************************************)
(* A client that was shut down disappears for good, also when Shutdown ran *)
(* into its timeout, or failed to deregister, and calling it again did     *)
(* nothing, and when a Register was still under way: the heartbeat         *)
(* goroutine ends and the gateway's cleanup removes what is left.          *)
(***************************************************************************)
LeavesForGood == stopped ~> [](pc["hb"] = "idle" /\ Own = {})

=============================================================================
