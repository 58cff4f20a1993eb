------------------------ MODULE ClientGatewayProofs -------------------------
(***************************************************************************)
(* Proofs about ClientGateway, for any number of ids, retries, lost calls, *)
(* faults and competing services.                                          *)
(***************************************************************************)
EXTENDS ClientGateway, FiniteSetTheorems, TLAPS

-----------------------------------------------------------------------------
(***************************************************************************)
(* The gateway.                                                            *)
(***************************************************************************)

DirectoryTyped ==
    /\ DOMAIN member \subseteq InstanceID
    /\ member \in [DOMAIN member -> Service]
    /\ DOMAIN owner \subseteq Key
    /\ owner \in [DOMAIN owner -> Service]

\* what reaches the directory is an instance that joins or leaves, or a restart
LEMMA DirectorySteps ==
    DirectoryTyped /\ [SessionNext]_sessionVars => [DirNext]_dirVars
  <1> SUFFICES ASSUME DirectoryTyped, [SessionNext]_sessionVars
               PROVE  [DirNext]_dirVars
    OBVIOUS
  <1> USE SelfAssumption
  <1>1. CASE (ClientStep \/ ClientEnvironment) /\ UNCHANGED gatewayVars
    BY <1>1 DEF gatewayVars, dirVars
  <1>2. \A i : Leave(i) => DirNext
    BY DEF Leave, DirNext, DirectoryTyped
  <1>3. \A i \in InstanceID : Join(i, Self, SelfRoutes) => DirNext
    BY DEF DirNext
  <1>4. ASSUME NEW t \in Thread, Handle(t)
        PROVE  [DirNext]_dirVars
    BY <1>2, <1>3, <1>4
    DEF Handle, HandleRegister, HandleHeartbeat, HandleDeregister, dirVars
  <1>5. ASSUME NEW r \in stray, HandleStray(r)
        PROVE  [DirNext]_dirVars
    BY <1>2, <1>3, <1>5 DEF HandleStray, dirVars
  <1>6. ASSUME NEW i \in InstanceID, ExpireSilent(i) \/ ExpireLate(i)
        PROVE  DirNext
    BY <1>2, <1>6 DEF ExpireSilent, ExpireLate
  <1>7. CASE Restart
    BY <1>7 DEF Restart, DirNext
  <1>8. ASSUME NEW i \in InstanceID, NEW s \in Service, NEW K \in SUBSET Key,
               OtherRegisters(i, s, K)
        PROVE  DirNext
    BY <1>8 DEF OtherRegisters, DirNext
  <1>9. CASE UNCHANGED sessionVars
    BY <1>9 DEF sessionVars, gatewayVars, dirVars
  <1> QED
    BY <1>1, <1>4, <1>5, <1>6, <1>7, <1>8, <1>9 DEF SessionNext

LEMMA DirectoryTypedInductive == DirectoryTyped /\ [DirNext]_dirVars => DirectoryTyped'
  <1> SUFFICES ASSUME DirectoryTyped, [DirNext]_dirVars
               PROVE  DirectoryTyped'
    OBVIOUS
  <1>1. ASSUME NEW i \in InstanceID, NEW s \in Service, NEW K \in SUBSET Key, Join(i, s, K)
        PROVE  DirectoryTyped'
    BY <1>1 DEF Join, DirectoryTyped
  <1>2. ASSUME NEW i \in InstanceID, Leave(i)
        PROVE  DirectoryTyped'
    BY <1>2 DEF Leave, DirectoryTyped
  <1>3. CASE Lose
    BY <1>3 DEF Lose, DirectoryTyped
  <1>4. CASE UNCHANGED dirVars
    BY <1>4 DEF dirVars, DirectoryTyped
  <1> QED
    BY <1>1, <1>2, <1>3, <1>4 DEF DirNext

(***************************************************************************)
(* The gateway the client talks to does what ServiceDirectory allows, and  *)
(* no more: the handlers, late requests, cleanup, restarts and the other   *)
(* services are joins, leaves and losses of it.                            *)
(***************************************************************************)
LEMMA GatewayIsDirectory == SessionSpec => DirSpec /\ []DirectoryTyped
  <1>1. SessionInit => DirInit /\ DirectoryTyped
    BY DEF SessionInit, DirInit, DirectoryTyped
  <1> QED
    BY <1>1, DirectorySteps, DirectoryTypedInductive, PTL DEF SessionSpec, DirSpec

-----------------------------------------------------------------------------
(***************************************************************************)
(* Where the threads are.                                                  *)
(***************************************************************************)

(***************************************************************************)
(* A thread with an open call is at the label that waits for it.  Register *)
(* runs to its end before the heartbeat goroutine starts, once.            *)
(***************************************************************************)
Control ==
    /\ \A t \in Thread :
          /\ rpc[t].op = "register" => t \in {"reg", "hb"} /\ pc[t] = "wait"
          /\ rpc[t].op = "heartbeat" => t = "hb" /\ pc[t] = "beat"
          /\ rpc[t].op = "deregister" => t \in {"dereg", "shut"} /\ pc[t] = "leaving"
          /\ rpc[t].op = "register" /\ rpc[t].code = "none" => rpc[t].id = NoID
          /\ pc[t] = "backoff" => attempt[t] < MaxRetries
    /\ pc["reg"] \in {"idle", "send", "wait", "backoff", "start"}
    /\ pc["hb"] \in {"idle", "select", "beat", "send", "wait", "backoff"}
    /\ pc["reg"] \in {"send", "wait", "backoff"} => ~ registered
    /\ ~ registered => instanceID = NoID /\ pc["hb"] = "idle"
    /\ pc["reg"] = "start" => registered /\ pc["hb"] = "idle"

ClientOK == ClientTypeOK /\ Control

LEMMA ClientOKStep ==
    ASSUME ClientOK, ClientStep
    PROVE  ClientOK'
  <1> USE ClientAssumption DEF ClientOK, ClientTypeOK, Control, Thread, Call, Op, Code
  <1>1. ASSUME NEW t \in {"reg", "hb"}, SendRegister(t)
        PROVE  ClientOK'
    BY <1>1 DEF SendRegister, Goto, Open, Request, localVars, Cancelled
  <1>2. ASSUME NEW t \in {"reg", "hb"}, RetryRegister(t)
        PROVE  ClientOK'
    BY <1>2 DEF RetryRegister, Goto, localVars
  <1>3. ASSUME NEW t \in {"reg", "hb"}, RegisterCreated(t)
        PROVE  ClientOK'
    <2>1. /\ pc[t] = "wait" /\ instanceID' = rpc[t].id
          /\ pc' = [pc EXCEPT ![t] = IF t = "reg" THEN "start" ELSE "select"]
          /\ rpc' = [rpc EXCEPT ![t] = NoCall]
          /\ UNCHANGED <<stopped, stopCh, stopCancel, attempt, stray, losses, unanswered>>
      BY <1>3 DEF RegisterCreated, Answered, Goto, Close
    <2>2. registered' = TRUE
      BY <1>3, <2>1 DEF RegisterCreated
    <2>3. ClientTypeOK'
      BY <2>1, <2>2 DEF NoCall
    <2>4. Control'
      BY <2>1, <2>2 DEF NoCall
    <2> QED
      BY <2>3, <2>4
  <1>4. ASSUME NEW t \in {"reg", "hb"}, RegisterConflict(t)
        PROVE  ClientOK'
    BY <1>4 DEF RegisterConflict, Answered, Goto, Close, NoCall, localVars, AfterRegister
  <1>5. ASSUME NEW t \in {"reg", "hb"}, AbandonRegister(t)
        PROVE  ClientOK'
    BY <1>5 DEF AbandonRegister, Goto, localVars, AfterRegister
  <1>6. CASE StartHeartbeat
    BY <1>6 DEF StartHeartbeat
  <1>7. CASE SendHeartbeat
    BY <1>7 DEF SendHeartbeat, Goto, Open, Request, localVars
  <1>8. CASE HeartbeatOK \/ HeartbeatNotFound
    BY <1>8 DEF HeartbeatOK, HeartbeatNotFound, Answered, Goto, Close, NoCall, localVars
  <1>9. CASE HeartbeatExit
    BY <1>9 DEF HeartbeatExit, Goto, localVars
  <1>10. ASSUME NEW t \in {"dereg", "shut"}, Deregistered(t)
         PROVE  ClientOK'
    BY <1>10 DEF Deregistered, Answered, Goto, Close, NoCall, localVars
  <1>11. CASE ShutdownClose
    BY <1>11 DEF ShutdownClose, Goto
  <1>12. CASE ShutdownJoin
    BY <1>12 DEF ShutdownJoin, Deregister, Goto, Open, Request, localVars
  <1> QED
    BY <1>1, <1>2, <1>3, <1>4, <1>5, <1>6, <1>7, <1>8, <1>9, <1>10, <1>11, <1>12
    DEF ClientStep

LEMMA ClientOKEnvironment ==
    ASSUME ClientOK, ClientEnvironment
    PROVE  ClientOK'
  <1> USE ClientAssumption DEF ClientOK, ClientTypeOK, Control, Thread, Call, Op, Code
  <1>1. CASE RegisterCall
    BY <1>1 DEF RegisterCall, Goto, localVars
  <1>2. CASE DeregisterCall
    BY <1>2 DEF DeregisterCall, Deregister, Goto, Open, Request, localVars
  <1>3. CASE ShutdownCall
    BY <1>3 DEF ShutdownCall, Goto
  <1>4. CASE ShutdownTimeout \/ ShutdownAgain
    BY <1>4 DEF ShutdownTimeout, ShutdownAgain, Goto, localVars
  <1>5. ASSUME NEW t \in Thread, CallFails(t)
        PROVE  ClientOK'
    <2>1. /\ rpc[t].op = "register" => AfterError(t) \in {"backoff", AfterRegister(t)}
          /\ rpc[t].op = "register" /\ AfterError(t) = "backoff" => attempt[t] < MaxRetries
          /\ rpc[t].op = "heartbeat" => AfterError(t) = "select"
          /\ rpc[t].op = "deregister" => AfterError(t) = "error"
      BY DEF AfterError, AfterRegister
    <2>2. /\ rpc[t].op # "none"
          /\ pc' = [pc EXCEPT ![t] = AfterError(t)]
          /\ rpc' = [rpc EXCEPT ![t] = NoCall]
          /\ stray' \subseteq stray \cup {rpc[t]}
          /\ losses' \in 0 .. MaxLoss
          /\ unanswered' \in Nat
          /\ UNCHANGED <<registered, instanceID, stopped, stopCh, stopCancel, attempt>>
      BY <1>5 DEF CallFails, Goto, Close
    <2>3. NoCall \in Call
      BY DEF NoCall
    <2>4. ClientTypeOK'
      BY <2>1, <2>2, <2>3 DEF AfterRegister
    <2>5. Control'
      BY <2>1, <2>2 DEF AfterRegister, NoCall
    <2> QED
      BY <2>4, <2>5
  <1> QED
    BY <1>1, <1>2, <1>3, <1>4, <1>5 DEF ClientEnvironment

\* the gateway answers calls and takes late requests off the wire, no more
LEMMA ClientOKGateway ==
    ASSUME ClientOK,
           \/ \E t \in Thread : Handle(t)
           \/ \E r \in stray : HandleStray(r)
           \/ UNCHANGED clientVars
    PROVE  ClientOK'
  <1> USE DEF ClientOK, ClientTypeOK, Control, Thread, Call, Op, Code
  <1>1. ASSUME NEW t \in Thread, Handle(t)
        PROVE  ClientOK'
    <2>1. PICK code \in Code \ {"none"}, id \in InstanceID \cup {NoID} : Answer(t, code, id)
      BY <1>1 DEF Handle, HandleRegister, HandleHeartbeat, HandleDeregister
    <2>2. OnlyRpc
      BY <1>1 DEF Handle, HandleRegister, HandleHeartbeat, HandleDeregister
    <2> QED
      BY <2>1, <2>2 DEF Answer, OnlyRpc, localVars
  <1>2. ASSUME NEW r \in stray, HandleStray(r)
        PROVE  ClientOK'
    BY <1>2 DEF HandleStray, localVars
  <1>3. CASE UNCHANGED clientVars
    BY <1>3 DEF clientVars
  <1> QED
    BY <1>1, <1>2, <1>3

SessionOK == ClientOK /\ DirectoryTyped /\ faults \in 0 .. MaxFaults

LEMMA SessionOKInit == SessionInit => SessionOK
  <1> SUFFICES ASSUME SessionInit
               PROVE  SessionOK
    OBVIOUS
  <1>1. NoCall \in Call /\ NoCall.op = "none"
    BY DEF NoCall, Call, Op, Code
  <1>2. ClientTypeOK
    <2>1. /\ rpc \in [Thread -> Call] /\ stray \subseteq Call
          /\ instanceID \in InstanceID \cup {NoID}
      BY <1>1, Zenon DEF SessionInit, ClientInit
    <2>2. 0 \in 0 .. MaxRetries /\ 0 \in 0 .. MaxLoss /\ 0 \in Nat
      BY ClientAssumption
    <2>3. /\ attempt \in [Thread -> 0 .. MaxRetries] /\ losses \in 0 .. MaxLoss
          /\ unanswered \in Nat
      BY <2>2, Zenon DEF SessionInit, ClientInit
    <2> QED
      BY <2>1, <2>3 DEF SessionInit, ClientInit, ClientTypeOK
  <1>4. Control
    BY <1>1 DEF SessionInit, ClientInit, Control, Thread
  <1>3. DirectoryTyped
    BY DEF SessionInit, DirInit, DirectoryTyped
  <1> QED
    BY <1>2, <1>3, <1>4, FaultsAssumption DEF SessionOK, SessionInit, ClientOK

LEMMA SessionOKInductive == SessionOK /\ [SessionNext]_sessionVars => SessionOK'
  <1> SUFFICES ASSUME SessionOK, [SessionNext]_sessionVars
               PROVE  SessionOK'
    OBVIOUS
  <1>1. DirectoryTyped'
    BY DirectorySteps, DirectoryTypedInductive DEF SessionOK
  <1>2. ClientOK'
    <2>1. CASE ClientStep \/ ClientEnvironment
      BY <2>1, ClientOKStep, ClientOKEnvironment DEF SessionOK
    <2>2. CASE \/ \E t \in Thread : Handle(t)
               \/ \E r \in stray : HandleStray(r)
               \/ UNCHANGED clientVars
      BY <2>2, ClientOKGateway DEF SessionOK
    <2> QED
      BY <2>1, <2>2 DEF SessionNext, ExpireSilent, ExpireLate, Restart, OtherRegisters,
                        sessionVars
  <1>3. faults' \in 0 .. MaxFaults
    BY FaultsAssumption
    DEF SessionOK, SessionNext, sessionVars, gatewayVars, Handle, HandleRegister,
        HandleHeartbeat, HandleDeregister, OnlyRpc, HandleStray, ExpireSilent, ExpireLate,
        Restart, OtherRegisters
  <1> QED
    BY <1>1, <1>2, <1>3 DEF SessionOK

LEMMA SessionInvariant == SessionSpec => []SessionOK
  BY SessionOKInit, SessionOKInductive, PTL DEF SessionSpec

(***************************************************************************)
(* Type correctness of the client and its gateway: no thread is ever at a  *)
(* label it has no code for, retries stay within maxRetries, and faults    *)
(* and losses within the bounds that limit them.                           *)
(***************************************************************************)
THEOREM SessionTyped == SessionSpec => []SessionTypeOK
  <1>1. SessionOK => SessionTypeOK
    BY DEF SessionOK, ClientOK, DirectoryTyped, SessionTypeOK
  <1> QED
    BY <1>1, SessionInvariant, PTL

-----------------------------------------------------------------------------
(***************************************************************************)
(* Duplicates.                                                             *)
(***************************************************************************)

\* no instance appears at the gateway
Shrinks == /\ DOMAIN member' \subseteq DOMAIN member
           /\ Own' \subseteq Own

LEMMA JoinOwn ==
    ASSUME NEW i, NEW s, NEW K, Join(i, s, K)
    PROVE  /\ DOMAIN member' = DOMAIN member \cup {i}
           /\ Own' \subseteq Own \cup {i}
  BY DEF Join, Own

LEMMA LeaveOwn == \A i : Leave(i) => Shrinks /\ i \notin DOMAIN member'
  BY DEF Leave, Own, Shrinks

LEMMA KeepOwn == UNCHANGED member => Shrinks
  BY DEF Own, Shrinks

(***************************************************************************)
(* The client registers again only when the id it holds is gone.           *)
(***************************************************************************)
Replaced ==
    /\ pc["hb"] \in {"send", "wait", "backoff"} => instanceID \notin DOMAIN member
    /\ rpc["hb"].op = "heartbeat" =>
          /\ rpc["hb"].id = instanceID
          /\ rpc["hb"].code = "notfound" => instanceID \notin DOMAIN member

LEMMA ReplacedClient ==
    ASSUME SessionOK, Replaced, ClientStep \/ ClientEnvironment, UNCHANGED gatewayVars
    PROVE  Replaced'
  <1> USE DEF SessionOK, ClientOK, ClientTypeOK, Control, Thread, Replaced, gatewayVars
  <1>1. ASSUME NEW t \in {"reg", "hb"}, SendRegister(t) \/ RetryRegister(t)
        PROVE  Replaced'
    BY <1>1 DEF SendRegister, RetryRegister, Goto, Open, Request, localVars
  <1>2. ASSUME NEW t \in {"reg", "hb"}, RegisterCreated(t)
        PROVE  Replaced'
    BY <1>2 DEF RegisterCreated, Answered, Goto, Close, NoCall
  <1>3. ASSUME NEW t \in {"reg", "hb"}, RegisterConflict(t) \/ AbandonRegister(t)
        PROVE  Replaced'
    BY <1>3 DEF RegisterConflict, AbandonRegister, Answered, AfterRegister, Goto, Close,
                NoCall, localVars
  <1>4. CASE StartHeartbeat
    BY <1>4 DEF StartHeartbeat
  <1>5. CASE SendHeartbeat
    BY <1>5 DEF SendHeartbeat, Goto, Open, Request, localVars
  <1>6. CASE HeartbeatOK \/ HeartbeatNotFound \/ HeartbeatExit
    BY <1>6 DEF HeartbeatOK, HeartbeatNotFound, HeartbeatExit, Answered, Goto, Close, NoCall,
                localVars
  <1>7. ASSUME NEW t \in {"dereg", "shut"}, Deregistered(t)
        PROVE  Replaced'
    BY <1>7 DEF Deregistered, Goto, Close, localVars
  <1>8. CASE ShutdownClose \/ ShutdownTimeout \/ ShutdownAgain \/ ShutdownCall
    BY <1>8 DEF ShutdownClose, ShutdownTimeout, ShutdownAgain, ShutdownCall, Goto, localVars
  <1>9. CASE ShutdownJoin \/ DeregisterCall
    BY <1>9 DEF ShutdownJoin, DeregisterCall, Deregister, Goto, Open, localVars
  <1>10. CASE RegisterCall
    BY <1>10 DEF RegisterCall, Goto, localVars
  <1>11. ASSUME NEW t \in Thread, CallFails(t)
         PROVE  Replaced'
    <2>1. /\ pc' = [pc EXCEPT ![t] = AfterError(t)]
          /\ rpc' = [rpc EXCEPT ![t] = NoCall]
          /\ UNCHANGED <<instanceID, member>>
          /\ rpc[t].op # "none"
      BY <1>11 DEF CallFails, Goto, Close
    <2>2. rpc[t].op # "register" => AfterError(t) \in {"select", "error"}
      BY <2>1 DEF AfterError, Call, Op
    <2> QED
      BY <2>1, <2>2 DEF NoCall
  <1> QED
    BY <1>1, <1>2, <1>3, <1>4, <1>5, <1>6, <1>7, <1>8, <1>9, <1>10, <1>11
    DEF ClientStep, ClientEnvironment

\* the steps of the gateway, its faults and the other services
GatewayStep ==
    \/ \E t \in Thread : Handle(t)
    \/ \E r \in stray : HandleStray(r)
    \/ \E i \in InstanceID : ExpireSilent(i) \/ ExpireLate(i)
    \/ Restart
    \/ \E i \in InstanceID, s \in Service, K \in SUBSET Key : OtherRegisters(i, s, K)

\* they touch no state of the client but its open calls, and revive no id it knows
LEMMA NothingRevived ==
    ASSUME GatewayStep
    PROVE  /\ UNCHANGED <<localVars, pc, attempt, losses, unanswered>>
           /\ stray' \subseteq stray
           /\ \A i \in KnownIDs : i \in DOMAIN member' => i \in DOMAIN member
  <1> DEFINE Safe == \A i \in KnownIDs : i \in DOMAIN member' => i \in DOMAIN member
  <1>1. ASSUME NEW i, NEW s, NEW K, i \notin KnownIDs, Join(i, s, K)
        PROVE  Safe
    <2>1. DOMAIN member' = DOMAIN member \cup {i}
      BY <1>1 DEF Join
    <2> QED
      BY <1>1, <2>1
  <1>2. ASSUME NEW i, Leave(i)
        PROVE  Safe
    BY <1>2, LeaveOwn DEF Shrinks
  <1>3. UNCHANGED member => Safe
    OBVIOUS
  <1>4. Lose => Safe
    BY DEF Lose
  <1> HIDE DEF Safe
  <1>5. Safe
    BY <1>1, <1>2, <1>3, <1>4
    DEF GatewayStep, Handle, HandleRegister, HandleHeartbeat, HandleDeregister, HandleStray,
        ExpireSilent, ExpireLate, Restart, OtherRegisters
  <1>6. UNCHANGED <<localVars, pc, attempt, losses, unanswered>> /\ stray' \subseteq stray
    BY DEF GatewayStep, Handle, HandleRegister, HandleHeartbeat, HandleDeregister, OnlyRpc,
           HandleStray, ExpireSilent, ExpireLate, Restart, OtherRegisters, localVars, clientVars
  <1> QED
    BY <1>5, <1>6 DEF Safe

LEMMA ReplacedGateway ==
    ASSUME SessionOK, Replaced, GatewayStep
    PROVE  Replaced'
  <1>1. /\ UNCHANGED <<pc, instanceID>>
        /\ instanceID \in DOMAIN member' => instanceID \in DOMAIN member
    BY NothingRevived DEF localVars, KnownIDs
  <1>2. CASE UNCHANGED rpc
    BY <1>1, <1>2 DEF Replaced
  <1>3. ASSUME NEW t \in Thread, HandleRegister(t) \/ HandleDeregister(t)
        PROVE  Replaced'
    <2>1. /\ t = "hb" => rpc'[t].op # "heartbeat"
          /\ t # "hb" => rpc'["hb"] = rpc["hb"]
      BY <1>3 DEF HandleRegister, HandleDeregister, Waiting, Answer, SessionOK, ClientOK,
                  ClientTypeOK, Call, Op, Thread
    <2> QED
      BY <1>1, <2>1 DEF Replaced
  <1>4. ASSUME NEW t \in Thread, HandleHeartbeat(t)
        PROVE  Replaced'
    <2>1. /\ t = "hb" /\ rpc'[t].id = instanceID /\ UNCHANGED member
          /\ rpc'[t].code = "notfound" => instanceID \notin DOMAIN member
      BY <1>4 DEF HandleHeartbeat, Waiting, Answer, SessionOK, ClientOK, Control,
                  ClientTypeOK, Call, Thread, Replaced
    <2> QED
      BY <1>1, <2>1 DEF Replaced
  <1> QED
    BY <1>2, <1>3, <1>4
    DEF GatewayStep, Handle, HandleStray, ExpireSilent, ExpireLate, Restart, OtherRegisters,
        clientVars

(***************************************************************************)
(* The id the client holds, or will hold once it reads the answer of its   *)
(* registration; the other instances of its service; the registrations it  *)
(* gave up that the gateway may still receive.                             *)
(***************************************************************************)
Held ==
    IF Answered("reg", "register", "created") THEN rpc["reg"].id
    ELSE IF Answered("hb", "register", "created") THEN rpc["hb"].id
    ELSE instanceID

Orphans == Own \ {Held}
Late == {r \in stray : r.op = "register"}

Accounted ==
    /\ IsFiniteSet(Own)
    /\ IsFiniteSet(stray)
    /\ Cardinality(Orphans) + Cardinality(Late) <= unanswered

\* what the accounts need: nothing appears, or what appears was given up
LEMMA AccountsKept ==
    ASSUME SessionOK, Accounted,
           Own' \subseteq Own, IsFiniteSet(stray'), unanswered' \in Nat,
           Orphans' \subseteq Orphans, Late' \subseteq Late, unanswered <= unanswered'
    PROVE  Accounted'
  <1>1. /\ IsFiniteSet(Orphans) /\ IsFiniteSet(Late) /\ IsFiniteSet(Own')
    BY FS_Subset DEF Accounted, Orphans, Late
  <1>2. /\ Cardinality(Orphans') <= Cardinality(Orphans)
        /\ Cardinality(Late') <= Cardinality(Late)
        /\ Cardinality(Orphans) \in Nat /\ Cardinality(Late) \in Nat
        /\ Cardinality(Orphans') \in Nat /\ Cardinality(Late') \in Nat
    BY <1>1, FS_Subset, FS_CardinalityType
  <1>3. unanswered \in Nat
    BY DEF SessionOK, ClientOK, ClientTypeOK
  <1>4. Cardinality(Orphans') + Cardinality(Late') <= unanswered'
    BY <1>2, <1>3 DEF Accounted
  <1> QED
    BY <1>1, <1>4 DEF Accounted

\* one registration at a time, and only while the client holds no live id
LEMMA OneRegistration ==
    ASSUME SessionOK, Replaced, NEW t \in Thread, rpc[t].op = "register"
    PROVE  /\ instanceID \notin DOMAIN member
           /\ t \in {"reg", "hb"}
           /\ \A u \in Thread \ {t} : rpc[u].op # "register"
  <1> USE DEF SessionOK, ClientOK, Control, Thread
  <1>1. t = "reg" => ~ registered
    OBVIOUS
  <1>2. instanceID \notin DOMAIN member
    BY <1>1, NoIDAssumption DEF Replaced, DirectoryTyped
  <1> QED
    BY <1>1, <1>2

LEMMA HeldKept ==
    ASSUME SessionOK, ClientStep \/ (ClientEnvironment /\ ~ \E t \in Thread : CallFails(t))
    PROVE  Held' = Held /\ UNCHANGED <<stray, unanswered>>
  <1> USE DEF SessionOK, ClientOK, ClientTypeOK, Control, Thread, Held, Answered
  <1>1. ASSUME NEW t \in {"reg", "hb"}, SendRegister(t) \/ RetryRegister(t) \/ AbandonRegister(t)
        PROVE  Held' = Held /\ UNCHANGED <<stray, unanswered>>
    BY <1>1 DEF SendRegister, RetryRegister, AbandonRegister, Open, Request, localVars
  <1>2. ASSUME NEW t \in {"reg", "hb"}, RegisterCreated(t)
        PROVE  Held' = Held /\ UNCHANGED <<stray, unanswered>>
    BY <1>2 DEF RegisterCreated, Close, NoCall
  <1>3. ASSUME NEW t \in {"reg", "hb"}, RegisterConflict(t)
        PROVE  Held' = Held /\ UNCHANGED <<stray, unanswered>>
    BY <1>3 DEF RegisterConflict, Close, NoCall, localVars
  <1>4. CASE StartHeartbeat \/ HeartbeatExit
    BY <1>4 DEF StartHeartbeat, HeartbeatExit, localVars
  <1>5. CASE SendHeartbeat
    BY <1>5 DEF SendHeartbeat, Open, Request, localVars
  <1>6. CASE HeartbeatOK \/ HeartbeatNotFound
    BY <1>6 DEF HeartbeatOK, HeartbeatNotFound, Close, NoCall, localVars
  <1>7. ASSUME NEW t \in {"dereg", "shut"}, Deregistered(t)
        PROVE  Held' = Held /\ UNCHANGED <<stray, unanswered>>
    BY <1>7 DEF Deregistered, Close, localVars
  <1>8. CASE ShutdownClose \/ ShutdownTimeout \/ ShutdownAgain \/ ShutdownCall
    BY <1>8 DEF ShutdownClose, ShutdownTimeout, ShutdownAgain, ShutdownCall, localVars
  <1>9. CASE ShutdownJoin \/ DeregisterCall
    BY <1>9 DEF ShutdownJoin, DeregisterCall, Deregister, Open, localVars
  <1>10. CASE RegisterCall
    BY <1>10 DEF RegisterCall, localVars
  <1> QED
    BY <1>1, <1>2, <1>3, <1>4, <1>5, <1>6, <1>7, <1>8, <1>9, <1>10
    DEF ClientStep, ClientEnvironment

LEMMA AtMostOneMore ==
    ASSUME NEW S, IsFiniteSet(S), NEW x, NEW T, T \subseteq S \cup {x}
    PROVE  /\ IsFiniteSet(T)
           /\ Cardinality(T) \in Nat /\ Cardinality(T) <= Cardinality(S) + 1
  <1> DEFINE U == S \cup {x}
  <1>1. /\ IsFiniteSet(U)
        /\ Cardinality(U) = Cardinality(S) \/ Cardinality(U) = Cardinality(S) + 1
    BY FS_AddElement
  <1>2. /\ Cardinality(S) \in Nat
        /\ IsFiniteSet(T) /\ Cardinality(T) <= Cardinality(U)
    BY <1>1, FS_Subset, FS_CardinalityType
  <1>3. Cardinality(T) \in Nat
    BY <1>2, FS_CardinalityType
  <1> HIDE DEF U
  <1> QED
    BY <1>1, <1>2, <1>3

\* a call that is given up: its instance is nobody's, or its request is late
LEMMA AccountedFails ==
    ASSUME SessionOK, Replaced, Accounted, UNCHANGED gatewayVars,
           NEW t \in Thread, CallFails(t)
    PROVE  Accounted'
  <1>1. /\ Own' = Own /\ IsFiniteSet(Own)
        /\ IsFiniteSet(Orphans) /\ IsFiniteSet(Late)
    BY FS_Subset DEF gatewayVars, Own, Accounted, Orphans, Late
  <1>2. /\ unanswered \in Nat /\ Cardinality(Orphans) \in Nat /\ Cardinality(Late) \in Nat
        /\ Cardinality(Orphans) + Cardinality(Late) <= unanswered
    BY <1>1, FS_CardinalityType DEF SessionOK, ClientOK, ClientTypeOK, Accounted
  <1>3. IsFiniteSet(stray')
    BY FS_AddElement DEF CallFails, Accounted
  <1>4. CASE rpc[t].op # "register"
    <2>1. Held' = Held /\ unanswered' = unanswered /\ Late' = Late
      BY <1>4 DEF CallFails, Close, NoCall, Held, Answered, Late, SessionOK, ClientOK,
                  ClientTypeOK, Thread
    <2> QED
      BY <1>1, <1>2, <1>3, <2>1, AccountsKept DEF Orphans
  <1>5. CASE rpc[t].op = "register"
    <2>1. /\ instanceID \notin Own /\ t \in {"reg", "hb"}
          /\ \A u \in Thread \ {t} : rpc[u].op # "register"
      BY <1>5, OneRegistration DEF Own
    <2>2. Held' = instanceID /\ unanswered' = unanswered + 1
      BY <1>5, <2>1 DEF CallFails, Close, NoCall, Held, Answered, SessionOK, ClientOK,
                        ClientTypeOK, Thread
    <2>3. CASE rpc[t].code = "none"
      <3>1. Orphans' = Orphans
        BY <1>1, <1>5, <2>1, <2>2, <2>3 DEF Orphans, Held, Answered, Thread
      <3>2. Late' \subseteq Late \cup {rpc[t]}
        BY DEF CallFails, Late
      <3>3. Cardinality(Late') \in Nat /\ Cardinality(Late') <= Cardinality(Late) + 1
        BY <1>1, <3>2, AtMostOneMore
      <3>5. Cardinality(Orphans') + Cardinality(Late') <= unanswered'
        BY <1>2, <2>2, <3>1, <3>3
      <3> QED
        BY <1>1, <1>3, <3>5 DEF Accounted
    <2>4. CASE rpc[t].code # "none"
      <3>1. Late' = Late
        BY <2>4 DEF CallFails, Late
      <3>2. Orphans' \subseteq Orphans \cup {Held}
        BY <1>1 DEF Orphans
      <3>3. Cardinality(Orphans') \in Nat /\ Cardinality(Orphans') <= Cardinality(Orphans) + 1
        BY <1>1, <3>2, AtMostOneMore
      <3>5. Cardinality(Orphans') + Cardinality(Late') <= unanswered'
        BY <1>2, <2>2, <3>1, <3>3
      <3> QED
        BY <1>1, <1>3, <3>5 DEF Accounted
    <2> QED
      BY <2>3, <2>4
  <1> QED
    BY <1>4, <1>5

\* a registration is answered: the new instance is the one the client will hold
LEMMA AccountedRegister ==
    ASSUME SessionOK, Replaced, Accounted, NEW t \in Thread, HandleRegister(t)
    PROVE  Accounted'
  <1>1. /\ instanceID \notin Own /\ t \in {"reg", "hb"}
        /\ \A u \in Thread \ {t} : rpc[u].op # "register"
    BY OneRegistration DEF HandleRegister, Waiting, Own
  <1>2. /\ UNCHANGED <<instanceID, stray, unanswered>>
        /\ unanswered \in Nat /\ IsFiniteSet(Own) /\ IsFiniteSet(stray)
    BY DEF HandleRegister, OnlyRpc, localVars, SessionOK, ClientOK, ClientTypeOK, Accounted
  <1>3. Held = instanceID
    BY <1>1 DEF Held, Answered, HandleRegister, Waiting, Thread
  <1>4. CASE Answer(t, "conflict", NoID) /\ UNCHANGED <<member, owner>>
    <2>1. Held' = Held
      BY <1>1, <1>2, <1>3, <1>4
      DEF Answer, Held, Answered, SessionOK, ClientOK, ClientTypeOK, Thread, Call
    <2>2. Own' = Own
      BY <1>4 DEF Own
    <2> QED
      BY <1>2, <2>1, <2>2, AccountsKept DEF Orphans, Late
  <1>5. ASSUME NEW i \in InstanceID \ KnownIDs,
               Join(i, Self, SelfRoutes), Answer(t, "created", i)
        PROVE  Accounted'
    <2>1. Held' = i
      BY <1>1, <1>5
      DEF Answer, Held, Answered, HandleRegister, Waiting, SessionOK, ClientOK, ClientTypeOK,
          Thread, Call
    <2>2. Own' \subseteq Own \cup {i}
      BY <1>5, JoinOwn
    <2>3. IsFiniteSet(Own')
      BY <1>2, <2>2, AtMostOneMore
    <2>4. Orphans' \subseteq Orphans /\ Late' = Late
      BY <1>1, <1>2, <1>3, <2>1, <2>2 DEF Orphans, Late
    <2>5. /\ IsFiniteSet(Orphans) /\ Cardinality(Orphans) \in Nat
          /\ IsFiniteSet(Late) /\ Cardinality(Late) \in Nat
      BY <1>2, FS_Subset, FS_CardinalityType DEF Orphans, Late
    <2>6. Cardinality(Orphans') \in Nat /\ Cardinality(Orphans') <= Cardinality(Orphans)
      BY <2>4, <2>5, FS_Subset, FS_CardinalityType
    <2>7. Cardinality(Orphans') + Cardinality(Late') <= unanswered'
      BY <1>2, <2>4, <2>5, <2>6 DEF Accounted
    <2> QED
      BY <1>2, <2>3, <2>7 DEF Accounted
  <1> QED
    BY <1>4, <1>5 DEF HandleRegister

\* a late registration arrives after all: one on the wire less, one orphan more
LEMMA AccountedStray ==
    ASSUME SessionOK, Accounted, NEW r \in stray, HandleStray(r)
    PROVE  Accounted'
  <1>1. /\ stray' = stray \ {r} /\ UNCHANGED <<rpc, instanceID, unanswered>>
        /\ unanswered \in Nat /\ IsFiniteSet(Own) /\ IsFiniteSet(stray) /\ IsFiniteSet(stray')
    BY FS_RemoveElement
    DEF HandleStray, localVars, SessionOK, ClientOK, ClientTypeOK, Accounted
  <1>2. Held' = Held
    BY <1>1 DEF Held, Answered
  <1>3. CASE Shrinks
    BY <1>1, <1>2, <1>3, AccountsKept DEF Shrinks, Orphans, Late
  <1>4. ASSUME NEW i \in InstanceID \ KnownIDs, r.op = "register", Join(i, Self, SelfRoutes)
        PROVE  Accounted'
    <2>1. Own' \subseteq Own \cup {i} /\ Orphans' \subseteq Orphans \cup {i}
      BY <1>2, <1>4, JoinOwn DEF Orphans
    <2>2. /\ IsFiniteSet(Orphans) /\ Cardinality(Orphans) \in Nat
          /\ IsFiniteSet(Late) /\ Cardinality(Late) \in Nat
      BY <1>1, FS_Subset, FS_CardinalityType DEF Orphans, Late
    <2>3. /\ IsFiniteSet(Own')
          /\ Cardinality(Orphans') \in Nat /\ Cardinality(Orphans') <= Cardinality(Orphans) + 1
      BY <1>1, <2>1, <2>2, AtMostOneMore
    <2>4. Late' = Late \ {r} /\ r \in Late
      BY <1>1, <1>4 DEF Late
    <2>5. Cardinality(Late') = Cardinality(Late) - 1
      BY <2>2, <2>4, FS_RemoveElement
    <2>6. Cardinality(Orphans') + Cardinality(Late') <= unanswered'
      BY <1>1, <2>2, <2>3, <2>5 DEF Accounted
    <2> QED
      BY <1>1, <2>3, <2>6 DEF Accounted
  <1> QED
    BY <1>3, <1>4, LeaveOwn, KeepOwn DEF HandleStray

LEMMA AccountedInductive ==
    ASSUME SessionOK, SessionOK', Replaced, Accounted, [SessionNext]_sessionVars
    PROVE  Accounted'
  <1>1. unanswered \in Nat /\ unanswered' \in Nat
    BY DEF SessionOK, ClientOK, ClientTypeOK
  <1>2. ASSUME Shrinks, Held' = Held, UNCHANGED <<stray, unanswered>>
        PROVE  Accounted'
    <2>1. /\ Own' \subseteq Own /\ IsFiniteSet(stray') /\ Orphans' \subseteq Orphans
          /\ Late' \subseteq Late
      BY <1>2 DEF Shrinks, Orphans, Late, Accounted
    <2> QED
      BY <1>1, <1>2, <2>1, AccountsKept
  <1>3. UNCHANGED clientVars => Held' = Held /\ UNCHANGED <<stray, unanswered>>
    BY DEF clientVars, Held, Answered
  <1>4. CASE (ClientStep \/ ClientEnvironment) /\ UNCHANGED gatewayVars
    BY <1>2, <1>4, HeldKept, AccountedFails, KeepOwn DEF gatewayVars
  <1>5. ASSUME NEW t \in Thread, HandleHeartbeat(t) \/ HandleDeregister(t)
        PROVE  Accounted'
    <2>1. Held' = Held /\ UNCHANGED <<stray, unanswered>>
      BY <1>5 DEF HandleHeartbeat, HandleDeregister, Waiting, Answer, OnlyRpc, localVars,
                  Held, Answered, SessionOK, ClientOK, ClientTypeOK, Thread, Call
    <2>2. Shrinks
      BY <1>5, LeaveOwn, KeepOwn DEF HandleHeartbeat, HandleDeregister
    <2> QED
      BY <1>2, <2>1, <2>2
  <1>6. ASSUME NEW i \in InstanceID, ExpireSilent(i) \/ ExpireLate(i)
        PROVE  Accounted'
    BY <1>2, <1>3, <1>6, LeaveOwn DEF ExpireSilent, ExpireLate
  <1>7. CASE Restart
    <2>1. Shrinks
      BY <1>7 DEF Restart, Lose, Shrinks, Own
    <2> QED
      BY <1>2, <1>3, <1>7, <2>1 DEF Restart
  <1>8. ASSUME NEW i \in InstanceID, NEW s \in Service, NEW K \in SUBSET Key,
               OtherRegisters(i, s, K)
        PROVE  Accounted'
    <2>1. s # Self /\ Join(i, s, K) /\ UNCHANGED clientVars
      BY <1>8 DEF OtherRegisters
    <2>2. Own' = Own
      BY <2>1 DEF Join, Own
    <2> QED
      BY <1>3, <2>1, <2>2 DEF Accounted, Orphans, Late
  <1>9. CASE UNCHANGED sessionVars
    BY <1>2, <1>3, <1>9, KeepOwn DEF sessionVars, gatewayVars
  <1> QED
    BY <1>4, <1>5, <1>6, <1>7, <1>8, <1>9, AccountedRegister, AccountedStray
    DEF SessionNext, Handle

LEMMA DuplicatesInvariant == SessionSpec => [](SessionOK /\ Replaced /\ Accounted)
  <1>1. SessionInit => Replaced
    BY DEF SessionInit, ClientInit, DirInit, Replaced, Thread, NoCall
  <1>2. SessionInit => Accounted
    <2> SUFFICES ASSUME SessionInit
                 PROVE  Accounted
      OBVIOUS
    <2>1. Own = {} /\ Orphans = {} /\ Late = {} /\ stray = {} /\ unanswered = 0
      BY DEF SessionInit, ClientInit, DirInit, Own, Orphans, Late
    <2> QED
      BY <2>1, FS_EmptySet DEF Accounted
  <1>3. SessionOK /\ Replaced /\ [SessionNext]_sessionVars => Replaced'
    <2>1. UNCHANGED sessionVars /\ Replaced => Replaced'
      BY DEF sessionVars, clientVars, gatewayVars, Replaced
    <2> QED
      BY <2>1, ReplacedClient, ReplacedGateway DEF SessionNext, GatewayStep
  <1> QED
    BY <1>1, <1>2, <1>3, SessionOKInit, SessionOKInductive, AccountedInductive, PTL
    DEF SessionSpec

(***************************************************************************)
(* The gateway never has more instances of the client's service than the   *)
(* one the client holds and one for each registration the client gave up,  *)
(* whatever the retries, the re-registrations of the heartbeat goroutine,  *)
(* restarts and expiries, and in whatever order the service calls          *)
(* Register, Deregister and Shutdown, one during another included.         *)
(***************************************************************************)
THEOREM NoUnexplainedDuplicate == SessionSpec => []DuplicatesExplained
  <1>1. SessionOK /\ Accounted => DuplicatesExplained
    <2> SUFFICES ASSUME SessionOK, Accounted
                 PROVE  DuplicatesExplained
      OBVIOUS
    <2>1. /\ IsFiniteSet(Orphans) /\ Cardinality(Orphans) \in Nat
          /\ IsFiniteSet(Late) /\ Cardinality(Late) \in Nat
      BY FS_Subset, FS_CardinalityType DEF Accounted, Orphans, Late
    <2>2. Own \subseteq Orphans \cup {Held}
      BY DEF Orphans
    <2>3. Cardinality(Own) \in Nat /\ Cardinality(Own) <= Cardinality(Orphans) + 1
      BY <2>1, <2>2, AtMostOneMore
    <2>4. unanswered \in Nat
      BY DEF SessionOK, ClientOK, ClientTypeOK
    <2> QED
      BY <2>1, <2>3, <2>4 DEF Accounted, DuplicatesExplained
  <1> QED
    BY <1>1, DuplicatesInvariant, PTL

-----------------------------------------------------------------------------
(***************************************************************************)
(* Shutdown.                                                               *)
(***************************************************************************)

(***************************************************************************)
(* From wg.Wait on the heartbeat goroutine is gone, so that the id         *)
(* Shutdown deregisters stays the client's last; with Shutdown the last    *)
(* call no Register runs beside it.                                        *)
(***************************************************************************)
Stopping ==
    /\ stopped <=> pc["shut"] # "idle"
    /\ pc["shut"] \in {"idle", "closing", "joining", "leaving", "nil", "timeout", "error",
                       "repeated"}
    /\ stopped => pc["reg"] = "idle"
    /\ pc["shut"] \in {"leaving", "nil", "error"} => pc["hb"] = "idle"
    /\ pc["shut"] = "leaving" =>
          /\ rpc["shut"].op = "deregister" /\ rpc["shut"].id = instanceID
          /\ rpc["shut"].code # "none" => instanceID \notin DOMAIN member
    /\ pc["shut"] = "nil" => instanceID \notin DOMAIN member

LEMMA StoppingClient ==
    ASSUME CallsInOrder, SessionOK, Stopping, ClientStep \/ ClientEnvironment,
           UNCHANGED gatewayVars
    PROVE  Stopping'
  <1> USE DEF SessionOK, ClientOK, ClientTypeOK, Control, Thread, Stopping, gatewayVars
  <1>1. ASSUME NEW t \in {"reg", "hb"}, SendRegister(t) \/ RetryRegister(t)
        PROVE  Stopping'
    BY <1>1 DEF SendRegister, RetryRegister, Goto, Open, Request, localVars
  <1>2. ASSUME NEW t \in {"reg", "hb"}, RegisterCreated(t)
        PROVE  Stopping'
    BY <1>2 DEF RegisterCreated, Answered, Goto, Close, NoCall
  <1>3. ASSUME NEW t \in {"reg", "hb"}, RegisterConflict(t) \/ AbandonRegister(t)
        PROVE  Stopping'
    BY <1>3 DEF RegisterConflict, AbandonRegister, Answered, AfterRegister, Goto, Close,
                NoCall, localVars
  <1>4. CASE StartHeartbeat
    BY <1>4 DEF StartHeartbeat
  <1>5. CASE SendHeartbeat
    BY <1>5 DEF SendHeartbeat, Goto, Open, Request, localVars
  <1>6. CASE HeartbeatOK \/ HeartbeatNotFound \/ HeartbeatExit
    BY <1>6 DEF HeartbeatOK, HeartbeatNotFound, HeartbeatExit, Answered, Goto, Close, NoCall,
                localVars
  <1>7. ASSUME NEW t \in {"dereg", "shut"}, Deregistered(t)
        PROVE  Stopping'
    BY <1>7 DEF Deregistered, Answered, Goto, Close, localVars
  <1>8. CASE ShutdownClose \/ ShutdownTimeout \/ ShutdownAgain \/ ShutdownCall
    BY <1>8 DEF ShutdownClose, ShutdownTimeout, ShutdownAgain, ShutdownCall, Goto, localVars
  <1>9. CASE ShutdownJoin
    <2>1. NoID \notin DOMAIN member
      BY NoIDAssumption DEF DirectoryTyped
    <2> QED
      BY <1>9, <2>1 DEF ShutdownJoin, Deregister, Goto, Open, Request, localVars
  <1>10. CASE DeregisterCall
    BY <1>10 DEF DeregisterCall, Deregister, Goto, Open, Request, localVars
  <1>11. CASE RegisterCall
    BY <1>11 DEF RegisterCall, Goto, localVars
  <1>12. ASSUME NEW t \in Thread, CallFails(t)
         PROVE  Stopping'
    <2>1. /\ pc' = [pc EXCEPT ![t] = AfterError(t)]
          /\ rpc' = [rpc EXCEPT ![t] = NoCall]
          /\ UNCHANGED <<instanceID, stopped, member>>
          /\ rpc[t].op # "none"
      BY <1>12 DEF CallFails, Goto, Close
    <2>2. /\ t = "shut" => AfterError(t) = "error" /\ pc[t] = "leaving"
          /\ t \in {"reg", "hb"} => pc[t] \notin {"idle"}
      BY <2>1 DEF AfterError, Call, Op
    <2> QED
      BY <2>1, <2>2 DEF NoCall
  <1> QED
    BY <1>1, <1>2, <1>3, <1>4, <1>5, <1>6, <1>7, <1>8, <1>9, <1>10, <1>11, <1>12
    DEF ClientStep, ClientEnvironment

LEMMA StoppingGateway ==
    ASSUME SessionOK, Stopping, GatewayStep
    PROVE  Stopping'
  <1>1. /\ UNCHANGED <<pc, instanceID, stopped>>
        /\ instanceID \in DOMAIN member' => instanceID \in DOMAIN member
    BY NothingRevived DEF localVars, KnownIDs
  <1>2. CASE UNCHANGED rpc
    BY <1>1, <1>2 DEF Stopping
  <1>3. ASSUME NEW t \in Thread, HandleRegister(t) \/ HandleHeartbeat(t)
        PROVE  Stopping'
    <2>1. t # "shut" /\ rpc'["shut"] = rpc["shut"]
      BY <1>3 DEF HandleRegister, HandleHeartbeat, Waiting, Answer, SessionOK, ClientOK,
                  Control, ClientTypeOK, Thread
    <2> QED
      BY <1>1, <2>1 DEF Stopping
  <1>4. ASSUME NEW t \in Thread, HandleDeregister(t)
        PROVE  Stopping'
    <2>1. rpc[t].id \notin DOMAIN member'
      BY <1>4, LeaveOwn DEF HandleDeregister
    <2>2. /\ rpc'[t].op = rpc[t].op /\ rpc'[t].id = rpc[t].id
          /\ t # "shut" => rpc'["shut"] = rpc["shut"]
      BY <1>4 DEF HandleDeregister, Answer, SessionOK, ClientOK, ClientTypeOK, Thread, Call
    <2> QED
      BY <1>1, <2>1, <2>2 DEF Stopping
  <1> QED
    BY <1>2, <1>3, <1>4
    DEF GatewayStep, Handle, HandleStray, ExpireSilent, ExpireLate, Restart, OtherRegisters,
        clientVars

(***************************************************************************)
(* When Shutdown returned nil and is the last call of the service, the     *)
(* heartbeat goroutine is gone without an open call, and the last id the   *)
(* client knew is not in the registry: no heartbeat, re-registration or    *)
(* late request of the client brings it back.                              *)
(***************************************************************************)
THEOREM ShutdownIsQuiet ==
    ASSUME CallsInOrder
    PROVE  SessionSpec => []ShutdownQuiet
  <1>1. SessionInit => Stopping
    BY DEF SessionInit, ClientInit, DirInit, Stopping, Thread
  <1>2. SessionOK /\ Stopping /\ [SessionNext]_sessionVars => Stopping'
    <2>1. UNCHANGED sessionVars /\ Stopping => Stopping'
      BY DEF sessionVars, clientVars, gatewayVars, Stopping
    <2> QED
      BY <2>1, StoppingClient, StoppingGateway DEF SessionNext, GatewayStep
  <1>3. SessionOK /\ Stopping => ShutdownQuiet
    BY DEF SessionOK, ClientOK, ClientTypeOK, Control, Thread, Call, Op, Stopping,
           ShutdownQuiet
  <1> QED
    BY <1>1, <1>2, <1>3, SessionInvariant, PTL DEF SessionSpec

=============================================================================
