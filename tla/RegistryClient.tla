--------------------------- MODULE RegistryClient ---------------------------
(***************************************************************************)
(* The registry client a service links in (pkg/client): Register with      *)
(* retries, the heartbeat goroutine that registers again when the gateway  *)
(* forgot the instance, Deregister and Shutdown.                           *)
(*                                                                         *)
(* The client has up to four threads: the callers of Register ("reg"),     *)
(* Shutdown ("shut") and Deregister ("dereg"), and the heartbeat goroutine *)
(* ("hb").  Each has at most one HTTP call open, in rpc; the gateway's end *)
(* of the calls is in ClientGateway.  A call the client gives up may still *)
(* be on its way: it moves to stray.                                       *)
(***************************************************************************)
EXTENDS Integers, FiniteSets

CONSTANTS InstanceID, NoID,     \* NoID is the empty instance id
          MaxRetries,           \* maxRetries of retryWithBackoff
          MaxLoss,              \* bound on the calls that fail in the network
          Calls,                \* methods the service calls
          CallsInOrder          \* one call after another, Shutdown last

ASSUME NoIDAssumption == NoID \notin InstanceID
ASSUME ClientAssumption ==
    /\ MaxRetries \in Nat
    /\ MaxLoss \in Nat
    /\ Calls \subseteq {"Register", "Deregister", "Shutdown"}
    /\ CallsInOrder \in BOOLEAN

VARIABLES
    registered,   \* c.registered
    instanceID,   \* c.instanceID
    stopped,      \* c.stopped
    stopCh,       \* stopCh is closed
    stopCancel,   \* "unset", "set", or "called": the heartbeat's context
    pc,           \* where each thread is
    attempt,      \* retryWithBackoff: attempts that failed
    rpc,          \* the open HTTP call of each thread
    stray,        \* requests in flight whose caller gave up
    losses,       \* calls that failed in the network so far
    unanswered    \* register calls given up so far (history)

localVars == <<registered, instanceID, stopped, stopCh, stopCancel>>
clientVars == <<registered, instanceID, stopped, stopCh, stopCancel, pc, attempt,
                rpc, stray, losses, unanswered>>

Thread == {"reg", "hb", "dereg", "shut"}
Op == {"none", "register", "heartbeat", "deregister"}
Code == {"none", "created", "conflict", "ok", "notfound"}

\* an HTTP call: answered once code is not "none"
Call == [op : Op, id : InstanceID \cup {NoID}, code : Code]
NoCall == [op |-> "none", id |-> NoID, code |-> "none"]
Request(op, id) == [op |-> op, id |-> id, code |-> "none"]

ClientTypeOK ==
    /\ registered \in BOOLEAN
    /\ instanceID \in InstanceID \cup {NoID}
    /\ stopped \in BOOLEAN
    /\ stopCh \in BOOLEAN
    /\ stopCancel \in {"unset", "set", "called"}
    /\ pc \in [Thread -> {"idle", "send", "wait", "backoff", "start", "select", "beat",
                          "closing", "joining", "leaving", "nil", "timeout", "error",
                          "repeated"}]
    /\ attempt \in [Thread -> 0 .. MaxRetries]
    /\ rpc \in [Thread -> Call]
    /\ stray \subseteq Call
    /\ losses \in 0 .. MaxLoss
    /\ unanswered \in Nat

ClientInit ==
    /\ registered = FALSE
    /\ instanceID = NoID
    /\ stopped = FALSE
    /\ stopCh = FALSE
    /\ stopCancel = "unset"
    /\ pc = [t \in Thread |-> "idle"]
    /\ attempt = [t \in Thread |-> 0]
    /\ rpc = [t \in Thread |-> NoCall]
    /\ stray = {}
    /\ losses = 0
    /\ unanswered = 0

-----------------------------------------------------------------------------
(***************************************************************************)
(* HTTP calls, as the threads see them.                                    *)
(***************************************************************************)

Goto(t, label) == pc' = [pc EXCEPT ![t] = label]
Open(t, op, id) == rpc' = [rpc EXCEPT ![t] = Request(op, id)]
Close(t) == rpc' = [rpc EXCEPT ![t] = NoCall]

Answered(t, op, code) == rpc[t].op = op /\ rpc[t].code = code

\* the heartbeat goroutine's context is cancelled: its calls fail at once
Cancelled(t) == t = "hb" /\ stopCancel = "called"

\* where a registration ends that is not tried again
AfterRegister(t) == IF t = "hb" THEN "select" ELSE "idle"

\* variant that must fail: attempt <= maxRetries, one retry too many
RetryOnceMore(t) ==
    IF rpc[t].op = "register" THEN "backoff"
    ELSE IF rpc[t].op = "heartbeat" THEN "select" ELSE "error"

(***************************************************************************)
(* What a thread does when its call returned an error other than a         *)
(* collision: retryWithBackoff tries a registration again MaxRetries       *)
(* times, unless the context is done; a heartbeat waits for the next tick; *)
(* Deregister and Shutdown return the error.                               *)
(***************************************************************************)
AfterError(t) ==
    CASE rpc[t].op = "register" /\ attempt[t] < MaxRetries -> "backoff"
      [] rpc[t].op = "register" /\ attempt[t] = MaxRetries -> AfterRegister(t)
      [] rpc[t].op = "heartbeat" -> "select"
      [] rpc[t].op = "deregister" -> "error"

(***************************************************************************)
(* The call of t fails: the request or its answer is lost or too slow, the *)
(* gateway is down or answers 401 or 5xx, or the context is cancelled.     *)
(* What the client cannot know: whether the gateway got the request, or is *)
(* still going to.                                                         *)
(***************************************************************************)
CallFails(t) ==
    /\ rpc[t].op # "none"
    /\ \/ Cancelled(t) /\ losses' = losses
       \/ losses < MaxLoss /\ losses' = losses + 1
    /\ Goto(t, AfterError(t))
    /\ \/ rpc[t].code = "none" /\ stray' = stray \cup {rpc[t]}
       \/ stray' = stray
    /\ unanswered' = IF rpc[t].op = "register" THEN unanswered + 1 ELSE unanswered
    /\ Close(t)
    /\ UNCHANGED <<registered, instanceID, stopped, stopCh, stopCancel, attempt>>

-----------------------------------------------------------------------------
(***************************************************************************)
(* Register and reregister.                                                *)
(***************************************************************************)

\* variant that must fail: registered is not looked at
RegisterCallAgain ==
    /\ "Register" \in Calls
    /\ pc["reg"] = "idle"
    /\ CallsInOrder => pc["dereg"] # "leaving" /\ ~ stopped
    /\ Goto("reg", "send")
    /\ attempt' = [attempt EXCEPT !["reg"] = 0]
    /\ UNCHANGED <<localVars, rpc, stray, losses, unanswered>>

\* Register is called; "already registered, call Shutdown first" otherwise
RegisterCall ==
    /\ "Register" \in Calls
    /\ pc["reg"] = "idle"
    /\ CallsInOrder => pc["dereg"] # "leaving" /\ ~ stopped
    /\ ~ registered
    /\ Goto("reg", "send")
    /\ attempt' = [attempt EXCEPT !["reg"] = 0]
    /\ UNCHANGED <<localVars, rpc, stray, losses, unanswered>>

\* doRegister sends the request; with a cancelled context nothing is sent
SendRegister(t) ==
    /\ pc[t] = "send"
    /\ IF Cancelled(t) THEN Goto(t, "select") /\ rpc' = rpc
                       ELSE Goto(t, "wait") /\ Open(t, "register", NoID)
    /\ UNCHANGED <<localVars, attempt, stray, losses, unanswered>>

\* 201: the new instance id is stored; Register goes on to startHeartbeat
RegisterCreated(t) ==
    /\ Answered(t, "register", "created")
    /\ instanceID' = rpc[t].id
    /\ registered' = (registered \/ t = "reg")
    /\ Goto(t, IF t = "reg" THEN "start" ELSE "select")
    /\ Close(t)
    /\ UNCHANGED <<stopped, stopCh, stopCancel, attempt, stray, losses, unanswered>>

\* 409: a CollisionError is not retried
RegisterConflict(t) ==
    /\ Answered(t, "register", "conflict")
    /\ Goto(t, AfterRegister(t))
    /\ Close(t)
    /\ UNCHANGED <<localVars, attempt, stray, losses, unanswered>>

\* the backoff is over, and the context is not done
RetryRegister(t) ==
    /\ pc[t] = "backoff"
    /\ ~ Cancelled(t)
    /\ attempt' = [attempt EXCEPT ![t] = @ + 1]
    /\ Goto(t, "send")
    /\ UNCHANGED <<localVars, rpc, stray, losses, unanswered>>

\* the context is done during the backoff; only Shutdown cancels the hb's
AbandonRegister(t) ==
    /\ pc[t] = "backoff"
    /\ t = "hb" => Cancelled(t)
    /\ Goto(t, AfterRegister(t))
    /\ UNCHANGED <<localVars, attempt, rpc, stray, losses, unanswered>>

\* startHeartbeat: a context, one more goroutine to wait for
StartHeartbeat ==
    /\ pc["reg"] = "start"
    /\ stopCancel' = "set"
    /\ pc' = [pc EXCEPT !["reg"] = "idle", !["hb"] = "select"]
    /\ UNCHANGED <<registered, instanceID, stopped, stopCh, attempt, rpc, stray,
                   losses, unanswered>>

-----------------------------------------------------------------------------
(***************************************************************************)
(* The heartbeat goroutine.  When the ticker fired and stopCh is closed    *)
(* too, select takes either.                                               *)
(***************************************************************************)

\* the ticker fires: sendHeartbeat
SendHeartbeat ==
    /\ pc["hb"] = "select"
    /\ ~ Cancelled("hb")
    /\ Goto("hb", "beat")
    /\ Open("hb", "heartbeat", instanceID)
    /\ UNCHANGED <<localVars, attempt, stray, losses, unanswered>>

HeartbeatOK ==
    /\ Answered("hb", "heartbeat", "ok")
    /\ Goto("hb", "select")
    /\ Close("hb")
    /\ UNCHANGED <<localVars, attempt, stray, losses, unanswered>>

\* variant that must fail: 404 is an error like any other
HeartbeatNotFoundIgnored ==
    /\ Answered("hb", "heartbeat", "notfound")
    /\ Goto("hb", "select")
    /\ Close("hb")
    /\ UNCHANGED <<localVars, attempt, stray, losses, unanswered>>

\* 404 is ErrInstanceNotFound: reregister
HeartbeatNotFound ==
    /\ Answered("hb", "heartbeat", "notfound")
    /\ Goto("hb", "send")
    /\ attempt' = [attempt EXCEPT !["hb"] = 0]
    /\ Close("hb")
    /\ UNCHANGED <<localVars, stray, losses, unanswered>>

\* select takes stopCh: the goroutine returns and calls wg.Done
HeartbeatExit ==
    /\ pc["hb"] = "select"
    /\ stopCh
    /\ Goto("hb", "idle")
    /\ UNCHANGED <<localVars, attempt, rpc, stray, losses, unanswered>>

-----------------------------------------------------------------------------
(***************************************************************************)
(* Deregister, on its own and as the end of Shutdown.                      *)
(***************************************************************************)

\* Deregister reads the id, and returns nil when there is none
Deregister(t) ==
    IF instanceID = NoID
    THEN Goto(t, "nil") /\ rpc' = rpc
    ELSE Goto(t, "leaving") /\ Open(t, "deregister", instanceID)

DeregisterCall ==
    /\ "Deregister" \in Calls
    /\ pc["dereg"] # "leaving"
    /\ CallsInOrder => registered /\ pc["reg"] = "idle" /\ ~ stopped
    /\ Deregister("dereg")
    /\ UNCHANGED <<localVars, attempt, stray, losses, unanswered>>

\* 200, or 404: the instance is gone
Deregistered(t) ==
    /\ Answered(t, "deregister", "ok") \/ Answered(t, "deregister", "notfound")
    /\ Goto(t, "nil")
    /\ Close(t)
    /\ UNCHANGED <<localVars, attempt, stray, losses, unanswered>>

-----------------------------------------------------------------------------
(***************************************************************************)
(* Shutdown.                                                               *)
(***************************************************************************)

ShutdownCall ==
    /\ "Shutdown" \in Calls
    /\ pc["shut"] = "idle"
    /\ CallsInOrder => pc["reg"] = "idle" /\ pc["dereg"] # "leaving"
    /\ stopped' = TRUE
    /\ Goto("shut", "closing")
    /\ UNCHANGED <<registered, instanceID, stopCh, stopCancel, attempt, rpc, stray,
                   losses, unanswered>>

\* variant that must fail: the context is cancelled, stopCh stays open
ShutdownCancelOnly ==
    /\ pc["shut"] = "closing"
    /\ stopCancel' = IF stopCancel = "set" THEN "called" ELSE stopCancel
    /\ Goto("shut", "joining")
    /\ UNCHANGED <<registered, instanceID, stopped, stopCh, attempt, rpc, stray, losses,
                   unanswered>>

\* close(stopCh); the heartbeat's context is cancelled if it has one
ShutdownClose ==
    /\ pc["shut"] = "closing"
    /\ stopCh' = TRUE
    /\ stopCancel' = IF stopCancel = "set" THEN "called" ELSE stopCancel
    /\ Goto("shut", "joining")
    /\ UNCHANGED <<registered, instanceID, stopped, attempt, rpc, stray, losses, unanswered>>

\* variant that must fail: no wg.Wait
ShutdownNoJoin ==
    /\ pc["shut"] = "joining"
    /\ Deregister("shut")
    /\ UNCHANGED <<localVars, attempt, stray, losses, unanswered>>

\* wg.Wait returned: the goroutine is gone, or never ran
ShutdownJoin ==
    /\ pc["shut"] = "joining"
    /\ pc["hb"] = "idle"
    /\ Deregister("shut")
    /\ UNCHANGED <<localVars, attempt, stray, losses, unanswered>>

\* the caller's context is done first: an error, and no deregistration
ShutdownTimeout ==
    /\ pc["shut"] = "joining"
    /\ Goto("shut", "timeout")
    /\ UNCHANGED <<localVars, attempt, rpc, stray, losses, unanswered>>

\* Shutdown is called again after it failed: stopped is set, it returns nil
ShutdownAgain ==
    /\ pc["shut"] \in {"timeout", "error"}
    /\ Goto("shut", "repeated")
    /\ UNCHANGED <<localVars, attempt, rpc, stray, losses, unanswered>>

-----------------------------------------------------------------------------

\* the steps the client takes by itself
ClientStep ==
    \/ \E t \in {"reg", "hb"} : SendRegister(t) \/ RetryRegister(t)
    \/ \E t \in {"reg", "hb"} : RegisterCreated(t) \/ RegisterConflict(t)
    \/ \E t \in {"reg", "hb"} : AbandonRegister(t)
    \/ StartHeartbeat
    \/ SendHeartbeat
    \/ HeartbeatOK
    \/ HeartbeatNotFound
    \/ HeartbeatExit
    \/ \E t \in {"dereg", "shut"} : Deregistered(t)
    \/ ShutdownClose
    \/ ShutdownJoin

\* the steps the service, its contexts or the network cause
ClientEnvironment ==
    \/ RegisterCall
    \/ DeregisterCall
    \/ ShutdownCall
    \/ ShutdownTimeout
    \/ ShutdownAgain
    \/ \E t \in Thread : CallFails(t)

=============================================================================
