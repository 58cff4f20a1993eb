---------------------------- MODULE RateLimiter -----------------------------
(***************************************************************************)
(* The rate limiter (internal/infrastructure/ratelimit) behind the         *)
(* middleware that every request passes, for one key: one client address   *)
(* or user.  NewServer chooses the sorted set in Redis or the map in       *)
(* memory.                                                                 *)
(*                                                                         *)
(* A call of Allow is the sequence of its accesses to shared data: the     *)
(* commands of a Redis pipeline, which is no transaction, or the read and  *)
(* the write of the map, which no lock protects.  Other requests come in   *)
(* between.                                                                *)
(*                                                                         *)
(* Requests are numbered in the order in which they read the clock.  The   *)
(* clock is in nanoseconds, so no two of them read the same time.          *)
(***************************************************************************)
EXTENDS Integers, FiniteSets, FiniteSetsExt

CONSTANTS
    Limit,         \* requests per window
    Window,        \* l.window
    Second,        \* what EXPIRE adds to it
    MaxDelay,      \* time a call may take: the timeouts of the Redis client
    MaxInFlight,   \* requests handled at once
    MaxRetries,    \* how often the Redis client repeats what it sent, at most
    MaxRequests,   \* bound on the requests
    MaxResends,    \* bound on the repetitions of all requests
    MaxFailures,   \* bound on the requests for which Redis fails
    LastStart,     \* bound on the time they start
    MaxClock       \* bound on the time

ASSUME LimiterAssumption ==
    /\ Limit \in Nat \ {0}
    /\ Window \in Nat \ {0}
    /\ Second \in Nat \ {0}
    /\ MaxDelay \in Nat /\ MaxDelay < Window
    /\ MaxInFlight \in Nat \ {0}
    /\ MaxRetries \in Nat
    /\ MaxRequests \in Nat
    /\ MaxResends \in Nat
    /\ MaxFailures \in Nat
    /\ LastStart \in Nat
    /\ MaxClock \in Nat \ {0}

VARIABLES
    backend,    \* "redis" or "memory"
    clock,      \* time.Now()
    pc,         \* where each request is
    now,        \* the time each request read
    count,      \* what ZCARD answered each request
    valid,      \* validTimestamps of each request
    retries,    \* repetitions of the command that each request waits for
    resent,     \* requests whose commands have been repeated (history)
    resends,    \* repetitions of all requests (history)
    forgotten,  \* calls whose key expired between ZADD and EXPIRE (history)
    entries,    \* Redis: the scores in the sorted set; {}: there is no key
    deadline,   \* Redis: when the key expires; 0: it does not
    requests,   \* memory: l.requests[key]
    alive       \* the gateway process runs

historyVars == <<resent, resends, forgotten>>
callVars == <<pc, now, count, valid, retries, historyVars>>
redisVars == <<entries, deadline>>
limiterVars == <<backend, clock, callVars, redisVars, requests, alive>>

-----------------------------------------------------------------------------

Request == 1 .. MaxRequests

Done == {"allowed", "refused", "open"}
Label == {"idle", "trim", "count", "add", "expire", "answer", "pop", "read", "write"} \cup Done

LimiterTypeOK ==
    /\ backend \in {"redis", "memory"}
    /\ clock \in 0 .. MaxClock
    /\ pc \in [Request -> Label]
    /\ now \in [Request -> 0 .. LastStart]
    /\ count \in [Request -> 0 .. MaxRequests]
    /\ valid \in [Request -> SUBSET (0 .. LastStart)]
    /\ retries \in [Request -> 0 .. MaxRetries]
    /\ resent \subseteq Request
    /\ resends \in 0 .. MaxResends
    /\ forgotten \subseteq Request
    /\ entries \subseteq 0 .. LastStart
    /\ deadline \in 0 .. clock + Window + Second
    /\ entries = {} => deadline = 0
    /\ requests \subseteq 0 .. LastStart
    /\ alive \in BOOLEAN

LimiterInit ==
    /\ backend \in {"redis", "memory"}
    /\ clock = 1
    /\ pc = [r \in Request |-> "idle"]
    /\ now = [r \in Request |-> 0]
    /\ count = [r \in Request |-> 0]
    /\ valid = [r \in Request |-> {}]
    /\ retries = [r \in Request |-> 0]
    /\ resent = {}
    /\ resends = 0
    /\ forgotten = {}
    /\ entries = {}
    /\ deadline = 0
    /\ requests = {}
    /\ alive = TRUE

-----------------------------------------------------------------------------

InFlight == {r \in Request : pc[r] \notin Done \cup {"idle"}}

Goto(r, from, to) ==
    /\ alive
    /\ pc[r] = from
    /\ pc' = [pc EXCEPT ![r] = to]

\* the middleware calls Allow, which reads the clock
Start(r) ==
    /\ clock <= LastStart
    /\ Cardinality(InFlight) < MaxInFlight
    /\ \A s \in 1 .. r - 1 : pc[s] # "idle" /\ now[s] < clock
    /\ Goto(r, "idle", IF backend = "redis" THEN "trim" ELSE "read")
    /\ now' = [now EXCEPT ![r] = clock]
    /\ UNCHANGED <<backend, clock, count, valid, retries, historyVars, redisVars, requests,
                   alive>>

\* variant that must fail: a window more is kept
RecentTwice(times, r) == {t \in times : t > now[r] - 2 * Window}

\* the times inside the window of r: those after windowStart
Recent(times, r) == {t \in times : t > now[r] - Window}

\* an emptied sorted set is no key any more, and has no expiry
SetEntries(times) ==
    /\ entries' = times
    /\ deadline' = IF times = {} THEN 0 ELSE deadline

-----------------------------------------------------------------------------
(***************************************************************************)
(* Limiter.Allow: the commands of the pipeline, and ZPOPMIN.               *)
(***************************************************************************)

ZRemRangeByScore(r) ==
    /\ Goto(r, "trim", "count")
    /\ SetEntries(Recent(entries, r))
    /\ UNCHANGED <<backend, clock, now, count, valid, retries, historyVars, requests, alive>>

ZCard(r) ==
    /\ Goto(r, "count", "add")
    /\ count' = [count EXCEPT ![r] = Cardinality(entries)]
    /\ UNCHANGED <<backend, clock, now, valid, retries, historyVars, redisVars, requests,
                   alive>>

ZAdd(r) ==
    /\ Goto(r, "add", "expire")
    /\ SetEntries(entries \cup {now[r]})
    /\ UNCHANGED <<backend, clock, now, count, valid, retries, historyVars, requests, alive>>

\* variants that must fail: no expiry, one that is too short or too long
NoExpire(r) ==
    /\ Goto(r, "expire", "answer")
    /\ UNCHANGED <<backend, clock, now, count, valid, retries, historyVars, redisVars,
                   requests, alive>>

ExpireEarly(r) ==
    /\ Goto(r, "expire", "answer")
    /\ deadline' = IF entries = {} THEN 0 ELSE clock + Second
    /\ UNCHANGED <<backend, clock, now, count, valid, retries, historyVars, entries, requests,
                   alive>>

ExpireLate(r) ==
    /\ Goto(r, "expire", "answer")
    /\ deadline' = IF entries = {} THEN 0 ELSE clock + 2 * Window + Second
    /\ UNCHANGED <<backend, clock, now, count, valid, retries, historyVars, entries, requests,
                   alive>>

Expire(r) ==
    /\ Goto(r, "expire", "answer")
    /\ deadline' = IF entries = {} THEN 0 ELSE clock + Window + Second
    /\ UNCHANGED <<backend, clock, now, count, valid, retries, historyVars, entries, requests,
                   alive>>

\* Exec returns: what Allow makes of the answer to ZCARD
Decide(r) ==
    /\ Goto(r, "answer", IF count[r] < Limit THEN "allowed" ELSE "pop")
    /\ count' = [count EXCEPT ![r] = 0]
    /\ retries' = [retries EXCEPT ![r] = 0]
    /\ UNCHANGED <<backend, clock, now, valid, historyVars, redisVars, requests, alive>>

\* ZPOPMIN has an effect if there is a key
PopMin == entries # {} /\ SetEntries(entries \ {Min(entries)})

(***************************************************************************)
(* A refused request, which has been added nevertheless, removes the       *)
(* oldest entry.  Whether ZPOPMIN succeeds is not looked at.               *)
(***************************************************************************)
ZPopMin(r) ==
    /\ Goto(r, "pop", "refused")
    /\ PopMin \/ UNCHANGED redisVars
    /\ retries' = [retries EXCEPT ![r] = 0]
    /\ UNCHANGED <<backend, clock, now, count, valid, historyVars, requests, alive>>

(***************************************************************************)
(* The connection breaks or an answer is late: the Redis client sends the  *)
(* pipeline or ZPOPMIN again, up to MaxRetries times each, although what   *)
(* it sent before has been executed.                                       *)
(***************************************************************************)
Resend(r) ==
    /\ retries[r] < MaxRetries
    /\ resends < MaxResends
    /\ retries' = [retries EXCEPT ![r] = @ + 1]
    /\ resent' = resent \cup {r}
    /\ resends' = resends + 1
    /\ \/ /\ \E from \in {"count", "add", "expire", "answer"} : Goto(r, from, "trim")
          /\ count' = [count EXCEPT ![r] = 0]
          /\ UNCHANGED redisVars
       \/ Goto(r, "pop", "pop") /\ PopMin /\ UNCHANGED count
    /\ UNCHANGED <<backend, clock, now, valid, forgotten, requests, alive>>

(***************************************************************************)
(* Redis fails, or is closed: Exec returns an error, and the middleware    *)
(* lets the request through.  The commands sent before have been executed. *)
(***************************************************************************)
PipelineFails(r) ==
    /\ Cardinality({s \in Request : pc[s] = "open"}) < MaxFailures
    /\ \E from \in {"trim", "count", "add", "expire", "answer"} : Goto(r, from, "open")
    /\ count' = [count EXCEPT ![r] = 0]
    /\ retries' = [retries EXCEPT ![r] = 0]
    /\ UNCHANGED <<backend, clock, now, valid, historyVars, redisVars, requests, alive>>

-----------------------------------------------------------------------------
(***************************************************************************)
(* InMemoryLimiter.Allow.                                                  *)
(***************************************************************************)

MapRead(r) ==
    /\ Goto(r, "read", "write")
    /\ valid' = [valid EXCEPT ![r] = Recent(requests, r)]
    /\ UNCHANGED <<backend, clock, now, count, retries, historyVars, redisVars, requests, alive>>

MapWrite(r) ==
    /\ IF Cardinality(valid[r]) < Limit
       THEN Goto(r, "write", "allowed") /\ requests' = valid[r] \cup {now[r]}
       ELSE Goto(r, "write", "refused") /\ requests' = valid[r]
    /\ valid' = [valid EXCEPT ![r] = {}]
    /\ UNCHANGED <<backend, clock, now, count, retries, historyVars, redisVars, alive>>

(***************************************************************************)
(* Two goroutines access the map at once, and one of them writes: the Go   *)
(* runtime ends the process ("fatal error: concurrent map writes"), which  *)
(* no recover stops.  If it does not notice, the accesses take effect one  *)
(* after the other, as above.                                              *)
(***************************************************************************)
MapFault(r, s) ==
    /\ alive
    /\ r # s
    /\ pc[r] = "write" /\ pc[s] \in {"read", "write"}
    /\ alive' = FALSE
    /\ UNCHANGED <<backend, clock, callVars, redisVars, requests>>

-----------------------------------------------------------------------------

\* time passes, no call takes longer than MaxDelay, and Redis drops the key
Tick ==
    /\ alive
    /\ clock < MaxClock
    /\ \A r \in InFlight : clock - now[r] < MaxDelay
    /\ clock' = clock + 1
    /\ IF deadline # 0 /\ deadline <= clock + 1
       THEN /\ SetEntries({})
            /\ forgotten' = forgotten \cup {r \in Request : pc[r] = "expire"}
       ELSE UNCHANGED <<redisVars, forgotten>>
    /\ UNCHANGED <<backend, pc, now, count, valid, retries, resent, resends, requests, alive>>

Step(r) ==
    \/ ZRemRangeByScore(r) \/ ZCard(r) \/ ZAdd(r) \/ Expire(r)
    \/ Decide(r) \/ ZPopMin(r)
    \/ MapRead(r) \/ MapWrite(r)

LimiterNext ==
    \/ \E r \in Request : Start(r) \/ Step(r) \/ Resend(r) \/ PipelineFails(r)
    \/ \E r, s \in Request : MapFault(r, s)
    \/ Tick

LimiterSpec == LimiterInit /\ [][LimiterNext]_limiterVars

(***************************************************************************)
(* Time passes, and a call that has been made goes on.                     *)
(***************************************************************************)
FairLimiter ==
    /\ LimiterSpec
    /\ WF_limiterVars(Tick)
    /\ \A r \in Request : WF_limiterVars(Step(r))

-----------------------------------------------------------------------------

Allowed == {r \in Request : pc[r] = "allowed"}

(***************************************************************************)
(* With Redis the limit is exceeded only by requests that were handled at  *)
(* the same time: the window that ends with an allowed request has at most *)
(* as many too many as can be in flight beside it, although the commands   *)
(* of different pipelines interleave and refused requests take away the    *)
(* entries of allowed ones.  The window is shorter by MaxDelay than the    *)
(* limiter's: a slow request counts what a younger one has already trimmed *)
(* for its own, later window.  Every repetition of a pipeline or of        *)
(* ZPOPMIN costs one more, up to MaxRetries for each of the two, and so    *)
(* does a call whose key expires between its ZADD and its EXPIRE: the      *)
(* limiter forgets it.  Requests let through because Redis failed are not  *)
(* counted.                                                                *)
(***************************************************************************)
AdmittedBounded ==
    backend = "redis" =>
        \A r \in Allowed :
            Cardinality({s \in Allowed :
                           now[s] \in now[r] - Window + MaxDelay + 1 .. now[r]})
                <= Limit + MaxInFlight - 1 + resends + Cardinality(forgotten)

(***************************************************************************)
(* Nobody is refused without reason: as many other requests as the limit   *)
(* allows came less than a window before.  With the map they have all been *)
(* allowed, even if updates got lost; with Redis, refused ones and ones    *)
(* that were let through count too, and a request that was sent again      *)
(* counts itself.                                                          *)
(***************************************************************************)
RefusalJustified ==
    \A r \in Request :
        pc[r] \in {"pop", "refused"} =>
            Cardinality({s \in Request :
                           /\ s = r => r \in resent
                           /\ pc[s] # "idle"
                           /\ now[s] > now[r] - Window
                           /\ backend = "memory" => pc[s] = "allowed"}) >= Limit

(***************************************************************************)
(* Redis gets its memory back: unless a pipeline broke, a key that nobody  *)
(* uses any more goes away.                                                *)
(***************************************************************************)
KeyReclaimed == [](\A r \in Request : pc[r] # "open") => <>[](entries = {})

=============================================================================
