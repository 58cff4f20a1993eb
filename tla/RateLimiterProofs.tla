------------------------ MODULE RateLimiterProofs ---------------------------
(***************************************************************************)
(* Proofs about RateLimiter, for every limit, window, number of requests   *)
(* and of requests in flight, and every delay shorter than the window.     *)
(***************************************************************************)
EXTENDS RateLimiter, FiniteSetTheorems, NaturalsInduction, TLAPS

USE DEF historyVars

-----------------------------------------------------------------------------
(***************************************************************************)
(* Finite sets.                                                            *)
(***************************************************************************)

LEMMA RequestsFinite ==
    /\ Request \subseteq Nat
    /\ IsFiniteSet(Request) /\ Cardinality(Request) = MaxRequests
    /\ \A S \in SUBSET Request : /\ IsFiniteSet(S) /\ Cardinality(S) \in Nat
                                 /\ Cardinality(S) <= MaxRequests
  <1>1. IsFiniteSet(Request) /\ Cardinality(Request) = MaxRequests /\ Request \subseteq Nat
    BY FS_Interval, LimiterAssumption DEF Request
  <1>2. ASSUME NEW S \in SUBSET Request
        PROVE  IsFiniteSet(S) /\ Cardinality(S) \in Nat /\ Cardinality(S) <= MaxRequests
    BY <1>1, FS_Subset, FS_CardinalityType
  <1> QED
    BY <1>1, <1>2

LEMMA TimesFinite ==
    \A S \in SUBSET (0 .. LastStart) : IsFiniteSet(S) /\ Cardinality(S) \in Nat
  <1>1. IsFiniteSet(0 .. LastStart)
    BY FS_Interval, LimiterAssumption
  <1> QED
    BY <1>1, FS_Subset, FS_CardinalityType

\* as many times as requests that read them, or fewer
LEMMA Stamps ==
    ASSUME NEW S, IsFiniteSet(S), NEW f, NEW T, \A t \in T : \E s \in S : f[s] = t
    PROVE  /\ IsFiniteSet(T)
           /\ Cardinality(T) \in Nat /\ Cardinality(S) \in Nat
           /\ Cardinality(T) <= Cardinality(S)
  <1> DEFINE g == [t \in T |-> CHOOSE s \in S : f[s] = t]
  <1>1. \A t \in T : g[t] \in S /\ f[g[t]] = t
    OBVIOUS
  <1> HIDE DEF g
  <1>2. g \in [T -> S]
    BY <1>1 DEF g
  <1>3. \A a, b \in T : g[a] = g[b] => a = b
    BY <1>1
  <1>4. g \in Injection(T, S)
    BY <1>2, <1>3 DEF Injection, IsInjective
  <1>5. IsFiniteSet(T) /\ Cardinality(T) <= Cardinality(S)
    BY <1>4, FS_Injection
  <1> QED
    BY <1>5, FS_CardinalityType

\* sizes of sets that grow or shrink by an element
LEMMA OneMore ==
    ASSUME NEW S, IsFiniteSet(S), NEW e, NEW T, T \subseteq S \cup {e}
    PROVE  Cardinality(T) \in Nat /\ Cardinality(T) <= Cardinality(S) + 1
  <1> DEFINE U == S \cup {e}
  <1>1. /\ IsFiniteSet(U)
        /\ Cardinality(U) = Cardinality(S) \/ Cardinality(U) = Cardinality(S) + 1
    BY FS_AddElement
  <1>2. Cardinality(S) \in Nat /\ IsFiniteSet(T) /\ Cardinality(T) <= Cardinality(U)
    BY <1>1, FS_Subset, FS_CardinalityType
  <1>3. Cardinality(T) \in Nat
    BY <1>2, FS_CardinalityType
  <1> HIDE DEF U
  <1> QED
    BY <1>1, <1>2, <1>3

\* a set of numbers that is not empty has a least element, Min
LEMMA MinIsLeast ==
    ASSUME NEW T, T \subseteq Nat, T # {}
    PROVE  Min(T) \in T /\ \A t \in T : Min(T) <= t
  <1> DEFINE R == OpToRel(<, Nat)
  <1>1. \E n \in T : \A m \in T : ~ (<<m, n>> \in R)
    BY ONLY T \subseteq Nat, T # {}, WFMin, NatLessThanWellFounded, Zenon
  <1>2. \A m, n \in Nat : m < n => <<m, n>> \in R
    BY DEF OpToRel
  <1> HIDE DEF R
  <1>3. PICK n \in T : \A m \in T : ~ (<<m, n>> \in R)
    BY <1>1
  <1>4. ASSUME NEW m \in T
        PROVE  n <= m
    <2>1. m \in Nat /\ n \in Nat /\ ~ (<<m, n>> \in R)
      BY <1>3
    <2>2. ~ (m < n)
      BY <1>2, <2>1
    <2> QED
      BY <2>1, <2>2
  <1> QED
    BY <1>4 DEF Min

-----------------------------------------------------------------------------
(***************************************************************************)
(* Types, and when requests read the clock.                                *)
(***************************************************************************)

\* every entry in Redis is the time of a request that has started
Stamped == \A t \in entries : \E s \in Request : pc[s] # "idle" /\ now[s] = t

\* every request whose commands were repeated stands for a repetition
Repeated == Cardinality(resent) <= resends

Typed == LimiterTypeOK /\ Stamped /\ Repeated

LEMMA TypedStep ==
    ASSUME Typed, NEW r \in Request,
           Start(r) \/ Step(r) \/ Resend(r) \/ PipelineFails(r)
    PROVE  Typed'
  <1> USE LimiterAssumption DEF Typed, LimiterTypeOK, Stamped, Repeated, Label, Done, Goto
  <1>1. CASE Start(r)
    <2>1. /\ clock <= LastStart /\ clock \in Nat
          /\ pc[r] = "idle" /\ pc' = [pc EXCEPT ![r] = IF backend = "redis" THEN "trim" ELSE "read"]
          /\ now' = [now EXCEPT ![r] = clock]
          /\ UNCHANGED <<backend, clock, count, valid, retries, resent, resends, forgotten,
                         entries, deadline, requests, alive>>
      BY <1>1 DEF Start, redisVars
    <2>2. LimiterTypeOK'
      BY <2>1
    <2>3. Stamped'
      BY <2>1
    <2> QED
      BY <2>1, <2>2, <2>3
  <1>0. ASSUME NEW label \in Label \ {"idle"}, pc' = [pc EXCEPT ![r] = label], pc[r] # "idle",
               NEW times \in SUBSET (entries \cup {now[r]}), SetEntries(times),
               UNCHANGED <<backend, clock, now, valid, forgotten, requests, alive>>,
               resent' \subseteq Request, resends' \in 0 .. MaxResends, Repeated',
               retries' \in [Request -> 0 .. MaxRetries], count' \in [Request -> 0 .. MaxRequests]
        PROVE  Typed'
    <2>1. /\ entries' = times /\ times \subseteq 0 .. LastStart
          /\ deadline' \in {0, deadline} /\ (times = {} => deadline' = 0)
      BY <1>0 DEF SetEntries
    <2>2. LimiterTypeOK'
      BY <1>0, <2>1
    <2>3. Stamped'
      BY <1>0, <2>1
    <2> QED
      BY <1>0, <2>2, <2>3
  <1>2. CASE ZRemRangeByScore(r)
    <2>1. Recent(entries, r) \in SUBSET (entries \cup {now[r]})
      BY DEF Recent
    <2> QED
      BY <1>0, <1>2, <2>1 DEF ZRemRangeByScore
  <1>3. CASE ZCard(r)
    <2>1. \A t \in entries : \E s \in Request : now[s] = t
      OBVIOUS
    <2>2. /\ Cardinality(entries) \in Nat /\ Cardinality(Request) = MaxRequests
          /\ Cardinality(entries) <= Cardinality(Request)
      BY ONLY <2>1, Stamps, RequestsFinite
    <2>3. Cardinality(entries) \in 0 .. MaxRequests
      BY <2>2
    <2> QED
      BY <1>3, <2>3 DEF ZCard, redisVars
  <1>4. CASE ZAdd(r)
    BY <1>0, <1>4 DEF ZAdd
  <1>5. CASE Expire(r)
    <2>1. /\ pc[r] = "expire" /\ pc' = [pc EXCEPT ![r] = "answer"]
          /\ deadline' \in {0, clock + Window + Second} /\ (entries = {} => deadline' = 0)
          /\ UNCHANGED <<backend, clock, now, count, valid, retries, resent, resends,
                         forgotten, entries, requests, alive>>
      BY <1>5 DEF Expire
    <2>2. LimiterTypeOK'
      BY <2>1
    <2>3. Stamped'
      BY <2>1
    <2> QED
      BY <2>1, <2>2, <2>3
  <1>6. CASE Decide(r)
    BY <1>6 DEF Decide, redisVars
  <1>7. CASE ZPopMin(r)
    <2>1. CASE UNCHANGED redisVars
      BY <1>7, <2>1 DEF ZPopMin, redisVars
    <2>2. CASE PopMin
      <3>1. /\ pc[r] = "pop" /\ pc' = [pc EXCEPT ![r] = "refused"]
            /\ retries' \in [Request -> 0 .. MaxRetries]
            /\ UNCHANGED <<backend, clock, now, count, valid, resent, resends, forgotten,
                           requests, alive>>
        BY <1>7 DEF ZPopMin
      <3>2. SetEntries(entries \ {Min(entries)})
        BY <2>2 DEF PopMin
      <3>3. Repeated'
        BY <3>1
      <3> QED
        BY <1>0, <3>1, <3>2, <3>3
    <2> QED
      BY <1>7, <2>1, <2>2 DEF ZPopMin
  <1>8. CASE MapRead(r)
    BY <1>8 DEF MapRead, Recent, redisVars
  <1>9. CASE MapWrite(r)
    BY <1>9 DEF MapWrite, redisVars
  <1>10. CASE Resend(r)
    <2>1. /\ resent' = resent \cup {r} /\ resends' = resends + 1 /\ resends < MaxResends
          /\ retries' \in [Request -> 0 .. MaxRetries]
          /\ UNCHANGED <<backend, clock, now, valid, forgotten, requests, alive>>
      BY <1>10 DEF Resend
    <2>4. Repeated' /\ resends' \in 0 .. MaxResends /\ resent' \subseteq Request
      <3>1. IsFiniteSet(resent) /\ Cardinality(resent) \in Nat
        BY RequestsFinite
      <3>2. Cardinality(resent') \in Nat /\ Cardinality(resent') <= Cardinality(resent) + 1
        BY <2>1, <3>1, OneMore
      <3> QED
        BY <2>1, <3>1, <3>2
    <2>2. CASE /\ \E from \in {"count", "add", "expire", "answer"} : Goto(r, from, "trim")
               /\ count' = [count EXCEPT ![r] = 0]
               /\ UNCHANGED redisVars
      <3>1. LimiterTypeOK'
        BY <2>1, <2>2, <2>4 DEF redisVars
      <3>2. Stamped'
        BY <2>1, <2>2 DEF redisVars
      <3> QED
        BY <2>4, <3>1, <3>2
    <2>3. CASE Goto(r, "pop", "pop") /\ PopMin /\ UNCHANGED count
      BY <1>0, <2>1, <2>3, <2>4 DEF PopMin
    <2> QED
      BY <1>10, <2>2, <2>3 DEF Resend
  <1>11. CASE PipelineFails(r)
    <2>1. LimiterTypeOK'
      BY <1>11 DEF PipelineFails, redisVars
    <2>2. Stamped'
      BY <1>11 DEF PipelineFails, redisVars
    <2> QED
      BY <1>11, <2>1, <2>2 DEF PipelineFails
  <1> QED
    BY <1>1, <1>2, <1>3, <1>4, <1>5, <1>6, <1>7, <1>8, <1>9, <1>10, <1>11 DEF Step

\* time passes; either the key expires or Redis is left alone
LEMMA TickEffect ==
    ASSUME Tick
    PROVE  /\ clock < MaxClock /\ clock' = clock + 1
           /\ \A r \in InFlight : clock - now[r] < MaxDelay
           /\ UNCHANGED <<backend, pc, now, count, valid, retries, resent, resends, requests, alive>>
           /\ \/ /\ deadline # 0 /\ deadline <= clock + 1
                 /\ entries' = {} /\ deadline' = 0
                 /\ forgotten' = forgotten \cup {r \in Request : pc[r] = "expire"}
              \/ UNCHANGED <<entries, deadline, forgotten>>
  BY DEF Tick, SetEntries, redisVars

LEMMA TypedInductive == Typed /\ [LimiterNext]_limiterVars => Typed'
  <1> SUFFICES ASSUME Typed, [LimiterNext]_limiterVars
               PROVE  Typed'
    OBVIOUS
  <1>1. ASSUME NEW r \in Request, NEW s \in Request, MapFault(r, s)
        PROVE  Typed'
    BY <1>1 DEF MapFault, callVars, redisVars, Typed, LimiterTypeOK, Stamped, Repeated
  <1>2. CASE Tick
    <2>1. clock' \in 0 .. MaxClock /\ deadline' \in 0 .. clock' + Window + Second
      BY <1>2, TickEffect, LimiterAssumption DEF Typed, LimiterTypeOK
    <2>2. LimiterTypeOK'
      BY <1>2, <2>1, TickEffect DEF Typed, LimiterTypeOK
    <2>3. Stamped' /\ Repeated'
      BY <1>2, TickEffect DEF Typed, Stamped, Repeated
    <2> QED
      BY <2>2, <2>3 DEF Typed
  <1>3. CASE UNCHANGED limiterVars
    BY <1>3 DEF limiterVars, callVars, redisVars, Typed, LimiterTypeOK, Stamped,
                Repeated
  <1> QED
    BY <1>1, <1>2, <1>3, TypedStep DEF LimiterNext

LEMMA TypedInit == LimiterInit => Typed
  <1>1. Cardinality({}) = 0
    BY FS_EmptySet
  <1> QED
    BY <1>1, LimiterAssumption DEF LimiterInit, Typed, LimiterTypeOK, Stamped, Repeated, Label

(***************************************************************************)
(* Type correctness: no request counts more entries than there are         *)
(* requests, an emptied sorted set has no expiry, and no expiry is further *)
(* away than a window and a second.                                        *)
(***************************************************************************)
THEOREM LimiterTyped == LimiterSpec => []LimiterTypeOK
  <1>1. Typed => LimiterTypeOK
    BY DEF Typed
  <1> QED
    BY <1>1, TypedInit, TypedInductive, PTL DEF LimiterSpec

RedisCall == {"trim", "count", "add", "expire", "answer", "pop"}
MapCall == {"read", "write"}

LEMMA InFlightCalls ==
    LimiterTypeOK => InFlight = {r \in Request : pc[r] \in RedisCall \cup MapCall}
  BY DEF LimiterTypeOK, InFlight, Label, Done, RedisCall, MapCall

\* one request goes on, after it has started
LEMMA Moves ==
    ASSUME Typed, NEW r \in Request, Step(r) \/ Resend(r) \/ PipelineFails(r)
    PROVE  /\ UNCHANGED <<backend, clock, now, forgotten, alive>>
           /\ \E label \in RedisCall \cup MapCall \cup Done :
                 /\ pc' = [pc EXCEPT ![r] = label]
                 /\ \/ pc[r] \in RedisCall /\ label \in RedisCall \cup Done
                    \/ pc[r] \in MapCall /\ label \in {"write", "allowed", "refused"}
           /\ resent \subseteq resent' /\ resent' \subseteq resent \cup {r}
  <1> USE DEF Goto, RedisCall, MapCall, Done
  <1>1. CASE ZRemRangeByScore(r) \/ ZCard(r) \/ ZAdd(r) \/ Expire(r)
    BY <1>1 DEF ZRemRangeByScore, ZCard, ZAdd, Expire
  <1>2. CASE Decide(r) \/ ZPopMin(r)
    BY <1>2 DEF Decide, ZPopMin
  <1>3. CASE MapRead(r) \/ MapWrite(r)
    BY <1>3 DEF MapRead, MapWrite
  <1>4. CASE Resend(r)
    BY <1>4 DEF Resend
  <1>5. CASE PipelineFails(r)
    BY <1>5 DEF PipelineFails
  <1> QED
    BY <1>1, <1>2, <1>3, <1>4, <1>5 DEF Step

(***************************************************************************)
(* Requests start in their order and no two at the same time; a call does  *)
(* not take longer than MaxDelay; each backend has its own steps.          *)
(***************************************************************************)
Ordered ==
    /\ \A r, s \in Request : r < s /\ pc[s] # "idle" => pc[r] # "idle"
    /\ \A r \in Request : pc[r] # "idle" => now[r] <= clock
    /\ \A r, s \in Request : r # s /\ pc[r] # "idle" /\ pc[s] # "idle" => now[r] # now[s]
    /\ \A r \in Request : pc[r] \in RedisCall \cup MapCall => clock - now[r] <= MaxDelay
    /\ \A r \in Request : pc[r] \in MapCall => backend = "memory"
    /\ \A r \in Request : pc[r] \in RedisCall \cup {"open"} => backend = "redis"
    /\ \A r \in resent : pc[r] # "idle"

LEMMA OrderedInductive ==
    ASSUME Typed, Ordered, [LimiterNext]_limiterVars
    PROVE  Ordered'
  <1> USE LimiterAssumption
  <1>1. ASSUME NEW r \in Request, Start(r)
        PROVE  Ordered'
    <2>1. /\ pc[r] = "idle" /\ now' = [now EXCEPT ![r] = clock]
          /\ pc' = [pc EXCEPT ![r] = IF backend = "redis" THEN "trim" ELSE "read"]
          /\ \A s \in 1 .. r - 1 : pc[s] # "idle" /\ now[s] < clock
          /\ UNCHANGED <<backend, clock, resent>>
      BY <1>1 DEF Start, Goto
    <2>2. \A s \in Request : pc[s] # "idle" => s < r /\ now[s] < clock
      BY <2>1 DEF Ordered, Request
    <2>3. \A s \in Request : s < r => pc[s] # "idle"
      BY <2>1 DEF Request
    <2>4. clock \in Nat /\ clock - clock <= MaxDelay
      BY DEF Typed, LimiterTypeOK
    <2>5. pc \in [Request -> Label] /\ now \in [Request -> 0 .. LastStart]
      BY DEF Typed, LimiterTypeOK
    <2>6. /\ pc'[r] \in {"trim", "read"} /\ now'[r] = clock
          /\ pc'[r] = "trim" => backend = "redis"
          /\ pc'[r] = "read" => backend = "memory"
          /\ \A s \in Request \ {r} : pc'[s] = pc[s] /\ now'[s] = now[s]
      BY <2>1, <2>5 DEF Typed, LimiterTypeOK
    <2>7. ASSUME NEW s \in Request, NEW q \in Request, s < q, pc'[q] # "idle"
          PROVE  pc'[s] # "idle"
      BY <2>2, <2>3, <2>6, <2>7 DEF Ordered, Request
    <2>8. \A s \in Request : pc'[s] # "idle" => now'[s] <= clock
      BY <2>2, <2>4, <2>5, <2>6
    <2>9. ASSUME NEW s \in Request, NEW q \in Request, s # q, pc'[s] # "idle", pc'[q] # "idle"
          PROVE  now'[s] # now'[q]
      BY <2>2, <2>4, <2>5, <2>6, <2>9 DEF Ordered
    <2> QED
      BY <2>1, <2>4, <2>6, <2>7, <2>8, <2>9 DEF Ordered, RedisCall, MapCall
  <1>2. ASSUME NEW r \in Request, Step(r) \/ Resend(r) \/ PipelineFails(r)
        PROVE  Ordered'
    <2>1. PICK label \in RedisCall \cup MapCall \cup Done :
             /\ pc' = [pc EXCEPT ![r] = label]
             /\ \/ pc[r] \in RedisCall /\ label \in RedisCall \cup Done
                \/ pc[r] \in MapCall /\ label \in {"write", "allowed", "refused"}
      BY <1>2, Moves
    <2>2. UNCHANGED <<backend, clock, now>> /\ resent' \subseteq resent \cup {r}
      BY <1>2, Moves
    <2> QED
      BY <2>1, <2>2 DEF Typed, LimiterTypeOK, Ordered, RedisCall, MapCall, Done
  <1>3. CASE Tick
    <2>1. \A r \in Request : pc[r] \in RedisCall \cup MapCall => clock - now[r] < MaxDelay
      BY <1>3, TickEffect, InFlightCalls DEF Typed
    <2>2. clock' = clock + 1 /\ UNCHANGED <<backend, pc, now, resent>>
      BY <1>3, TickEffect
    <2> QED
      BY <2>1, <2>2 DEF Typed, LimiterTypeOK, Ordered
  <1>4. ASSUME NEW r \in Request, NEW s \in Request, MapFault(r, s)
        PROVE  Ordered'
    BY <1>4 DEF MapFault, callVars, Ordered
  <1>5. CASE UNCHANGED limiterVars
    BY <1>5 DEF limiterVars, callVars, Ordered
  <1> QED
    BY <1>1, <1>2, <1>3, <1>4, <1>5 DEF LimiterNext

LEMMA OrderedInit == LimiterInit => Ordered
  BY DEF LimiterInit, Ordered, RedisCall, MapCall

-----------------------------------------------------------------------------
(***************************************************************************)
(* Refusals.                                                               *)
(***************************************************************************)

\* what a step keeps of a request that has started
LEMMA Persists ==
    ASSUME Typed, [LimiterNext]_limiterVars
    PROVE  /\ backend' = backend /\ resent \subseteq resent'
           /\ \A s \in Request : pc[s] # "idle" => pc'[s] # "idle" /\ now'[s] = now[s]
           /\ \A s \in Request : pc[s] \in Done => pc'[s] = pc[s]
  <1> DEFINE P == /\ backend' = backend /\ resent \subseteq resent'
                  /\ \A s \in Request : pc[s] # "idle" => pc'[s] # "idle" /\ now'[s] = now[s]
                  /\ \A s \in Request : pc[s] \in Done => pc'[s] = pc[s]
  <1>1. ASSUME NEW r \in Request, Start(r)
        PROVE  P
    BY <1>1 DEF Start, Goto, Done, Typed, LimiterTypeOK
  <1>2. ASSUME NEW r \in Request, Step(r) \/ Resend(r) \/ PipelineFails(r)
        PROVE  P
    <2>1. /\ UNCHANGED <<backend, now>> /\ resent \subseteq resent'
          /\ pc[r] \in RedisCall \cup MapCall
          /\ \E label \in RedisCall \cup MapCall \cup Done : pc' = [pc EXCEPT ![r] = label]
      BY <1>2, Moves
    <2> QED
      BY <2>1 DEF Typed, LimiterTypeOK, RedisCall, MapCall, Done
  <1>3. CASE Tick
    BY <1>3, TickEffect
  <1>4. ASSUME NEW r \in Request, NEW s \in Request, MapFault(r, s)
        PROVE  P
    BY <1>4 DEF MapFault, callVars
  <1>5. CASE UNCHANGED limiterVars
    BY <1>5 DEF limiterVars, callVars
  <1> QED
    BY <1>1, <1>2, <1>3, <1>4, <1>5 DEF LimiterNext

(***************************************************************************)
(* What a call counts: between its trim and its ZCARD nothing older than   *)
(* its window gets into the set, and it is not in the set itself, unless   *)
(* it was sent before.                                                     *)
(***************************************************************************)
Fresh ==
    /\ \A r \in Request : pc[r] = "count" => \A t \in entries : t > now[r] - Window
    /\ \A r \in Request \ resent : pc[r] \in {"trim", "count", "add"} => now[r] \notin entries

LEMMA FreshStep ==
    ASSUME Typed, Ordered, Fresh, NEW r \in Request,
           Start(r) \/ Step(r) \/ Resend(r) \/ PipelineFails(r)
    PROVE  Fresh'
  <1> USE LimiterAssumption DEF Typed, LimiterTypeOK, Goto
  <1>0. ASSUME entries' \subseteq entries, now' = now, resent \subseteq resent',
               \A q \in Request : pc'[q] = "count" => pc[q] = "count",
               \A q \in Request \ resent' : pc'[q] \in {"trim", "count", "add"} =>
                                               pc[q] \in {"trim", "count", "add"}
        PROVE  Fresh'
    BY <1>0 DEF Fresh
  <1>1. CASE Start(r)
    <2>1. /\ pc[r] = "idle" /\ now' = [now EXCEPT ![r] = clock]
          /\ pc' = [pc EXCEPT ![r] = IF backend = "redis" THEN "trim" ELSE "read"]
          /\ \A s \in 1 .. r - 1 : pc[s] # "idle" /\ now[s] < clock
          /\ UNCHANGED <<entries, resent>>
      BY <1>1 DEF Start, redisVars
    <2>2. \A s \in Request : pc[s] # "idle" => s < r /\ now[s] < clock
      BY <2>1 DEF Ordered, Request
    <2>3. clock \notin entries
      BY <2>2 DEF Stamped
    <2> QED
      BY <2>1, <2>3 DEF Fresh
  <1>2. CASE ZRemRangeByScore(r)
    <2>1. /\ entries' = {t \in entries : t > now[r] - Window}
          /\ pc[r] = "trim" /\ pc' = [pc EXCEPT ![r] = "count"] /\ UNCHANGED <<now, resent>>
      BY <1>2 DEF ZRemRangeByScore, SetEntries, Recent
    <2> QED
      BY <2>1 DEF Fresh
  <1>3. CASE ZCard(r)
    BY <1>0, <1>3 DEF ZCard, redisVars
  <1>4. CASE ZAdd(r)
    <2>1. /\ entries' = entries \cup {now[r]}
          /\ pc[r] = "add" /\ pc' = [pc EXCEPT ![r] = "expire"] /\ UNCHANGED <<now, resent>>
      BY <1>4 DEF ZAdd, SetEntries
    <2>2. \A q \in Request : pc[q] # "idle" => now[r] > now[q] - Window
      BY <2>1 DEF Ordered, RedisCall
    <2>3. \A q \in Request \ {r} : pc[q] # "idle" => now[q] # now[r]
      BY <2>1 DEF Ordered
    <2> QED
      BY <2>1, <2>2, <2>3 DEF Fresh
  <1>5. CASE Expire(r)
    BY <1>0, <1>5 DEF Expire
  <1>6. CASE Decide(r)
    BY <1>0, <1>6 DEF Decide, redisVars
  <1>7. CASE ZPopMin(r)
    BY <1>0, <1>7 DEF ZPopMin, PopMin, SetEntries, redisVars
  <1>8. CASE MapRead(r) \/ MapWrite(r)
    BY <1>0, <1>8 DEF MapRead, MapWrite, redisVars
  <1>9. CASE Resend(r)
    BY <1>0, <1>9 DEF Resend, PopMin, SetEntries, redisVars
  <1>10. CASE PipelineFails(r)
    BY <1>0, <1>10 DEF PipelineFails, redisVars
  <1> QED
    BY <1>1, <1>2, <1>3, <1>4, <1>5, <1>6, <1>7, <1>8, <1>9, <1>10 DEF Step

LEMMA FreshInductive ==
    ASSUME Typed, Ordered, Fresh, [LimiterNext]_limiterVars
    PROVE  Fresh'
  <1>1. CASE Tick
    BY <1>1, TickEffect DEF Fresh
  <1>2. ASSUME NEW r \in Request, NEW s \in Request, MapFault(r, s)
        PROVE  Fresh'
    BY <1>2 DEF MapFault, callVars, redisVars, Fresh
  <1>3. CASE UNCHANGED limiterVars
    BY <1>3 DEF limiterVars, callVars, redisVars, Fresh
  <1> QED
    BY <1>1, <1>2, <1>3, FreshStep DEF LimiterNext

(***************************************************************************)
(* The map holds times of allowed requests only, and so does the copy of   *)
(* it that a request works on, whatever updates get lost.                  *)
(***************************************************************************)
AllowedAt(t) == \E s \in Request : pc[s] = "allowed" /\ now[s] = t

MapTimes ==
    /\ \A t \in requests : AllowedAt(t)
    /\ \A r \in Request : pc[r] = "write" =>
          \A t \in valid[r] : t > now[r] - Window /\ AllowedAt(t)

LEMMA MapTimesInductive ==
    ASSUME Typed, MapTimes, [LimiterNext]_limiterVars
    PROVE  MapTimes'
  <1>1. /\ \A t : AllowedAt(t) => AllowedAt(t)'
        /\ \A s \in Request : pc[s] # "idle" => now'[s] = now[s]
    BY Persists DEF AllowedAt, Done
  <1>2. ASSUME NEW r \in Request, MapRead(r)
        PROVE  MapTimes'
    <2>1. /\ pc[r] = "read" /\ pc' = [pc EXCEPT ![r] = "write"] /\ UNCHANGED requests
          /\ valid' = [valid EXCEPT ![r] = {t \in requests : t > now[r] - Window}]
      BY <1>2 DEF MapRead, Goto, Recent
    <2> QED
      BY <1>1, <2>1 DEF MapTimes, Typed, LimiterTypeOK
  <1>3. ASSUME NEW r \in Request, MapWrite(r)
        PROVE  MapTimes'
    <2>1. /\ pc[r] = "write" /\ UNCHANGED now
          /\ valid' = [valid EXCEPT ![r] = {}]
          /\ \/ pc' = [pc EXCEPT ![r] = "allowed"] /\ requests' = valid[r] \cup {now[r]}
             \/ pc' = [pc EXCEPT ![r] = "refused"] /\ requests' = valid[r]
      BY <1>3 DEF MapWrite, Goto
    <2>2. \A t \in requests' : AllowedAt(t)'
      BY <1>1, <2>1 DEF MapTimes, AllowedAt, Typed, LimiterTypeOK
    <2>3. \A q \in Request : pc'[q] = "write" => pc[q] = "write" /\ valid'[q] = valid[q]
      BY <2>1 DEF Typed, LimiterTypeOK
    <2> QED
      BY <1>1, <2>2, <2>3 DEF MapTimes
  <1>4. ASSUME UNCHANGED <<requests, valid>>,
               \A q \in Request : pc'[q] = "write" => pc[q] = "write"
        PROVE  MapTimes'
    BY <1>1, <1>4 DEF MapTimes
  <1>5. ASSUME NEW r \in Request,
               \/ Start(r) \/ ZRemRangeByScore(r) \/ ZCard(r) \/ ZAdd(r) \/ Expire(r)
               \/ Decide(r) \/ ZPopMin(r) \/ Resend(r) \/ PipelineFails(r)
        PROVE  MapTimes'
    BY <1>4, <1>5
    DEF Start, ZRemRangeByScore, ZCard, ZAdd, Expire, Decide, ZPopMin, Resend, PipelineFails,
        Goto, Typed, LimiterTypeOK
  <1>6. CASE Tick \/ (\E r, s \in Request : MapFault(r, s)) \/ UNCHANGED limiterVars
    BY <1>4, <1>6, TickEffect DEF MapFault, limiterVars, callVars
  <1> QED
    BY <1>2, <1>3, <1>5, <1>6 DEF LimiterNext, Step

\* the requests that a refusal of r may count
Reason(r) == {s \in Request : /\ s = r => r \in resent
                              /\ pc[s] # "idle"
                              /\ now[s] > now[r] - Window
                              /\ backend = "memory" => pc[s] = "allowed"}

JustifiedFor(r) ==
    /\ pc[r] \in {"add", "expire", "answer"} => count[r] <= Cardinality(Reason(r))
    /\ pc[r] \in {"pop", "refused"} => Cardinality(Reason(r)) >= Limit

Justified == \A r \in Request : JustifiedFor(r)

LEMMA ReasonGrows ==
    ASSUME Typed, [LimiterNext]_limiterVars, NEW r \in Request, pc[r] # "idle"
    PROVE  /\ Cardinality(Reason(r)) \in Nat /\ Cardinality(Reason(r)') \in Nat
           /\ Cardinality(Reason(r)) <= Cardinality(Reason(r)')
  <1>1. Reason(r) \subseteq Reason(r)'
    BY Persists DEF Reason, Done
  <1>2. Reason(r)' \subseteq Request
    BY DEF Reason
  <1>3. IsFiniteSet(Reason(r)')
    BY <1>2, RequestsFinite
  <1> QED
    BY <1>1, <1>3, FS_Subset, FS_CardinalityType

LEMMA JustifiedKept ==
    ASSUME Typed, Justified, [LimiterNext]_limiterVars, NEW q \in Request,
           pc'[q] \in {"add", "expire", "answer"} =>
               pc[q] \in {"add", "expire", "answer"} /\ count'[q] = count[q],
           pc'[q] \in {"pop", "refused"} => pc[q] \in {"pop", "refused"}
    PROVE  JustifiedFor(q)'
  <1>1. JustifiedFor(q)
    BY DEF Justified
  <1>2. CASE pc'[q] \in {"add", "expire", "answer"}
    <2>1. /\ count'[q] = count[q] /\ count[q] \in Nat
          /\ count[q] <= Cardinality(Reason(q)) /\ pc[q] # "idle"
      BY <1>1, <1>2 DEF JustifiedFor, Typed, LimiterTypeOK
    <2>2. /\ Cardinality(Reason(q)) \in Nat /\ Cardinality(Reason(q)') \in Nat
          /\ Cardinality(Reason(q)) <= Cardinality(Reason(q)')
      BY <2>1, ReasonGrows
    <2>3. count'[q] <= Cardinality(Reason(q)')
      BY <2>1, <2>2
    <2> QED
      BY <1>2, <2>3 DEF JustifiedFor
  <1>3. CASE pc'[q] \in {"pop", "refused"}
    <2>1. Cardinality(Reason(q)) >= Limit /\ pc[q] # "idle"
      BY <1>1, <1>3 DEF JustifiedFor
    <2>2. /\ Cardinality(Reason(q)) \in Nat /\ Cardinality(Reason(q)') \in Nat
          /\ Cardinality(Reason(q)) <= Cardinality(Reason(q)')
      BY <2>1, ReasonGrows
    <2>3. Cardinality(Reason(q)') >= Limit
      BY <2>1, <2>2, LimiterAssumption
    <2> QED
      BY <1>3, <2>3 DEF JustifiedFor
  <1> QED
    BY <1>2, <1>3 DEF JustifiedFor

LEMMA JustifiedInductive ==
    ASSUME Typed, Ordered, Fresh, MapTimes, Justified, [LimiterNext]_limiterVars
    PROVE  Justified'
  <1> USE DEF Typed, LimiterTypeOK, Goto
  <1>0. ASSUME \A q \in Request :
                  /\ pc'[q] \in {"add", "expire", "answer"} =>
                       pc[q] \in {"add", "expire", "answer"} /\ count'[q] = count[q]
                  /\ pc'[q] \in {"pop", "refused"} => pc[q] \in {"pop", "refused"}
        PROVE  Justified'
    BY <1>0, JustifiedKept DEF Justified
  <1>1. ASSUME NEW r \in Request, ZCard(r)
        PROVE  Justified'
    <2>1. /\ pc[r] = "count" /\ pc' = [pc EXCEPT ![r] = "add"]
          /\ count' = [count EXCEPT ![r] = Cardinality(entries)]
      BY <1>1 DEF ZCard
    <2>2. \A t \in entries : \E s \in Reason(r) : now[s] = t
      BY <2>1 DEF Stamped, Fresh, Ordered, RedisCall, Reason
    <2>3. IsFiniteSet(Reason(r))
      BY RequestsFinite DEF Reason
    <2>4. Cardinality(entries) \in Nat /\ Cardinality(entries) <= Cardinality(Reason(r))
      BY ONLY <2>2, <2>3, Stamps
    <2>5. /\ Cardinality(Reason(r)) \in Nat /\ Cardinality(Reason(r)') \in Nat
          /\ Cardinality(Reason(r)) <= Cardinality(Reason(r)')
      BY <2>1, ReasonGrows
    <2>6. count'[r] = Cardinality(entries) /\ pc'[r] = "add"
      BY <2>1
    <2>7. count'[r] <= Cardinality(Reason(r)')
      BY <2>4, <2>5, <2>6
    <2>8. JustifiedFor(r)'
      BY <2>6, <2>7 DEF JustifiedFor
    <2>9. ASSUME NEW q \in Request \ {r}
          PROVE  JustifiedFor(q)'
      BY <2>1, JustifiedKept
    <2> QED
      BY <2>8, <2>9 DEF Justified
  <1>2. ASSUME NEW r \in Request, Decide(r)
        PROVE  Justified'
    <2>1. /\ pc[r] = "answer" /\ count' = [count EXCEPT ![r] = 0]
          /\ pc' = [pc EXCEPT ![r] = IF count[r] < Limit THEN "allowed" ELSE "pop"]
      BY <1>2 DEF Decide
    <2>2. count[r] <= Cardinality(Reason(r)) /\ count[r] \in Nat
      BY <2>1 DEF Justified, JustifiedFor
    <2>3. /\ Cardinality(Reason(r)) \in Nat /\ Cardinality(Reason(r)') \in Nat
          /\ Cardinality(Reason(r)) <= Cardinality(Reason(r)')
      BY <2>1, ReasonGrows
    <2>4. ~ (count[r] < Limit) => Cardinality(Reason(r)') >= Limit
      BY <2>2, <2>3, LimiterAssumption
    <2>5. JustifiedFor(r)'
      BY <2>1, <2>4 DEF JustifiedFor
    <2>6. ASSUME NEW q \in Request \ {r}
          PROVE  JustifiedFor(q)'
      BY <2>1, JustifiedKept
    <2> QED
      BY <2>5, <2>6 DEF Justified
  <1>3. ASSUME NEW r \in Request, MapWrite(r)
        PROVE  Justified'
    <2>1. /\ pc[r] = "write" /\ UNCHANGED count
          /\ \/ pc' = [pc EXCEPT ![r] = "allowed"]
             \/ pc' = [pc EXCEPT ![r] = "refused"] /\ ~ (Cardinality(valid[r]) < Limit)
      BY <1>3 DEF MapWrite
    <2>2. \A t \in valid[r] : \E s \in Reason(r) : now[s] = t
      BY <2>1 DEF MapTimes, AllowedAt, Reason
    <2>3. IsFiniteSet(Reason(r))
      BY RequestsFinite DEF Reason
    <2>4. Cardinality(valid[r]) \in Nat /\ Cardinality(valid[r]) <= Cardinality(Reason(r))
      BY ONLY <2>2, <2>3, Stamps
    <2>5. /\ Cardinality(Reason(r)) \in Nat /\ Cardinality(Reason(r)') \in Nat
          /\ Cardinality(Reason(r)) <= Cardinality(Reason(r)')
      BY <2>1, ReasonGrows
    <2>6. ~ (Cardinality(valid[r]) < Limit) => Cardinality(Reason(r)') >= Limit
      BY <2>4, <2>5, LimiterAssumption
    <2>7. JustifiedFor(r)'
      BY <2>1, <2>6 DEF JustifiedFor
    <2>8. ASSUME NEW q \in Request \ {r}
          PROVE  JustifiedFor(q)'
      BY <2>1, JustifiedKept
    <2> QED
      BY <2>7, <2>8 DEF Justified
  <1>4. ASSUME NEW r \in Request,
               \/ Start(r) \/ ZRemRangeByScore(r) \/ ZAdd(r) \/ Expire(r) \/ ZPopMin(r)
               \/ MapRead(r) \/ PipelineFails(r)
        PROVE  Justified'
    BY <1>0, <1>4
    DEF Start, ZRemRangeByScore, ZAdd, Expire, ZPopMin, MapRead, PipelineFails
  <1>5. ASSUME NEW r \in Request, Resend(r)
        PROVE  Justified'
    BY <1>0, <1>5 DEF Resend
  <1>6. CASE Tick \/ (\E r, s \in Request : MapFault(r, s)) \/ UNCHANGED limiterVars
    BY <1>0, <1>6, TickEffect DEF MapFault, limiterVars, callVars
  <1> QED
    BY <1>1, <1>2, <1>3, <1>4, <1>5, <1>6 DEF LimiterNext, Step

LEMMA RefusalInvariant ==
    LimiterSpec => [](Typed /\ Ordered /\ Fresh /\ MapTimes /\ Justified)
  <1>1. LimiterInit => Fresh /\ MapTimes /\ Justified
    BY DEF LimiterInit, Fresh, MapTimes, Justified, JustifiedFor
  <1> QED
    BY <1>1, TypedInit, TypedInductive, OrderedInit, OrderedInductive, FreshInductive,
       MapTimesInductive, JustifiedInductive, PTL DEF LimiterSpec

(***************************************************************************)
(* No request is refused without reason, with either backend: as many      *)
(* others as the limit allows came less than a window before it, and with  *)
(* the map all of them were allowed, whatever updates of the unlocked map  *)
(* got lost and however the pipelines interleaved.                         *)
(***************************************************************************)
THEOREM RefusalsJustified == LimiterSpec => []RefusalJustified
  <1>1. Justified => RefusalJustified
    BY DEF Justified, JustifiedFor, Reason, RefusalJustified
  <1> QED
    BY <1>1, RefusalInvariant, PTL

-----------------------------------------------------------------------------
(***************************************************************************)
(* Admissions.                                                             *)
(***************************************************************************)

\* what the limiter is owed: repetitions, and calls whose key expired
Debts == resends + Cardinality(forgotten)

\* the requests younger than x that are in the set, are allowed or will pop an entry
Live(x) == {s \in Request : /\ now[s] > x
                            /\ \/ pc[s] \in {"expire", "answer", "pop", "allowed"}
                               \/ s \in resent /\ pc[s] \in {"trim", "count", "add"}}
Younger(x) == {t \in entries : t > x}

(***************************************************************************)
(* The set makes up for the requests of any part of the window: whatever   *)
(* time x no trim has reached, as many entries are younger as there are    *)
(* live requests, but for the debts.  A call that pops an entry younger    *)
(* than x without being younger itself finds its own entry gone; then the  *)
(* balance for its own time says that there is one entry to spare.         *)
(***************************************************************************)
BalancedAt(x) == Cardinality(Live(x)) <= Cardinality(Younger(x)) + Debts
Balanced == backend = "redis" => \A x \in Int : x >= clock - Window => BalancedAt(x)

\* the key does not expire before the window of a call that renewed it is over
Renewed ==
    backend = "redis" =>
        \A r \in Request : pc[r] \in {"answer", "pop", "allowed", "refused"} =>
            deadline = 0 \/ deadline >= now[r] + Window + Second

LEMMA Sizes ==
    ASSUME Typed
    PROVE  /\ IsFiniteSet(resent) /\ IsFiniteSet(forgotten) /\ Debts \in Nat
           /\ resends \in Nat /\ Cardinality(forgotten) \in Nat
           /\ \A x : /\ IsFiniteSet(Live(x)) /\ Cardinality(Live(x)) \in Nat
                    /\ IsFiniteSet(Younger(x)) /\ Cardinality(Younger(x)) \in Nat
  <1>1. /\ IsFiniteSet(resent) /\ IsFiniteSet(forgotten)
        /\ resends \in Nat /\ Cardinality(forgotten) \in Nat
    BY RequestsFinite DEF Typed, LimiterTypeOK
  <1>2. \A x : IsFiniteSet(Live(x)) /\ Cardinality(Live(x)) \in Nat
    BY RequestsFinite DEF Live
  <1>3. \A x : IsFiniteSet(Younger(x)) /\ Cardinality(Younger(x)) \in Nat
    BY TimesFinite DEF Younger, Typed, LimiterTypeOK
  <1> QED
    BY <1>1, <1>2, <1>3 DEF Debts

LEMMA SizesNext ==
    ASSUME Typed'
    PROVE  /\ IsFiniteSet(resent') /\ IsFiniteSet(forgotten') /\ Debts' \in Nat
           /\ resends' \in Nat /\ Cardinality(forgotten') \in Nat
           /\ Cardinality(resent') \in Nat /\ Cardinality(resent') <= resends'
           /\ \A x : /\ IsFiniteSet(Live(x)') /\ Cardinality(Live(x)') \in Nat
                    /\ IsFiniteSet(Younger(x)') /\ Cardinality(Younger(x)') \in Nat
  <1>1. /\ IsFiniteSet(resent') /\ IsFiniteSet(forgotten')
        /\ resends' \in Nat /\ Cardinality(forgotten') \in Nat
        /\ Cardinality(resent') \in Nat /\ Cardinality(resent') <= resends'
    BY RequestsFinite DEF Typed, LimiterTypeOK, Repeated
  <1>2. \A x : IsFiniteSet(Live(x)') /\ Cardinality(Live(x)') \in Nat
    BY RequestsFinite DEF Live
  <1>3. \A x : IsFiniteSet(Younger(x)') /\ Cardinality(Younger(x)') \in Nat
    BY TimesFinite DEF Younger, Typed, LimiterTypeOK
  <1> QED
    BY <1>1, <1>2, <1>3 DEF Debts

LEMMA StrictlyMore ==
    ASSUME NEW S, IsFiniteSet(S), NEW T, NEW e, T \subseteq S, e \in S \ T
    PROVE  /\ IsFiniteSet(T) /\ Cardinality(S) \in Nat /\ Cardinality(T) \in Nat
           /\ Cardinality(T) + 1 <= Cardinality(S)
  <1> DEFINE U == S \ {e}
  <1>1. IsFiniteSet(U) /\ Cardinality(U) = Cardinality(S) - 1
    BY FS_RemoveElement
  <1>2. T \in SUBSET U
    OBVIOUS
  <1> HIDE DEF U
  <1>3. IsFiniteSet(T) /\ Cardinality(T) <= Cardinality(U)
    BY <1>1, <1>2, FS_Subset
  <1>4. Cardinality(S) \in Nat /\ Cardinality(T) \in Nat
    BY <1>3, FS_CardinalityType
  <1> QED
    BY <1>1, <1>3, <1>4

LEMMA NoMore ==
    ASSUME NEW S, IsFiniteSet(S), NEW T, T \subseteq S
    PROVE  /\ IsFiniteSet(T) /\ Cardinality(S) \in Nat /\ Cardinality(T) \in Nat
           /\ Cardinality(T) <= Cardinality(S)
  <1>1. IsFiniteSet(T) /\ Cardinality(T) <= Cardinality(S)
    BY FS_Subset
  <1> QED
    BY <1>1, FS_CardinalityType

LEMMA BothTogether ==
    ASSUME NEW A, IsFiniteSet(A), NEW B, IsFiniteSet(B), NEW T, T \subseteq A \cup B
    PROVE  /\ Cardinality(A) \in Nat /\ Cardinality(B) \in Nat /\ Cardinality(T) \in Nat
           /\ Cardinality(T) <= Cardinality(A) + Cardinality(B)
  <1> DEFINE U == A \cup B
  <1>1. /\ IsFiniteSet(U)
        /\ Cardinality(U) = Cardinality(A) + Cardinality(B) - Cardinality(A \cap B)
    BY FS_Union
  <1>2. Cardinality(A) \in Nat /\ Cardinality(B) \in Nat /\ Cardinality(A \cap B) \in Nat
    BY FS_CardinalityType, NoMore
  <1> HIDE DEF U
  <1>3. Cardinality(T) \in Nat /\ Cardinality(T) <= Cardinality(U)
    BY <1>1, NoMore DEF U
  <1> QED
    BY <1>1, <1>2, <1>3

LEMMA DebtsGrow ==
    ASSUME Typed, Typed', resends <= resends', forgotten \subseteq forgotten'
    PROVE  Debts <= Debts'
  <1>1. resends \in Nat /\ resends' \in Nat
    BY Sizes, SizesNext
  <1>2. /\ Cardinality(forgotten) \in Nat /\ Cardinality(forgotten') \in Nat
        /\ Cardinality(forgotten) <= Cardinality(forgotten')
    BY NoMore, SizesNext
  <1> QED
    BY <1>1, <1>2 DEF Debts

LEMMA BalanceKept ==
    ASSUME Typed, Typed', NEW x, BalancedAt(x),
           Live(x)' \subseteq Live(x), Younger(x) \subseteq Younger(x)',
           UNCHANGED resends, forgotten \subseteq forgotten'
    PROVE  BalancedAt(x)'
  <1>1. /\ Cardinality(Live(x)') \in Nat /\ Cardinality(Live(x)) \in Nat
        /\ Cardinality(Live(x)') <= Cardinality(Live(x))
    BY NoMore, Sizes
  <1>2. /\ Cardinality(Younger(x)) \in Nat /\ Cardinality(Younger(x)') \in Nat
        /\ Cardinality(Younger(x)) <= Cardinality(Younger(x)')
    BY NoMore, SizesNext
  <1>3. Debts \in Nat /\ Debts' \in Nat /\ Debts <= Debts'
    <2>1. resends <= resends'
      BY Sizes
    <2> QED
      BY <2>1, Sizes, SizesNext, DebtsGrow
  <1>4. Cardinality(Live(x)') <= Cardinality(Younger(x)') + Debts'
    BY <1>1, <1>2, <1>3 DEF BalancedAt
  <1> QED
    BY <1>4 DEF BalancedAt

LEMMA RenewedInductive ==
    ASSUME Typed, Ordered, Renewed, [LimiterNext]_limiterVars
    PROVE  Renewed'
  <1> USE LimiterAssumption DEF Typed, LimiterTypeOK, Goto
  <1>0. ASSUME deadline' \in {0, deadline},
               \A q \in Request : pc'[q] \in {"answer", "pop", "allowed", "refused"} =>
                                 pc[q] \in {"answer", "pop", "allowed", "refused"},
               UNCHANGED <<now, backend>>
        PROVE  Renewed'
    BY <1>0 DEF Renewed
  <1>1. ASSUME NEW r \in Request, Start(r)
        PROVE  Renewed'
    BY <1>1 DEF Start, Renewed, redisVars
  <1>2. ASSUME NEW r \in Request, Expire(r)
        PROVE  Renewed'
    <2>1. /\ pc[r] = "expire" /\ pc' = [pc EXCEPT ![r] = "answer"]
          /\ deadline' \in {0, clock + Window + Second} /\ UNCHANGED <<now, backend>>
      BY <1>2 DEF Expire
    <2>2. \A q \in Request : pc'[q] # "idle" => now[q] <= clock
      BY <2>1 DEF Ordered
    <2>3. \A q \in Request : pc'[q] # "idle" =>
             deadline' = 0 \/ deadline' >= now'[q] + Window + Second
      BY <2>1, <2>2
    <2> QED
      BY <2>3 DEF Renewed
  <1>3. ASSUME NEW r \in Request, ZRemRangeByScore(r) \/ ZCard(r) \/ ZAdd(r)
        PROVE  Renewed'
    BY <1>0, <1>3 DEF ZRemRangeByScore, ZCard, ZAdd, SetEntries, redisVars
  <1>4. ASSUME NEW r \in Request, Decide(r) \/ ZPopMin(r)
        PROVE  Renewed'
    BY <1>0, <1>4 DEF Decide, ZPopMin, PopMin, SetEntries, redisVars
  <1>5. ASSUME NEW r \in Request, Resend(r) \/ PipelineFails(r)
        PROVE  Renewed'
    BY <1>0, <1>5 DEF Resend, PipelineFails, PopMin, SetEntries, redisVars
  <1>6. ASSUME NEW r \in Request, MapRead(r) \/ MapWrite(r)
        PROVE  Renewed'
    BY <1>6 DEF MapRead, MapWrite, Ordered, MapCall, Renewed
  <1>7. CASE Tick
    BY <1>0, <1>7, TickEffect
  <1>8. CASE (\E r, s \in Request : MapFault(r, s)) \/ UNCHANGED limiterVars
    BY <1>0, <1>8 DEF MapFault, limiterVars, callVars, redisVars
  <1> QED
    BY <1>1, <1>2, <1>3, <1>4, <1>5, <1>6, <1>7, <1>8 DEF LimiterNext, Step

LEMMA BalancedAdd ==
    ASSUME Typed, Typed', Fresh, NEW r \in Request, ZAdd(r), NEW x, BalancedAt(x)
    PROVE  BalancedAt(x)'
  <1>1. /\ entries' = entries \cup {now[r]}
        /\ pc[r] = "add" /\ pc' = [pc EXCEPT ![r] = "expire"]
        /\ UNCHANGED <<now, resent, resends, forgotten>>
    BY DEF ZAdd, SetEntries, Goto
  <1>2. CASE r \in resent \/ ~ (now[r] > x)
    <2>1. Live(x)' \subseteq Live(x)
      BY <1>1, <1>2 DEF Live, Typed, LimiterTypeOK
    <2>2. Younger(x) \subseteq Younger(x)'
      BY <1>1 DEF Younger
    <2> QED
      BY <1>1, <2>1, <2>2, BalanceKept
  <1>3. CASE r \notin resent /\ now[r] > x
    <2>1. Live(x)' \subseteq Live(x) \cup {r}
      BY <1>1 DEF Live, Typed, LimiterTypeOK
    <2>2. Younger(x) \subseteq Younger(x)' /\ now[r] \in Younger(x)' \ Younger(x)
      BY <1>1, <1>3 DEF Younger, Fresh
    <2>3. Cardinality(Live(x)') \in Nat /\ Cardinality(Live(x)') <= Cardinality(Live(x)) + 1
      BY <2>1, Sizes, OneMore
    <2>4. /\ Cardinality(Younger(x)) \in Nat /\ Cardinality(Younger(x)') \in Nat
          /\ Cardinality(Younger(x)) + 1 <= Cardinality(Younger(x)')
      BY <2>2, SizesNext, StrictlyMore
    <2>5. Debts' = Debts /\ Debts \in Nat /\ Cardinality(Live(x)) \in Nat
      BY <1>1, Sizes DEF Debts
    <2>6. Cardinality(Live(x)') <= Cardinality(Younger(x)') + Debts'
      BY <2>3, <2>4, <2>5 DEF BalancedAt
    <2> QED
      BY <2>6 DEF BalancedAt
  <1> QED
    BY <1>2, <1>3

LEMMA BalancedPop ==
    ASSUME Typed, Typed', Ordered, backend = "redis", Balanced,
           NEW r \in Request, ZPopMin(r), NEW x \in Int, x >= clock - Window
    PROVE  BalancedAt(x)'
  <1> USE LimiterAssumption
  <1>1. /\ pc[r] = "pop" /\ pc' = [pc EXCEPT ![r] = "refused"]
        /\ UNCHANGED <<now, resent, resends, forgotten>>
    BY DEF ZPopMin, Goto
  <1>2. BalancedAt(x) /\ Live(x)' = Live(x) \ {r}
    BY <1>1 DEF Balanced, Live, Typed, LimiterTypeOK
  <1>3. CASE UNCHANGED redisVars
    <2>1. Younger(x)' = Younger(x)
      BY <1>3 DEF Younger, redisVars
    <2> QED
      BY <1>1, <1>2, <2>1, BalanceKept
  <1>4. CASE PopMin
    <2> DEFINE m == Min(entries)
    <2>1. entries # {} /\ entries' = entries \ {m} /\ entries \subseteq Nat
      BY <1>4 DEF PopMin, SetEntries, Typed, LimiterTypeOK
    <2>2. m \in entries /\ \A t \in entries : m <= t
      BY <2>1, MinIsLeast
    <2> HIDE DEF m
    <2>3. Younger(x)' = Younger(x) \ {m}
      BY <2>1 DEF Younger
    <2>4. CASE ~ (m > x)
      <3>1. Younger(x)' = Younger(x)
        BY <2>3, <2>4 DEF Younger
      <3> QED
        BY <1>1, <1>2, <3>1, BalanceKept
    <2>5. CASE m > x
      <3>1. /\ Cardinality(Younger(x)) \in Nat /\ Cardinality(Younger(x)') \in Nat
            /\ Cardinality(Younger(x)) <= Cardinality(Younger(x)') + 1
        <4>1. Younger(x) \subseteq Younger(x)' \cup {m}
          BY <2>3
        <4> QED
          BY <4>1, Sizes, SizesNext, OneMore
      <3>2. Debts' = Debts /\ Debts \in Nat
        BY <1>1, Sizes DEF Debts
      <3>3. /\ Cardinality(Live(x)') \in Nat
            /\ Cardinality(Live(x)') + 1 <= Cardinality(Younger(x)) + Debts
        <4>1. CASE now[r] > x
          <5>1. r \in Live(x)
            BY <1>1, <4>1 DEF Live
          <5>2. /\ Cardinality(Live(x)') \in Nat /\ Cardinality(Live(x)) \in Nat
                /\ Cardinality(Live(x)') + 1 <= Cardinality(Live(x))
            BY <1>2, <5>1, Sizes, StrictlyMore
          <5> QED
            BY <1>2, <3>1, <3>2, <5>2 DEF BalancedAt
        <4>2. CASE ~ (now[r] > x)
          <5> DEFINE y == now[r] - 1
          <5>1. y \in Int /\ y >= clock - Window /\ y < now[r] /\ now[r] <= x /\ now[r] \in Int
            BY <1>1, <4>2 DEF Ordered, RedisCall, Typed, LimiterTypeOK
          <5> HIDE DEF y
          <5>2. BalancedAt(y)
            BY <5>1 DEF Balanced
          <5>3. Live(x)' \subseteq Live(y) /\ r \in Live(y) \ Live(x)'
            BY <1>1, <1>2, <5>1 DEF Live, Typed, LimiterTypeOK
          <5>4. Younger(y) = Younger(x)
            <6>1. \A t \in entries : t > x /\ t > y
              BY <2>1, <2>2, <2>5, <5>1
            <6> QED
              BY <6>1 DEF Younger
          <5>5. /\ Cardinality(Live(x)') \in Nat /\ Cardinality(Live(y)) \in Nat
                /\ Cardinality(Live(x)') + 1 <= Cardinality(Live(y))
            BY <5>3, Sizes, StrictlyMore
          <5> QED
            BY <3>1, <3>2, <5>2, <5>4, <5>5 DEF BalancedAt
        <4> QED
          BY <4>1, <4>2
      <3>4. Cardinality(Live(x)') <= Cardinality(Younger(x)') + Debts'
        BY <3>1, <3>2, <3>3
      <3> QED
        BY <3>4 DEF BalancedAt
    <2> QED
      BY <2>4, <2>5
  <1> QED
    BY <1>3, <1>4 DEF ZPopMin

LEMMA BalancedResend ==
    ASSUME Typed, Typed', NEW r \in Request, Resend(r), NEW x, BalancedAt(x)
    PROVE  BalancedAt(x)'
  <1>1. /\ resent' = resent \cup {r} /\ resends' = resends + 1 /\ UNCHANGED <<now, forgotten>>
    BY DEF Resend
  <1>2. Debts' = Debts + 1 /\ Debts \in Nat
    BY <1>1, Sizes DEF Debts
  <1>3. /\ Cardinality(Live(x)) \in Nat /\ Cardinality(Live(x)') \in Nat
        /\ Cardinality(Younger(x)) \in Nat /\ Cardinality(Younger(x)') \in Nat
    BY Sizes, SizesNext
  <1>4. CASE /\ \E from \in {"count", "add", "expire", "answer"} : Goto(r, from, "trim")
             /\ UNCHANGED redisVars
    <2>1. Younger(x)' = Younger(x)
      BY <1>4 DEF Younger, redisVars
    <2>2. Live(x)' \subseteq Live(x) \cup {r}
      BY <1>1, <1>4 DEF Live, Goto, Typed, LimiterTypeOK
    <2>3. Cardinality(Live(x)') <= Cardinality(Live(x)) + 1
      BY <2>2, Sizes, OneMore
    <2>4. Cardinality(Live(x)') <= Cardinality(Younger(x)') + Debts'
      BY <1>2, <1>3, <2>1, <2>3 DEF BalancedAt
    <2> QED
      BY <2>4 DEF BalancedAt
  <1>5. CASE Goto(r, "pop", "pop") /\ PopMin
    <2>1. Younger(x) \subseteq Younger(x)' \cup {Min(entries)}
      BY <1>5 DEF PopMin, SetEntries, Younger
    <2>2. Cardinality(Younger(x)) <= Cardinality(Younger(x)') + 1
      BY <2>1, SizesNext, OneMore
    <2>3. Live(x)' = Live(x)
      BY <1>1, <1>5 DEF Live, Goto, Typed, LimiterTypeOK
    <2>4. Cardinality(Live(x)') <= Cardinality(Younger(x)') + Debts'
      BY <1>2, <1>3, <2>2, <2>3 DEF BalancedAt
    <2> QED
      BY <2>4 DEF BalancedAt
  <1> QED
    BY <1>4, <1>5 DEF Resend

\* the key expires: only the calls between ZADD and EXPIRE lose something
LEMMA BalancedTick ==
    ASSUME Typed, Typed', backend = "redis", Balanced, Renewed, Tick,
           NEW x \in Int, x >= clock' - Window
    PROVE  BalancedAt(x)'
  <1> USE LimiterAssumption
  <1>1. clock' = clock + 1 /\ UNCHANGED <<pc, now, resent, resends>>
    BY TickEffect
  <1>2. Live(x)' = Live(x) /\ BalancedAt(x)
    BY <1>1 DEF Live, Balanced, Typed, LimiterTypeOK
  <1>3. CASE UNCHANGED <<entries, deadline, forgotten>>
    <2>1. Younger(x)' = Younger(x)
      BY <1>3 DEF Younger
    <2> QED
      BY <1>1, <1>2, <1>3, <2>1, BalanceKept
  <1>4. CASE /\ deadline # 0 /\ deadline <= clock + 1
             /\ forgotten' = forgotten \cup {r \in Request : pc[r] = "expire"}
    <2>1. \A r \in Live(x) : pc[r] \in {"answer", "pop", "allowed"} => FALSE
      BY <1>1, <1>4 DEF Live, Renewed, Typed, LimiterTypeOK
    <2>2. Live(x)' \subseteq resent' \cup forgotten'
      BY <1>1, <1>2, <1>4, <2>1 DEF Live
    <2>3. /\ Cardinality(resent') \in Nat /\ Cardinality(forgotten') \in Nat
          /\ Cardinality(Live(x)') \in Nat
          /\ Cardinality(Live(x)') <= Cardinality(resent') + Cardinality(forgotten')
      BY <2>2, SizesNext, BothTogether
    <2>4. Cardinality(Live(x)') <= Debts' /\ Debts' \in Nat
      <3>1. resends' \in Nat /\ Cardinality(resent') <= resends'
        BY SizesNext
      <3> QED
        BY <2>3, <3>1 DEF Debts
    <2>5. Cardinality(Younger(x)') \in Nat
      BY SizesNext
    <2>6. Cardinality(Live(x)') <= Cardinality(Younger(x)') + Debts'
      BY <2>3, <2>4, <2>5
    <2> QED
      BY <2>6 DEF BalancedAt
  <1> QED
    BY <1>3, <1>4, TickEffect

LEMMA BalancedInductive ==
    ASSUME Typed, Typed', Ordered, Fresh, Renewed, Balanced, [LimiterNext]_limiterVars
    PROVE  Balanced'
  <1> USE LimiterAssumption
  <1> SUFFICES ASSUME backend' = "redis", NEW x \in Int, x >= clock' - Window
               PROVE  BalancedAt(x)'
    BY DEF Balanced
  <1>1. backend = "redis"
    BY Persists
  <1>2. ASSUME clock' = clock
        PROVE  x >= clock - Window /\ BalancedAt(x)
    BY <1>1, <1>2 DEF Balanced
  <1>3. ASSUME BalancedAt(x), Live(x)' \subseteq Live(x), Younger(x) \subseteq Younger(x)',
               UNCHANGED <<resends, forgotten>>
        PROVE  BalancedAt(x)'
    BY <1>1, <1>3, BalanceKept
  <1>4. ASSUME NEW r \in Request, Start(r)
        PROVE  BalancedAt(x)'
    <2>1. /\ pc[r] = "idle" /\ pc' = [pc EXCEPT ![r] = "trim"] /\ r \notin resent
          /\ now' = [now EXCEPT ![r] = clock]
          /\ UNCHANGED <<clock, resent, resends, forgotten, entries>>
      BY <1>1, <1>4 DEF Start, Goto, redisVars, Ordered
    <2>2. Live(x)' \subseteq Live(x) /\ Younger(x) \subseteq Younger(x)'
      BY <2>1 DEF Live, Younger, Typed, LimiterTypeOK
    <2> QED
      BY <1>2, <1>3, <2>1, <2>2
  <1>5. ASSUME NEW r \in Request, ZRemRangeByScore(r)
        PROVE  BalancedAt(x)'
    <2>1. /\ pc[r] = "trim" /\ pc' = [pc EXCEPT ![r] = "count"]
          /\ entries' = {t \in entries : t > now[r] - Window}
          /\ UNCHANGED <<clock, now, resent, resends, forgotten>>
      BY <1>5 DEF ZRemRangeByScore, SetEntries, Recent, Goto
    <2>2. Live(x)' \subseteq Live(x)
      BY <2>1 DEF Live, Typed, LimiterTypeOK
    <2>3. now[r] - Window <= x /\ now[r] - Window \in Int
      BY <1>2, <2>1 DEF Ordered, Typed, LimiterTypeOK
    <2>4. Younger(x) \subseteq Younger(x)'
      <3>1. \A t \in entries : t > x => t > now[r] - Window
        BY <2>3 DEF Typed, LimiterTypeOK
      <3> QED
        BY <2>1, <3>1 DEF Younger
    <2> QED
      BY <1>2, <1>3, <2>1, <2>2, <2>4
  <1>6. ASSUME NEW r \in Request, ZCard(r) \/ Expire(r) \/ Decide(r) \/ PipelineFails(r)
        PROVE  BalancedAt(x)'
    <2>1. UNCHANGED <<clock, now, resent, resends, forgotten, entries>>
      BY <1>6 DEF ZCard, Expire, Decide, PipelineFails, redisVars
    <2>2. \/ pc[r] = "count" /\ pc' = [pc EXCEPT ![r] = "add"]
          \/ pc[r] = "expire" /\ pc' = [pc EXCEPT ![r] = "answer"]
          \/ pc[r] = "answer" /\ (\/ pc' = [pc EXCEPT ![r] = "allowed"]
                                  \/ pc' = [pc EXCEPT ![r] = "pop"])
          \/ pc' = [pc EXCEPT ![r] = "open"]
      BY <1>6 DEF ZCard, Expire, Decide, PipelineFails, Goto
    <2>3. Live(x)' \subseteq Live(x) /\ Younger(x) \subseteq Younger(x)'
      BY <2>1, <2>2 DEF Live, Younger, Typed, LimiterTypeOK
    <2> QED
      BY <1>2, <1>3, <2>1, <2>3
  <1>7. ASSUME NEW r \in Request, ZAdd(r)
        PROVE  BalancedAt(x)'
    BY <1>2, <1>7, BalancedAdd DEF ZAdd
  <1>8. ASSUME NEW r \in Request, ZPopMin(r)
        PROVE  BalancedAt(x)'
    BY <1>1, <1>2, <1>8, BalancedPop DEF ZPopMin
  <1>9. ASSUME NEW r \in Request, Resend(r)
        PROVE  BalancedAt(x)'
    BY <1>2, <1>9, BalancedResend DEF Resend
  <1>10. ASSUME NEW r \in Request, MapRead(r) \/ MapWrite(r)
         PROVE  FALSE
    BY <1>1, <1>10 DEF MapRead, MapWrite, Goto, Ordered, MapCall
  <1>11. CASE Tick
    BY <1>1, <1>11, BalancedTick
  <1>12. CASE (\E r, s \in Request : MapFault(r, s)) \/ UNCHANGED limiterVars
    <2>1. UNCHANGED <<clock, pc, now, resent, resends, forgotten, entries>>
      BY <1>12 DEF MapFault, limiterVars, callVars, redisVars
    <2>2. Live(x)' \subseteq Live(x) /\ Younger(x) \subseteq Younger(x)'
      BY <2>1 DEF Live, Younger
    <2> QED
      BY <1>2, <1>3, <2>1, <2>2
  <1> QED
    BY <1>4, <1>5, <1>6, <1>7, <1>8, <1>9, <1>10, <1>11, <1>12 DEF LimiterNext, Step

InFlightBounded == Cardinality(InFlight) <= MaxInFlight

LEMMA InFlightInductive ==
    ASSUME Typed, Typed', InFlightBounded, [LimiterNext]_limiterVars
    PROVE  InFlightBounded'
  <1>1. /\ IsFiniteSet(InFlight) /\ Cardinality(InFlight) \in Nat
        /\ Cardinality(InFlight') \in Nat
    BY RequestsFinite DEF InFlight
  <1>2. ASSUME NEW r \in Request, Start(r)
        PROVE  InFlightBounded'
    <2>1. InFlight' \subseteq InFlight \cup {r}
      BY <1>2 DEF Start, Goto, InFlight, Typed, LimiterTypeOK
    <2>2. Cardinality(InFlight') <= Cardinality(InFlight) + 1
      BY <1>1, <2>1, OneMore
    <2>3. Cardinality(InFlight) < MaxInFlight
      BY <1>2 DEF Start
    <2> QED
      BY <1>1, <2>2, <2>3, LimiterAssumption DEF InFlightBounded
  <1>3. ASSUME InFlight' \subseteq InFlight
        PROVE  InFlightBounded'
    <2>1. Cardinality(InFlight') <= Cardinality(InFlight)
      BY <1>1, <1>3, NoMore
    <2> QED
      BY <1>1, <2>1, LimiterAssumption DEF InFlightBounded
  <1>4. ASSUME NEW r \in Request, Step(r) \/ Resend(r) \/ PipelineFails(r)
        PROVE  InFlightBounded'
    <2>1. /\ pc[r] \in RedisCall \cup MapCall
          /\ \E label : pc' = [pc EXCEPT ![r] = label]
      BY <1>4, Moves
    <2>2. InFlight' \subseteq InFlight
      BY <2>1 DEF InFlight, RedisCall, MapCall, Done, Typed, LimiterTypeOK
    <2> QED
      BY <1>3, <2>2
  <1>5. CASE Tick \/ (\E r, s \in Request : MapFault(r, s)) \/ UNCHANGED limiterVars
    <2>1. UNCHANGED pc
      BY <1>5, TickEffect DEF MapFault, limiterVars, callVars
    <2> QED
      BY <1>3, <2>1 DEF InFlight
  <1> QED
    BY <1>2, <1>4, <1>5 DEF LimiterNext

(***************************************************************************)
(* The requests that share the window of r and are, or may still be,       *)
(* allowed.  When r counts them they are live or in flight, so ZCARD and   *)
(* the balance limit their number; afterwards none joins them.             *)
(***************************************************************************)
Peers(r) == {s \in Request : /\ now[s] \in now[r] - Window + MaxDelay + 1 .. now[r]
                             /\ pc[s] \notin {"idle", "refused", "open"}}

CountedFor(r) ==
    /\ pc[r] \in {"add", "expire", "answer"} =>
          Cardinality(Peers(r)) <= count[r] + MaxInFlight + Debts
    /\ pc[r] = "allowed" => Cardinality(Peers(r)) <= Limit - 1 + MaxInFlight + Debts

Counted == backend = "redis" => \A r \in Request : CountedFor(r)

LEMMA PeersShrink ==
    ASSUME Typed, Ordered, [LimiterNext]_limiterVars, NEW r \in Request, pc[r] # "idle"
    PROVE  Peers(r)' \subseteq Peers(r)
  <1> USE LimiterAssumption
  <1>1. /\ now'[r] = now[r]
        /\ \A s \in Request : pc[s] # "idle" => now'[s] = now[s]
        /\ \A s \in Request : pc[s] \in {"refused", "open"} => pc'[s] = pc[s]
    BY Persists DEF Done
  <1>2. ASSUME NEW s \in Request, pc[s] = "idle", pc'[s] # "idle"
        PROVE  now'[s] > now[r] /\ now[r] \in Int /\ now'[s] \in Int
    <2>1. Start(s)
      <3>1. ASSUME NEW q \in Request, Start(q)
            PROVE  q = s
        BY <1>2, <3>1 DEF Start, Goto, Typed, LimiterTypeOK
      <3>2. ASSUME NEW q \in Request, Step(q) \/ Resend(q) \/ PipelineFails(q)
            PROVE  FALSE
        <4>1. /\ pc[q] \in RedisCall \cup MapCall
              /\ \E label : pc' = [pc EXCEPT ![q] = label]
          BY <3>2, Moves
        <4> QED
          BY <1>2, <4>1 DEF RedisCall, MapCall, Typed, LimiterTypeOK
      <3>3. pc' # pc
        BY <1>2
      <3> QED
        BY <3>1, <3>2, <3>3, TickEffect
        DEF LimiterNext, MapFault, limiterVars, callVars
    <2>2. /\ now'[s] = clock /\ \A q \in 1 .. s - 1 : now[q] < clock
      BY <2>1 DEF Start, Typed, LimiterTypeOK
    <2>3. r < s
      BY <1>2 DEF Ordered, Request
    <2> QED
      BY <2>2, <2>3 DEF Typed, LimiterTypeOK, Request
  <1>3. ASSUME NEW s \in Peers(r)'
        PROVE  s \in Peers(r)
    <2>1. /\ s \in Request /\ pc'[s] \notin {"idle", "refused", "open"}
          /\ now'[s] \in now'[r] - Window + MaxDelay + 1 .. now'[r]
      BY <1>3 DEF Peers
    <2>2. pc[s] # "idle"
      BY <1>1, <1>2, <2>1
    <2> QED
      BY <1>1, <2>1, <2>2 DEF Peers
  <1> QED
    BY <1>3

LEMMA PeersFinite ==
    \A r : /\ IsFiniteSet(Peers(r)) /\ Cardinality(Peers(r)) \in Nat
          /\ IsFiniteSet(Peers(r)') /\ Cardinality(Peers(r)') \in Nat
  BY RequestsFinite DEF Peers

LEMMA HistoryGrows ==
    ASSUME Typed, [LimiterNext]_limiterVars
    PROVE  resends <= resends' /\ forgotten \subseteq forgotten'
  <1>0. resends \in Nat
    BY DEF Typed, LimiterTypeOK
  <1>1. ASSUME NEW r \in Request, Start(r) \/ Step(r) \/ PipelineFails(r)
        PROVE  UNCHANGED <<resends, forgotten>>
    BY <1>1 DEF Start, Step, ZRemRangeByScore, ZCard, ZAdd, Expire, Decide, ZPopMin, MapRead,
                MapWrite, PipelineFails
  <1>2. ASSUME NEW r \in Request, Resend(r)
        PROVE  resends' = resends + 1 /\ UNCHANGED forgotten
    BY <1>2 DEF Resend
  <1>3. CASE Tick
    BY <1>0, <1>3, TickEffect
  <1>4. CASE (\E r, s \in Request : MapFault(r, s)) \/ UNCHANGED limiterVars
    BY <1>0, <1>4 DEF MapFault, limiterVars, callVars
  <1> QED
    BY <1>0, <1>1, <1>2, <1>3, <1>4 DEF LimiterNext

LEMMA CountedKept ==
    ASSUME Typed, Typed', Ordered, [LimiterNext]_limiterVars, NEW q \in Request,
           CountedFor(q),
           pc'[q] \in {"add", "expire", "answer"} =>
               pc[q] \in {"add", "expire", "answer"} /\ count'[q] = count[q],
           pc'[q] = "allowed" =>
               pc[q] = "allowed" \/ (pc[q] = "answer" /\ count[q] < Limit)
    PROVE  CountedFor(q)'
  <1> USE LimiterAssumption
  <1>1. Debts \in Nat /\ Debts' \in Nat /\ Debts <= Debts'
    BY Sizes, SizesNext, DebtsGrow, HistoryGrows
  <1>2. ASSUME pc[q] # "idle"
        PROVE  /\ Cardinality(Peers(q)) \in Nat /\ Cardinality(Peers(q)') \in Nat
               /\ Cardinality(Peers(q)') <= Cardinality(Peers(q))
    <2>1. Peers(q)' \subseteq Peers(q)
      BY <1>2, PeersShrink
    <2> QED
      BY <2>1, PeersFinite, NoMore
  <1>3. count[q] \in Nat
    BY DEF Typed, LimiterTypeOK
  <1>4. CASE pc'[q] \in {"add", "expire", "answer"}
    <2>1. /\ pc[q] # "idle" /\ count'[q] = count[q]
          /\ Cardinality(Peers(q)) <= count[q] + MaxInFlight + Debts
      BY <1>4 DEF CountedFor
    <2>2. Cardinality(Peers(q)') <= count'[q] + MaxInFlight + Debts'
      BY <1>1, <1>2, <1>3, <2>1
    <2> QED
      BY <1>4, <2>2 DEF CountedFor
  <1>5. CASE pc'[q] = "allowed"
    <2>1. /\ pc[q] # "idle"
          /\ \/ Cardinality(Peers(q)) <= Limit - 1 + MaxInFlight + Debts
             \/ Cardinality(Peers(q)) <= count[q] + MaxInFlight + Debts /\ count[q] < Limit
      BY <1>5 DEF CountedFor
    <2>2. Cardinality(Peers(q)') <= Limit - 1 + MaxInFlight + Debts'
      BY <1>1, <1>2, <1>3, <2>1
    <2> QED
      BY <1>5, <2>2 DEF CountedFor
  <1> QED
    BY <1>4, <1>5 DEF CountedFor

LEMMA CountedInductive ==
    ASSUME Typed, Typed', Ordered, InFlightBounded, Balanced, Counted,
           [LimiterNext]_limiterVars
    PROVE  Counted'
  <1> USE LimiterAssumption
  <1> SUFFICES ASSUME backend' = "redis"
               PROVE  \A q \in Request : CountedFor(q)'
    BY DEF Counted
  <1>1. backend = "redis" /\ \A q \in Request : CountedFor(q)
    BY Persists DEF Counted
  <1>2. ASSUME NEW q \in Request,
               pc'[q] \in {"add", "expire", "answer"} =>
                   pc[q] \in {"add", "expire", "answer"} /\ count'[q] = count[q],
               pc'[q] = "allowed" =>
                   pc[q] = "allowed" \/ (pc[q] = "answer" /\ count[q] < Limit)
        PROVE  CountedFor(q)'
    BY <1>1, <1>2, CountedKept
  <1>3. ASSUME NEW r \in Request, ZCard(r), NEW q \in Request
        PROVE  CountedFor(q)'
    <2>1. /\ pc[r] = "count" /\ pc' = [pc EXCEPT ![r] = "add"]
          /\ count' = [count EXCEPT ![r] = Cardinality(entries)]
          /\ UNCHANGED <<resent, resends, forgotten>>
      BY <1>3 DEF ZCard, Goto
    <2>2. CASE q # r
      BY <1>2, <2>1, <2>2 DEF Typed, LimiterTypeOK
    <2>3. CASE q = r
      <3> DEFINE x == now[r] - Window + MaxDelay
      <3>1. x \in Int /\ x >= clock - Window
        BY <2>1 DEF Ordered, RedisCall, Typed, LimiterTypeOK
      <3>2. \A s \in Peers(r) : now[s] > x
        BY <3>1 DEF Peers, Typed, LimiterTypeOK
      <3> HIDE DEF x
      <3>3. Peers(r) \subseteq Live(x) \cup InFlight
        BY <3>2 DEF Peers, Live, InFlight, Done, Typed, LimiterTypeOK
      <3>4. IsFiniteSet(InFlight) /\ Cardinality(InFlight) \in Nat
        BY RequestsFinite DEF InFlight
      <3>5. Cardinality(Peers(r)) <= Cardinality(Live(x)) + Cardinality(InFlight)
        BY <3>3, <3>4, Sizes, BothTogether
      <3>6. Cardinality(Live(x)) <= Cardinality(Younger(x)) + Debts
        BY <1>1, <3>1 DEF Balanced, BalancedAt
      <3>7. Cardinality(Younger(x)) <= Cardinality(entries) /\ Cardinality(entries) \in Nat
        <4>1. IsFiniteSet(entries)
          BY TimesFinite DEF Typed, LimiterTypeOK
        <4>2. Younger(x) \subseteq entries
          BY DEF Younger
        <4> QED
          BY <4>1, <4>2, NoMore
      <3>8. /\ Cardinality(Live(x)) \in Nat /\ Cardinality(Younger(x)) \in Nat
            /\ Debts \in Nat /\ Debts' = Debts
        BY <2>1, Sizes DEF Debts
      <3>9. /\ Cardinality(Peers(r)) \in Nat /\ Cardinality(Peers(r)') \in Nat
            /\ Cardinality(Peers(r)') <= Cardinality(Peers(r))
        <4>1. Peers(r)' \subseteq Peers(r)
          BY <2>1, PeersShrink
        <4> QED
          BY <4>1, PeersFinite, NoMore
      <3>10. count'[r] = Cardinality(entries) /\ pc'[r] = "add"
        BY <2>1 DEF Typed, LimiterTypeOK
      <3>11. Cardinality(Peers(r)') <= count'[r] + MaxInFlight + Debts'
        BY <3>4, <3>5, <3>6, <3>7, <3>8, <3>9, <3>10 DEF InFlightBounded
      <3> QED
        BY <2>3, <3>10, <3>11 DEF CountedFor
    <2> QED
      BY <2>2, <2>3
  <1>4. ASSUME NEW r \in Request, Decide(r), NEW q \in Request
        PROVE  CountedFor(q)'
    BY <1>2, <1>4 DEF Decide, Goto, Typed, LimiterTypeOK
  <1>5. ASSUME NEW r \in Request, NEW q \in Request,
               \/ Start(r) \/ ZRemRangeByScore(r) \/ ZAdd(r) \/ Expire(r) \/ ZPopMin(r)
               \/ Resend(r) \/ PipelineFails(r)
        PROVE  CountedFor(q)'
    BY <1>2, <1>5
    DEF Start, ZRemRangeByScore, ZAdd, Expire, ZPopMin, Resend, PipelineFails, Goto, Typed,
        LimiterTypeOK
  <1>6. ASSUME NEW r \in Request, MapRead(r) \/ MapWrite(r)
        PROVE  FALSE
    BY <1>1, <1>6 DEF MapRead, MapWrite, Goto, Ordered, MapCall
  <1>7. ASSUME NEW q \in Request,
               Tick \/ (\E r, s \in Request : MapFault(r, s)) \/ UNCHANGED limiterVars
        PROVE  CountedFor(q)'
    BY <1>2, <1>7, TickEffect DEF MapFault, limiterVars, callVars
  <1> QED
    BY <1>3, <1>4, <1>5, <1>6, <1>7 DEF LimiterNext, Step

LEMMA AdmissionInit ==
    LimiterInit => Fresh /\ Renewed /\ Balanced /\ InFlightBounded /\ Counted
  <1> SUFFICES ASSUME LimiterInit
               PROVE  Fresh /\ Renewed /\ Balanced /\ InFlightBounded /\ Counted
    OBVIOUS
  <1>1. Fresh /\ Renewed /\ Counted
    BY DEF LimiterInit, Fresh, Renewed, Counted, CountedFor
  <1>2. InFlight = {} /\ \A x : Live(x) = {}
    BY DEF LimiterInit, InFlight, Live
  <1>3. Cardinality({}) = 0
    BY FS_EmptySet
  <1>4. InFlightBounded
    BY <1>2, <1>3, LimiterAssumption DEF InFlightBounded
  <1>5. Balanced
    <2>1. \A x : Cardinality(Younger(x)) \in Nat /\ Debts \in Nat
      BY Sizes, TypedInit
    <2>2. ASSUME NEW x
          PROVE  BalancedAt(x)
      <3>1. Cardinality(Live(x)) = 0
        BY <1>2, <1>3
      <3>2. 0 <= Cardinality(Younger(x)) + Debts
        BY <2>1
      <3> QED
        BY <3>1, <3>2 DEF BalancedAt
    <2> QED
      BY <2>2 DEF Balanced
  <1> QED
    BY <1>1, <1>4, <1>5

(***************************************************************************)
(* The promise of the Redis limiter, for every limit and window: in the    *)
(* window before an allowed request no more are allowed than the limit,    *)
(* one for each other request that can be in flight, one for each          *)
(* repetition of commands, however many the client makes, and one for each *)
(* call whose key expired between its ZADD and EXPIRE.                     *)
(***************************************************************************)
THEOREM AdmissionsBounded == LimiterSpec => []AdmittedBounded
  <1> DEFINE I == /\ Typed /\ Ordered /\ Fresh
                  /\ Renewed /\ Balanced /\ InFlightBounded /\ Counted
  <1>1. LimiterInit => I
    BY TypedInit, OrderedInit, AdmissionInit
  <1>2. I /\ [LimiterNext]_limiterVars => I'
    BY TypedInductive, OrderedInductive, FreshInductive, RenewedInductive, BalancedInductive,
       InFlightInductive, CountedInductive
  <1>3. I => AdmittedBounded
    <2> SUFFICES ASSUME I, backend = "redis", NEW r \in Allowed
                 PROVE  Cardinality({s \in Allowed :
                                       now[s] \in now[r] - Window + MaxDelay + 1 .. now[r]})
                          <= Limit + MaxInFlight - 1 + resends + Cardinality(forgotten)
      BY DEF AdmittedBounded
    <2> DEFINE A == {s \in Allowed : now[s] \in now[r] - Window + MaxDelay + 1 .. now[r]}
    <2>1. A \subseteq Peers(r) /\ r \in Request /\ pc[r] = "allowed"
      BY DEF Allowed, Peers
    <2> HIDE DEF A
    <2>2. /\ Cardinality(A) \in Nat /\ Cardinality(Peers(r)) \in Nat
          /\ Cardinality(A) <= Cardinality(Peers(r))
      BY <2>1, PeersFinite, NoMore
    <2>3. Cardinality(Peers(r)) <= Limit - 1 + MaxInFlight + Debts
      BY <2>1 DEF Counted, CountedFor
    <2>4. resends \in Nat /\ Cardinality(forgotten) \in Nat
      BY Sizes
    <2>5. Cardinality(A) <= Limit + MaxInFlight - 1 + resends + Cardinality(forgotten)
      BY <2>2, <2>3, <2>4, LimiterAssumption DEF Debts
    <2> QED
      BY <2>5 DEF A
  <1> QED
    BY <1>1, <1>2, <1>3, PTL DEF LimiterSpec

=============================================================================
