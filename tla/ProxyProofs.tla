---------------------------- MODULE ProxyProofs -----------------------------
(***************************************************************************)
(* Proofs about Proxy, for any number of services, instances, requests at  *)
(* once, and any TTL, lag and waiting time, with any number of handlers    *)
(* registering at once.                                                    *)
(***************************************************************************)
EXTENDS Proxy, RegistryProofs, FiniteSetTheorems

-----------------------------------------------------------------------------
(***************************************************************************)
(* The loop of GetHealthyInstances.  What it computes is shown by looking  *)
(* at the first turn that would go wrong.                                  *)
(***************************************************************************)

\* a set of numbers that is not empty has a least element
LEMMA Least ==
    ASSUME NEW T, T \subseteq Nat, T # {}
    PROVE  \E n \in T : \A m \in T : n <= m
  <1> DEFINE R == OpToRel(<, Nat)
  <1>1. \E n \in T : \A m \in T : ~ (<<m, n>> \in R)
    BY ONLY T \subseteq Nat, T # {}, WFMin, NatLessThanWellFounded, Zenon
  <1>2. \A m, n \in Nat : m < n => <<m, n>> \in R
    BY DEF OpToRel
  <1> HIDE DEF R
  <1>3. PICK n \in T : \A m \in T : ~ (<<m, n>> \in R)
    BY <1>1
  <1>4. ASSUME NEW m \in T
        PROVE  n <= m
    <2>1. m \in Nat /\ n \in Nat /\ ~ (<<m, n>> \in R)
      BY <1>3
    <2>2. ~ (m < n)
      BY <1>2, <2>1
    <2> QED
      BY <2>1, <2>2
  <1> QED
    BY <1>4

\* one turn of the loop: what healthy is after n ids
Turn(ids, healthy, n) ==
    IF n = 0 THEN << >>
    ELSE IF IsHealthy(ids[n]) THEN Append(healthy[n - 1], ids[n])
    ELSE healthy[n - 1]

\* the loop ends: there is a function that makes its turns
LEMMA LoopExists ==
    ASSUME NEW S, NEW ids \in Seq(S)
    PROVE  \E h : h = [n \in 0 .. Len(ids) |-> Turn(ids, h, n)]
  <1> DEFINE Ok(k, h) == h = [n \in 0 .. k |-> Turn(ids, h, n)]
             Bad == {k \in 0 .. Len(ids) : ~ \E h : Ok(k, h)}
  <1>0. Len(ids) \in Nat
    OBVIOUS
  <1>1. SUFFICES Bad = {}
    <2>1. \E h : Ok(Len(ids), h)
      <3> HIDE DEF Ok
      <3> QED
        BY <1>0, <1>1
    <2> QED
      BY <2>1
  <1>2. SUFFICES ASSUME Bad # {}
                 PROVE  FALSE
    OBVIOUS
  <1>3. Bad \subseteq Nat
    <2> HIDE DEF Ok
    <2> QED
      BY <1>0
  <1>4. PICK k \in Bad : \A m \in Bad : k <= m
    <2> HIDE DEF Bad
    <2> QED
      BY <1>2, <1>3, Least
  <1>5. k # 0
    <2>1. Ok(0, [n \in 0 .. 0 |-> << >>])
      BY DEF Turn
    <2> HIDE DEF Ok
    <2> QED
      BY <1>4, <2>1
  <1>6. k \in Nat \ {0}
    BY <1>3, <1>4, <1>5
  <1>7. PICK h : Ok(k - 1, h)
    <2> HIDE DEF Ok
    <2> QED
      BY <1>0, <1>4, <1>6
  <1> DEFINE e == [n \in 0 .. k |-> IF n = k THEN Turn(ids, h, k) ELSE h[n]]
  <1>8. ASSUME NEW n \in 0 .. k
        PROVE  e[n] = Turn(ids, e, n)
    <2>1. CASE n = k
      <3>1. e[n] = Turn(ids, h, k) /\ e[k - 1] = h[k - 1]
        <4> HIDE DEF Turn
        <4> QED
          BY <1>6, <2>1
      <3> HIDE DEF e
      <3> QED
        BY <1>6, <2>1, <3>1 DEF Turn
    <2>2. CASE n # k
      <3>1. e[n] = h[n] /\ (n # 0 => e[n - 1] = h[n - 1]) /\ n \in 0 .. k - 1
        BY <1>6, <2>2
      <3>2. h[n] = Turn(ids, h, n)
        <4> HIDE DEF Turn
        <4> QED
          BY <1>7, <3>1
      <3> HIDE DEF e
      <3> QED
        BY <1>6, <2>2, <3>1, <3>2 DEF Turn
    <2> QED
      BY <2>1, <2>2
  <1>9. Ok(k, e)
    <2> HIDE DEF Turn
    <2> QED
      BY <1>8
  <1> QED
    <2> HIDE DEF Ok
    <2> QED
      BY <1>4, <1>9

\* the loop, turn by turn
LEMMA LoopTurns ==
    ASSUME NEW S, NEW ids \in Seq(S)
    PROVE  \A n \in 0 .. Len(ids) : Healthy(ids)[n] = Turn(ids, Healthy(ids), n)
  <1> DEFINE Loops(h) == h = [n \in 0 .. Len(ids) |-> Turn(ids, h, n)]
  <1>1. Healthy(ids) = CHOOSE h : Loops(h)
    BY DEF Healthy, Turn
  <1>2. \E h : Loops(h)
    BY LoopExists
  <1>3. Loops(Healthy(ids))
    <2> HIDE DEF Loops
    <2> QED
      BY <1>1, <1>2
  <1> QED
    <2> HIDE DEF Turn
    <2> QED
      BY <1>3

(***************************************************************************)
(* What the loop makes of the first n ids: the healthy ones among them,    *)
(* some if there are any, none twice.                                      *)
(***************************************************************************)
Filtered(S, ids, list, n) ==
    /\ list \in Seq(S)
    /\ \A m \in 1 .. Len(list) : \E p \in 1 .. n : list[m] = ids[p] /\ IsHealthy(ids[p])
    /\ \A p \in 1 .. n : IsHealthy(ids[p]) => list # << >>
    /\ \A a, b \in 1 .. Len(list) : list[a] = list[b] => a = b

LEMMA TurnFilters ==
    ASSUME NEW S, NEW ids \in Seq(S), NEW n \in 1 .. Len(ids), NEW list, NEW next,
           \A a, b \in 1 .. Len(ids) : ids[a] = ids[b] => a = b,
           Filtered(S, ids, list, n - 1),
           next = IF IsHealthy(ids[n]) THEN Append(list, ids[n]) ELSE list
    PROVE  Filtered(S, ids, next, n)
  <1>1. CASE IsHealthy(ids[n])
    <2>1. /\ next \in Seq(S) /\ Len(next) = Len(list) + 1 /\ next[Len(next)] = ids[n]
          /\ \A m \in 1 .. Len(list) : next[m] = list[m]
      BY <1>1 DEF Filtered
    <2>2. Len(list) \in Nat /\ n \in Nat \ {0}
      BY DEF Filtered
    <2>3. \A m \in 1 .. Len(list) : list[m] # ids[n]
      BY <2>2 DEF Filtered
    <2>4. \A m \in 1 .. Len(next) : \E p \in 1 .. n : next[m] = ids[p] /\ IsHealthy(ids[p])
      BY <1>1, <2>1, <2>2 DEF Filtered
    <2>5. next # << >>
      <3>1. Len(next) # 0
        BY <2>1, <2>2
      <3>2. Len(<< >>) = 0
        OBVIOUS
      <3> QED
        BY ONLY <3>1, <3>2, Zenon
    <2>6. ASSUME NEW a \in 1 .. Len(next), NEW b \in 1 .. Len(next), next[a] = next[b]
          PROVE  a = b
      BY <2>1, <2>2, <2>3, <2>6 DEF Filtered
    <2> QED
      BY <2>1, <2>4, <2>5, <2>6 DEF Filtered
  <1>2. CASE ~ IsHealthy(ids[n])
    <2>1. next = list /\ n \in Nat \ {0}
      BY <1>2
    <2> QED
      BY <1>2, <2>1 DEF Filtered
  <1> QED
    BY <1>1, <1>2

LEMMA LoopFilters ==
    ASSUME NEW S, NEW ids \in Seq(S),
           \A a, b \in 1 .. Len(ids) : ids[a] = ids[b] => a = b
    PROVE  Filtered(S, ids, Healthy(ids)[Len(ids)], Len(ids))
  <1> DEFINE Bad == {n \in 0 .. Len(ids) : ~ Filtered(S, ids, Healthy(ids)[n], n)}
  <1>0. Len(ids) \in Nat
    OBVIOUS
  <1>1. SUFFICES ASSUME Bad # {}
                 PROVE  FALSE
    BY <1>0
  <1>2. PICK k \in Bad : \A m \in Bad : k <= m
    <2>1. Bad \subseteq Nat
      BY <1>0
    <2> HIDE DEF Bad
    <2> QED
      BY <1>1, <2>1, Least
  <1>3. CASE k = 0
    <2>1. Healthy(ids)[0] = << >>
      BY <1>0, LoopTurns DEF Turn
    <2>2. Filtered(S, ids, << >>, 0)
      BY DEF Filtered
    <2> QED
      BY <1>2, <1>3, <2>1, <2>2
  <1>4. CASE k # 0
    <2>1. k \in 1 .. Len(ids) /\ k - 1 \in 0 .. Len(ids) /\ ~ (k <= k - 1)
      BY <1>0, <1>2, <1>4
    <2>2. Filtered(S, ids, Healthy(ids)[k - 1], k - 1)
      BY <1>2, <2>1
    <2>3. Healthy(ids)[k] = Turn(ids, Healthy(ids), k)
      BY <1>2, LoopTurns
    <2>4. Filtered(S, ids, Healthy(ids)[k], k)
      BY <1>4, <2>1, <2>2, <2>3, TurnFilters DEF Turn
    <2> QED
      BY <1>2, <2>4
  <1> QED
    BY <1>3, <1>4

-----------------------------------------------------------------------------
(***************************************************************************)
(* The registry under the proxy.                                           *)
(***************************************************************************)

\* every step of the proxy is one of the registry, or does not concern it
LEMMA RegistrySteps == [ProxyNext]_proxyVars => [Next]_vars
  <1> SUFFICES ASSUME [ProxyNext]_proxyVars
               PROVE  [Next]_vars
    OBVIOUS
  <1>1. ASSUME NEW g \in Handling, NEW m \in HTTPMethod, NEW path \in RequestPaths,
               Match(g, m, path)
        PROVE  UNCHANGED vars
    BY <1>1 DEF Match
  <1>2. ASSUME NEW g \in Handling,
               Denied(g) \/ Pick(g) \/ Unavailable(g) \/ Select(g) \/ Forward(g)
        PROVE  UNCHANGED vars
    BY <1>2 DEF Denied, Pick, Unavailable, Select, Forward
  <1>3. CASE RegistryStep
    BY <1>3 DEF RegistryStep, Next
  <1>4. CASE ProxyTick \/ ProxyRestart
    BY <1>4 DEF ProxyTick, ProxyRestart, Next
  <1>5. CASE UNCHANGED proxyVars
    BY <1>5 DEF proxyVars
  <1> QED
    BY <1>1, <1>2, <1>3, <1>4, <1>5 DEF ProxyNext

(***************************************************************************)
(* The proxy only reads the registry: whatever holds of the registry holds *)
(* of the one it looks at.                                                 *)
(***************************************************************************)
THEOREM ProxyKeepsRegistry == ProxySpec => Spec
  <1>1. ProxyInit => Init
    BY DEF ProxyInit
  <1> QED
    BY <1>1, RegistrySteps, PTL DEF ProxySpec, Spec

(***************************************************************************)
(* GetHealthyInstances: ids of healthy instances, no more than there are   *)
(* ids, and at least one if the service has a healthy instance.            *)
(***************************************************************************)
LEMMA HealthyList ==
    ASSUME MapsOK, NEW s
    PROVE  /\ GetHealthyInstances(s) \in Seq(InstanceID)
           /\ \A n \in 1 .. Len(GetHealthyInstances(s)) :
                 IsHealthy(GetHealthyInstances(s)[n])
           /\ Len(GetHealthyInstances(s)) <= Cardinality(InstanceID)
           /\ s \in Available => GetHealthyInstances(s) # << >>
  <1>0. Cardinality(InstanceID) \in Nat
    BY CycleAssumption, FS_CardinalityType
  <1>1. CASE s \notin DOMAIN services
    <2>1. GetHealthyInstances(s) = << >>
      BY <1>1 DEF GetHealthyInstances
    <2>2. s \notin Available
      BY <1>1 DEF Available, IsHealthy, MapsOK, IndexConsistent, EveryInstanceListed
    <2> QED
      BY <1>0, <2>1, <2>2
  <1>2. CASE s \in DOMAIN services
    <2> DEFINE ids == services[s]
               list == GetHealthyInstances(s)
    <2>1. ids \in Seq(InstanceID) /\ \A a, b \in 1 .. Len(ids) : ids[a] = ids[b] => a = b
      BY <1>2 DEF MapsOK, TypeOK, IndexConsistent, ListsExact
    <2>2. list = Healthy(ids)[Len(ids)]
      BY <1>2 DEF GetHealthyInstances
    <2>3. Filtered(InstanceID, ids, list, Len(ids))
      BY <2>1, <2>2, LoopFilters
    <2>4. s \in Available => list # << >>
      <3> SUFFICES ASSUME s \in Available
                   PROVE  list # << >>
        OBVIOUS
      <3>1. PICK i \in DOMAIN instances : IsHealthy(i) /\ instances[i].ServiceName = s
        BY DEF Available
      <3>2. \E n \in 1 .. Len(ids) : ids[n] = i
        BY <3>1 DEF MapsOK, IndexConsistent, EveryInstanceListed
      <3> QED
        BY <2>3, <3>1, <3>2 DEF Filtered
    <2> HIDE DEF ids, list
    <2>5. Len(list) <= Cardinality(InstanceID)
      <3>1. list \in Injection(1 .. Len(list), InstanceID)
        <4>1. list \in [1 .. Len(list) -> InstanceID]
          BY <2>3 DEF Filtered
        <4>2. \A a, b \in 1 .. Len(list) : list[a] = list[b] => a = b
          BY <2>3 DEF Filtered
        <4> QED
          BY <4>1, <4>2 DEF Injection, IsInjective
      <3>2. Len(list) \in Nat
        BY <2>3 DEF Filtered
      <3>3. Cardinality(1 .. Len(list)) = Len(list)
        <4>1. Cardinality(1 .. Len(list)) = IF 1 > Len(list) THEN 0 ELSE Len(list) - 1 + 1
          BY ONLY <3>2, FS_Interval
        <4> QED
          BY <3>2, <4>1
      <3>4. Cardinality(1 .. Len(list)) <= Cardinality(InstanceID)
        BY <3>1, CycleAssumption, FS_Injection
      <3> QED
        BY <3>3, <3>4
    <2>6. list \in Seq(InstanceID) /\ \A n \in 1 .. Len(list) : IsHealthy(list[n])
      BY <2>3 DEF Filtered
    <2> QED
      BY <2>4, <2>5, <2>6 DEF list
  <1> QED
    BY <1>1, <1>2

\* a set of bounded numbers has a greatest element
LEMMA Greatest ==
    ASSUME NEW A, NEW c \in Nat, A \subseteq 0 .. c, A # {}
    PROVE  \E a \in A : \A b \in A : b <= a
  <1> DEFINE T == {c - a : a \in A}
  <1>1. T \subseteq Nat /\ T # {}
    <2>1. \A a \in A : c - a \in Nat
      OBVIOUS
    <2> QED
      BY <2>1
  <1>2. PICK n \in T : \A m \in T : n <= m
    <2> HIDE DEF T
    <2> QED
      BY <1>1, Least
  <1>3. PICK a \in A : n = c - a
    OBVIOUS
  <1>4. ASSUME NEW b \in A
        PROVE  b <= a
    <2>1. c - b \in T
      OBVIOUS
    <2>2. c - a <= c - b
      BY <1>2, <1>3, <2>1
    <2> QED
      BY <2>2
  <1> QED
    BY <1>4

-----------------------------------------------------------------------------
(***************************************************************************)
(* The requests.                                                           *)
(***************************************************************************)

(***************************************************************************)
(* A request between two of its steps.  A target's silence grows with the  *)
(* request's waiting only, and has been bounded when the list was read if  *)
(* the cleanup loop runs now: the loop does not come back without a        *)
(* restart.                                                                *)
(***************************************************************************)
RequestOK(r) ==
    /\ r \in Req
    /\ r.stage = "select" => Len(r.healthy) \in 1 .. Cardinality(InstanceID)
    /\ r.silent <= AgeCap + r.waited
    /\ looping /\ r.stage = "select" => r.silent <= TTL + Interval + Lag + r.waited
    /\ Unlocked /\ r.steady => r.entry \in Available

RequestsOK == /\ DOMAIN req = Handling /\ req = [g \in Handling |-> req[g]]
              /\ \A g \in Handling : RequestOK(req[g])

LEMMA CapTypes ==
    /\ MaxWait \in Nat /\ AgeCap \in Nat /\ Interval \in Nat /\ TTL \in Nat /\ Lag \in Nat
    /\ Cardinality(InstanceID) \in Nat
  BY TimeTypes, WaitAssumption, CycleAssumption, FS_CardinalityType

\* a request nothing is known of
LEMMA AtOK ==
    ASSUME NEW stage \in {"idle", "auth", "forward"}
    PROVE  RequestOK(At(stage)) /\ RequestOK(At(stage))'
  BY CapTypes DEF RequestOK, At, Req

\* one request takes a step of its own
LEMMA OneRequest ==
    ASSUME RequestsOK, UNCHANGED vars, NEW g \in Handling, NEW r, RequestOK(r),
           req' = [req EXCEPT ![g] = r]
    PROVE  RequestsOK'
  <1>1. \A h \in Handling : req'[h] = IF h = g THEN r ELSE req[h]
    BY DEF RequestsOK
  <1>2. \A q : RequestOK(q)' <=> RequestOK(q)
    BY DEF RequestOK, Unlocked, Available, IsHealthy, vars
  <1>3. DOMAIN req' = Handling /\ req' = [h \in Handling |-> req'[h]]
    BY DEF RequestsOK
  <1> QED
    BY <1>1, <1>2, <1>3 DEF RequestsOK


LEMMA MatchStep ==
    ASSUME IInv, RequestsOK, NEW g \in Handling, NEW m, NEW path, Match(g, m, path)
    PROVE  RequestsOK'
  <1>1. PICK s \in MatchRoute(m, path) :
            req' = [req EXCEPT ![g] = [At("auth") EXCEPT
                      !.entry = s, !.steady = s \in Available]]
    BY DEF Match
  <1>2. s \in Service
    BY DEF MatchRoute, MatchingKeys, IInv, MapsOK, TypeOK
  <1> DEFINE r == [At("auth") EXCEPT !.entry = s, !.steady = s \in Available]
  <1>3. r \in Req
    <2>1. At("auth") \in Req
      BY AtOK DEF RequestOK
    <2>2. \A x \in Req, b \in BOOLEAN : [x EXCEPT !.entry = s, !.steady = b] \in Req
      BY <1>2 DEF Req
    <2>3. (s \in Available) \in BOOLEAN
      OBVIOUS
    <2> QED
      BY ONLY <2>1, <2>2, <2>3, Zenon DEF r
  <1>4. /\ r.stage = "auth" /\ r.entry = s /\ r.waited = 0 /\ r.silent = 0
        /\ r.steady = (s \in Available)
    BY DEF At
  <1>5. req' = [req EXCEPT ![g] = r]
    BY <1>1
  <1> HIDE DEF r
  <1>6. RequestOK(r)
    <2>1. r.stage # "select" /\ r.silent <= AgeCap + r.waited
      BY <1>4, CapTypes
    <2>2. r.steady => r.entry \in Available
      BY ONLY <1>4
    <2> QED
      BY ONLY <1>3, <2>1, <2>2 DEF RequestOK
  <1> QED
    BY <1>5, <1>6, OneRequest DEF Match

\* the longest silence in a list of healthy instances is known to the registry
LEMMA LongestSilence ==
    ASSUME IInv, Unlocked, NEW list \in Seq(InstanceID), list # << >>,
           \A n \in 1 .. Len(list) : IsHealthy(list[n])
    PROVE  LET ages == {instances[list[n]].elapsed : n \in 1 .. Len(list)}
               a == CHOOSE a \in ages : \A b \in ages : b <= a
           IN /\ a \in 0 .. AgeCap
              /\ looping => a <= TTL + Interval + Lag
  <1> DEFINE ages == {instances[list[n]].elapsed : n \in 1 .. Len(list)}
             Longest(a) == \A b \in ages : b <= a
             silence == CHOOSE a \in ages : Longest(a)
  <1>1. \A n \in 1 .. Len(list) :
            /\ list[n] \in DOMAIN instances \ toRemove
            /\ instances[list[n]].Status = "healthy"
            /\ instances[list[n]].elapsed \in 0 .. AgeCap
    BY DEF IsHealthy, Unlocked, IInv, MapsOK, TypeOK, Instance
  <1>2. ages \subseteq 0 .. AgeCap /\ ages # {}
    <2>1. 1 \in 1 .. Len(list)
      OBVIOUS
    <2> QED
      BY <1>1, <2>1
  <1>3. \E a \in ages : Longest(a)
    <2> HIDE DEF ages
    <2> QED
      BY <1>2, CapTypes, Greatest
  <1>4. silence \in ages
    <2> HIDE DEF ages, Longest
    <2> QED
      BY <1>3
  <1> HIDE DEF silence
  <1>5. PICK n \in 1 .. Len(list) : silence = instances[list[n]].elapsed
    BY <1>4
  <1>6. looping => silence <= TTL + Interval + Lag
    <2>1. looping => silence <= TTL + timer
      BY <1>1, <1>5 DEF IInv, HealthyFresh
    <2>2. timer \in 0 .. Interval + Lag
      BY DEF IInv, MapsOK, TypeOK
    <2> QED
      BY <1>1, <1>5, <2>1, <2>2, CapTypes
  <1> QED
    BY <1>1, <1>5, <1>6 DEF silence

LEMMA PickStep ==
    ASSUME IInv, RequestsOK, NEW g \in Handling, Pick(g)
    PROVE  RequestsOK'
  <1> DEFINE found == GetHealthyInstances(req[g].entry)
             ages == {instances[found[n]].elapsed : n \in 1 .. Len(found)}
             silence == CHOOSE a \in ages : \A b \in ages : b <= a
             r == [At("select") EXCEPT !.healthy = found, !.waited = req[g].waited,
                                       !.silent = silence]
  <1>1. /\ found # << >>
        /\ req' = [req EXCEPT ![g] = r]
        /\ Unlocked /\ UNCHANGED vars
    BY DEF Pick
  <1>2. /\ found \in Seq(InstanceID)
        /\ \A n \in 1 .. Len(found) : IsHealthy(found[n])
        /\ Len(found) <= Cardinality(InstanceID)
    BY HealthyList DEF IInv
  <1> HIDE DEF found
  <1>3. silence \in 0 .. AgeCap /\ (looping => silence <= TTL + Interval + Lag)
    BY <1>1, <1>2, LongestSilence
  <1>4. Len(found) \in 1 .. Cardinality(InstanceID)
    BY <1>1, <1>2, CapTypes
  <1> HIDE DEF silence
  <1>5. req[g].waited \in 0 .. MaxWait
    BY DEF RequestsOK, RequestOK, Req
  <1>6. /\ r.stage = "select" /\ ~ r.steady /\ r.healthy = found
        /\ r.waited = req[g].waited /\ r.silent = silence
    BY DEF At
  <1>7. r \in Req
    <2>2. At("select") \in Req
      BY CapTypes DEF At, Req
    <2>3. silence \in 0 .. AgeCap + MaxWait
      BY <1>3, CapTypes
    <2>4. \A x \in Req, w \in 0 .. MaxWait, a \in 0 .. AgeCap + MaxWait :
             [x EXCEPT !.healthy = found, !.waited = w, !.silent = a] \in Req
      BY <1>2 DEF Req
    <2> QED
      BY ONLY <1>5, <2>2, <2>3, <2>4, Zenon DEF r
  <1> HIDE DEF r
  <1>8. RequestOK(r)
    BY <1>3, <1>4, <1>5, <1>6, <1>7, CapTypes DEF RequestOK
  <1> QED
    BY <1>1, <1>8, OneRequest

\* the registry moves, and the requests observe it
LEMMA ObserveStep ==
    ASSUME RequestsOK, Observe, looping' => looping
    PROVE  RequestsOK'
  <1>1. ASSUME NEW g \in Handling
        PROVE  RequestOK(req[g])'
    <2>0. PICK r, q : r = req[g] /\ q = req'[g]
      OBVIOUS
    <2>1. q = [r EXCEPT !.steady = @ /\ (Unlocked' => r.entry \in Available')]
      BY <2>0 DEF Observe
    <2>2. RequestOK(r)
      BY <2>0 DEF RequestsOK
    <2>3. /\ q.stage = r.stage /\ q.entry = r.entry /\ q.healthy = r.healthy
          /\ q.waited = r.waited /\ q.silent = r.silent
          /\ q.steady = (r.steady /\ (Unlocked' => r.entry \in Available'))
          /\ q \in Req
      BY <2>1, <2>2 DEF RequestOK, Req
    <2>4. RequestOK(q)'
      BY <2>2, <2>3 DEF RequestOK
    <2> QED
      BY <2>0, <2>4 DEF RequestOK
  <1>2. DOMAIN req' = Handling /\ req' = [g \in Handling |-> req'[g]]
    BY DEF Observe
  <1> QED
    BY <1>1, <1>2 DEF RequestsOK

\* time passes: no instance changes its status, and silence and waiting grow alike
LEMMA TickStep ==
    ASSUME IInv, RequestsOK, ProxyTick
    PROVE  RequestsOK'
  <1>1. Available' = Available /\ (Unlocked' <=> Unlocked) /\ looping' = looping
    <2>1. /\ DOMAIN instances' = DOMAIN instances
          /\ \A i \in DOMAIN instances :
                /\ instances'[i].ServiceName = instances[i].ServiceName
                /\ instances'[i].Status = instances[i].Status
      BY DEF ProxyTick, Tick, IInv, MapsOK, TypeOK, Instance
    <2>2. \A i : IsHealthy(i)' <=> IsHealthy(i)
      BY <2>1 DEF IsHealthy
    <2>3. Available' = Available
      BY <2>1, <2>2 DEF Available
    <2> QED
      BY <2>3 DEF ProxyTick, Tick, Unlocked
  <1>2. ASSUME NEW g \in Handling
        PROVE  RequestOK(req[g])'
    <2>0. PICK r, q : r = req[g] /\ q = req'[g]
      OBVIOUS
    <2>1. q = CASE r.stage = "auth" -> [r EXCEPT !.waited = @ + 1]
                [] r.stage = "select" -> [r EXCEPT !.waited = @ + 1, !.silent = @ + 1]
                [] OTHER -> r
      BY <2>0 DEF ProxyTick
    <2>2. RequestOK(r) /\ (r.stage \in {"auth", "select"} => r.waited < MaxWait)
      BY <2>0 DEF RequestsOK, ProxyTick
    <2>3. CASE r.stage = "auth"
      <3>1. /\ q.stage = r.stage /\ q.entry = r.entry /\ q.healthy = r.healthy
            /\ q.waited = r.waited + 1 /\ q.silent = r.silent /\ q.steady = r.steady
            /\ q \in Req
        <4>1. r \in Req /\ r.waited + 1 \in 0 .. MaxWait
          BY <2>2, <2>3, CapTypes DEF RequestOK, Req
        <4> QED
          BY <2>1, <2>3, <4>1 DEF Req
      <3>2. r.waited \in Nat /\ r.silent \in Nat
        BY <2>2 DEF RequestOK, Req
      <3>3. RequestOK(q)'
        BY <1>1, <2>2, <2>3, <3>1, <3>2, CapTypes DEF RequestOK
      <3> QED
        BY <2>0, <3>3 DEF RequestOK
    <2>4. CASE r.stage = "select"
      <3>1. r.waited \in 0 .. MaxWait /\ r.silent \in Nat
        BY <2>2 DEF RequestOK, Req
      <3>2. r.waited + 1 \in 0 .. MaxWait /\ r.silent + 1 \in 0 .. AgeCap + MaxWait
        BY <2>2, <2>4, <3>1, CapTypes DEF RequestOK
      <3>3. /\ q.stage = r.stage /\ q.entry = r.entry /\ q.healthy = r.healthy
            /\ q.waited = r.waited + 1 /\ q.silent = r.silent + 1 /\ q.steady = r.steady
            /\ q \in Req
        BY <2>1, <2>2, <2>4, <3>2 DEF RequestOK, Req
      <3>4. RequestOK(q)'
        <4>1. q.silent <= AgeCap + q.waited
          BY <2>2, <3>1, <3>3, CapTypes DEF RequestOK
        <4>2. looping' => q.silent <= TTL + Interval + Lag + q.waited
          BY <1>1, <2>2, <2>4, <3>1, <3>3, CapTypes DEF RequestOK
        <4>3. Unlocked' /\ q.steady => q.entry \in Available'
          BY ONLY <1>1, <2>2, <3>3 DEF RequestOK
        <4>4. Len(q.healthy) \in 1 .. Cardinality(InstanceID)
          BY <2>2, <2>4, <3>3 DEF RequestOK
        <4> QED
          BY ONLY <3>3, <4>1, <4>2, <4>3, <4>4 DEF RequestOK
      <3> QED
        BY <2>0, <3>4 DEF RequestOK
    <2>5. CASE r.stage \notin {"auth", "select"}
      <3>1. q = r
        BY <2>1, <2>5
      <3>2. RequestOK(q)'
        BY <1>1, <2>2, <2>5, <3>1 DEF RequestOK
      <3> QED
        BY <2>0, <3>2 DEF RequestOK
    <2> QED
      BY <2>3, <2>4, <2>5
  <1>3. DOMAIN req' = Handling /\ req' = [g \in Handling |-> req'[g]]
    BY DEF ProxyTick
  <1> QED
    BY <1>2, <1>3 DEF RequestsOK

LEMMA RequestsInductive == IInv /\ RequestsOK /\ [ProxyNext]_proxyVars => RequestsOK'
  <1> SUFFICES ASSUME IInv, RequestsOK, [ProxyNext]_proxyVars
               PROVE  RequestsOK'
    OBVIOUS
  <1>1. ASSUME NEW g \in Handling, NEW m \in HTTPMethod, NEW path \in RequestPaths,
               Match(g, m, path)
        PROVE  RequestsOK'
    BY <1>1, MatchStep
  <1>2. ASSUME NEW g \in Handling, Denied(g) \/ Unavailable(g) \/ Forward(g)
        PROVE  RequestsOK'
    <2>1. UNCHANGED vars /\ req' = [req EXCEPT ![g] = At("idle")]
      BY <1>2 DEF Denied, Unavailable, Forward
    <2> QED
      BY <2>1, AtOK, OneRequest
  <1>3. ASSUME NEW g \in Handling, Select(g)
        PROVE  RequestsOK'
    <2>1. UNCHANGED vars /\ req' = [req EXCEPT ![g] = At("forward")]
      BY <1>3 DEF Select
    <2> QED
      BY <2>1, AtOK, OneRequest
  <1>4. ASSUME NEW g \in Handling, Pick(g)
        PROVE  RequestsOK'
    BY <1>4, PickStep
  <1>5. CASE RegistryStep
    <2>1. Observe
      BY <1>5 DEF RegistryStep
    <2>2. looping' => looping
      BY <1>5 DEF RegistryStep, RegisterValidate, RegisterCommit, Deregister, Heartbeat,
                  CleanupRemove, CleanupScan, Stop, CleanupLoopExit
    <2> QED
      BY <2>1, <2>2, ObserveStep
  <1>6. CASE ProxyTick
    BY <1>6, TickStep
  <1>7. CASE ProxyRestart
    <2>1. req' = [g \in Handling |-> At("idle")]
      BY <1>7 DEF ProxyRestart
    <2> QED
      BY <2>1, AtOK DEF RequestsOK
  <1>8. CASE UNCHANGED proxyVars
    BY <1>8 DEF proxyVars, vars, RequestsOK, RequestOK, Unlocked, Available, IsHealthy
  <1> QED
    BY <1>1, <1>2, <1>3, <1>4, <1>5, <1>6, <1>7, <1>8 DEF ProxyNext


LEMMA CounterInductive ==
    ASSUME counter \in 0 .. Cycle - 1, [ProxyNext]_proxyVars
    PROVE  counter' \in 0 .. Cycle - 1
  <1>1. \A c \in Nat : c % Cycle \in 0 .. Cycle - 1
    BY CycleAssumption
  <1>2. ASSUME NEW g \in Handling, Select(g)
        PROVE  counter' \in 0 .. Cycle - 1
    BY <1>1, <1>2, CycleAssumption DEF Select
  <1>3. CASE ProxyRestart
    BY <1>3, CycleAssumption DEF ProxyRestart
  <1>4. ASSUME NEW g \in Handling,
               \/ \E m \in HTTPMethod, path \in RequestPaths : Match(g, m, path)
               \/ Denied(g) \/ Pick(g) \/ Unavailable(g) \/ Forward(g)
        PROVE  UNCHANGED counter
    BY <1>4 DEF Match, Denied, Pick, Unavailable, Forward
  <1>5. CASE RegistryStep \/ ProxyTick \/ UNCHANGED proxyVars
    BY <1>5 DEF RegistryStep, ProxyTick, proxyVars
  <1> QED
    BY <1>2, <1>3, <1>4, <1>5 DEF ProxyNext

-----------------------------------------------------------------------------
(***************************************************************************)
(* The theorems.                                                           *)
(***************************************************************************)

CounterOK == counter \in 0 .. Cycle - 1

LEMMA ProxyInvariant == ProxySpec => [](IInv /\ RequestsOK /\ CounterOK)
  <1>1. ProxyInit => RequestsOK /\ CounterOK
    BY AtOK, CycleAssumption DEF ProxyInit, RequestsOK, CounterOK
  <1>2. CounterOK /\ [ProxyNext]_proxyVars => CounterOK'
    BY CounterInductive DEF CounterOK
  <1> QED
    BY <1>1, <1>2, ProxyKeepsRegistry, Inductive, RequestsInductive, PTL DEF ProxySpec

(***************************************************************************)
(* What Handle works with is well formed; in particular no request comes   *)
(* to Select with an empty list, however the registry changes meanwhile.   *)
(***************************************************************************)
THEOREM ProxyTyped == ProxySpec => []ProxyTypeOK
  <1>1. IInv /\ RequestsOK /\ CounterOK => ProxyTypeOK
    <2> SUFFICES ASSUME IInv, RequestsOK, CounterOK
                 PROVE  ProxyTypeOK
      OBVIOUS
    <2>1. ASSUME NEW g \in Handling, req[g].stage = "select"
          PROVE  req[g].healthy # << >>
      <3>1. Len(req[g].healthy) # 0 /\ Len(<< >>) = 0
        BY <2>1, CapTypes DEF RequestsOK, RequestOK
      <3> QED
        BY ONLY <3>1, Zenon
    <2> QED
      BY <2>1 DEF ProxyTypeOK, IInv, MapsOK, RequestsOK, RequestOK, CounterOK
  <1> QED
    BY <1>1, ProxyInvariant, PTL

(***************************************************************************)
(* A request's target has been silent for at most the TTL, one late        *)
(* cleanup period and the request's own time, for all of their values.     *)
(***************************************************************************)
THEOREM TargetsFresh == ProxySpec => []TargetFresh
  <1>1. RequestsOK => TargetFresh
    <2> SUFFICES ASSUME RequestsOK, looping, NEW g \in Handling, req[g].stage = "select"
                 PROVE  req[g].silent <= MaxSilence
      BY DEF TargetFresh
    <2>1. /\ req[g].silent <= TTL + Interval + Lag + req[g].waited
          /\ req[g].silent \in Nat /\ req[g].waited \in 0 .. MaxWait
      BY DEF RequestsOK, RequestOK, Req
    <2> QED
      BY <2>1, CapTypes DEF MaxSilence
  <1> QED
    BY <1>1, ProxyInvariant, PTL

(***************************************************************************)
(* The proxy answers 503 only if the service was without a healthy         *)
(* instance at some moment since the request's route was found.            *)
(***************************************************************************)
THEOREM NoFalseUnavailable == ProxySpec => ServedWhileAvailable
  <1>1. ASSUME IInv, RequestsOK, NEW g \in Handling, Unavailable(g)
        PROVE  ~ req[g].steady
    <2>1. Unlocked /\ GetHealthyInstances(req[g].entry) = << >>
      BY <1>1 DEF Unavailable
    <2>2. req[g].entry \notin Available
      BY <1>1, <2>1, HealthyList DEF IInv
    <2> QED
      BY <1>1, <2>1, <2>2 DEF RequestsOK, RequestOK
  <1>2. IInv /\ RequestsOK =>
            [\A g \in Handling : Unavailable(g) => ~ req[g].steady]_proxyVars
    BY <1>1
  <1> QED
    BY <1>2, ProxyInvariant, PTL DEF ServedWhileAvailable

=============================================================================
