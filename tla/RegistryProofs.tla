--------------------------- MODULE RegistryProofs ---------------------------
(***************************************************************************)
(* Proofs about the registry for any number of services, keys, instances,  *)
(* handlers, and any TTL, cleanup lag and commit delay.                    *)
(***************************************************************************)
EXTENDS Registry, SequenceTheorems, TLAPS

-----------------------------------------------------------------------------
(***************************************************************************)
(* Drop, the removal of an id from an instance list.                       *)
(***************************************************************************)

(***************************************************************************)
(* Where the id occurs once, Drop closes the gap it leaves: the result is  *)
(* one shorter, and the ids behind the gap move up by one.                 *)
(***************************************************************************)
LEMMA DropIndex ==
    ASSUME NEW S, NEW ids \in Seq(S), NEW n \in 1 .. Len(ids),
           \A a, b \in 1 .. Len(ids) : ids[a] = ids[b] => a = b
    PROVE  /\ Drop(ids, ids[n]) \in Seq(S)
           /\ Len(Drop(ids, ids[n])) = Len(ids) - 1
           /\ \A m \in 1 .. Len(ids) - 1 :
                 Drop(ids, ids[n])[m] = IF m < n THEN ids[m] ELSE ids[m + 1]
<1>1. \E m \in 1 .. Len(ids) : ids[m] = ids[n]
  OBVIOUS
<1> DEFINE First(m) == ids[m] = ids[n] /\ \A p \in 1 .. m - 1 : ids[p] # ids[n]
<1>2. First(n)
  OBVIOUS
<1>3. \A m \in 1 .. Len(ids) : First(m) => m = n
  OBVIOUS
<1>4. (CHOOSE m \in 1 .. Len(ids) : First(m)) = n
  <2> HIDE DEF First
  <2> QED BY <1>2, <1>3
<1>5. Drop(ids, ids[n]) = SubSeq(ids, 1, n - 1) \o SubSeq(ids, n + 1, Len(ids))
  BY <1>1, <1>4 DEF Drop
<1> DEFINE front == SubSeq(ids, 1, n - 1)
           back == SubSeq(ids, n + 1, Len(ids))
<1>6. /\ front \in Seq(S)
      /\ Len(front) = n - 1
      /\ \A m \in 1 .. n - 1 : front[m] = ids[m]
  BY SubSeqProperties
<1>7. /\ back \in Seq(S)
      /\ Len(back) = Len(ids) - n
      /\ \A m \in 1 .. Len(ids) - n : back[m] = ids[n + m]
  BY SubSeqProperties
<1> HIDE DEF front, back
<1> DEFINE rest == front \o back
<1>8. /\ rest \in Seq(S)
      /\ Len(rest) = Len(front) + Len(back)
      /\ \A m \in 1 .. Len(front) + Len(back) : rest[m] =
            IF m <= Len(front) THEN front[m] ELSE back[m - Len(front)]
  <2>1. front \in Seq(S) /\ back \in Seq(S)
    BY <1>6, <1>7
  <2> QED BY ONLY <2>1, ConcatProperties, Zenon
<1> HIDE DEF rest
<1>9. ASSUME NEW m \in 1 .. Len(ids) - 1
      PROVE  rest[m] = IF m < n THEN ids[m] ELSE ids[m + 1]
  <2>1. CASE m < n
    BY <2>1, <1>6, <1>7, <1>8
  <2>2. CASE m >= n
    <3>1. m \in 1 .. Len(front) + Len(back) /\ ~ (m <= Len(front))
      BY <2>2, <1>6, <1>7
    <3>2. rest[m] = back[m - Len(front)]
      BY <3>1, <1>8
    <3> DEFINE q == m - Len(front)
    <3>3. q \in 1 .. Len(ids) - n /\ n + q = m + 1
      BY <2>2, <1>6
    <3> HIDE DEF q
    <3>4. back[q] = ids[m + 1]
      BY <3>3, <1>7
    <3> QED BY <2>2, <3>2, <3>4 DEF q
  <2> QED BY <2>1, <2>2
<1>10. Len(rest) = Len(ids) - 1
  BY <1>6, <1>7, <1>8
<1>11. Drop(ids, ids[n]) = rest
  BY <1>5 DEF rest, front, back
<1> QED
  BY <1>8, <1>9, <1>10, <1>11

(***************************************************************************)
(* Drop loses the id, keeps every other one, invents none and keeps the    *)
(* list free of duplicates.                                                *)
(***************************************************************************)
LEMMA DropFacts ==
    ASSUME NEW S, NEW ids \in Seq(S), NEW i,
           \E n \in 1 .. Len(ids) : ids[n] = i,
           \A a, b \in 1 .. Len(ids) : ids[a] = ids[b] => a = b
    PROVE  /\ Drop(ids, i) \in Seq(S)
           /\ \A m \in 1 .. Len(Drop(ids, i)) :
                 \E p \in 1 .. Len(ids) : Drop(ids, i)[m] = ids[p] /\ ids[p] # i
           /\ \A p \in 1 .. Len(ids) :
                 ids[p] # i => \E m \in 1 .. Len(Drop(ids, i)) : Drop(ids, i)[m] = ids[p]
           /\ \A a, b \in 1 .. Len(Drop(ids, i)) :
                 Drop(ids, i)[a] = Drop(ids, i)[b] => a = b
<1>1. PICK n \in 1 .. Len(ids) : ids[n] = i
  OBVIOUS
<1> DEFINE rest == Drop(ids, i)
<1>2. /\ rest \in Seq(S)
      /\ Len(rest) = Len(ids) - 1
      /\ \A m \in 1 .. Len(ids) - 1 : rest[m] = IF m < n THEN ids[m] ELSE ids[m + 1]
  BY <1>1, DropIndex
<1> HIDE DEF rest
<1>3. ASSUME NEW m \in 1 .. Len(rest)
      PROVE  \E p \in 1 .. Len(ids) : rest[m] = ids[p] /\ ids[p] # i
  <2> DEFINE p == IF m < n THEN m ELSE m + 1
  <2>1. p \in 1 .. Len(ids) /\ rest[m] = ids[p] /\ p # n
    BY <1>2
  <2> QED BY <2>1, <1>1
<1>4. ASSUME NEW p \in 1 .. Len(ids), ids[p] # i
      PROVE  \E m \in 1 .. Len(rest) : rest[m] = ids[p]
  <2> DEFINE m == IF p < n THEN p ELSE p - 1
  <2>1. m \in 1 .. Len(rest) /\ rest[m] = ids[p]
    BY <1>1, <1>2, <1>4
  <2> QED BY <2>1
<1>5. ASSUME NEW a \in 1 .. Len(rest), NEW b \in 1 .. Len(rest), rest[a] = rest[b]
      PROVE  a = b
  BY <1>2, <1>5
<1> QED
  BY <1>2, <1>3, <1>4, <1>5 DEF rest

-----------------------------------------------------------------------------
(***************************************************************************)
(* The inductive invariant.                                                *)
(***************************************************************************)

\* a UUID is used by one registration only
UUIDsFresh ==
    \A h \in DOMAIN pending :
        /\ pending[h].instanceID \notin DOMAIN instances
        /\ \A g \in DOMAIN pending :
              pending[g].instanceID = pending[h].instanceID => g = h

MapsOK == TypeOK /\ IndexConsistent /\ RoutesBacked /\ UUIDsFresh

IInv == MapsOK /\ HealthyFresh /\ ExpiredRemoved

(***************************************************************************)
(* The derived constants are numbers.                                      *)
(***************************************************************************)
LEMMA TimeTypes ==
    /\ TTL \in Nat \ {0}
    /\ Interval \in Nat \ {0}
    /\ Lag \in Nat /\ Lag < Interval
    /\ MaxDelay \in Nat /\ MaxDelay <= TTL
    /\ AgeCap \in Nat /\ AgeCap > 2 * TTL + Interval + Lag
<1>1. /\ TTL \in Nat \ {0}
      /\ Second \in Nat \ {0}
      /\ Lag \in Nat /\ Lag < Interval
      /\ MaxDelay \in Nat /\ MaxDelay <= TTL
  BY TimeAssumption
<1>2. Interval \in Nat \ {0}
  <2>1. TTL \div 2 \in Nat
    BY <1>1
  <2> QED BY <1>1, <2>1 DEF Interval
<1> QED
  BY <1>1, <1>2 DEF AgeCap

(***************************************************************************)
(* The body of Deregister and of removeInstanceLocked keeps the maps well  *)
(* formed and consistent.                                                  *)
(***************************************************************************)
LEMMA RemoveKeepsMaps ==
    ASSUME TypeOK, IndexConsistent, RoutesBacked,
           NEW i \in DOMAIN instances, Remove(i)
    PROVE  /\ DOMAIN instances' = DOMAIN instances \ {i}
           /\ instances' \in [DOMAIN instances' -> Instance]
           /\ \A j \in DOMAIN instances' : instances'[j] = instances[j]
           /\ DOMAIN services' \subseteq Service
           /\ services' \in [DOMAIN services' -> Seq(InstanceID)]
           /\ DOMAIN routes' \subseteq Key
           /\ routes' \in [DOMAIN routes' -> Service]
           /\ IndexConsistent'
           /\ RoutesBacked'
<1> DEFINE s == instances[i].ServiceName
           ids == services[s]
           rest == Drop(ids, i)
<1> USE DEF IndexConsistent
<1>1. /\ s \in DOMAIN services
      /\ ids \in Seq(InstanceID)
      /\ \E n \in 1 .. Len(ids) : ids[n] = i
      /\ \A a, b \in 1 .. Len(ids) : ids[a] = ids[b] => a = b
  BY DEF TypeOK, EveryInstanceListed, ListsExact
<1>2. /\ rest \in Seq(InstanceID)
      /\ \A m \in 1 .. Len(rest) :
            \E p \in 1 .. Len(ids) : rest[m] = ids[p] /\ ids[p] # i
      /\ \A p \in 1 .. Len(ids) :
            ids[p] # i => \E m \in 1 .. Len(rest) : rest[m] = ids[p]
      /\ \A a, b \in 1 .. Len(rest) : rest[a] = rest[b] => a = b
  <2> HIDE DEF s, ids
  <2> QED BY <1>1, DropFacts
<1>3. /\ instances' = [j \in DOMAIN instances \ {i} |-> instances[j]]
      /\ IF rest = << >>
         THEN /\ services' = [t \in DOMAIN services \ {s} |-> services[t]]
              /\ routes' = [k \in {k \in DOMAIN routes : routes[k] # s} |-> routes[k]]
         ELSE /\ services' = [services EXCEPT ![s] = rest]
              /\ routes' = routes
  BY DEF Remove
<1> HIDE DEF rest
<1>4. /\ DOMAIN instances' = DOMAIN instances \ {i}
      /\ instances' \in [DOMAIN instances' -> Instance]
      /\ \A j \in DOMAIN instances' : instances'[j] = instances[j]
  BY <1>3 DEF TypeOK
<1>5. /\ DOMAIN services' \subseteq Service
      /\ services' \in [DOMAIN services' -> Seq(InstanceID)]
      /\ DOMAIN routes' \subseteq Key
      /\ routes' \in [DOMAIN routes' -> Service]
  <2>1. CASE rest = << >>
    BY <1>3, <2>1 DEF TypeOK
  <2>2. CASE rest # << >>
    BY <1>1, <1>2, <1>3, <2>2 DEF TypeOK
  <2> QED BY <2>1, <2>2
<1>6. EveryInstanceListed'
  <2> SUFFICES ASSUME NEW j \in DOMAIN instances'
               PROVE  LET t == instances'[j].ServiceName
                      IN /\ t \in DOMAIN services'
                         /\ \E n \in 1 .. Len(services'[t]) : services'[t][n] = j
    BY DEF EveryInstanceListed
  <2> DEFINE t == instances[j].ServiceName
  <2>1. j \in DOMAIN instances /\ j # i /\ instances'[j] = instances[j]
    BY <1>4
  <2>2. t \in DOMAIN services /\ \E n \in 1 .. Len(services[t]) : services[t][n] = j
    BY <2>1 DEF EveryInstanceListed
  <2>3. CASE t # s
    <3>1. t \in DOMAIN services' /\ services'[t] = services[t]
      BY <1>3, <2>2, <2>3
    <3> QED BY <2>1, <2>2, <3>1
  <2>4. CASE t = s
    <3>1. \E m \in 1 .. Len(rest) : rest[m] = j
      BY <1>2, <2>1, <2>2, <2>4
    <3>2. rest # << >>
      BY <3>1
    <3>3. s \in DOMAIN services' /\ services'[s] = rest
      BY <1>1, <1>3, <3>2
    <3> QED BY <2>1, <2>4, <3>1, <3>3
  <2> QED BY <2>3, <2>4
<1>7. ListsExact'
  <2> SUFFICES ASSUME NEW t \in DOMAIN services'
               PROVE  /\ services'[t] # << >>
                      /\ \A n \in 1 .. Len(services'[t]) :
                            /\ services'[t][n] \in DOMAIN instances'
                            /\ instances'[services'[t][n]].ServiceName = t
                      /\ \A m, n \in 1 .. Len(services'[t]) :
                            services'[t][m] = services'[t][n] => m = n
    BY DEF ListsExact
  <2>1. CASE t # s
    <3>1. t \in DOMAIN services /\ services'[t] = services[t]
      BY <1>3, <2>1
    <3>2. \A n \in 1 .. Len(services[t]) : services[t][n] # i
      BY <2>1, <3>1 DEF ListsExact
    <3> QED BY <1>4, <3>1, <3>2 DEF ListsExact
  <2>2. CASE t = s
    <3>1. rest # << >> /\ services'[s] = rest
      BY <1>1, <1>3, <2>2
    <3>2. ASSUME NEW n \in 1 .. Len(rest)
          PROVE  rest[n] \in DOMAIN instances' /\ instances'[rest[n]].ServiceName = s
      <4>1. PICK p \in 1 .. Len(ids) : rest[n] = ids[p] /\ ids[p] # i
        BY <1>2
      <4>2. ids[p] \in DOMAIN instances /\ instances[ids[p]].ServiceName = s
        BY <1>1 DEF ListsExact
      <4> QED BY <1>4, <4>1, <4>2
    <3> QED BY <1>2, <2>2, <3>1, <3>2
  <2> QED BY <2>1, <2>2
<1>8. RoutesBacked'
  <2>1. CASE rest = << >>
    BY <1>3, <2>1 DEF RoutesBacked
  <2>2. CASE rest # << >>
    BY <1>3, <2>2 DEF RoutesBacked
  <2> QED BY <2>1, <2>2
<1> QED
  BY <1>4, <1>5, <1>6, <1>7, <1>8

(***************************************************************************)
(* A step that changes neither the lists, the routes nor whose instance    *)
(* any id is keeps the indexes consistent (heartbeats, scans, time).       *)
(***************************************************************************)
LEMMA SameMembers ==
    ASSUME IndexConsistent, RoutesBacked,
           UNCHANGED <<services, routes>>,
           DOMAIN instances' = DOMAIN instances,
           \A i \in DOMAIN instances : instances'[i].ServiceName = instances[i].ServiceName
    PROVE  IndexConsistent' /\ RoutesBacked'
<1>1. EveryInstanceListed'
  BY DEF IndexConsistent, EveryInstanceListed
<1>2. ListsExact'
  BY DEF IndexConsistent, ListsExact
<1> QED
  BY <1>1, <1>2 DEF IndexConsistent, RoutesBacked

(***************************************************************************)
(* The cleanup loop's own flags do not touch the maps.                     *)
(***************************************************************************)
LEMMA MapsUnchanged ==
    ASSUME MapsOK, UNCHANGED <<instances, services, routes, pending, toRemove>>,
           looping' \in BOOLEAN, stopped' \in BOOLEAN, timer' \in 0 .. Interval + Lag
    PROVE  MapsOK'
<1>1. TypeOK'
  BY DEF MapsOK, TypeOK
<1>2. IndexConsistent' /\ RoutesBacked'
  BY SameMembers DEF MapsOK
<1>3. UUIDsFresh'
  BY DEF MapsOK, UUIDsFresh
<1> QED BY <1>1, <1>2, <1>3 DEF MapsOK

(***************************************************************************)
(* A registry that has just started, or just restarted, is consistent.     *)
(***************************************************************************)
LEMMA EmptyMaps ==
    ASSUME instances' = << >>, services' = << >>, routes' = << >>, pending' = << >>,
           toRemove' = {}, looping' = TRUE, stopped' = FALSE, timer' = 0
    PROVE  MapsOK'
<1>1. DOMAIN << >> = {} /\ \A S : << >> \in [{} -> S]
  OBVIOUS
<1>2. TypeOK'
  <2>1. instances' \in [DOMAIN instances' -> Instance]
    BY <1>1
  <2>2. services' \in [DOMAIN services' -> Seq(InstanceID)]
    BY <1>1
  <2>3. routes' \in [DOMAIN routes' -> Service]
    BY <1>1
  <2>4. pending' \in [DOMAIN pending' -> Registration]
    BY <1>1
  <2>5. timer' \in 0 .. Interval + Lag
    BY TimeTypes
  <2> QED BY <1>1, <2>1, <2>2, <2>3, <2>4, <2>5 DEF TypeOK
<1>3. IndexConsistent' /\ RoutesBacked' /\ UUIDsFresh'
  BY <1>1 DEF IndexConsistent, EveryInstanceListed, ListsExact, RoutesBacked, UUIDsFresh
<1> QED BY <1>2, <1>3 DEF MapsOK

(***************************************************************************)
(* The insertion of Register keeps the maps well formed and consistent.    *)
(***************************************************************************)
LEMMA CommitKeepsMaps ==
    ASSUME MapsOK, NEW h \in Handler, NEW age \in 0 .. MaxDelay, RegisterCommit(h, age)
    PROVE  MapsOK'
<1> DEFINE s == pending[h].ServiceName
           K == pending[h].Routes
           i == pending[h].instanceID
<1>1. /\ h \in DOMAIN pending
      /\ s \in Service /\ K \subseteq Key /\ i \in InstanceID
      /\ i \notin DOMAIN instances
      /\ age \in 0 .. AgeCap
  <2>1. h \in DOMAIN pending
    BY DEF RegisterCommit
  <2>2. s \in Service /\ K \subseteq Key /\ i \in InstanceID
    BY <2>1 DEF MapsOK, TypeOK, Registration
  <2>3. age \in 0 .. AgeCap
    BY TimeTypes
  <2> QED BY <2>1, <2>2, <2>3 DEF MapsOK, UUIDsFresh
<1>2. /\ instances' = [j \in DOMAIN instances \cup {i} |->
                         IF j = i THEN [ServiceName |-> s,
                                        Status |-> "healthy",
                                        elapsed |-> age]
                                  ELSE instances[j]]
      /\ services' = [t \in DOMAIN services \cup {s} |->
                        IF t # s THEN services[t]
                        ELSE IF t \in DOMAIN services THEN Append(services[t], i)
                        ELSE <<i>>]
      /\ routes' = [k \in DOMAIN routes \cup K |-> IF k \in K THEN s ELSE routes[k]]
      /\ pending' = [g \in DOMAIN pending \ {h} |-> pending[g]]
      /\ UNCHANGED <<toRemove, looping, stopped, timer>>
  BY DEF RegisterCommit
<1> HIDE DEF s, K, i
<1>3. /\ DOMAIN instances' = DOMAIN instances \cup {i}
      /\ instances' \in [DOMAIN instances' -> Instance]
      /\ instances'[i].ServiceName = s
      /\ \A j \in DOMAIN instances : instances'[j] = instances[j]
  BY <1>1, <1>2 DEF MapsOK, TypeOK, Instance
<1>4. /\ DOMAIN services' = DOMAIN services \cup {s}
      /\ services' \in [DOMAIN services' -> Seq(InstanceID)]
      /\ \A t \in DOMAIN services \ {s} : services'[t] = services[t]
  BY <1>1, <1>2 DEF MapsOK, TypeOK
<1>5. TypeOK'
  BY <1>1, <1>2, <1>3, <1>4 DEF MapsOK, TypeOK
<1>6. EveryInstanceListed'
  <2> SUFFICES ASSUME NEW j \in DOMAIN instances'
               PROVE  LET t == instances'[j].ServiceName
                      IN /\ t \in DOMAIN services'
                         /\ \E n \in 1 .. Len(services'[t]) : services'[t][n] = j
    BY DEF EveryInstanceListed
  <2>1. CASE j = i
    <3>1. CASE s \in DOMAIN services
      <4>1. services'[s] = Append(services[s], i) /\ services[s] \in Seq(InstanceID)
        BY <1>2, <3>1 DEF MapsOK, TypeOK
      <4>2. Len(services[s]) + 1 \in 1 .. Len(services'[s])
        BY <4>1
      <4>3. services'[s][Len(services[s]) + 1] = i
        BY <4>1
      <4> QED BY <1>3, <1>4, <2>1, <4>2, <4>3
    <3>2. CASE s \notin DOMAIN services
      <4>1. services'[s] = <<i>>
        BY <1>2, <1>4, <3>2
      <4>2. 1 \in 1 .. Len(services'[s]) /\ services'[s][1] = i
        BY <4>1
      <4> QED BY <1>3, <1>4, <2>1, <4>2
    <3> QED BY <3>1, <3>2
  <2>2. CASE j # i
    <3> DEFINE t == instances[j].ServiceName
    <3>1. j \in DOMAIN instances /\ instances'[j] = instances[j]
      BY <1>3, <2>2
    <3>2. t \in DOMAIN services /\ \E n \in 1 .. Len(services[t]) : services[t][n] = j
      BY <3>1 DEF MapsOK, IndexConsistent, EveryInstanceListed
    <3>3. CASE t # s
      BY <1>4, <3>1, <3>2, <3>3
    <3>4. CASE t = s
      <4>1. services'[s] = Append(services[s], i) /\ services[s] \in Seq(InstanceID)
        BY <1>2, <3>2, <3>4 DEF MapsOK, TypeOK
      <4>2. \A n \in 1 .. Len(services[s]) :
               n \in 1 .. Len(services'[s]) /\ services'[s][n] = services[s][n]
        BY <4>1
      <4> QED BY <1>4, <3>1, <3>2, <3>4, <4>2
    <3> QED BY <3>3, <3>4
  <2> QED BY <2>1, <2>2
<1>7. ListsExact'
  <2> SUFFICES ASSUME NEW t \in DOMAIN services'
               PROVE  /\ services'[t] # << >>
                      /\ \A n \in 1 .. Len(services'[t]) :
                            /\ services'[t][n] \in DOMAIN instances'
                            /\ instances'[services'[t][n]].ServiceName = t
                      /\ \A m, n \in 1 .. Len(services'[t]) :
                            services'[t][m] = services'[t][n] => m = n
    BY DEF ListsExact
  <2>1. CASE t # s
    BY <1>3, <1>4, <2>1 DEF MapsOK, IndexConsistent, ListsExact
  <2>2. CASE t = s /\ s \notin DOMAIN services
    <3>1. services'[t] = <<i>>
      BY <1>2, <2>2
    <3> QED BY <1>3, <2>2, <3>1
  <2>3. CASE t = s /\ s \in DOMAIN services
    <3> DEFINE ids == services[s]
    <3>1. services'[t] = Append(ids, i) /\ ids \in Seq(InstanceID)
      BY <1>2, <2>3 DEF MapsOK, TypeOK
    <3>2. \A n \in 1 .. Len(ids) :
             ids[n] \in DOMAIN instances /\ instances[ids[n]].ServiceName = s
      BY <2>3 DEF MapsOK, IndexConsistent, ListsExact
    <3>3. \A m, n \in 1 .. Len(ids) : ids[m] = ids[n] => m = n
      BY <2>3 DEF MapsOK, IndexConsistent, ListsExact
    <3> HIDE DEF ids
    <3>4. /\ Len(services'[t]) = Len(ids) + 1
          /\ services'[t][Len(ids) + 1] = i
          /\ \A n \in 1 .. Len(ids) : services'[t][n] = ids[n]
      BY <3>1
    <3>5. \A n \in 1 .. Len(services'[t]) : n \in 1 .. Len(ids) \/ n = Len(ids) + 1
      BY <3>1, <3>4
    <3>6. services'[t] # << >>
      BY <3>1, <3>4
    <3>7. ASSUME NEW n \in 1 .. Len(services'[t])
          PROVE  /\ services'[t][n] \in DOMAIN instances'
                 /\ instances'[services'[t][n]].ServiceName = t
      BY <1>3, <2>3, <3>2, <3>4, <3>5
    <3>8. ASSUME NEW m \in 1 .. Len(services'[t]), NEW n \in 1 .. Len(services'[t]),
                 services'[t][m] = services'[t][n]
          PROVE  m = n
      BY <1>1, <3>2, <3>3, <3>4, <3>5, <3>8
    <3> QED BY <3>6, <3>7, <3>8
  <2> QED BY <2>1, <2>2, <2>3
<1>8. RoutesBacked'
  BY <1>2, <1>4 DEF MapsOK, RoutesBacked
<1>9. UUIDsFresh'
  BY <1>1, <1>2, <1>3 DEF MapsOK, UUIDsFresh, i
<1> QED
  BY <1>5, <1>6, <1>7, <1>8, <1>9 DEF MapsOK, IndexConsistent

(***************************************************************************)
(* Every step keeps the maps well formed and consistent.                   *)
(***************************************************************************)
LEMMA MapsInductive == MapsOK /\ [Next]_vars => MapsOK'
<1> SUFFICES ASSUME MapsOK, [Next]_vars PROVE MapsOK'
  OBVIOUS
<1>1. ASSUME NEW h \in Handler, NEW s \in Service, NEW K \in SUBSET Key,
             NEW i \in InstanceID, RegisterValidate(h, s, K, i)
      PROVE  MapsOK'
  <2>1. TypeOK'
    <3>1. [ServiceName |-> s, Routes |-> K, instanceID |-> i, waited |-> 0] \in Registration
      BY TimeTypes DEF Registration
    <3> QED BY <1>1, <3>1 DEF RegisterValidate, MapsOK, TypeOK
  <2>2. IndexConsistent' /\ RoutesBacked'
    BY <1>1, SameMembers DEF RegisterValidate, MapsOK
  <2>3. UUIDsFresh'
    BY <1>1 DEF RegisterValidate, MapsOK, UUIDsFresh
  <2> QED BY <2>1, <2>2, <2>3 DEF MapsOK
<1>2. ASSUME NEW h \in Handler, NEW age \in 0 .. MaxDelay, RegisterCommit(h, age)
      PROVE  MapsOK'
  BY <1>2, CommitKeepsMaps
<1>3. ASSUME NEW i \in InstanceID, Deregister(i)
      PROVE  MapsOK'
  <2>1. i \in DOMAIN instances /\ Remove(i) /\ toRemove = {}
    BY <1>3 DEF Deregister, Unlocked
  <2>2. /\ DOMAIN instances' = DOMAIN instances \ {i}
        /\ instances' \in [DOMAIN instances' -> Instance]
        /\ DOMAIN services' \subseteq Service
        /\ services' \in [DOMAIN services' -> Seq(InstanceID)]
        /\ DOMAIN routes' \subseteq Key
        /\ routes' \in [DOMAIN routes' -> Service]
        /\ IndexConsistent'
        /\ RoutesBacked'
    BY <2>1, RemoveKeepsMaps DEF MapsOK
  <2>3. TypeOK' /\ UUIDsFresh'
    BY <1>3, <2>1, <2>2 DEF Deregister, MapsOK, TypeOK, UUIDsFresh
  <2> QED BY <2>2, <2>3 DEF MapsOK
<1>4. ASSUME NEW i \in InstanceID, Heartbeat(i)
      PROVE  MapsOK'
  <2>1. TypeOK'
    <3>1. [instances[i] EXCEPT !.elapsed = 0] \in Instance
      <4>1. instances[i] \in Instance
        BY <1>4 DEF Heartbeat, MapsOK, TypeOK
      <4> QED BY <4>1, TimeTypes DEF Instance
    <3> QED BY <1>4, <3>1 DEF Heartbeat, MapsOK, TypeOK
  <2>2. IndexConsistent' /\ RoutesBacked'
    <3>1. /\ DOMAIN instances' = DOMAIN instances
          /\ \A j \in DOMAIN instances :
                instances'[j].ServiceName = instances[j].ServiceName
      BY <1>4 DEF Heartbeat, MapsOK, TypeOK, Instance
    <3> QED BY <1>4, <3>1, SameMembers DEF Heartbeat, MapsOK
  <2>3. UUIDsFresh'
    BY <1>4 DEF Heartbeat, MapsOK, UUIDsFresh
  <2> QED BY <2>1, <2>2, <2>3 DEF MapsOK
<1>5. CASE CleanupScan
  <2>1. TypeOK'
    <3>1. \A i \in DOMAIN instances : StatusAfterScan(i) \in {"healthy", "unhealthy"}
      BY DEF StatusAfterScan, MapsOK, TypeOK, Instance
    <3>2. instances' \in [DOMAIN instances -> Instance]
      BY <1>5, <3>1 DEF CleanupScan, MapsOK, TypeOK, Instance
    <3>3. timer' \in 0 .. Interval + Lag
      BY <1>5, TimeTypes DEF CleanupScan, MapsOK, TypeOK
    <3> QED BY <1>5, <3>2, <3>3 DEF CleanupScan, MapsOK, TypeOK
  <2>2. IndexConsistent' /\ RoutesBacked'
    <3>1. /\ DOMAIN instances' = DOMAIN instances
          /\ \A j \in DOMAIN instances :
                instances'[j].ServiceName = instances[j].ServiceName
      BY <1>5 DEF CleanupScan, MapsOK, TypeOK, Instance
    <3> QED BY <1>5, <3>1, SameMembers DEF CleanupScan, MapsOK
  <2>3. UUIDsFresh'
    BY <1>5 DEF CleanupScan, MapsOK, UUIDsFresh
  <2> QED BY <2>1, <2>2, <2>3 DEF MapsOK
<1>6. ASSUME NEW i \in InstanceID, CleanupRemove(i)
      PROVE  MapsOK'
  <2>1. i \in DOMAIN instances /\ Remove(i)
    BY <1>6 DEF CleanupRemove, MapsOK, TypeOK
  <2>2. /\ DOMAIN instances' = DOMAIN instances \ {i}
        /\ instances' \in [DOMAIN instances' -> Instance]
        /\ DOMAIN services' \subseteq Service
        /\ services' \in [DOMAIN services' -> Seq(InstanceID)]
        /\ DOMAIN routes' \subseteq Key
        /\ routes' \in [DOMAIN routes' -> Service]
        /\ IndexConsistent'
        /\ RoutesBacked'
    BY <2>1, RemoveKeepsMaps DEF MapsOK
  <2>3. TypeOK' /\ UUIDsFresh'
    BY <1>6, <2>2 DEF CleanupRemove, MapsOK, TypeOK, UUIDsFresh
  <2> QED BY <2>2, <2>3 DEF MapsOK
<1>7. CASE Stop
  BY <1>7, MapsUnchanged DEF Stop, MapsOK, TypeOK
<1>8. CASE CleanupLoopExit
  BY <1>8, MapsUnchanged DEF CleanupLoopExit, MapsOK, TypeOK
<1>9. CASE Tick
  <2>1. TypeOK'
    <3>1. instances' \in [DOMAIN instances -> Instance]
      <4> SUFFICES ASSUME NEW i \in DOMAIN instances PROVE instances'[i] \in Instance
        BY <1>9 DEF Tick
      <4>1. instances[i] \in Instance
        BY DEF MapsOK, TypeOK
      <4>2. instances'[i] = [instances[i] EXCEPT !.elapsed =
                               IF @ < AgeCap THEN @ + 1 ELSE @]
        BY <1>9 DEF Tick
      <4> QED BY <4>1, <4>2, TimeTypes DEF Instance
    <3>2. pending' \in [DOMAIN pending -> Registration]
      <4> SUFFICES ASSUME NEW h \in DOMAIN pending PROVE pending'[h] \in Registration
        BY <1>9 DEF Tick
      <4>1. pending[h] \in Registration /\ pending[h].waited < MaxDelay
        BY <1>9 DEF Tick, MapsOK, TypeOK
      <4>2. pending'[h] = [pending[h] EXCEPT !.waited = @ + 1]
        BY <1>9 DEF Tick
      <4> QED BY <4>1, <4>2, TimeTypes DEF Registration
    <3>3. timer' \in 0 .. Interval + Lag
      BY <1>9, TimeTypes DEF Tick, MapsOK, TypeOK
    <3> QED BY <1>9, <3>1, <3>2, <3>3 DEF Tick, MapsOK, TypeOK
  <2>2. IndexConsistent' /\ RoutesBacked'
    <3>1. /\ DOMAIN instances' = DOMAIN instances
          /\ \A j \in DOMAIN instances :
                instances'[j].ServiceName = instances[j].ServiceName
      BY <1>9 DEF Tick, MapsOK, TypeOK, Instance
    <3> QED BY <1>9, <3>1, SameMembers DEF Tick, MapsOK
  <2>3. UUIDsFresh'
    <3>1. /\ DOMAIN pending' = DOMAIN pending
          /\ \A h \in DOMAIN pending : pending'[h].instanceID = pending[h].instanceID
      BY <1>9 DEF Tick, MapsOK, TypeOK, Registration
    <3>2. DOMAIN instances' = DOMAIN instances
      BY <1>9 DEF Tick
    <3> QED BY <3>1, <3>2 DEF MapsOK, UUIDsFresh
  <2> QED BY <2>1, <2>2, <2>3 DEF MapsOK
<1>10. CASE Restart
  BY <1>10, EmptyMaps DEF Restart
<1>11. CASE UNCHANGED vars
  BY <1>11, MapsUnchanged DEF vars, MapsOK, TypeOK
<1> QED
  BY <1>1, <1>2, <1>3, <1>4, <1>5, <1>6, <1>7, <1>8, <1>9, <1>10, <1>11 DEF Next

(***************************************************************************)
(* Every step keeps the bounds on the age of heartbeats: only Tick makes   *)
(* an instance older, and then the timer advances too; a scan turns the    *)
(* timer back but leaves no instance older than the limits it enforces.    *)
(***************************************************************************)
LEMMA AgesInductive == IInv /\ [Next]_vars => (HealthyFresh /\ ExpiredRemoved)'
<1> SUFFICES ASSUME IInv, [Next]_vars PROVE (HealthyFresh /\ ExpiredRemoved)'
  OBVIOUS
<1> USE DEF HealthyFresh, ExpiredRemoved
<1>0. /\ TypeOK
      /\ \A i \in DOMAIN instances : instances[i] \in Instance /\ instances[i].elapsed \in Nat
      /\ timer \in Nat
  BY TimeTypes DEF IInv, MapsOK, TypeOK, Instance
<1>1. ASSUME NEW h \in Handler, NEW s \in Service, NEW K \in SUBSET Key,
             NEW i \in InstanceID, RegisterValidate(h, s, K, i)
      PROVE  (HealthyFresh /\ ExpiredRemoved)'
  BY <1>1 DEF RegisterValidate, IInv
<1>2. ASSUME NEW h \in Handler, NEW age \in 0 .. MaxDelay, RegisterCommit(h, age)
      PROVE  (HealthyFresh /\ ExpiredRemoved)'
  <2> DEFINE i == pending[h].instanceID
  <2>1. age <= TTL + timer /\ age <= 2 * TTL + timer
    BY <1>0, TimeTypes
  <2>2. /\ DOMAIN instances' = DOMAIN instances \cup {i}
        /\ instances'[i].elapsed = age
        /\ \A j \in DOMAIN instances \ {i} : instances'[j] = instances[j]
    BY <1>2 DEF RegisterCommit
  <2>3. UNCHANGED <<toRemove, looping, timer>>
    BY <1>2 DEF RegisterCommit
  <2> HIDE DEF i
  <2> QED BY <2>1, <2>2, <2>3 DEF IInv
<1>3. ASSUME NEW i \in InstanceID, Deregister(i)
      PROVE  (HealthyFresh /\ ExpiredRemoved)'
  <2>1. /\ DOMAIN instances' \subseteq DOMAIN instances
        /\ \A j \in DOMAIN instances' : instances'[j] = instances[j]
    BY <1>3 DEF Deregister, Remove
  <2>2. UNCHANGED <<toRemove, looping, timer>>
    BY <1>3 DEF Deregister
  <2> QED BY <2>1, <2>2 DEF IInv
<1>4. ASSUME NEW i \in InstanceID, Heartbeat(i)
      PROVE  (HealthyFresh /\ ExpiredRemoved)'
  <2>1. /\ DOMAIN instances' = DOMAIN instances
        /\ instances'[i].elapsed = 0
        /\ \A j \in DOMAIN instances \ {i} : instances'[j] = instances[j]
    BY <1>0, <1>4 DEF Heartbeat, Instance
  <2>2. UNCHANGED <<toRemove, looping, timer>>
    BY <1>4 DEF Heartbeat
  <2> QED BY <1>0, <2>1, <2>2, TimeTypes DEF IInv
<1>5. CASE CleanupScan
  <2>1. /\ DOMAIN instances' = DOMAIN instances
        /\ \A i \in DOMAIN instances :
              /\ instances'[i].elapsed = instances[i].elapsed
              /\ instances'[i].Status = StatusAfterScan(i)
    BY <1>0, <1>5 DEF CleanupScan, Instance
  <2>2. toRemove' = {i \in DOMAIN instances : instances[i].elapsed > 2 * TTL}
    BY <1>5 DEF CleanupScan, Expired
  <2>3. timer' \in Nat
    BY <1>0, <1>5, TimeTypes DEF CleanupScan
  <2>4. ASSUME NEW i \in DOMAIN instances' \ toRemove'
        PROVE  /\ instances'[i].elapsed <= 2 * TTL + timer'
               /\ instances'[i].Status = "healthy" => instances'[i].elapsed <= TTL + timer'
    <3>1. i \in DOMAIN instances /\ instances[i].elapsed <= 2 * TTL
      BY <1>0, <2>1, <2>2, TimeTypes
    <3>2. instances[i].elapsed > TTL => instances'[i].Status = "unhealthy"
      BY <1>0, <2>1, <3>1, TimeTypes DEF StatusAfterScan, Expired
    <3> QED BY <1>0, <2>1, <2>3, <3>1, <3>2, TimeTypes
  <2> QED BY <2>4
<1>6. ASSUME NEW i \in InstanceID, CleanupRemove(i)
      PROVE  (HealthyFresh /\ ExpiredRemoved)'
  <2>1. /\ DOMAIN instances' = DOMAIN instances \ {i}
        /\ \A j \in DOMAIN instances' : instances'[j] = instances[j]
    BY <1>6 DEF CleanupRemove, Remove
  <2>2. toRemove' = toRemove \ {i} /\ UNCHANGED <<looping, timer>>
    BY <1>6 DEF CleanupRemove
  <2> QED BY <2>1, <2>2 DEF IInv
<1>7. CASE Stop
  BY <1>7 DEF Stop, IInv
<1>8. CASE CleanupLoopExit
  BY <1>8 DEF CleanupLoopExit
<1>9. CASE Tick
  <2>1. DOMAIN instances' = DOMAIN instances /\ UNCHANGED <<toRemove, looping>>
    BY <1>9 DEF Tick
  <2>2. \A i \in DOMAIN instances : /\ instances'[i].elapsed <= instances[i].elapsed + 1
                                    /\ instances'[i].elapsed \in Nat
                                    /\ instances'[i].Status = instances[i].Status
    <3> SUFFICES ASSUME NEW i \in DOMAIN instances
                 PROVE  /\ instances'[i].elapsed <= instances[i].elapsed + 1
                        /\ instances'[i].elapsed \in Nat
                        /\ instances'[i].Status = instances[i].Status
      OBVIOUS
    <3>1. instances'[i] = [instances[i] EXCEPT !.elapsed =
                             IF @ < AgeCap THEN @ + 1 ELSE @]
      BY <1>9 DEF Tick
    <3> QED BY <1>0, <3>1, TimeTypes DEF Instance
  <2>3. looping => timer' = timer + 1
    BY <1>9 DEF Tick
  <2> QED BY <1>0, <2>1, <2>2, <2>3, TimeTypes DEF IInv
<1>10. CASE Restart
  BY <1>10 DEF Restart
<1>11. CASE UNCHANGED vars
  BY <1>11 DEF vars, IInv
<1> QED
  BY <1>1, <1>2, <1>3, <1>4, <1>5, <1>6, <1>7, <1>8, <1>9, <1>10, <1>11 DEF Next

(***************************************************************************)
(* The inductive invariant holds in the initial state.                     *)
(***************************************************************************)
LEMMA IInvInit == Init => IInv
<1> SUFFICES ASSUME Init PROVE IInv
  OBVIOUS
<1>1. DOMAIN << >> = {} /\ \A S : << >> \in [{} -> S]
  OBVIOUS
<1>2. TypeOK
  <2>1. instances \in [DOMAIN instances -> Instance]
    BY <1>1 DEF Init
  <2>2. services \in [DOMAIN services -> Seq(InstanceID)]
    BY <1>1 DEF Init
  <2>3. routes \in [DOMAIN routes -> Service]
    BY <1>1 DEF Init
  <2>4. pending \in [DOMAIN pending -> Registration]
    BY <1>1 DEF Init
  <2>5. timer \in 0 .. Interval + Lag
    BY TimeTypes DEF Init
  <2> QED BY <1>1, <2>1, <2>2, <2>3, <2>4, <2>5 DEF Init, TypeOK
<1>3. IndexConsistent /\ RoutesBacked /\ UUIDsFresh
  BY <1>1 DEF Init, IndexConsistent, EveryInstanceListed, ListsExact, RoutesBacked, UUIDsFresh
<1>4. HealthyFresh /\ ExpiredRemoved
  BY <1>1 DEF Init, HealthyFresh, ExpiredRemoved
<1> QED
  BY <1>2, <1>3, <1>4 DEF IInv, MapsOK

(***************************************************************************)
(* The inductive invariant, from which the safety theorems follow.         *)
(***************************************************************************)
THEOREM Inductive == Spec => []IInv
<1>1. Init => IInv
  BY IInvInit
<1>2. IInv /\ [Next]_vars => IInv'
  BY MapsInductive, AgesInductive DEF IInv
<1> QED
  BY <1>1, <1>2, PTL DEF Spec

(***************************************************************************)
(* Whatever the interleaving of handlers, cleanup, shutdown and restarts,  *)
(* the maps are well formed.                                               *)
(***************************************************************************)
THEOREM TypeCorrect == Spec => []TypeOK
BY Inductive, PTL DEF IInv, MapsOK

(***************************************************************************)
(* r.services and r.instances never disagree, with any number of handlers  *)
(* registering at once.                                                    *)
(***************************************************************************)
THEOREM IndexesAgree == Spec => []IndexConsistent
BY Inductive, PTL DEF IInv, MapsOK

(***************************************************************************)
(* No route outlives the last instance of its service.                     *)
(***************************************************************************)
THEOREM NoDanglingRoute == Spec => []RoutesBacked
BY Inductive, PTL DEF IInv, MapsOK

(***************************************************************************)
(* For any TTL, cleanup lag below the period and commit delay up to the    *)
(* TTL, a healthy instance was heard of within TTL plus a period.          *)
(***************************************************************************)
THEOREM StalenessBounded == Spec => []HealthyFresh
BY Inductive, PTL DEF IInv

(***************************************************************************)
(* Under the same assumptions cleanup keeps no instance beyond twice the   *)
(* TTL plus a period.                                                      *)
(***************************************************************************)
THEOREM SilenceBounded == Spec => []ExpiredRemoved
BY Inductive, PTL DEF IInv

(***************************************************************************)
(* What the lock is good for during cleanup: nobody whom the scan put on   *)
(* the list has been heard of since.                                       *)
(***************************************************************************)
StillExpired == \A i \in toRemove : instances[i].elapsed > 2 * TTL

LEMMA StillExpiredInductive ==
    ASSUME TypeOK, StillExpired, [Next]_vars
    PROVE  StillExpired'
<1>1. CASE toRemove' = {}
  BY <1>1 DEF StillExpired
<1>2. CASE CleanupScan
  <2>1. \A i \in toRemove' : /\ i \in DOMAIN instances
                             /\ instances[i] \in Instance
                             /\ instances[i].elapsed > 2 * TTL
    BY <1>2 DEF CleanupScan, Expired, TypeOK
  <2>2. \A i \in DOMAIN instances : instances[i] \in Instance =>
            instances'[i].elapsed = instances[i].elapsed
    BY <1>2 DEF CleanupScan, Instance
  <2> QED BY <2>1, <2>2 DEF StillExpired
<1>3. ASSUME NEW i \in InstanceID, CleanupRemove(i)
      PROVE  StillExpired'
  <2>1. toRemove' = toRemove \ {i} /\ instances' = [j \in DOMAIN instances \ {i} |-> instances[j]]
    BY <1>3 DEF CleanupRemove, Remove
  <2> QED BY <2>1 DEF StillExpired, TypeOK
<1>4. ASSUME NEW h \in Handler, NEW s \in Service, NEW K \in SUBSET Key,
             NEW i \in InstanceID, RegisterValidate(h, s, K, i)
      PROVE  StillExpired'
  BY <1>1, <1>4 DEF RegisterValidate, Unlocked
<1>5. ASSUME NEW h \in Handler, NEW age \in 0 .. MaxDelay, RegisterCommit(h, age)
      PROVE  StillExpired'
  BY <1>1, <1>5 DEF RegisterCommit, Unlocked
<1>6. ASSUME NEW i \in InstanceID, Deregister(i) \/ Heartbeat(i)
      PROVE  StillExpired'
  BY <1>1, <1>6 DEF Deregister, Heartbeat, Unlocked
<1>7. CASE CleanupLoopExit \/ Tick \/ Restart
  BY <1>1, <1>7 DEF CleanupLoopExit, Tick, Restart, Unlocked
<1>8. CASE Stop \/ UNCHANGED vars
  BY <1>8 DEF Stop, vars, StillExpired
<1> QED
  BY <1>2, <1>3, <1>4, <1>5, <1>6, <1>7, <1>8 DEF Next

(***************************************************************************)
(* The cleanup removes nobody whose last heartbeat is late by less than a  *)
(* TTL, with any number of handlers sending heartbeats and registrations   *)
(* while it is at work.                                                    *)
(***************************************************************************)
THEOREM PunctualAreKept == Spec => KeepsPunctual
<1> DEFINE Kept == Second <= TTL =>
                     \A i \in DOMAIN instances \ DOMAIN instances' :
                         \/ instances[i].elapsed > TTL + ClientInterval
                         \/ Deregister(i)
                         \/ Restart
<1>1. Second <= TTL => TTL + ClientInterval \in Nat /\ TTL + ClientInterval <= 2 * TTL
  <2>1. TTL \div Second \in Nat /\ (TTL \div Second) * Second <= TTL
    BY TimeAssumption, Z3
  <2>2. Second <= TTL => (TTL \div Second) * Second # 0
    BY TimeAssumption, Z3
  <2>3. (TTL \div Second) * Second \in Nat
    BY <2>1, TimeAssumption
  <2> QED BY <2>1, <2>2, <2>3, TimeAssumption DEF ClientInterval, HeartbeatInterval
<1>2. ASSUME TypeOK, StillExpired, Next
      PROVE  Kept
  <2>1. ASSUME DOMAIN instances \subseteq DOMAIN instances'
        PROVE  Kept
    BY <2>1
  <2>2. ASSUME NEW i \in InstanceID, Deregister(i)
        PROVE  Kept
    <3>1. DOMAIN instances' = DOMAIN instances \ {i}
      BY <2>2 DEF Deregister, Remove
    <3> QED BY <2>2, <3>1
  <2>3. ASSUME NEW i \in InstanceID, CleanupRemove(i)
        PROVE  Kept
    <3>1. DOMAIN instances' = DOMAIN instances \ {i} /\ i \in toRemove
      BY <2>3 DEF CleanupRemove, Remove
    <3>2. i \in DOMAIN instances /\ instances[i].elapsed \in Nat
      BY <1>2, <3>1 DEF TypeOK, Instance
    <3>3. Second <= TTL => instances[i].elapsed > TTL + ClientInterval
      BY <1>1, <1>2, <3>1, <3>2, TimeTypes DEF StillExpired
    <3> QED BY <3>1, <3>3
  <2>4. CASE Restart
    BY <2>4
  <2>5. ASSUME NEW h \in Handler, NEW s \in Service, NEW K \in SUBSET Key,
               NEW i \in InstanceID, RegisterValidate(h, s, K, i)
        PROVE  Kept
    BY <2>1, <2>5 DEF RegisterValidate
  <2>6. ASSUME NEW h \in Handler, NEW age \in 0 .. MaxDelay, RegisterCommit(h, age)
        PROVE  Kept
    <3>1. DOMAIN instances \subseteq DOMAIN instances'
      BY <2>6 DEF RegisterCommit
    <3> QED BY <2>1, <3>1
  <2>7. ASSUME NEW i \in InstanceID, Heartbeat(i)
        PROVE  Kept
    BY <2>1, <2>7 DEF Heartbeat
  <2>8. CASE CleanupScan \/ Stop \/ CleanupLoopExit \/ Tick
    BY <2>1, <2>8 DEF CleanupScan, Stop, CleanupLoopExit, Tick
  <2> HIDE DEF Kept
  <2> QED BY <1>2, <2>2, <2>3, <2>4, <2>5, <2>6, <2>7, <2>8 DEF Next
<1>3. Init => StillExpired
  BY DEF Init, StillExpired
<1>4. TypeOK /\ StillExpired /\ [Next]_vars => StillExpired'
  BY StillExpiredInductive
<1>5. TypeOK /\ StillExpired /\ [Next]_vars => [Kept]_vars
  BY <1>2
<1> QED
  BY <1>3, <1>4, <1>5, TypeCorrect, PTL DEF Spec, KeepsPunctual

-----------------------------------------------------------------------------
(***************************************************************************)
(* What the collision check guarantees when registrations do not           *)
(* interleave.  With several handlers it guarantees nothing of the sort:   *)
(* the run registry_steal shows a route taken over.                        *)
(***************************************************************************)

OneHandler == \A g, h \in Handler : g = h

\* what a pending registration validated still holds
PendingClear ==
    \A h \in DOMAIN pending : ValidRoutes(pending[h].ServiceName, pending[h].Routes)

(***************************************************************************)
(* A validation stays valid when keys disappear from the route table.      *)
(***************************************************************************)
LEMMA ValidRoutesAntitone ==
    ASSUME NEW s, NEW K, ValidRoutes(s, K),
           DOMAIN routes' \subseteq DOMAIN routes,
           \A k \in DOMAIN routes' : routes'[k] = routes[k]
    PROVE  ValidRoutes(s, K)'
BY DEF ValidRoutes, ExactCollision, PatternCollision

(***************************************************************************)
(* The removal of an instance gives no key to anybody, and takes keys only *)
(* from a service that has no instance left.                               *)
(***************************************************************************)
LEMMA RemoveShrinksRoutes ==
    ASSUME NEW i, Remove(i)
    PROVE  /\ DOMAIN routes' \subseteq DOMAIN routes
           /\ \A k \in DOMAIN routes' : routes'[k] = routes[k]
           /\ \A k \in DOMAIN routes : routes[k] \in DOMAIN services' => k \in DOMAIN routes'
<1> DEFINE s == instances[i].ServiceName
           rest == Drop(services[s], i)
<1>1. IF rest = << >>
      THEN /\ services' = [t \in DOMAIN services \ {s} |-> services[t]]
           /\ routes' = [k \in {k \in DOMAIN routes : routes[k] # s} |-> routes[k]]
      ELSE /\ services' = [services EXCEPT ![s] = rest]
           /\ routes' = routes
  BY DEF Remove
<1> HIDE DEF s, rest
<1>2. CASE rest = << >>
  BY <1>1, <1>2
<1>3. CASE rest # << >>
  BY <1>1, <1>3
<1> QED
  BY <1>2, <1>3

(***************************************************************************)
(* With one handler, nothing that happens between the validation and the   *)
(* insertion can invalidate the validation.                                *)
(***************************************************************************)
LEMMA ClearInductive ==
    ASSUME OneHandler
    PROVE  IInv /\ PendingClear /\ [Next]_vars => PendingClear'
<1> SUFFICES ASSUME IInv, PendingClear, [Next]_vars PROVE PendingClear'
  OBVIOUS
<1>0. DOMAIN pending \subseteq Handler
  BY DEF IInv, MapsOK, TypeOK
<1>1. ASSUME NEW h \in Handler, NEW s \in Service, NEW K \in SUBSET Key,
             NEW i \in InstanceID, RegisterValidate(h, s, K, i)
      PROVE  PendingClear'
  <2>1. DOMAIN pending' = {h} /\ pending'[h].ServiceName = s /\ pending'[h].Routes = K
    BY <1>0, <1>1 DEF RegisterValidate, OneHandler
  <2>2. ValidRoutes(s, K)'
    BY <1>1, ValidRoutesAntitone DEF RegisterValidate
  <2> QED BY <2>1, <2>2 DEF PendingClear
<1>2. ASSUME NEW h \in Handler, NEW age \in 0 .. MaxDelay, RegisterCommit(h, age)
      PROVE  PendingClear'
  <2>1. DOMAIN pending' = {}
    BY <1>0, <1>2 DEF RegisterCommit, OneHandler
  <2> QED BY <2>1 DEF PendingClear
<1>3. ASSUME NEW i \in InstanceID, Deregister(i) \/ CleanupRemove(i)
      PROVE  PendingClear'
  <2>1. Remove(i) /\ pending' = pending
    BY <1>3 DEF Deregister, CleanupRemove
  <2> QED BY <2>1, RemoveShrinksRoutes, ValidRoutesAntitone DEF PendingClear
<1>4. ASSUME UNCHANGED <<routes, pending>>
      PROVE  PendingClear'
  BY <1>4, ValidRoutesAntitone DEF PendingClear
<1>5. CASE Tick
  <2>1. /\ DOMAIN pending' = DOMAIN pending
        /\ \A h \in DOMAIN pending : /\ pending'[h].ServiceName = pending[h].ServiceName
                                      /\ pending'[h].Routes = pending[h].Routes
    BY <1>5 DEF Tick, IInv, MapsOK, TypeOK, Registration
  <2>2. routes' = routes
    BY <1>5 DEF Tick
  <2> QED BY <2>1, <2>2, ValidRoutesAntitone DEF PendingClear
<1>6. CASE Restart
  BY <1>6 DEF Restart, PendingClear
<1>7. ASSUME NEW i \in InstanceID, Heartbeat(i)
      PROVE  PendingClear'
  BY <1>4, <1>7 DEF Heartbeat
<1>8. CASE CleanupScan \/ Stop \/ CleanupLoopExit \/ UNCHANGED vars
  BY <1>4, <1>8 DEF CleanupScan, Stop, CleanupLoopExit, vars
<1> QED
  BY <1>1, <1>2, <1>3, <1>5, <1>6, <1>7, <1>8 DEF Next

(***************************************************************************)
(* With one handler a validated registration may always be inserted.       *)
(***************************************************************************)
LEMMA ClearAlways ==
    ASSUME OneHandler
    PROVE  Spec => [](IInv /\ PendingClear)
<1>1. Init => PendingClear
  BY DEF Init, PendingClear
<1>2. IInv /\ PendingClear /\ [Next]_vars => PendingClear'
  BY ClearInductive
<1> QED
  BY <1>1, <1>2, Inductive, PTL DEF Spec

(***************************************************************************)
(* With one handler, no step takes a key from a service that still has     *)
(* instances.                                                              *)
(***************************************************************************)
THEOREM RoutesAreKept ==
    ASSUME OneHandler
    PROVE  Spec => RoutesKept
<1> DEFINE Kept == \A k \in DOMAIN routes :
                      routes[k] \in DOMAIN services' =>
                        k \in DOMAIN routes' /\ routes'[k] = routes[k]
<1>1. ASSUME IInv, PendingClear, [Next]_vars
      PROVE  [Kept]_vars
  <2>1. ASSUME NEW h \in Handler, NEW age \in 0 .. MaxDelay, RegisterCommit(h, age)
        PROVE  Kept
    <3> DEFINE s == pending[h].ServiceName
               K == pending[h].Routes
    <3>1. routes' = [k \in DOMAIN routes \cup K |-> IF k \in K THEN s ELSE routes[k]]
      BY <2>1 DEF RegisterCommit
    <3>2. \A k \in K : k \in DOMAIN routes => routes[k] = s
      BY <1>1, <2>1 DEF RegisterCommit, PendingClear, ValidRoutes, ExactCollision
    <3> QED BY <3>1, <3>2
  <2>2. ASSUME NEW i \in InstanceID, Deregister(i) \/ CleanupRemove(i)
        PROVE  Kept
    <3>1. Remove(i)
      BY <2>2 DEF Deregister, CleanupRemove
    <3> QED BY <3>1, RemoveShrinksRoutes
  <2>3. CASE Restart
    BY <2>3 DEF Restart
  <2>4. ASSUME routes' = routes
        PROVE  Kept
    BY <2>4
  <2>5. ASSUME NEW h \in Handler, NEW s \in Service, NEW K \in SUBSET Key,
               NEW i \in InstanceID, RegisterValidate(h, s, K, i)
        PROVE  Kept
    BY <2>4, <2>5 DEF RegisterValidate
  <2>6. ASSUME NEW i \in InstanceID, Heartbeat(i)
        PROVE  Kept
    BY <2>4, <2>6 DEF Heartbeat
  <2>7. CASE CleanupScan \/ Stop \/ CleanupLoopExit \/ Tick
    BY <2>4, <2>7 DEF CleanupScan, Stop, CleanupLoopExit, Tick
  <2> HIDE DEF Kept
  <2> QED BY <1>1, <2>1, <2>2, <2>3, <2>5, <2>6, <2>7 DEF Next
<1> QED
  BY <1>1, ClearAlways, PTL DEF Spec, RoutesKept

(***************************************************************************)
(* With one handler and strict pattern matching, overlapping keys belong   *)
(* to one service, provided overlap is symmetric (pathsOverlap is).        *)
(***************************************************************************)
THEOREM PatternsStayDisjoint ==
    ASSUME OneHandler,
           \A k, other \in Key : <<k, other>> \in Overlap => <<other, k>> \in Overlap
    PROVE  Spec => []PatternsDisjoint
<1>1. Init => PatternsDisjoint
  BY DEF Init, PatternsDisjoint
<1>2. ASSUME IInv, PendingClear, PatternsDisjoint, [Next]_vars
      PROVE  PatternsDisjoint'
  <2>1. ASSUME NEW h \in Handler, NEW age \in 0 .. MaxDelay, RegisterCommit(h, age)
        PROVE  PatternsDisjoint'
    <3> DEFINE s == pending[h].ServiceName
               K == pending[h].Routes
    <3>1. routes' = [k \in DOMAIN routes \cup K |-> IF k \in K THEN s ELSE routes[k]]
      BY <2>1 DEF RegisterCommit
    <3>2. DOMAIN routes \subseteq Key /\ K \subseteq Key
      BY <1>2, <2>1 DEF RegisterCommit, IInv, MapsOK, TypeOK, Registration
    <3>3. StrictPatternMatching =>
            \A k \in K : \A other \in DOMAIN routes :
              <<k, other>> \in Overlap => routes[other] = s
      BY <1>2, <2>1 DEF RegisterCommit, PendingClear, ValidRoutes, PatternCollision
    <3> HIDE DEF s, K
    <3> QED BY <1>2, <3>1, <3>2, <3>3 DEF PatternsDisjoint
  <2>2. ASSUME DOMAIN routes' \subseteq DOMAIN routes,
               \A k \in DOMAIN routes' : routes'[k] = routes[k]
        PROVE  PatternsDisjoint'
    BY <1>2, <2>2 DEF PatternsDisjoint
  <2>3. ASSUME NEW i \in InstanceID, Deregister(i) \/ CleanupRemove(i)
        PROVE  PatternsDisjoint'
    <3>1. Remove(i)
      BY <2>3 DEF Deregister, CleanupRemove
    <3> QED BY <2>2, <3>1, RemoveShrinksRoutes
  <2>4. CASE Restart
    BY <2>4 DEF Restart, PatternsDisjoint
  <2>5. ASSUME NEW h \in Handler, NEW s \in Service, NEW K \in SUBSET Key,
               NEW i \in InstanceID, RegisterValidate(h, s, K, i)
        PROVE  PatternsDisjoint'
    BY <2>2, <2>5 DEF RegisterValidate
  <2>6. ASSUME NEW i \in InstanceID, Heartbeat(i)
        PROVE  PatternsDisjoint'
    BY <2>2, <2>6 DEF Heartbeat
  <2>7. CASE CleanupScan \/ Stop \/ CleanupLoopExit \/ Tick \/ UNCHANGED vars
    BY <2>2, <2>7 DEF CleanupScan, Stop, CleanupLoopExit, Tick, vars
  <2> QED BY <1>2, <2>1, <2>3, <2>4, <2>5, <2>6, <2>7 DEF Next
<1> QED
  BY <1>1, <1>2, ClearAlways, PTL DEF Spec

-----------------------------------------------------------------------------
(***************************************************************************)
(* The registry implements the directory.                                  *)
(***************************************************************************)

(***************************************************************************)
(* The removal of an instance is a Leave of the directory.                 *)
(***************************************************************************)
LEMMA RemoveIsLeave ==
    ASSUME IInv, NEW i \in DOMAIN instances, Remove(i)
    PROVE  Directory!Leave(i)
<1> DEFINE s == instances[i].ServiceName
           ids == services[s]
           rest == Drop(ids, i)
           alive == {member[j] : j \in DOMAIN member \ {i}}
<1>1. DOMAIN member = DOMAIN instances /\ DOMAIN member' = DOMAIN instances \ {i}
  BY DEF member, Remove
<1>2. member' = [j \in DOMAIN member \ {i} |-> member[j]]
  BY DEF member, Remove
<1>3. alive = {instances[j].ServiceName : j \in DOMAIN instances \ {i}}
  BY DEF member
<1>4. /\ IndexConsistent' /\ RoutesBacked'
      /\ DOMAIN instances' = DOMAIN instances \ {i}
      /\ \A j \in DOMAIN instances' : instances'[j] = instances[j]
  BY RemoveKeepsMaps DEF IInv, MapsOK
<1> HIDE DEF alive
<1>5. \A t \in DOMAIN services' : t \in alive
  <2> SUFFICES ASSUME NEW t \in DOMAIN services' PROVE t \in alive
    OBVIOUS
  <2>1. /\ services'[t] # << >>
        /\ services'[t] \in Seq(InstanceID)
    BY <1>4, RemoveKeepsMaps DEF IndexConsistent, ListsExact, IInv, MapsOK
  <2>2. 1 \in 1 .. Len(services'[t])
    BY <2>1
  <2>3. /\ services'[t][1] \in DOMAIN instances'
        /\ instances'[services'[t][1]].ServiceName = t
    BY <1>4, <2>2 DEF IndexConsistent, ListsExact
  <2> QED BY <1>3, <1>4, <2>3
<1>6. \A t \in alive : t \in DOMAIN services'
  BY <1>3, <1>4 DEF IndexConsistent, EveryInstanceListed
<1>7. routes' = [k \in {k \in DOMAIN routes : routes[k] \in alive} |-> routes[k]]
  <2>1. /\ DOMAIN routes' \subseteq DOMAIN routes
        /\ \A k \in DOMAIN routes' : routes'[k] = routes[k]
        /\ \A k \in DOMAIN routes : routes[k] \in DOMAIN services' => k \in DOMAIN routes'
    BY RemoveShrinksRoutes
  <2>2. \A k \in DOMAIN routes' : routes'[k] \in DOMAIN services'
    BY <1>4 DEF RoutesBacked
  <2>3. DOMAIN routes' = {k \in DOMAIN routes : routes[k] \in alive}
    BY <1>5, <1>6, <2>1, <2>2
  <2>4. routes' = [k \in DOMAIN routes' |-> routes'[k]]
    BY RemoveKeepsMaps DEF IInv, MapsOK
  <2> QED BY <2>1, <2>3, <2>4
<1> QED
  BY <1>1, <1>2, <1>7 DEF Directory!Leave, alive

(***************************************************************************)
(* With one handler, every step of the registry is a Join, a Leave, a loss *)
(* of everything, or invisible; the two-step registration and the cleanup  *)
(* cannot be told from atomic ones.                                        *)
(***************************************************************************)
THEOREM RegistryImplementsDirectory ==
    ASSUME OneHandler
    PROVE  Spec => ImplementsDirectory
<1>1. Init => Directory!DirInit
  <2> SUFFICES ASSUME Init PROVE Directory!DirInit
    OBVIOUS
  <2>1. member = << >>
    BY DEF Init, member
  <2> QED BY <2>1 DEF Init, Directory!DirInit
<1>2. ASSUME IInv, PendingClear, [Next]_vars
      PROVE  [Directory!DirNext]_(Directory!dirVars)
  <2> USE DEF Directory!dirVars
  <2>1. ASSUME NEW h \in Handler, NEW age \in 0 .. MaxDelay, RegisterCommit(h, age)
        PROVE  Directory!DirNext
    <3> DEFINE s == pending[h].ServiceName
               K == pending[h].Routes
               i == pending[h].instanceID
    <3>1. /\ instances' = [j \in DOMAIN instances \cup {i} |->
                             IF j = i THEN [ServiceName |-> s,
                                            Status |-> "healthy",
                                            elapsed |-> age]
                                      ELSE instances[j]]
          /\ routes' = [k \in DOMAIN routes \cup K |-> IF k \in K THEN s ELSE routes[k]]
      BY <2>1 DEF RegisterCommit
    <3>2. s \in Service /\ K \in SUBSET Key /\ i \in InstanceID /\ i \notin DOMAIN instances
      BY <1>2, <2>1 DEF RegisterCommit, IInv, MapsOK, TypeOK, Registration, UUIDsFresh
    <3>3. \A k \in K : k \in DOMAIN routes => routes[k] = s
      BY <1>2, <2>1 DEF RegisterCommit, PendingClear, ValidRoutes, ExactCollision
    <3> HIDE DEF s, K, i
    <3>4. /\ DOMAIN member = DOMAIN instances
          /\ member' = [j \in DOMAIN member \cup {i} |-> IF j = i THEN s ELSE member[j]]
      BY <3>1 DEF member
    <3>5. Directory!Join(i, s, K)
      BY <3>1, <3>2, <3>3, <3>4 DEF Directory!Join
    <3> QED BY <3>2, <3>5 DEF Directory!DirNext
  <2>2. ASSUME NEW i \in InstanceID, Deregister(i) \/ CleanupRemove(i)
        PROVE  Directory!DirNext
    <3>1. Remove(i) /\ i \in DOMAIN instances
      BY <1>2, <2>2 DEF Deregister, CleanupRemove, IInv, MapsOK, TypeOK
    <3> QED BY <1>2, <3>1, RemoveIsLeave DEF Directory!DirNext
  <2>3. CASE Restart
    <3>1. member' = << >> /\ routes' = << >>
      BY <2>3 DEF Restart, member
    <3> QED BY <3>1 DEF Directory!DirNext, Directory!Lose
  <2>4. ASSUME routes' = routes,
               DOMAIN instances' = DOMAIN instances,
               \A i \in DOMAIN instances : instances'[i].ServiceName = instances[i].ServiceName
        PROVE  UNCHANGED Directory!dirVars
    BY <2>4 DEF member
  <2>5. ASSUME NEW h \in Handler, NEW s \in Service, NEW K \in SUBSET Key,
               NEW i \in InstanceID, RegisterValidate(h, s, K, i)
        PROVE  UNCHANGED Directory!dirVars
    BY <2>4, <2>5 DEF RegisterValidate
  <2>6. ASSUME NEW i \in InstanceID, Heartbeat(i)
        PROVE  UNCHANGED Directory!dirVars
    <3>1. /\ DOMAIN instances' = DOMAIN instances
          /\ \A j \in DOMAIN instances :
                instances'[j].ServiceName = instances[j].ServiceName
      BY <1>2, <2>6 DEF Heartbeat, IInv, MapsOK, TypeOK, Instance
    <3> QED BY <2>4, <2>6, <3>1 DEF Heartbeat
  <2>7. CASE CleanupScan \/ Tick
    <3>1. /\ DOMAIN instances' = DOMAIN instances
          /\ \A j \in DOMAIN instances :
                instances'[j].ServiceName = instances[j].ServiceName
      BY <1>2, <2>7 DEF CleanupScan, Tick, IInv, MapsOK, TypeOK, Instance
    <3> QED BY <2>4, <2>7, <3>1 DEF CleanupScan, Tick
  <2>8. CASE Stop \/ CleanupLoopExit \/ UNCHANGED vars
    BY <2>4, <2>8 DEF Stop, CleanupLoopExit, vars
  <2> QED BY <1>2, <2>1, <2>2, <2>3, <2>5, <2>6, <2>7, <2>8 DEF Next
<1> QED
  BY <1>1, <1>2, ClearAlways, PTL DEF Spec, ImplementsDirectory, Directory!DirSpec

=============================================================================
