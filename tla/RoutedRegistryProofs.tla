------------------------ MODULE RoutedRegistryProofs ------------------------
(***************************************************************************)
(* Proofs about patterns and routing, for any set of segments and keys.    *)
(***************************************************************************)
EXTENDS RoutedRegistry, RegistryProofs

\* patterns of literals and :names
PlainSegment == Literal \cup Colon
PlainPattern == [segments : Seq(PlainSegment), slash : BOOLEAN]

(***************************************************************************)
(* The order of the arguments of pathsOverlap does not matter, so neither  *)
(* does the order in which two services register.                          *)
(***************************************************************************)
LEMMA OverlapSymmetric ==
    ASSUME NEW path1, NEW path2, pathsOverlap(path1, path2)
    PROVE  pathsOverlap(path2, path1)
BY DEF pathsOverlap

(***************************************************************************)
(* What a plain pattern matches: paths of its length that agree with it on *)
(* its literals.                                                           *)
(***************************************************************************)
LEMMA PlainMatch ==
    ASSUME NEW p \in PlainPattern, NEW r \in RequestPath
    PROVE  matchPathWithParams(p, r) <=>
             /\ Len(p.segments) = Len(r.segments)
             /\ \A n \in 1 .. Len(p.segments) :
                   p.segments[n] \in Colon \/ p.segments[n] = r.segments[n]
<1> DEFINE pat == p.segments
           segs == r.segments
<1>1. pat \in Seq(PlainSegment) /\ segs \in Seq(Literal)
  BY DEF PlainPattern, RequestPath
<1>2. \A n \in 1 .. Len(pat) : pat[n] # Star
  BY <1>1, SegmentAssumption DEF PlainSegment
<1>3. Len(pat) > 0 => Len(pat) \in 1 .. Len(pat)
  BY <1>1
<1>4. \A n \in 1 .. Len(pat) : ~ \E m \in 1 .. n : pat[m] = Star
  BY <1>1, <1>2
<1> HIDE DEF pat, segs
<1>5. ASSUME matchPathWithParams(p, r)
      PROVE  /\ Len(pat) = Len(segs)
             /\ \A n \in 1 .. Len(pat) : pat[n] \in Colon \/ pat[n] = segs[n]
  BY <1>2, <1>3, <1>4, <1>5 DEF matchPathWithParams, pat, segs
<1>6. ASSUME Len(pat) = Len(segs),
             \A n \in 1 .. Len(pat) : pat[n] \in Colon \/ pat[n] = segs[n]
      PROVE  matchPathWithParams(p, r)
  <2>1. \A n \in 1 .. Len(pat) : n <= Len(segs)
    BY <1>1, <1>6
  <2> QED BY <1>6, <2>1 DEF matchPathWithParams, pat, segs
<1> QED
  BY <1>5, <1>6 DEF pat, segs

(***************************************************************************)
(* Overlap of plain patterns, segment by segment.                          *)
(***************************************************************************)
LEMMA PlainOverlap ==
    ASSUME NEW p \in PlainPattern, NEW q \in PlainPattern
    PROVE  pathsOverlap(normalizePath(p), normalizePath(q)) <=>
             /\ Len(p.segments) = Len(q.segments)
             /\ \A n \in 1 .. Len(p.segments) :
                   \/ p.segments[n] \in Colon
                   \/ q.segments[n] \in Colon
                   \/ p.segments[n] = q.segments[n]
<1> DEFINE np == normalizePath(p)
           nq == normalizePath(q)
<1>1. p.segments \in Seq(PlainSegment) /\ q.segments \in Seq(PlainSegment)
  BY DEF PlainPattern
<1>2. /\ np.segments = [n \in 1 .. Len(p.segments) |-> normalizeSegment(p.segments[n])]
      /\ nq.segments = [n \in 1 .. Len(q.segments) |-> normalizeSegment(q.segments[n])]
  BY DEF normalizePath, PlainPattern
<1>3. Len(np.segments) = Len(p.segments) /\ Len(nq.segments) = Len(q.segments)
  BY <1>1, <1>2
<1>4. \A x \in PlainSegment : /\ x \in Colon => normalizeSegment(x) = Star
                              /\ x \notin Colon => normalizeSegment(x) = x /\ x # Star
  BY SegmentAssumption DEF PlainSegment, normalizeSegment
<1>5. /\ \A n \in 1 .. Len(p.segments) : p.segments[n] \in PlainSegment
      /\ \A n \in 1 .. Len(q.segments) : q.segments[n] \in PlainSegment
  BY <1>1
<1>6. pathsOverlap(np, nq) <=>
        /\ Len(np.segments) = Len(nq.segments)
        /\ \A n \in 1 .. Len(np.segments) :
              \/ np.segments[n] = Star
              \/ nq.segments[n] = Star
              \/ np.segments[n] = nq.segments[n]
  BY DEF pathsOverlap
<1> HIDE DEF np, nq
<1>7. ASSUME Len(p.segments) = Len(q.segments), NEW n \in 1 .. Len(p.segments)
      PROVE  (\/ np.segments[n] = Star
              \/ nq.segments[n] = Star
              \/ np.segments[n] = nq.segments[n])
             <=> (\/ p.segments[n] \in Colon
                  \/ q.segments[n] \in Colon
                  \/ p.segments[n] = q.segments[n])
  <2>1. /\ np.segments[n] = normalizeSegment(p.segments[n])
        /\ nq.segments[n] = normalizeSegment(q.segments[n])
    BY <1>2, <1>7
  <2> QED BY <1>4, <1>5, <1>7, <2>1
<1>8. (Len(p.segments) = Len(q.segments)) <=> (Len(np.segments) = Len(nq.segments))
  BY <1>3
<1> QED
  BY <1>3, <1>6, <1>7, <1>8 DEF np, nq

(***************************************************************************)
(* For patterns of literals and :names the registry's collision check is   *)
(* exact: two patterns overlap if and only if some request path matches    *)
(* both.                                                                   *)
(***************************************************************************)
THEOREM OverlapIsSharedRequest ==
    ASSUME NEW p \in PlainPattern, NEW q \in PlainPattern
    PROVE  pathsOverlap(normalizePath(p), normalizePath(q)) <=>
             \E r \in RequestPath : matchPathWithParams(p, r) /\ matchPathWithParams(q, r)
<1> DEFINE P == p.segments
           Q == q.segments
<1>1. P \in Seq(PlainSegment) /\ Q \in Seq(PlainSegment)
  BY DEF PlainPattern
<1>2. ASSUME NEW r \in RequestPath, matchPathWithParams(p, r), matchPathWithParams(q, r)
      PROVE  pathsOverlap(normalizePath(p), normalizePath(q))
  <2>1. r.segments \in Seq(Literal)
    BY DEF RequestPath
  <2>2. /\ Len(P) = Len(r.segments) /\ Len(Q) = Len(r.segments)
        /\ \A n \in 1 .. Len(P) : P[n] \in Colon \/ P[n] = r.segments[n]
        /\ \A n \in 1 .. Len(Q) : Q[n] \in Colon \/ Q[n] = r.segments[n]
    BY <1>2, PlainMatch
  <2> QED BY <2>2, PlainOverlap
<1>3. ASSUME pathsOverlap(normalizePath(p), normalizePath(q))
      PROVE  \E r \in RequestPath : matchPathWithParams(p, r) /\ matchPathWithParams(q, r)
  <2>1. /\ Len(P) = Len(Q)
        /\ \A n \in 1 .. Len(P) : P[n] \in Colon \/ Q[n] \in Colon \/ P[n] = Q[n]
    BY <1>3, PlainOverlap
  <2>2. PICK x : x \in Literal
    BY SegmentAssumption
  <2> DEFINE segs == [n \in 1 .. Len(P) |-> IF P[n] \notin Colon THEN P[n]
                                           ELSE IF Q[n] \notin Colon THEN Q[n]
                                           ELSE x]
             r == [segments |-> segs, slash |-> FALSE]
  <2>3. segs \in Seq(Literal) /\ Len(segs) = Len(P)
    <3>1. \A n \in 1 .. Len(P) : segs[n] \in Literal
      <4> SUFFICES ASSUME NEW n \in 1 .. Len(P) PROVE segs[n] \in Literal
        OBVIOUS
      <4>1. P[n] \in PlainSegment /\ Q[n] \in PlainSegment
        BY <1>1, <2>1
      <4> QED BY <2>2, <4>1 DEF PlainSegment
    <3>2. DOMAIN segs = 1 .. Len(P) /\ segs = [n \in DOMAIN segs |-> segs[n]]
      OBVIOUS
    <3>3. Len(P) \in Nat
      BY <1>1
    <3> HIDE DEF segs, P
    <3>4. segs \in [1 .. Len(P) -> Literal]
      BY <3>1, <3>2
    <3> QED BY <3>3, <3>4
  <2>4. r \in RequestPath /\ r.segments = segs
    BY <2>3 DEF RequestPath
  <2>5. \A n \in 1 .. Len(P) : P[n] \in Colon \/ P[n] = segs[n]
    OBVIOUS
  <2>6. \A n \in 1 .. Len(Q) : Q[n] \in Colon \/ Q[n] = segs[n]
    BY <2>1
  <2> HIDE DEF segs, r
  <2>7. matchPathWithParams(p, r) /\ matchPathWithParams(q, r)
    BY <2>1, <2>3, <2>4, <2>5, <2>6, PlainMatch
  <2> QED BY <2>4, <2>7
<1> QED
  BY <1>2, <1>3

-----------------------------------------------------------------------------

\* every registered pattern is made of literals and :names
PlainKeys == \A k \in Key : k.Path \in PlainPattern

(***************************************************************************)
(* Overlap of keys is symmetric.                                           *)
(***************************************************************************)
LEMMA KeyOverlapSymmetric ==
    \A k, other \in Key : <<k, other>> \in Overlap => <<other, k>> \in Overlap
BY OverlapSymmetric, KeyOverlapAssumption DEF KeysOverlap

(***************************************************************************)
(* With strict pattern matching, one handler, and patterns of literals and *)
(* :names, the proxy sends a request to the same service whatever order    *)
(* it meets the routes in.                                                 *)
(***************************************************************************)
THEOREM RoutingIsUnambiguous ==
    ASSUME OneHandler, PlainKeys, StrictPatternMatching = TRUE
    PROVE  Spec => []UnambiguousRouting
<1>1. Spec => []PatternsDisjoint
  BY PatternsStayDisjoint, KeyOverlapSymmetric
<1>2. ASSUME TypeOK, PatternsDisjoint
      PROVE  UnambiguousRouting
  <2> SUFFICES ASSUME NEW m \in HTTPMethod, NEW path \in RequestPaths,
                      NEW s \in MatchRoute(m, path), NEW t \in MatchRoute(m, path)
               PROVE  s = t
    BY DEF UnambiguousRouting
  <2>1. CASE [Method |-> m, Path |-> path] \in DOMAIN routes
    BY <2>1 DEF MatchRoute
  <2>2. CASE [Method |-> m, Path |-> path] \notin DOMAIN routes
    <3>1. PICK k \in MatchingKeys(m, path), other \in MatchingKeys(m, path) :
             s = routes[k] /\ t = routes[other]
      BY <2>2 DEF MatchRoute
    <3>2. /\ k \in DOMAIN routes /\ other \in DOMAIN routes
          /\ k.Method = m /\ other.Method = m
          /\ matchPathWithParams(k.Path, path) /\ matchPathWithParams(other.Path, path)
      BY <3>1 DEF MatchingKeys
    <3>3. k \in Key /\ other \in Key
      BY <1>2, <3>2 DEF TypeOK
    <3>4. KeysOverlap(k, other)
      BY <3>2, <3>3, OverlapIsSharedRequest, RequestAssumption DEF KeysOverlap, PlainKeys
    <3>5. <<k, other>> \in Overlap
      BY <3>3, <3>4, KeyOverlapAssumption
    <3> QED BY <1>2, <3>1, <3>2, <3>5 DEF PatternsDisjoint
  <2> QED BY <2>1, <2>2
<1> QED
  BY <1>1, <1>2, TypeCorrect, PTL

=============================================================================
