------------------------------ MODULE Routing -------------------------------
(***************************************************************************)
(* Route patterns: how the registry compares two of them when a service    *)
(* registers (internal/application/collision.go), and how the proxy        *)
(* compares one with the path of a request (proxy/matcher.go).  The two    *)
(* read the same patterns with different code.                             *)
(*                                                                         *)
(* A path is the sequence of segments strings.Split returns once the       *)
(* slashes at both ends are trimmed, and whether there was a slash at the  *)
(* end.  A segment of a pattern is a literal, a :name, a {name} or "*".    *)
(***************************************************************************)
EXTENDS Integers, Sequences

CONSTANTS Literal,   \* segments that stand for themselves
          Colon,     \* ":name" segments
          Brace,     \* "{name}" segments
          Star       \* the segment "*"

ASSUME SegmentAssumption ==
    /\ Literal # {}
    /\ Literal \cap Colon = {} /\ Literal \cap Brace = {} /\ Colon \cap Brace = {}
    /\ Star \notin Literal \cup Colon \cup Brace

Segment == Literal \cup Colon \cup Brace \cup {Star}

\* route patterns, and the paths of requests
Pattern == [segments : Seq(Segment), slash : BOOLEAN]
RequestPath == [segments : Seq(Literal), slash : BOOLEAN]

-----------------------------------------------------------------------------
(***************************************************************************)
(* collision.go                                                            *)
(***************************************************************************)

\* variant that must fail: the pattern knows only "{name}"
normalizeBrace(x) == IF x \in Brace THEN Star ELSE x

\* paramPattern.ReplaceAllString on one segment
normalizeSegment(x) == IF x \in Colon \cup Brace THEN Star ELSE x

normalizePath(path) ==
    [path EXCEPT !.segments =
       [n \in 1 .. Len(path.segments) |-> normalizeSegment(path.segments[n])]]

\* of two normalized paths
pathsOverlap(path1, path2) ==
    LET segments1 == path1.segments
        segments2 == path2.segments
    IN \/ path1 = path2
       \/ /\ Len(segments1) = Len(segments2)
          /\ \A n \in 1 .. Len(segments1) :
                \/ segments1[n] = Star
                \/ segments2[n] = Star
                \/ segments1[n] = segments2[n]

-----------------------------------------------------------------------------
(***************************************************************************)
(* matcher.go                                                              *)
(***************************************************************************)

(***************************************************************************)
(* matchPathWithParams: "*" ends the comparison and takes the rest of the  *)
(* path, which may then be of another length; ":name" takes any segment;   *)
(* everything else, "{name}" too, must be equal.                           *)
(***************************************************************************)
matchPathWithParams(pattern, path) ==
    LET pat  == pattern.segments
        segs == path.segments
        swallowed(n) == \E m \in 1 .. n : pat[m] = Star
    IN /\ Len(pat) # Len(segs) => /\ Len(pat) > 0
                                  /\ pat[Len(pat)] = Star
                                  /\ Len(segs) >= Len(pat) - 1
       /\ \A n \in 1 .. Len(pat) :
             \/ swallowed(n)
             \/ /\ n <= Len(segs)
                /\ pat[n] \in Colon \/ pat[n] = segs[n]

=============================================================================
