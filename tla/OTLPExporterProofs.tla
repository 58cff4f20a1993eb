------------------------- MODULE OTLPExporterProofs -------------------------
(***************************************************************************)
(* Proofs about OTLPExporter, for every buffer and batch size: no span is  *)
(* lost, duplicated or reordered on its way through the exporter, and a    *)
(* Shutdown that returned nil has flushed what was accepted before it.     *)
(*                                                                         *)
(* ShutdownDrains is not inductive: that the goroutine's last flush really *)
(* was the last one it owed is known when the drain found the channel      *)
(* empty, which may be long before Shutdown returns, and spans accepted    *)
(* later must not count.  Owed carries it from there.                      *)
(***************************************************************************)
EXTENDS OTLPExporter, SequenceTheorems, TLAPS

\* what the drain has established, at each of its labels
Owed ==
    /\ closedAt <= Len(accepted)
    /\ loop \in {"drain", "drainFlush", "lastFlush", "returned"} => shutdown # "no"
    /\ loop = "lastFlush" => Len(flushed) + Len(batch) >= closedAt
    /\ loop = "returned" => Len(flushed) >= closedAt /\ batch = << >>
    /\ shutdown = "nil" => loop = "returned"
    /\ loop \in {"select", "drain"} => Len(batch) < BatchSize

ExporterInv == ExporterTypeOK /\ FIFO /\ Owed

\* concatenation, as the steps below need it
LEMMA Concatenation ==
    ASSUME NEW S, NEW a \in Seq(S), NEW b \in Seq(S)
    PROVE  /\ a \o b \in Seq(S) /\ Len(a \o b) = Len(a) + Len(b)
           /\ a \o << >> = a
  <1>1. a \o b \in Seq(S) /\ Len(a \o b) = Len(a) + Len(b)
    BY ONLY a \in Seq(S), b \in Seq(S), ConcatProperties, Zenon
  <1> QED
    BY <1>1, ConcatEmptySeq

\* a received span moves from the head of the channel to the end of the batch
LEMMA MoveHead ==
    ASSUME NEW S, NEW a \in Seq(S), NEW b \in Seq(S), b # << >>
    PROVE  /\ Tail(b) \in Seq(S) /\ Len(Tail(b)) = Len(b) - 1
           /\ Append(a, Head(b)) \in Seq(S) /\ Len(Append(a, Head(b))) = Len(a) + 1
           /\ Append(a, Head(b)) \o Tail(b) = a \o b
  OBVIOUS

\* a span that Export accepts is the last of the channel
LEMMA AppendLast ==
    ASSUME NEW S, NEW a \in Seq(S), NEW b \in Seq(S), NEW x \in S
    PROVE  /\ Append(b, x) \in Seq(S) /\ Len(Append(b, x)) = Len(b) + 1
           /\ a \o Append(b, x) = Append(a \o b, x)
  OBVIOUS

-----------------------------------------------------------------------------

LEMMA ExporterInvInit == ExporterInit => ExporterInv
  BY SizeAssumption DEF ExporterInit, ExporterInv, ExporterTypeOK, FIFO, Owed, AfterFlush

\* lengths of the three parts of what was accepted
LEMMA Lengths ==
    ASSUME ExporterInv
    PROVE  Len(accepted) = Len(flushed) + Len(batch) + Len(spans)
  <1>1. flushed \in Seq(Span) /\ batch \in Seq(Span) /\ spans \in Seq(Span)
    BY DEF ExporterInv, ExporterTypeOK
  <1>2. flushed \o batch \in Seq(Span) /\ Len(flushed \o batch) = Len(flushed) + Len(batch)
    BY <1>1, Concatenation, Zenon
  <1>3. Len((flushed \o batch) \o spans) = Len(flushed \o batch) + Len(spans)
    BY <1>1, <1>2, Concatenation, Zenon
  <1> QED
    BY <1>1, <1>2, <1>3 DEF ExporterInv, FIFO

LEMMA ExporterInductive ==
    ASSUME ExporterInv, [ExporterNext]_exporterVars
    PROVE  ExporterInv'
  <1> USE SizeAssumption
  <1>0. /\ spans \in Seq(Span) /\ batch \in Seq(Span) /\ flushed \in Seq(Span)
        /\ accepted \in Seq(Span) /\ flushed \o batch \in Seq(Span)
        /\ accepted = (flushed \o batch) \o spans
        /\ Len(spans) \in Nat /\ Len(batch) \in Nat /\ Len(flushed) \in Nat
        /\ Len(accepted) = Len(flushed) + Len(batch) + Len(spans)
    <2>1. spans \in Seq(Span) /\ batch \in Seq(Span) /\ flushed \in Seq(Span)
      BY DEF ExporterInv, ExporterTypeOK
    <2>2. flushed \o batch \in Seq(Span)
      BY <2>1, Concatenation, Zenon
    <2> QED
      BY <2>1, <2>2, Lengths DEF ExporterInv, ExporterTypeOK, FIFO
  <1>1. ASSUME NEW span \in Span, Export(span)
        PROVE  ExporterInv'
    <2>1. CASE Len(spans) < BufferSize
      <3>1. /\ Append(spans, span) \in Seq(Span) /\ Len(Append(spans, span)) = Len(spans) + 1
            /\ (flushed \o batch) \o Append(spans, span) = Append(accepted, span)
        BY <1>0, AppendLast
      <3>2. Append(accepted, span) \in Seq(Span) /\ Len(Append(accepted, span)) = Len(accepted) + 1
        BY <1>0, AppendLast
      <3>3. ExporterTypeOK'
        <4>1. /\ spans' = Append(spans, span) /\ accepted' = Append(accepted, span)
              /\ UNCHANGED <<batch, loop, shutdown, flushed, dropped, closedAt>>
          BY <1>1, <2>1 DEF Export
        <4>2. Len(spans') <= BufferSize
          BY <1>0, <2>1, <3>1, <4>1
        <4> QED
          BY <3>1, <3>2, <4>1, <4>2 DEF ExporterInv, ExporterTypeOK
      <3>4. FIFO'
        BY <1>1, <2>1, <3>1 DEF Export, FIFO
      <3>5. Owed'
        BY <1>0, <1>1, <2>1, <3>2 DEF Export, ExporterInv, ExporterTypeOK, Owed
      <3> QED
        BY <3>3, <3>4, <3>5 DEF ExporterInv
    <2>2. CASE ~ Len(spans) < BufferSize
      BY <1>1, <2>2 DEF Export, ExporterInv, ExporterTypeOK, FIFO, Owed
    <2> QED
      BY <2>1, <2>2
  <1>2. CASE Receive
    <2>1. /\ Tail(spans) \in Seq(Span) /\ Len(Tail(spans)) = Len(spans) - 1
          /\ Append(batch, Head(spans)) \in Seq(Span)
          /\ Len(Append(batch, Head(spans))) = Len(batch) + 1
          /\ Append(batch, Head(spans)) \o Tail(spans) = batch \o spans
      BY <1>0, <1>2, MoveHead DEF Receive
    <2>2. (flushed \o Append(batch, Head(spans))) \o Tail(spans) = accepted
      <3> DEFINE d == Append(batch, Head(spans))
                 e == Tail(spans)
      <3>1. flushed \in Seq(Span) /\ d \in Seq(Span) /\ e \in Seq(Span)
        BY <1>0, <2>1
      <3>2. d \o e = batch \o spans
        BY <2>1
      <3> HIDE DEF d, e
      <3>3. (flushed \o d) \o e = flushed \o (d \o e)
        BY ONLY <3>1, ConcatAssociative
      <3>4. (flushed \o batch) \o spans = flushed \o (batch \o spans)
        BY ONLY <1>0, ConcatAssociative
      <3>5. (flushed \o d) \o e = (flushed \o batch) \o spans
        BY ONLY <3>2, <3>3, <3>4, Zenon
      <3> QED
        BY ONLY <1>0, <3>5 DEF d, e
    <2>3. Len(batch) < BatchSize
      BY <1>2 DEF Receive, ExporterInv, Owed
    <2>4. ExporterTypeOK'
      BY <1>0, <1>2, <2>1, <2>3 DEF Receive, ExporterInv, ExporterTypeOK, AfterFlush
    <2>5. FIFO'
      BY <1>2, <2>2 DEF Receive, FIFO
    <2>6. Owed'
      BY <1>0, <1>2, <2>1, <2>3 DEF Receive, ExporterInv, ExporterTypeOK, Owed
    <2> QED
      BY <2>4, <2>5, <2>6 DEF ExporterInv
  <1>3. CASE FlushTick
    BY <1>0, <1>3 DEF FlushTick, ExporterInv, ExporterTypeOK, FIFO, Owed, AfterFlush
  <1>4. CASE StartDrain
    BY <1>0, <1>4 DEF StartDrain, ExporterInv, ExporterTypeOK, FIFO, Owed, AfterFlush
  <1>5. CASE EndDrain
    BY <1>0, <1>5 DEF EndDrain, ExporterInv, ExporterTypeOK, FIFO, Owed, AfterFlush
  <1>6. CASE FlushReturns
    <2>1. (flushed \o batch) \o << >> = flushed \o batch
      BY <1>0, Concatenation, Zenon
    <2>2. Len(flushed \o batch) = Len(flushed) + Len(batch)
      BY <1>0, Concatenation, Zenon
    <2>3. ExporterTypeOK'
      BY <1>0, <1>6, <2>2 DEF FlushReturns, ExporterInv, ExporterTypeOK, AfterFlush
    <2>4. FIFO'
      BY <1>0, <1>6, <2>1 DEF FlushReturns, FIFO
    <2>5. Owed'
      BY <1>0, <1>6, <2>2 DEF FlushReturns, ExporterInv, ExporterTypeOK, Owed, AfterFlush
    <2> QED
      BY <2>3, <2>4, <2>5 DEF ExporterInv
  <1>7. CASE Shutdown
    BY <1>0, <1>7 DEF Shutdown, ExporterInv, ExporterTypeOK, FIFO, Owed
  <1>8. CASE ShutdownFinished
    BY <1>0, <1>8 DEF ShutdownFinished, ExporterInv, ExporterTypeOK, FIFO, Owed
  <1>9. CASE ShutdownTimeout
    BY <1>0, <1>9 DEF ShutdownTimeout, ExporterInv, ExporterTypeOK, FIFO, Owed
  <1>10. CASE UNCHANGED exporterVars
    BY <1>10 DEF exporterVars, ExporterInv, ExporterTypeOK, FIFO, Owed
  <1> QED
    BY <1>1, <1>2, <1>3, <1>4, <1>5, <1>6, <1>7, <1>8, <1>9, <1>10
    DEF ExporterNext, BatchLoop

(***************************************************************************)
(* The inductive invariant always holds.                                   *)
(***************************************************************************)
THEOREM ExporterInvariant == ExporterSpec => []ExporterInv
  <1>1. ExporterInit => ExporterInv
    BY ExporterInvInit
  <1>2. ExporterInv /\ [ExporterNext]_exporterVars => ExporterInv'
    BY ExporterInductive
  <1> QED
    BY <1>1, <1>2, PTL DEF ExporterSpec

(***************************************************************************)
(* The batch and the channel keep to their sizes, whatever these are.      *)
(***************************************************************************)
THEOREM BuffersBounded == ExporterSpec => []ExporterTypeOK
  <1>1. ExporterInv => ExporterTypeOK
    BY DEF ExporterInv
  <1> QED
    BY <1>1, ExporterInvariant, PTL

(***************************************************************************)
(* Export, batchLoop and flush lose, duplicate and reorder nothing.        *)
(***************************************************************************)
THEOREM SpansInOrder == ExporterSpec => []FIFO
  <1>1. ExporterInv => FIFO
    BY DEF ExporterInv
  <1> QED
    BY <1>1, ExporterInvariant, PTL

(***************************************************************************)
(* Shutdown returned nil: what had been accepted when it was called is     *)
(* flushed, however many spans came in during the drain and after it.      *)
(***************************************************************************)
THEOREM ShutdownFlushes == ExporterSpec => []ShutdownDrains
  <1>1. ExporterInv => ShutdownDrains
    BY DEF ExporterInv, Owed, ShutdownDrains
  <1> QED
    BY <1>1, ExporterInvariant, PTL

=============================================================================
