---------------------------- MODULE OTLPExporter ----------------------------
(***************************************************************************)
(* The span exporter (tracing/otlp.go): request handlers put spans into a  *)
(* buffered channel, one goroutine (batchLoop) collects them into batches  *)
(* and posts each batch to the collector, and Shutdown closes a channel    *)
(* that makes the goroutine drain the buffer and return.                   *)
(*                                                                         *)
(* While flush is posting a batch the goroutine receives nothing and the   *)
(* buffer fills up.  Whether the post succeeds changes nothing here: flush *)
(* logs the error and the batch is gone either way.                        *)
(***************************************************************************)
EXTENDS Integers, Sequences

CONSTANTS Span,         \* spans, each exported at most once
          BufferSize,   \* defaultBufferSize
          BatchSize     \* defaultBatchSize

ASSUME SizeAssumption == BufferSize \in Nat \ {0} /\ BatchSize \in Nat \ {0}

VARIABLES
    spans,      \* the buffered channel
    batch,      \* the batch under construction, or being flushed
    loop,       \* where batchLoop is
    shutdown,   \* Shutdown: "no", "waiting", or how it returned
    accepted,   \* history: the spans Export put into the channel, in order
    flushed,    \* history: the spans of flushed batches, in order
    dropped,    \* history: the spans Export dropped
    closedAt    \* history: Len(accepted) when Shutdown closed done

loopVars == <<spans, batch, loop, flushed>>
exporterVars == <<spans, batch, loop, shutdown, accepted, flushed, dropped, closedAt>>

\* where batchLoop goes when a flush returns
AfterFlush == [flush |-> "select", drainFlush |-> "drain", lastFlush |-> "returned"]

ExporterTypeOK ==
    /\ spans \in Seq(Span) /\ Len(spans) <= BufferSize
    /\ batch \in Seq(Span) /\ Len(batch) <= BatchSize
    /\ loop \in {"select", "drain", "returned"} \cup DOMAIN AfterFlush
    /\ shutdown \in {"no", "waiting", "nil", "timeout"}
    /\ accepted \in Seq(Span)
    /\ flushed \in Seq(Span)
    /\ dropped \subseteq Span
    /\ closedAt \in Nat

\* NewOTLPExporter
ExporterInit ==
    /\ spans = << >>
    /\ batch = << >>
    /\ loop = "select"
    /\ shutdown = "no"
    /\ accepted = << >>
    /\ flushed = << >>
    /\ dropped = {}
    /\ closedAt = 0

-----------------------------------------------------------------------------

Fresh(span) == span \notin dropped /\ \A n \in 1 .. Len(accepted) : accepted[n] # span

\* variant that must fail: without default the select waits for room
ExportBlocking(span) ==
    /\ Fresh(span)
    /\ Len(spans) < BufferSize
    /\ spans' = Append(spans, span)
    /\ accepted' = Append(accepted, span)
    /\ UNCHANGED <<dropped, batch, loop, shutdown, flushed, closedAt>>

\* Export never blocks, and does not look whether the exporter is shut down
Export(span) ==
    /\ Fresh(span)
    /\ IF Len(spans) < BufferSize
       THEN /\ spans' = Append(spans, span)
            /\ accepted' = Append(accepted, span)
            /\ dropped' = dropped
       ELSE /\ dropped' = dropped \cup {span}
            /\ UNCHANGED <<spans, accepted>>
    /\ UNCHANGED <<batch, loop, shutdown, flushed, closedAt>>

-----------------------------------------------------------------------------
(***************************************************************************)
(* batchLoop.                                                              *)
(***************************************************************************)

\* variant that must fail: the span that fills the batch is left out of it
ReceiveLosing ==
    /\ loop \in {"select", "drain"}
    /\ spans # << >>
    /\ spans' = Tail(spans)
    /\ IF Len(batch) + 1 >= BatchSize
       THEN batch' = batch /\ loop' = IF loop = "select" THEN "flush" ELSE "drainFlush"
       ELSE batch' = Append(batch, Head(spans)) /\ loop' = loop
    /\ UNCHANGED <<shutdown, accepted, flushed, dropped, closedAt>>

\* variant that must fail: > for >=
ReceiveLate ==
    /\ loop \in {"select", "drain"}
    /\ spans # << >>
    /\ spans' = Tail(spans)
    /\ batch' = Append(batch, Head(spans))
    /\ loop' = IF Len(batch) < BatchSize THEN loop
               ELSE IF loop = "select" THEN "flush" ELSE "drainFlush"
    /\ UNCHANGED <<shutdown, accepted, flushed, dropped, closedAt>>

\* a span arrives, in the main select or in the drain's; a full batch goes
Receive ==
    /\ loop \in {"select", "drain"}
    /\ spans # << >>
    /\ spans' = Tail(spans)
    /\ batch' = Append(batch, Head(spans))
    /\ loop' = IF Len(batch) + 1 < BatchSize THEN loop
               ELSE IF loop = "select" THEN "flush" ELSE "drainFlush"
    /\ UNCHANGED <<shutdown, accepted, flushed, dropped, closedAt>>

\* variant that must fail: the ticker flushes only full batches
FlushTickFull ==
    /\ loop = "select"
    /\ Len(batch) >= BatchSize
    /\ loop' = "flush"
    /\ UNCHANGED <<spans, batch, shutdown, accepted, flushed, dropped, closedAt>>

\* the ticker fires
FlushTick ==
    /\ loop = "select"
    /\ batch # << >>
    /\ loop' = "flush"
    /\ UNCHANGED <<spans, batch, shutdown, accepted, flushed, dropped, closedAt>>

\* variant that must fail: done ends the loop without draining
ReturnOnDone ==
    /\ loop = "select"
    /\ shutdown # "no"
    /\ loop' = IF batch = << >> THEN "returned" ELSE "lastFlush"
    /\ UNCHANGED <<spans, batch, shutdown, accepted, flushed, dropped, closedAt>>

\* select takes done
StartDrain ==
    /\ loop = "select"
    /\ shutdown # "no"
    /\ loop' = "drain"
    /\ UNCHANGED <<spans, batch, shutdown, accepted, flushed, dropped, closedAt>>

\* variant that must fail: break for return leaves the select, not the loop
BreakDrain ==
    /\ loop = "drain"
    /\ spans = << >>
    /\ loop' = IF batch = << >> THEN "select" ELSE "flush"
    /\ UNCHANGED <<spans, batch, shutdown, accepted, flushed, dropped, closedAt>>

\* the channel is empty: the rest is flushed and the goroutine returns
EndDrain ==
    /\ loop = "drain"
    /\ spans = << >>
    /\ loop' = IF batch = << >> THEN "returned" ELSE "lastFlush"
    /\ UNCHANGED <<spans, batch, shutdown, accepted, flushed, dropped, closedAt>>

\* flush returns: sent, refused or failed
FlushReturns ==
    /\ loop \in DOMAIN AfterFlush
    /\ flushed' = flushed \o batch
    /\ batch' = << >>
    /\ loop' = AfterFlush[loop]
    /\ UNCHANGED <<spans, shutdown, accepted, dropped, closedAt>>

BatchLoop == Receive \/ FlushTick \/ StartDrain \/ EndDrain \/ FlushReturns

-----------------------------------------------------------------------------
(***************************************************************************)
(* Shutdown; a second call would close done twice.                         *)
(***************************************************************************)

Shutdown ==
    /\ shutdown = "no"
    /\ shutdown' = "waiting"
    /\ closedAt' = Len(accepted)
    /\ UNCHANGED <<spans, batch, loop, accepted, flushed, dropped>>

\* wg.Wait returned
ShutdownFinished ==
    /\ shutdown = "waiting"
    /\ loop = "returned"
    /\ shutdown' = "nil"
    /\ UNCHANGED <<spans, batch, loop, accepted, flushed, dropped, closedAt>>

\* the context is done first; the goroutine goes on
ShutdownTimeout ==
    /\ shutdown = "waiting"
    /\ shutdown' = "timeout"
    /\ UNCHANGED <<spans, batch, loop, accepted, flushed, dropped, closedAt>>

-----------------------------------------------------------------------------

ExporterNext ==
    \/ \E span \in Span : Export(span)
    \/ BatchLoop
    \/ Shutdown
    \/ ShutdownFinished
    \/ ShutdownTimeout

ExporterSpec == ExporterInit /\ [][ExporterNext]_exporterVars

-----------------------------------------------------------------------------

(***************************************************************************)
(* No span is lost, duplicated or reordered between Export and the posts:  *)
(* the flushed batches, the batch at hand and the channel are, in order,   *)
(* exactly what Export accepted.                                           *)
(***************************************************************************)
FIFO == accepted = flushed \o batch \o spans

(***************************************************************************)
(* When Shutdown returned nil, every span accepted before it was called    *)
(* has been flushed, and no batch is left behind.                          *)
(***************************************************************************)
ShutdownDrains == shutdown = "nil" => Len(flushed) >= closedAt /\ batch = << >>

=============================================================================
