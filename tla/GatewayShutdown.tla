--------------------------- MODULE GatewayShutdown --------------------------
(***************************************************************************)
(* The gateway process (cmd/api/main.go, http/server.go): one goroutine    *)
(* runs the HTTP server, main waits for a signal and calls Server.Shutdown *)
(* with a context of five seconds.  Shutdown stops the registry, then the  *)
(* span exporter, then Redis, and the HTTP server last.                    *)
(*                                                                         *)
(* Requests are handled until the HTTP server is shut down; the trace      *)
(* middleware exports the span of each when its handlers returned.  A      *)
(* request is identified with its span; a request whose handler panicked   *)
(* has none, and its name is free again.                                   *)
(***************************************************************************)
EXTENDS OTLPExporter

VARIABLES
    server,     \* httpServer: "nil", "serving", "failed", "draining"
    inflight,   \* requests being handled
    main,       \* how far main is
    expired     \* the context of Shutdown is done

processVars == <<server, inflight, main, expired>>
gatewayVars == <<exporterVars, processVars>>

GatewayInit ==
    /\ ExporterInit
    /\ server = "nil"
    /\ inflight = {}
    /\ main = "waiting"
    /\ expired = FALSE

-----------------------------------------------------------------------------

\* the process is there
Alive == main \notin {"exited", "forced", "panic"}

\* Run, in its own goroutine: the server is stored and listens, or returns
\* an error, which is only logged
Run ==
    /\ Alive
    /\ server = "nil"
    /\ server' \in {"serving", "failed"}
    /\ UNCHANGED <<exporterVars, inflight, main, expired>>

\* a request arrives; TraceMiddleware up to c.Next()
Arrive(r) ==
    /\ Alive
    /\ server = "serving"
    /\ Fresh(r) /\ r \notin inflight
    /\ inflight' = inflight \cup {r}
    /\ UNCHANGED <<exporterVars, server, main, expired>>

\* the handlers returned: TraceMiddleware exports the span
Finish(r) ==
    /\ Alive
    /\ r \in inflight
    /\ inflight' = inflight \ {r}
    /\ Export(r)
    /\ UNCHANGED <<server, main, expired>>

\* a handler panicked: Recovery, outside of TraceMiddleware, ends the
\* request, and no span is exported
Panicked(r) ==
    /\ Alive
    /\ r \in inflight
    /\ inflight' = inflight \ {r}
    /\ UNCHANGED <<exporterVars, server, main, expired>>

\* the exporter's goroutine
ExporterStep ==
    /\ Alive
    /\ BatchLoop
    /\ UNCHANGED processVars

-----------------------------------------------------------------------------
(***************************************************************************)
(* main and Server.Shutdown.                                               *)
(***************************************************************************)

Main(from, to) == main = from /\ main' = to

\* the signal arrives; registry.Stop closes its channel and returns
Signal ==
    /\ Main("waiting", "stopped")
    /\ UNCHANGED <<exporterVars, server, inflight, expired>>

\* five seconds are over
Expire ==
    /\ main \in {"stopped", "exporting", "redis", "http"}
    /\ ~ expired
    /\ expired' = TRUE
    /\ UNCHANGED <<exporterVars, server, inflight, main>>

StopExporter ==
    /\ Main("stopped", "exporting")
    /\ Shutdown
    /\ UNCHANGED <<server, inflight, expired>>

\* variant that must fail: only wg.Wait is waited for
ExporterJoined ==
    /\ Main("exporting", "redis")
    /\ ShutdownFinished
    /\ UNCHANGED <<server, inflight, expired>>

\* an error of the exporter is only logged
ExporterStopped ==
    /\ Main("exporting", "redis")
    /\ \/ ShutdownFinished
       \/ expired /\ ShutdownTimeout
    /\ UNCHANGED <<server, inflight, expired>>

\* an error of Redis ends Shutdown: the HTTP server is not shut down
CloseRedis ==
    /\ Main("redis", "http") \/ Main("redis", "forced")
    /\ UNCHANGED <<exporterVars, server, inflight, expired>>

\* httpServer.Shutdown: the listener is closed; nil if Run did not run yet
StopServer ==
    /\ main = "http"
    /\ server # "draining"
    /\ IF server = "nil" THEN main' = "panic" /\ server' = server
                         ELSE main' = main /\ server' = "draining"
    /\ UNCHANGED <<exporterVars, inflight, expired>>

\* no request is left, or the context is done: os.Exit(1)
ServerStopped ==
    /\ main = "http"
    /\ server = "draining"
    /\ \/ inflight = {} /\ main' = "exited"
       \/ expired /\ main' = "forced"
    /\ UNCHANGED <<exporterVars, server, inflight, expired>>

-----------------------------------------------------------------------------

GatewayNext ==
    \/ Run
    \/ \E r \in Span : Arrive(r) \/ Finish(r) \/ Panicked(r)
    \/ ExporterStep
    \/ Signal
    \/ Expire
    \/ StopExporter
    \/ ExporterStopped
    \/ CloseRedis
    \/ StopServer
    \/ ServerStopped

GatewaySpec == GatewayInit /\ [][GatewayNext]_gatewayVars

(***************************************************************************)
(* main goes on as soon as it can.                                         *)
(***************************************************************************)
FairGateway ==
    /\ GatewaySpec
    /\ WF_gatewayVars(StopExporter \/ ExporterStopped \/ CloseRedis
                        \/ StopServer \/ ServerStopped)

(***************************************************************************)
(* What else the properties below assume, each no more than it needs: the  *)
(* exporter's goroutine runs, the collector's answer or the HTTP client's  *)
(* timeout ends every flush, and select, which takes each of its ready     *)
(* cases with the same probability, leaves neither the ticker nor done     *)
(* waiting forever behind arriving spans; all handlers return; the five    *)
(* seconds pass.                                                           *)
(***************************************************************************)
ExporterRuns ==
    /\ WF_gatewayVars(ExporterStep)
    /\ SF_gatewayVars(ExporterStep /\ FlushTick)
    /\ SF_gatewayVars(ExporterStep /\ StartDrain)

HandlersReturn == \A r \in Span : WF_gatewayVars(Finish(r))

DeadlineComes == WF_gatewayVars(Expire)

-----------------------------------------------------------------------------

(***************************************************************************)
(* "Shutdown triggers drain of remaining spans": after a clean exit no     *)
(* accepted span is left in the exporter.                                  *)
(***************************************************************************)
NoSpanStranded ==
    main = "exited" /\ shutdown = "nil" => accepted = flushed

(***************************************************************************)
(* Every accepted span is flushed while the exporter runs, however few     *)
(* come after it to fill its batch.                                        *)
(***************************************************************************)
SpansFlushed ==
    ExporterRuns =>
        \A n \in 1 .. BufferSize + BatchSize :
            Len(accepted) >= n ~> (Len(flushed) >= n \/ shutdown # "no")

(***************************************************************************)
(* The exporter's goroutine drains and returns after Shutdown, even if the *)
(* context ran out, once no new spans arrive and if the process lasts.     *)
(***************************************************************************)
LoopReturns ==
    ExporterRuns => (shutdown # "no" ~> (loop = "returned" \/ ~ Alive))

(***************************************************************************)
(* The process ends after the signal when the five seconds are over,       *)
(* whatever request or post hangs.                                         *)
(***************************************************************************)
Exits == DeadlineComes => (main = "stopped" ~> ~ Alive)

(***************************************************************************)
(* Nor does the process need the deadline if nothing hangs: no request     *)
(* waits for the exporter, which has stopped before the requests are       *)
(* waited for, so main never waits on what waits for it.                   *)
(***************************************************************************)
DrainsByItself ==
    ExporterRuns /\ HandlersReturn => (main = "stopped" ~> (expired \/ ~ Alive))

=============================================================================
