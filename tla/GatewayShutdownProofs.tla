----------------------- MODULE GatewayShutdownProofs ------------------------
(***************************************************************************)
(* Proofs about GatewayShutdown.  The process uses its exporter as         *)
(* OTLPExporter describes it: what is proved of the exporter alone holds   *)
(* of the one in the process, with the requests that are still handled     *)
(* while it is shut down.                                                  *)
(***************************************************************************)
EXTENDS GatewayShutdown, OTLPExporterProofs

\* every step of the process is one of the exporter, or does not concern it
LEMMA ExporterSteps == [GatewayNext]_gatewayVars => [ExporterNext]_exporterVars
  <1> SUFFICES ASSUME [GatewayNext]_gatewayVars
               PROVE  [ExporterNext]_exporterVars
    OBVIOUS
  <1>1. CASE Run \/ Signal \/ Expire \/ CloseRedis \/ StopServer \/ ServerStopped
    BY <1>1 DEF Run, Signal, Expire, CloseRedis, StopServer, ServerStopped
  <1>2. ASSUME NEW r \in Span, Arrive(r) \/ Finish(r) \/ Panicked(r)
        PROVE  [ExporterNext]_exporterVars
    BY <1>2 DEF Arrive, Finish, Panicked, ExporterNext
  <1>3. CASE ExporterStep
    BY <1>3 DEF ExporterStep, ExporterNext
  <1>4. CASE StopExporter
    BY <1>4 DEF StopExporter, ExporterNext
  <1>5. CASE ExporterStopped
    BY <1>5 DEF ExporterStopped, ExporterNext
  <1>6. CASE UNCHANGED gatewayVars
    BY <1>6 DEF gatewayVars
  <1> QED
    BY <1>1, <1>2, <1>3, <1>4, <1>5, <1>6 DEF GatewayNext

(***************************************************************************)
(* The gateway process implements the exporter's specification: Shutdown   *)
(* is called once, and Export by requests only.                            *)
(***************************************************************************)
THEOREM ProcessRunsExporter == GatewaySpec => ExporterSpec
  <1>1. GatewayInit => ExporterInit
    BY DEF GatewayInit
  <1> QED
    BY <1>1, ExporterSteps, PTL DEF GatewaySpec, ExporterSpec

=============================================================================
