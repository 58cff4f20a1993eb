CONSTANTS
    Span = {s1, s2, s3, s4}
    BufferSize = 2
    BatchSize = 2
SPECIFICATION FairGateway
INVARIANTS ExporterTypeOK FIFO ShutdownDrains
PROPERTIES SpansFlushed LoopReturns Exits DrainsByItself
CHECK_DEADLOCK FALSE
