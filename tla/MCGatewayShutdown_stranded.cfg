CONSTANTS
    Span = {s1, s2, s3, s4}
    BufferSize = 2
    BatchSize = 2
SPECIFICATION GatewaySpec
SYMMETRY Symmetry
INVARIANT NoSpanStranded
CHECK_DEADLOCK FALSE
