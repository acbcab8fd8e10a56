\* Two versions of one schema on the two ends, and bodies over the ceiling.
CONSTANTS
    Calls = {0}
    MaxPerCall = 2
    MaxTotal = 3
    MaxU32 = 2
    Registry <- SkewedRegistry
    MaxPending = 2
    HandlerLimit = 1
    QueueFullLimit = 1
    MaxCtxLen <- SkewedCtx
    Compressor <- BothCompress
    Openings <- SkewedOpenings
    Packings <- ServerOversized
    Failures = {}
    AppGrants <- SkewedGrants
    Enders = {}
    MaxItems = 2
    MaxInTransit = 2
    MaxTime = 1
SPECIFICATION Spec
INVARIANTS CallsKept StreamsWhole
