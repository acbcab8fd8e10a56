\* A call of any streaming shape, without a clock: items, END, allowances,
\* refusals, cancellation and the end of either session, in every order.
CONSTANTS
    Calls = {0}
    MaxPerCall = 2
    MaxTotal = 2
    MaxU32 = 2
    Registry <- StreamsRegistry
    MaxPending = 2
    HandlerLimit = 1
    QueueFullLimit = 1
    MaxCtxLen <- AnyCtx
    Compressor <- NoCompressor
    Openings <- StreamsOpenings
    Packings <- AlwaysPlain
    Failures = {"FAILED_PRECONDITION"}
    AppGrants <- StreamsGrants
    Enders = {"client", "server"}
    MaxItems = 2
    MaxInTransit = 1
    MaxTime = 1
SPECIFICATION Spec
INVARIANTS TypeOK CallsKept StreamsWhole CreditConserved
