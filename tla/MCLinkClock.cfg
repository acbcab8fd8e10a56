\* Deadlines, handler limits, idle limits and the clock of a full queue, on fair event
\* loops.
CONSTANTS
    Calls = {0}
    MaxPerCall = 1
    MaxTotal = 1
    MaxU32 = 2
    Registry <- MixedRegistry
    MaxPending = 2
    HandlerLimit = 2
    QueueFullLimit = 1
    MaxCtxLen <- AnyCtx
    Compressor <- NoCompressor
    Openings <- TimedOpenings
    Packings <- AlwaysPlain
    Failures = {}
    AppGrants = {}
    Enders = {"server"}
    MaxItems = 2
    MaxInTransit = 1
    MaxTime = 3
SPECIFICATION FairSpec
INVARIANTS CallsKept StallIsReal
PROPERTIES DeadlineKept OrphansReaped UnaryCompletes
