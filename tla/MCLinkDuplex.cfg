\* Two unary calls in each direction; handlers, factories and interceptors
\* may refuse, calls may be cancelled, either session may end.
CONSTANTS
    Calls = {0, 1, 2}
    MaxPerCall = 1
    MaxTotal = 2
    MaxU32 = 2
    Registry <- UnaryRegistry
    MaxPending = 1
    HandlerLimit = 1
    QueueFullLimit = 1
    MaxCtxLen <- AnyCtx
    Compressor <- ClientCompresses
    Openings <- UnaryBothWays
    Packings <- ClientPacks
    Failures = {"PERMISSION_DENIED"}
    AppGrants = {}
    Enders = {"client", "server"}
    MaxItems = 1
    MaxInTransit = 2
    MaxTime = 1
SPECIFICATION Spec
INVARIANTS SidesApart CallsKept
