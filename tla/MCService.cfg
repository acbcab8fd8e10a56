\* The cases of MCService: builders, admission, retries, call ids.
CONSTANTS
    WordLen = 2
    VoidID = 1
    ErrorID = 2
    MaxMethods = 3
    SchemaJSON <- SmallJSON
    Tokens <- SmallTokens
    TicksPerMs = 2
    IdSpace = 4
    MaxAttempts = 3
    InitialBackoff = 1
    MaxBackoff = 2
    HandlerLimit = 3
    Setups <- SmallSetups
SPECIFICATION Spec
CHECK_DEADLOCK FALSE
INVARIANTS ReflectionTrue NeverWider ChainUnwound OnwardInTime RepeatsAllowed
PROPERTIES IdsRight
