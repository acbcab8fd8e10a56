\* Two own calls and one of the peer's; every ceiling and the saturation of
\* a grant are within reach of a few operations.
CONSTANTS
    Calls = {0, 1, 2}
    Own = {0, 2}
    MaxPerCall = 2
    MaxTotal = 3
    MaxU32 = 2
    Frames <- SmallFrames
    Grants = {0, 2}
    Quantum = 2
    Budgets = {0, 1, 3}
    Refills = {0, 1}
    MaxTail = 1
SPECIFICATION Spec
INVARIANTS TypeOK TurnsExact TotalExact CreditAfterRequest
PROPERTIES NeverOvertaken ImplementsSendQueue
