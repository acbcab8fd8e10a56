\* As MCOutboxFair, without grants, on a link that takes one frame per Drain:
\* a call at the head of the turns spends it, the next is refused and goes last.
CONSTANTS
    Calls = {0, 1}
    Own = {0}
    MaxPerCall = 3
    MaxTotal = 4
    MaxU32 = 1
    Frames <- WideFrames
    Grants = {}
    Quantum = 2
    Budgets = {1}
    Refills = {0}
    MaxTail = 0
SPECIFICATION FairSpec
PROPERTIES RequestLeaves
