\* Two calls share the link, the peer's stream is refilled for ever.  Every
\* Drain can take one waiting CREDIT and a quantum from each of them.
CONSTANTS
    Calls = {0, 1}
    Own = {0}
    MaxPerCall = 3
    MaxTotal = 4
    MaxU32 = 1
    Frames <- WideFrames
    Grants = {1}
    Quantum = 2
    Budgets = {3, 4}
    Refills = {0}
    MaxTail = 0
SPECIFICATION FairSpec
PROPERTIES RequestLeaves
