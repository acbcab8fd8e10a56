\* One peer, the client: a call without a deadline that may be answered, one
\* with a deadline that never is, and one call the server opens at the client.
CONSTANTS
    Peers <- MCPeers
    OwnCalls <- MCOwnCalls
    Calls = {0, 2}
    Timed = {2}
    MaxAnswers <- MCAnswers
    MaxUnread = 1
SPECIFICATION Spec
CHECK_DEADLOCK FALSE
INVARIANTS ObserverContract WaitCovers InOrder EndIsReal
PROPERTIES ConnectionsEnd OperationsReturn
