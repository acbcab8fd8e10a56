------------------------------- MODULE MCShell -------------------------------
\* Instances of Shell for TLC.
EXTENDS Shell

MCPeers == {"client"}
MCOwnCalls == [p \in MCPeers |-> {1}]

MCAnswers == [c \in Calls |-> IF c = 0 THEN 1 ELSE 0]
=============================================================================
