--------------------------- MODULE MCReceiveRouter ---------------------------
\* Model-checking instance of ReceiveRouter: peer "a" has the tasks of a connection
\* and of the one that replaced it, peer "b" has one.
EXTENDS ReceiveRouter, TLC

MCPeerOf == "old" :> "a" @@ "new" :> "a" @@ "other" :> "b"

MCPacketsOf == "old" :> 2 @@ "new" :> 2 @@ "other" :> 1
=============================================================================
