------------------------- MODULE MCIrohVoiceTransport -------------------------
\* Instances of IrohVoiceTransport.  MCRemoteId: a peer that connects twice, so
\* that its connections replace one another, and one that connects once.
\* SamePeer: one peer, reconnecting.
EXTENDS IrohVoiceTransport, TLC

CONSTANTS c1, c2, c3, p1, p2

MCRemoteId == (c1 :> p1) @@ (c2 :> p1) @@ (c3 :> p2)
SamePeer == (c1 :> p1) @@ (c2 :> p1)
=============================================================================
