-------------------------- MODULE MCVoiceIrohService --------------------------
\* Instance of VoiceIrohService: two connections of one peer, one of another.
EXTENDS VoiceIrohService, TLC

CONSTANTS c1, c2, c3, p1, p2

MCRemoteId == (c1 :> p1) @@ (c2 :> p1) @@ (c3 :> p2)
=============================================================================
