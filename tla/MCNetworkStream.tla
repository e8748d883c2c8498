--------------------------- MODULE MCNetworkStream ---------------------------
\* Model-checking instance of NetworkStream: one thread brings a talkspurt of one
\* packet and its END, the other what follows, so that the queue may reorder them.
EXTENDS NetworkStream, TLC

MCHistory(idx) == [idx |-> idx, spurt |-> 0, silent |-> 0, stops |-> 0]

MCVoice ==
  "net1" :> <<MediaPacket(0, 0, TRUE, MCHistory(0)), EndPacket(1, 1, MCHistory(1))>>
    @@ "net2" :> <<MediaPacket(2, 3, TRUE, MCHistory(2)), MediaPacket(3, 4, FALSE, MCHistory(3))>>
=============================================================================
