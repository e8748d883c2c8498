----------------------------- MODULE VoicePacket -----------------------------
(***************************************************************************)
(* The voice packet of voice-core/src/packet.rs and the wrapping sequence  *)
(* arithmetic the receiver compares packets with.                          *)
(*                                                                         *)
(* A payload is abstracted to whether it is empty (media = FALSE), since   *)
(* the talkspurt logic asks nothing else of it.  Timestamps count 20 ms    *)
(* frames: every timestamp in the program is a multiple of the 960 samples *)
(* of one frame, modulo the width of the clock.  Field hist is a history   *)
(* field, what the sender had done when it made the packet: it is not on   *)
(* the wire and no modelled code reads it.                                 *)
(***************************************************************************)
EXTENDS Integers, Sequences

CONSTANTS
  SeqMod,   \* the sequence numbers are 0..SeqMod-1 (2^16 in the code)
  TsMod     \* the media clock counts frames modulo TsMod

ASSUME SeqModAssumption == SeqMod \in Nat /\ SeqMod % 2 = 0 /\ SeqMod > 2
ASSUME TsModAssumption == TsMod \in Nat \ {0}

SeqNumber == 0 .. SeqMod - 1
Timestamp == 0 .. TsMod - 1

\* idx: packets made before; spurt: talkspurts opened; silent: frames captured
\* and not sent; stops: talkspurts closed by finish_talkspurt.
Histories == [idx : Nat, spurt : Nat, silent : Nat, stops : Nat]

VoicePackets ==
  [seq : SeqNumber, timestamp : Timestamp, start : BOOLEAN, end : BOOLEAN,
   media : BOOLEAN, hist : Histories]

\* u16::wrapping_sub followed by the half-window test: `sequence` lies in the
\* half of the number space that follows `reference`.
SequenceIsNewer(sequence, reference) ==
  LET distance == (sequence - reference) % SeqMod
  IN  distance # 0 /\ distance < SeqMod \div 2

MediaPacket(seq, timestamp, start, hist) ==
  [seq |-> seq, timestamp |-> timestamp, start |-> start, end |-> FALSE,
   media |-> TRUE, hist |-> hist]

EndPacket(seq, timestamp, hist) ==
  [seq |-> seq, timestamp |-> timestamp, start |-> FALSE, end |-> TRUE,
   media |-> FALSE, hist |-> hist]
=============================================================================
