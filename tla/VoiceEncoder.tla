----------------------------- MODULE VoiceEncoder -----------------------------
(***************************************************************************)
(* The encoder of voice-core/src/encoder.rs as operators on its state      *)
(*   [seq, timestamp, speaking, hist].                                     *)
(*                                                                         *)
(* Opus is external: encoding a 20 ms frame yields "voice" (a payload),    *)
(* "dtx" (at most two bytes, a no-send packet) or "error".                 *)
(***************************************************************************)
EXTENDS VoicePacket

FrameKinds == {"voice", "dtx", "error"}

EncoderStates ==
  [seq : SeqNumber, timestamp : Timestamp, speaking : BOOLEAN, hist : Histories]

NewHistory == [idx |-> 0, spurt |-> 0, silent |-> 0, stops |-> 0]

\* VoiceEncoder::new and restore_packet_clock: the clock survives a rebuild,
\* the talkspurt does not.
FreshEncoder(seq, timestamp, hist) ==
  [seq |-> seq, timestamp |-> timestamp, speaking |-> FALSE, hist |-> hist]

\* Mutant of NextSeq: the number does not wrap.
UnwrappedSeq(enc, packets) == enc.seq + Len(packets)

\* next_seq, for each packet returned.
NextSeq(enc, packets) == (enc.seq + Len(packets)) % SeqMod

\* poll_packet: what one call returns for one pending frame.
OpensWith(enc, kind) == kind = "voice" /\ ~enc.speaking

PolledPackets(enc, kind) ==
  LET hist == [enc.hist EXCEPT !.spurt = @ + (IF OpensWith(enc, kind) THEN 1 ELSE 0)]
  IN  CASE kind = "voice" ->
             <<MediaPacket(enc.seq, enc.timestamp, OpensWith(enc, kind), hist)>>
        [] kind = "dtx" /\ enc.speaking ->
             <<EndPacket(enc.seq, enc.timestamp, hist)>>
        [] OTHER -> << >>

\* Mutant of NextTimestamp: the clock counts transmitted packets.
PacketCount(enc, kind) == (enc.timestamp + Len(PolledPackets(enc, kind))) % TsMod

\* The media clock counts frames, sent or not.
NextTimestamp(enc, kind) == (enc.timestamp + 1) % TsMod

\* The encoder after that call.  An encode error leaves before the media clock
\* advances, and only a returned packet consumes a sequence number.
PolledEncoder(enc, kind) ==
  LET packets == PolledPackets(enc, kind)
      sent    == Len(packets)
      opened  == IF OpensWith(enc, kind) THEN 1 ELSE 0
  IN  IF kind = "error" THEN enc
      ELSE [seq       |-> NextSeq(enc, packets),
            timestamp |-> NextTimestamp(enc, kind),
            speaking  |-> kind = "voice",
            hist      |-> [enc.hist EXCEPT !.idx = @ + sent, !.spurt = @ + opened,
                                           !.silent = @ + 1 - sent]]

\* Mutant of FinishPackets: a stop is silent.
UnmarkedFinish(enc) == << >>

\* finish_talkspurt: an END packet if a talkspurt is open.  It consumes a
\* sequence number but no media time.
FinishPackets(enc) ==
  IF enc.speaking THEN <<EndPacket(enc.seq, enc.timestamp, enc.hist)>> ELSE << >>

FinishedEncoder(enc) ==
  LET packets == FinishPackets(enc)
      sent    == Len(packets)
  IN  [enc EXCEPT !.seq = NextSeq(enc, packets), !.speaking = FALSE,
                  !.hist.idx = @ + sent, !.hist.stops = @ + sent]

\* advance_dropped_frames: media time passes for frames dropped before encoding.
AdvancedEncoder(enc, frames) ==
  [enc EXCEPT !.timestamp = (@ + frames) % TsMod, !.hist.silent = @ + frames]
=============================================================================
