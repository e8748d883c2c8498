------------------------------ MODULE VoiceLink ------------------------------
(***************************************************************************)
(* One voice from encoder to receiver: a VoiceEncoder fed frame by frame,  *)
(* an unreliable datagram link, and the VoiceReceiver that a playback      *)
(* pulls 10 ms frames from.  The sender, the link and the audio thread are *)
(* three independent actors.                                               *)
(*                                                                         *)
(* The link loses packets (MayLose) and, unless Ordered, delivers them in  *)
(* any order.  It does not duplicate them: a QUIC datagram is delivered at *)
(* most once.                                                              *)
(***************************************************************************)
EXTENDS VoiceReceiver, VoiceEncoder

CONSTANTS
  InitialSeq,   \* first sequence number; near SeqMod, the numbers wrap
  MaxFrames,    \* bound: frames captured in a behaviour
  MaxInFlight,  \* bound: packets on the link
  Ordered,      \* the link preserves order
  MayLose       \* the link loses packets

ASSUME LinkAssumption ==
  /\ InitialSeq \in SeqNumber
  /\ MaxFrames \in Nat /\ MaxInFlight \in Nat
  /\ Ordered \in BOOLEAN /\ MayLose \in BOOLEAN

VARIABLES
  enc,           \* the sender's encoder
  capturing,     \* its capture runs
  frames,        \* frames captured so far
  link,          \* packets in flight, oldest first
  newest,        \* history: the newest packet pushed into the receiver
  newest_media   \* history: the newest media packet pushed into it

sender_vars == <<enc, capturing, frames>>
history_vars == <<newest, newest_media>>
vars == <<receiver_vars, sender_vars, link, history_vars>>

Init ==
  /\ ReceiverInit
  /\ enc = FreshEncoder(InitialSeq, 0, NewHistory)
  /\ capturing = TRUE
  /\ frames = 0
  /\ link = << >>
  /\ newest = None
  /\ newest_media = None

TypeOK ==
  /\ ReceiverTypeOK
  /\ enc \in EncoderStates
  /\ capturing \in BOOLEAN
  /\ frames \in 0 .. MaxFrames
  /\ link \in Seq(VoicePackets) /\ Len(link) <= MaxInFlight
  /\ newest \in VoicePackets \cup {None}
  /\ newest_media \in VoicePackets \cup {None}

-----------------------------------------------------------------------------
Transmit(packets) ==
  /\ Len(link) + Len(packets) <= MaxInFlight
  /\ link' = link \o packets

\* push_pcm and poll_packet for one 20 ms frame.
CaptureFrame(kind) ==
  /\ capturing /\ frames < MaxFrames
  /\ Transmit(PolledPackets(enc, kind))
  /\ enc' = PolledEncoder(enc, kind)
  /\ frames' = frames + 1
  /\ UNCHANGED <<capturing, receiver_vars, history_vars>>

\* A scheduled frame is skipped before it reaches the encoder.
DropFrame ==
  /\ capturing /\ frames < MaxFrames
  /\ enc' = AdvancedEncoder(enc, 1)
  /\ frames' = frames + 1
  /\ UNCHANGED <<capturing, link, receiver_vars, history_vars>>

StopCapture ==
  /\ capturing
  /\ Transmit(FinishPackets(enc))
  /\ enc' = FinishedEncoder(enc)
  /\ capturing' = FALSE
  /\ UNCHANGED <<frames, receiver_vars, history_vars>>

\* A new encoder takes over the clock of the one that stopped.
StartCapture ==
  /\ ~capturing /\ frames < MaxFrames
  /\ enc' = FreshEncoder(enc.seq, enc.timestamp, enc.hist)
  /\ capturing' = TRUE
  /\ UNCHANGED <<frames, link, receiver_vars, history_vars>>

-----------------------------------------------------------------------------
Without(packets, i) ==
  [j \in 1 .. Len(packets) - 1 |-> IF j < i THEN packets[j] ELSE packets[j + 1]]

Deliverable == IF Ordered /\ link # << >> THEN {1} ELSE DOMAIN link

NewerOf(known, pkt) ==
  IF known = None \/ pkt.hist.idx > known.hist.idx THEN pkt ELSE known

Deliver(i, inserted) ==
  LET pkt == link[i]
  IN  /\ PushPacket(pkt, inserted)
      /\ link' = Without(link, i)
      /\ newest' = NewerOf(newest, pkt)
      /\ newest_media' = IF pkt.media THEN NewerOf(newest_media, pkt)
                                      ELSE newest_media
      /\ UNCHANGED sender_vars

DeliverSome == \E i \in Deliverable, inserted \in InsertOutcomes : Deliver(i, inserted)

Lose(i) ==
  /\ MayLose
  /\ link' = Without(link, i)
  /\ UNCHANGED <<receiver_vars, sender_vars, history_vars>>

Unpulled == <<sender_vars, link, history_vars>>

Pull == PullFrame /\ UNCHANGED Unpulled

\* The pulls whose effect does not depend on what NetEq does with the rest of the
\* last packet.
PullOn ==
  /\ Drained \/ resuming_talkspurt \/ buffer # {}
  /\ Pull

Next ==
  \/ \E kind \in FrameKinds : CaptureFrame(kind)
  \/ DropFrame
  \/ StopCapture
  \/ StartCapture
  \/ DeliverSome
  \/ \E i \in DOMAIN link : Lose(i)
  \/ Pull

Spec == Init /\ [][Next]_vars

\* The audio thread keeps pulling and the link keeps delivering.  NetEq gets to a
\* packet it holds in the end, however often it stretches instead; the rest of its
\* last packet it may keep for ever, as pull_frame says its estimate does.
Fairness == WF_vars(PullOn) /\ WF_vars(DeliverSome)

FairSpec == Spec /\ Fairness

-----------------------------------------------------------------------------
\* Properties

Silent == pending_silence \/ intentional_silence

NewestIsEnd == newest # None /\ newest.end
NewestIsMedia == newest # None /\ newest.media

\* receiver.rs keeps two silence flags and an END sequence number up to date
\* packet by packet.  What they must add up to: on a link that keeps order, the
\* receiver is on its way to silence exactly when the newest packet it has seen
\* closed a talkspurt, whatever was lost and wherever the numbers wrap.
SilenceFollowsNewestPacket == Silent <=> NewestIsEnd

\* The half that reordering may not break either: once media newer than
\* everything else has arrived, no late END silences it.
NewestMediaIsNotSilenced == NewestIsMedia => ~Silent

\* The resume prebuffer counts packets NetEq really holds: playout of a resumed
\* talkspurt starts from at least that many.
PrebufferIsHeld ==
  resuming_talkspurt => Cardinality(buffer) >= resumed_packet_count

\* A silence run lies between the newest media and pkt: the media time without
\* packets, less the one frame each END of a stopped capture takes no time for.
UnaccountedFrames(from, pkt) ==
  (pkt.hist.silent - from.hist.silent) - (pkt.hist.stops - from.hist.stops)

\* Loss of markers is repaired.  Media of a later talkspurt than the newest media
\* seen starts NetEq afresh, rather than being appended to the old talkspurt and
\* the pause concealed, whenever one of the two markers arrived or the pause was
\* at least DtxGapFrames long.
LostMarkersAreRepaired ==
  [][ \A i \in Deliverable, inserted \in InsertOutcomes :
        LET pkt == link[i]
        IN  ( /\ Deliver(i, inserted)
              /\ pkt.media /\ last_media # None /\ newest_media # None
              /\ last_media.seq = newest_media.seq
              /\ pkt.hist.spurt > newest_media.hist.spurt
              /\ \/ pkt.start
                 \/ newest.end
                 \/ UnaccountedFrames(newest_media, pkt) >= DtxGapFrames )
            => resuming_talkspurt' /\ buffer' \subseteq {pkt} ]_vars

\* After an END what NetEq holds is played out and the playback falls silent,
\* even where NetEq's estimate never drops below its rounding residue; the audio
\* thread can then sleep (playout_paused).
PendingSilenceDrains ==
  (pending_silence /\ ~resuming_talkspurt)
    ~> (intentional_silence \/ resuming_talkspurt)

\* A resumed talkspurt with its prebuffer is played, unless its END got there first
\* and it has been silenced.
PrebufferedTalkspurtPlays ==
  (resuming_talkspurt /\ resumed_packet_count = ResumePrebuffer)
    ~> (~resuming_talkspurt \/ resumed_packet_count < ResumePrebuffer
          \/ intentional_silence)

\* The resume prebuffer holds playout back only for a while: a talkspurt that has
\* ended plays, or at least ends in intentional silence, however short it was.
ShortTalkspurtIsNotStuck ==
  (resuming_talkspurt /\ pending_silence)
    ~> (~resuming_talkspurt \/ intentional_silence \/ ~pending_silence)
=============================================================================
