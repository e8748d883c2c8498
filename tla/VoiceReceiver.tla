----------------------------- MODULE VoiceReceiver -----------------------------
(***************************************************************************)
(* The receiver of voice-core/src/receiver.rs: the talkspurt state machine *)
(* in front of NetEq.  One receiver belongs to one playback; its two       *)
(* operations, push_packet and pull_frame, run on the audio thread, so     *)
(* they do not interleave with one another, but the order in which packets *)
(* are pushed is the network's.                                            *)
(*                                                                         *)
(* NetEq is an external library.  It is modelled by what receiver.rs uses  *)
(* it for: the media awaiting decode, what is left of the decoded packet   *)
(* (one 10 ms frame at most: a packet is 20 ms and a pull 10), and the     *)
(* newest packet decoded, older media being discarded on insertion.        *)
(* When nothing can be played get_audio conceals.                          *)
(***************************************************************************)
EXTENDS VoicePacket, FiniteSets

CONSTANTS
  DtxGapFrames,       \* DTX_DISCONTINUITY_MIN_MISSING_FRAMES
  ResumePrebuffer,    \* TALKSPURT_RESUME_PREBUFFER_PACKETS
  RoundingTolerance,  \* TALKSPURT_DRAIN_ROUNDING_TOLERANCE_MS
  EstimateRounding,   \* ms by which NetEq's estimate exceeds what it holds
  InsertOutcomes,     \* what insert_packet may return: TRUE is Ok
  None                \* the absent value of an Option

ASSUME ReceiverAssumption ==
  /\ DtxGapFrames \in Nat /\ ResumePrebuffer \in Nat
  /\ RoundingTolerance \in Nat /\ EstimateRounding \in Nat
  /\ InsertOutcomes \subseteq BOOLEAN
  /\ None \notin SeqNumber \cup VoicePackets
  /\ None \notin [seq : SeqNumber, timestamp : Timestamp]

OutputFrameMs == 10

VARIABLES
  pending_silence,       \* an END arrived, what NetEq holds still plays
  intentional_silence,   \* drained: output zeros (playout_paused)
  end_of_talkspurt_seq,
  resuming_talkspurt,
  resumed_packet_count,  \* capped at ResumePrebuffer, all it is compared with
  last_media,            \* last_media_seq and last_media_timestamp, set together
  buffer,                \* NetEq: media packets awaiting decode
  residue,               \* NetEq: 10 ms frames decoded and not yet played
  decoded                \* NetEq: newest packet decoded since the last flush

talkspurt_vars == <<pending_silence, intentional_silence, end_of_talkspurt_seq,
                    resuming_talkspurt, resumed_packet_count, last_media>>
neteq_vars == <<buffer, residue, decoded>>
receiver_vars == <<talkspurt_vars, neteq_vars>>

ReceiverInit ==
  /\ pending_silence = FALSE
  /\ intentional_silence = FALSE
  /\ end_of_talkspurt_seq = None
  /\ resuming_talkspurt = FALSE
  /\ resumed_packet_count = 0
  /\ last_media = None
  /\ buffer = {}
  /\ residue = 0
  /\ decoded = None

ReceiverTypeOK ==
  /\ pending_silence \in BOOLEAN
  /\ intentional_silence \in BOOLEAN
  /\ end_of_talkspurt_seq \in SeqNumber \cup {None}
  /\ resuming_talkspurt \in BOOLEAN
  /\ resumed_packet_count \in 0 .. ResumePrebuffer
  /\ last_media \in [seq : SeqNumber, timestamp : Timestamp] \cup {None}
  /\ buffer \subseteq VoicePackets
  /\ residue \in 0 .. 1
  /\ decoded \in VoicePackets \cup {None}

-----------------------------------------------------------------------------
\* push_packet

\* Mutant of PacketIsNewer: numbers are compared without wrapping.
PacketIsGreater(pkt) == last_media = None \/ pkt.seq > last_media.seq

PacketIsNewer(pkt) ==
  last_media = None \/ SequenceIsNewer(pkt.seq, last_media.seq)

\* Mutant of MediaTimestampHasDtxGap: one frame late.
MediaTimestampHasLongerGap(pkt) ==
  /\ last_media # None
  /\ LET sequence_frames == (pkt.seq - last_media.seq) % SeqMod
         actual == (pkt.timestamp - last_media.timestamp) % TsMod
     IN  /\ sequence_frames # 0
         /\ sequence_frames < SeqMod \div 2
         /\ actual > sequence_frames + DtxGapFrames

\* More media time passed since the newest media than the packets between them
\* account for, by at least DtxGapFrames frames: a DTX gap whose markers were
\* both lost.  The subtraction saturates at zero in the code.
MediaTimestampHasDtxGap(pkt) ==
  /\ last_media # None
  /\ LET sequence_frames == (pkt.seq - last_media.seq) % SeqMod
         actual == (pkt.timestamp - last_media.timestamp) % TsMod
     IN  /\ sequence_frames # 0
         /\ sequence_frames < SeqMod \div 2
         /\ actual >= sequence_frames + DtxGapFrames

ImplicitStart(pkt) ==
  /\ pkt.media
  /\ end_of_talkspurt_seq # None
  /\ SequenceIsNewer(pkt.seq, end_of_talkspurt_seq)

\* The packet opens a talkspurt: its handling starts with a flush of NetEq.
OpensTalkspurt(pkt) ==
  \/ /\ pkt.start \/ ImplicitStart(pkt)
     /\ pending_silence \/ intentional_silence
  \/ pkt.start /\ last_media # None /\ PacketIsNewer(pkt)
  \/ pkt.media /\ PacketIsNewer(pkt) /\ MediaTimestampHasDtxGap(pkt)

\* Mutant of ClosesTalkspurt: a late END closes as well.
AnyEndCloses(pkt) == pkt.end

ClosesTalkspurt(pkt) == pkt.end /\ PacketIsNewer(pkt)

\* NetEq keeps an inserted packet unless it is older than what was decoded.
NetEqKeeps(pkt, opens) ==
  opens \/ decoded = None \/ SequenceIsNewer(pkt.seq, decoded.seq)

\* Mutant of CountBefore: the count goes on from the last talkspurt.
CountKept(opens) == resumed_packet_count

\* The prebuffer a packet adds to.
CountBefore(opens) == IF opens THEN 0 ELSE resumed_packet_count

PushPacket(pkt, inserted) ==
  LET opens  == OpensTalkspurt(pkt)
      closes == ClosesTalkspurt(pkt)
      stored == pkt.media /\ inserted
      count  == CountBefore(opens)
  IN  /\ pending_silence' = (closes \/ (pending_silence /\ ~opens))
      /\ intentional_silence' = (intentional_silence /\ ~opens)
      /\ end_of_talkspurt_seq' = CASE closes -> pkt.seq
                                   [] opens /\ ~closes -> None
                                   [] OTHER -> end_of_talkspurt_seq
      /\ resuming_talkspurt' = (resuming_talkspurt \/ opens)
      /\ resumed_packet_count' =
           IF stored /\ resuming_talkspurt' /\ count < ResumePrebuffer
           THEN count + 1 ELSE count
      /\ last_media' = IF stored /\ PacketIsNewer(pkt)
                       THEN [seq |-> pkt.seq, timestamp |-> pkt.timestamp]
                       ELSE last_media
      /\ buffer' = (IF opens THEN {} ELSE buffer)
                     \cup (IF stored /\ NetEqKeeps(pkt, opens) THEN {pkt} ELSE {})
      /\ residue' = IF opens THEN 0 ELSE residue
      /\ decoded' = IF opens THEN None ELSE decoded

-----------------------------------------------------------------------------
\* pull_frame, one action for each way it returns

CurrentBufferMs ==
  IF residue = 0 THEN 0 ELSE OutputFrameMs * residue + EstimateRounding

\* Mutant of Drained: the estimate is trusted to the millisecond.
DrainedExactly ==
  pending_silence /\ buffer = {} /\ CurrentBufferMs <= OutputFrameMs

Drained ==
  /\ pending_silence
  /\ buffer = {}
  /\ CurrentBufferMs <= OutputFrameMs + RoundingTolerance

\* The drained talkspurt turns into intentional silence; zeros are returned.
PullSilence ==
  /\ Drained \/ intentional_silence
  /\ pending_silence' = (pending_silence /\ ~Drained)
  /\ intentional_silence' = TRUE
  /\ UNCHANGED <<end_of_talkspurt_seq, resuming_talkspurt, resumed_packet_count,
                 last_media, neteq_vars>>

\* Mutant of Prebuffering: one packet more.
PrebufferingLonger == resuming_talkspurt /\ resumed_packet_count <= ResumePrebuffer

Prebuffering == resuming_talkspurt /\ resumed_packet_count < ResumePrebuffer

\* Zeros are returned until the resumed talkspurt has its prebuffer.
PullPrebuffering ==
  /\ ~Drained /\ ~intentional_silence
  /\ Prebuffering
  /\ UNCHANGED receiver_vars

\* The calls of pull_frame that reach get_audio.
ReachesNetEq ==
  /\ ~Drained /\ ~intentional_silence /\ ~Prebuffering
  /\ resuming_talkspurt' = FALSE
  /\ UNCHANGED <<pending_silence, intentional_silence, end_of_talkspurt_seq,
                 resumed_packet_count, last_media>>

PullResidue ==
  /\ ReachesNetEq
  /\ residue > 0
  /\ residue' = residue - 1
  /\ UNCHANGED <<buffer, decoded>>

\* The oldest packet: the one every other is newer than.
PullDecode ==
  /\ ReachesNetEq
  /\ residue = 0
  /\ \E pkt \in buffer :
       /\ \A other \in buffer \ {pkt} : SequenceIsNewer(other.seq, pkt.seq)
       /\ buffer' = buffer \ {pkt}
       /\ decoded' = pkt
  /\ residue' = 1

\* Nothing to play, or NetEq stretches what it holds.  get_audio may also fail;
\* the output differs and the state does not.
PullConceal ==
  /\ ReachesNetEq
  /\ UNCHANGED neteq_vars

PullFrame ==
  \/ PullSilence \/ PullPrebuffering \/ PullResidue \/ PullDecode \/ PullConceal
=============================================================================
