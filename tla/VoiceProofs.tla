----------------------------- MODULE VoiceProofs -----------------------------
(***************************************************************************)
(* Facts about the operators of VoiceEncoder and the operations of         *)
(* VoiceReceiver, for any width of the sequence numbers and of the media   *)
(* clock and any prebuffer: what the modules that own an encoder or a      *)
(* receiver need in their proofs.                                          *)
(***************************************************************************)
EXTENDS VoiceEncoder, VoiceReceiver, TLAPS

-----------------------------------------------------------------------------
\* Numbers and the encoder

LEMMA ModuloRange ==
  ASSUME NEW n \in Nat, NEW m \in Nat \ {0}
  PROVE  n % m \in 0 .. m - 1
OBVIOUS

LEMMA Division ==
  ASSUME NEW n \in Nat, NEW m \in Nat \ {0}
  PROVE  n = m * (n \div m) + (n % m) /\ n \div m \in Nat /\ n % m \in 0 .. m - 1
BY SMTT(30)

LEMMA Remainder ==
  ASSUME NEW q \in Nat, NEW r \in Nat, NEW m \in Nat \ {0}, r < m
  PROVE  (m * q + r) % m = r
BY SMTT(30)

\* A clock that wraps may be advanced before or after it wraps.
LEMMA ClockAdvances ==
  ASSUME NEW n \in Nat, NEW m \in Nat \ {0}
  PROVE  ((n % m) + 1) % m = (n + 1) % m
<1> DEFINE q == n \div m
<1> DEFINE r == n % m
<1>1. n = m * q + r /\ q \in Nat /\ r \in 0 .. m - 1
  BY Division
<1> HIDE DEF q, r
<1>2. CASE r + 1 < m
  <2>1. n + 1 = m * q + (r + 1)
    BY <1>1
  <2>2. (n + 1) % m = r + 1
    BY <1>1, <1>2, <2>1, Remainder
  <2>3. (r + 1) % m = r + 1
    BY <1>1, <1>2
  <2> QED
    BY <2>2, <2>3 DEF r
<1>3. CASE r + 1 = m
  <2>1. n + 1 = m * (q + 1) + 0
    BY <1>1, <1>3
  <2>2. (n + 1) % m = 0
    BY <1>1, <2>1, Remainder
  <2>3. m % m = 0
    OBVIOUS
  <2> QED
    BY <1>3, <2>2, <2>3 DEF r
<1> QED
  BY <1>1, <1>2, <1>3

LEMMA SeqRange ==
  ASSUME NEW seq \in SeqNumber, NEW n \in Nat
  PROVE  (seq + n) % SeqMod \in SeqNumber
<1>1. SeqMod \in Nat \ {0} /\ seq + n \in Nat
  BY SeqModAssumption DEF SeqNumber
<1> QED
  BY <1>1, ModuloRange DEF SeqNumber

LEMMA FreshEncoderType ==
  ASSUME NEW seq \in SeqNumber, NEW timestamp \in Timestamp, NEW h \in Histories
  PROVE  FreshEncoder(seq, timestamp, h) \in EncoderStates
BY DEF FreshEncoder, EncoderStates

LEMMA NewHistoryType == NewHistory \in Histories
BY DEF NewHistory, Histories

\* poll_packet returns at most one packet, which is the next in the sender's history.
LEMMA PolledPacketsType ==
  ASSUME NEW enc \in EncoderStates, NEW kind \in FrameKinds
  PROVE  /\ PolledPackets(enc, kind) = << >>
              \/ \E pkt \in VoicePackets : /\ PolledPackets(enc, kind) = <<pkt>>
                                           /\ pkt.hist.idx = enc.hist.idx
                                           /\ kind # "error"
<1> DEFINE opened == IF OpensWith(enc, kind) THEN 1 ELSE 0
<1> DEFINE hist == [enc.hist EXCEPT !.spurt = @ + opened]
<1>1. enc.hist \in Histories /\ enc.seq \in SeqNumber /\ enc.timestamp \in Timestamp
  BY DEF EncoderStates
<1>2. hist \in Histories /\ hist.idx = enc.hist.idx
  BY <1>1 DEF Histories
<1>3. OpensWith(enc, kind) \in BOOLEAN
  BY DEF OpensWith
<1> HIDE DEF hist
<1>4. CASE kind = "voice"
  <2> DEFINE pkt == MediaPacket(enc.seq, enc.timestamp, OpensWith(enc, kind), hist)
  <2>1. PolledPackets(enc, kind) = <<pkt>>
    BY <1>4 DEF PolledPackets, hist
  <2>2. pkt \in VoicePackets /\ pkt.hist = hist
    BY <1>1, <1>2, <1>3 DEF MediaPacket, VoicePackets
  <2> QED
    BY <1>2, <1>4, <2>1, <2>2
<1>5. CASE kind = "dtx" /\ enc.speaking
  <2> DEFINE pkt == EndPacket(enc.seq, enc.timestamp, hist)
  <2>1. PolledPackets(enc, kind) = <<pkt>>
    BY <1>5 DEF PolledPackets, hist
  <2>2. pkt \in VoicePackets /\ pkt.hist = hist
    BY <1>1, <1>2 DEF EndPacket, VoicePackets
  <2> QED
    BY <1>2, <1>5, <2>1, <2>2
<1>6. CASE kind # "voice" /\ ~(kind = "dtx" /\ enc.speaking)
  BY <1>6 DEF PolledPackets
<1> QED
  BY <1>4, <1>5, <1>6

\* The encoder after poll_packet has counted the packet returned.
LEMMA PolledEncoderType ==
  ASSUME NEW enc \in EncoderStates, NEW kind \in FrameKinds
  PROVE  /\ PolledEncoder(enc, kind) \in EncoderStates
         /\ PolledEncoder(enc, kind).hist.idx
              = enc.hist.idx + Len(PolledPackets(enc, kind))
<1> DEFINE packets == PolledPackets(enc, kind)
<1> DEFINE sent == Len(packets)
<1> DEFINE opened == IF OpensWith(enc, kind) THEN 1 ELSE 0
<1> DEFINE idx == enc.hist.idx + sent
<1> DEFINE spurt == enc.hist.spurt + opened
<1> DEFINE silent == enc.hist.silent + 1 - sent
<1> DEFINE hist == [enc.hist EXCEPT !.idx = idx, !.spurt = spurt, !.silent = silent]
<1>1. enc.hist \in Histories /\ enc.seq \in SeqNumber /\ enc.timestamp \in Timestamp
  BY DEF EncoderStates
<1>2. sent \in 0 .. 1 /\ (kind = "error" => sent = 0)
  BY PolledPacketsType
<1>3. opened \in Nat
  OBVIOUS
<1> HIDE DEF packets, sent, opened
<1>4. hist \in Histories /\ hist.idx = idx
  <2>1. /\ enc.hist.idx \in Nat /\ enc.hist.spurt \in Nat
        /\ enc.hist.silent \in Nat /\ enc.hist.stops \in Nat
    BY <1>1 DEF Histories
  <2>2. idx \in Nat /\ spurt \in Nat /\ silent \in Nat
    BY <1>2, <1>3, <2>1
  <2> HIDE DEF idx, spurt, silent
  <2> QED
    BY <1>1, <2>2 DEF Histories
<1>5. (enc.seq + sent) % SeqMod \in SeqNumber
  BY <1>1, <1>2, SeqRange
<1>6. (enc.timestamp + 1) % TsMod \in Timestamp
  BY <1>1, ModuloRange, TsModAssumption DEF Timestamp
<1>7. CASE kind = "error"
  <2>1. PolledEncoder(enc, kind) = enc
    BY <1>7 DEF PolledEncoder
  <2> QED
    BY <1>1, <1>2, <1>7, <2>1 DEF sent, packets, Histories
<1>8. CASE kind # "error"
  <2>1. PolledEncoder(enc, kind) = [seq |-> (enc.seq + sent) % SeqMod,
                                    timestamp |-> (enc.timestamp + 1) % TsMod,
                                    speaking |-> kind = "voice", hist |-> hist]
    BY <1>8 DEF PolledEncoder, NextSeq, NextTimestamp, packets, sent, opened
  <2> HIDE DEF hist
  <2>2. PolledEncoder(enc, kind) \in EncoderStates /\ PolledEncoder(enc, kind).hist = hist
    BY <1>4, <1>5, <1>6, <2>1 DEF EncoderStates
  <2> QED
    BY <1>4, <2>2 DEF sent, packets
<1> QED
  BY <1>7, <1>8

\* The same of finish_talkspurt.
LEMMA FinishPacketsType ==
  ASSUME NEW enc \in EncoderStates
  PROVE  FinishPackets(enc) = << >>
           \/ \E pkt \in VoicePackets : /\ FinishPackets(enc) = <<pkt>>
                                        /\ pkt.hist.idx = enc.hist.idx /\ pkt.end
<1> DEFINE pkt == EndPacket(enc.seq, enc.timestamp, enc.hist)
<1>1. pkt \in VoicePackets /\ pkt.hist = enc.hist /\ pkt.end
  BY DEF EncoderStates, EndPacket, VoicePackets
<1> QED
  BY <1>1 DEF FinishPackets

LEMMA FinishedEncoderType ==
  ASSUME NEW enc \in EncoderStates
  PROVE  /\ FinishedEncoder(enc) \in EncoderStates
         /\ FinishedEncoder(enc).hist.idx = enc.hist.idx + Len(FinishPackets(enc))
<1> DEFINE sent == Len(FinishPackets(enc))
<1> DEFINE idx == enc.hist.idx + sent
<1> DEFINE stops == enc.hist.stops + sent
<1> DEFINE hist == [enc.hist EXCEPT !.idx = idx, !.stops = stops]
<1>1. enc.hist \in Histories /\ enc.seq \in SeqNumber /\ enc.timestamp \in Timestamp
  BY DEF EncoderStates
<1>2. sent \in 0 .. 1
  BY FinishPacketsType
<1> HIDE DEF sent
<1>3. hist \in Histories /\ hist.idx = idx
  <2>1. /\ enc.hist.idx \in Nat /\ enc.hist.spurt \in Nat
        /\ enc.hist.silent \in Nat /\ enc.hist.stops \in Nat
    BY <1>1 DEF Histories
  <2>2. idx \in Nat /\ stops \in Nat
    BY <1>2, <2>1
  <2> HIDE DEF idx, stops
  <2> QED
    BY <1>1, <2>2 DEF Histories
<1>4. (enc.seq + sent) % SeqMod \in SeqNumber
  BY <1>1, <1>2, SeqRange
<1>5. FinishedEncoder(enc) = [seq |-> (enc.seq + sent) % SeqMod, timestamp |-> enc.timestamp,
                              speaking |-> FALSE, hist |-> hist]
  <2>1. FinishedEncoder(enc) =
          [enc EXCEPT !.seq = (enc.seq + sent) % SeqMod, !.speaking = FALSE,
                      !.hist.idx = @ + sent, !.hist.stops = @ + sent]
    BY DEF FinishedEncoder, NextSeq, sent
  <2>2. enc = [seq |-> enc.seq, timestamp |-> enc.timestamp, speaking |-> enc.speaking,
               hist |-> enc.hist]
    BY DEF EncoderStates
  <2>3. [enc.hist EXCEPT !.idx = @ + sent, !.stops = @ + sent]
          = [[enc.hist EXCEPT !.idx = @ + sent] EXCEPT !.stops = @ + sent]
    BY <1>1 DEF Histories
  <2> QED
    BY <2>1, <2>2, <2>3
<1> HIDE DEF hist
<1>6. FinishedEncoder(enc) \in EncoderStates /\ FinishedEncoder(enc).hist = hist
  BY <1>1, <1>3, <1>4, <1>5 DEF EncoderStates
<1> QED
  BY <1>3, <1>6 DEF sent
\* What poll_packet does to speech and media clock; the encoder falls silent with an END.
LEMMA PolledEncoderSpeech ==
  ASSUME NEW enc \in EncoderStates, NEW kind \in FrameKinds
  PROVE  /\ kind # "error" =>
              PolledEncoder(enc, kind).timestamp = (enc.timestamp + 1) % TsMod
         /\ PolledPackets(enc, kind) = << >> =>
              (~PolledEncoder(enc, kind).speaking => ~enc.speaking)
         /\ PolledPackets(enc, kind) # << >> =>
              (~PolledEncoder(enc, kind).speaking => PolledPackets(enc, kind)[1].end)
<1>1. CASE kind = "error"
  BY <1>1 DEF PolledEncoder, PolledPackets
<1>2. CASE kind = "dtx"
  BY <1>2 DEF PolledEncoder, PolledPackets, NextTimestamp, EndPacket
<1>3. CASE kind = "voice"
  BY <1>3 DEF PolledEncoder, PolledPackets, NextTimestamp
<1> QED
  BY <1>1, <1>2, <1>3 DEF FrameKinds

LEMMA FinishedEncoderSpeech ==
  ASSUME NEW enc \in EncoderStates
  PROVE  /\ FinishedEncoder(enc).timestamp = enc.timestamp
         /\ ~FinishedEncoder(enc).speaking
         /\ FinishPackets(enc) = << >> => ~enc.speaking
BY DEF FinishedEncoder, FinishPackets, EncoderStates

\* Numbers and kinds of the packets returned, and how many there can be: the packet of
\* the frame, and an END for each talkspurt opened.
Unclosed(enc) == IF enc.speaking THEN 1 ELSE 0

MadeBy(enc, packets) ==
  \A k \in DOMAIN packets :
    /\ packets[k].seq = enc.seq /\ packets[k].hist.idx = enc.hist.idx
    /\ packets[k].end = ~packets[k].media

LEMMA PolledNumbers ==
  ASSUME NEW enc \in EncoderStates, NEW kind \in FrameKinds
  PROVE  /\ MadeBy(enc, PolledPackets(enc, kind))
         /\ PolledEncoder(enc, kind).seq = (enc.seq + Len(PolledPackets(enc, kind))) % SeqMod
         /\ Len(PolledPackets(enc, kind)) + Unclosed(PolledEncoder(enc, kind))
              <= Unclosed(enc) + 2
<1>0. enc.seq \in SeqNumber /\ enc.hist \in Histories /\ SeqMod \in Nat /\ SeqMod > 0
  BY SeqModAssumption DEF EncoderStates
<1>1. CASE kind = "error"
  <2>1. PolledPackets(enc, kind) = << >> /\ PolledEncoder(enc, kind) = enc
    BY <1>1 DEF PolledPackets, PolledEncoder
  <2>2. (enc.seq + 0) % SeqMod = enc.seq
    BY <1>0 DEF SeqNumber
  <2> QED
    BY <2>1, <2>2 DEF MadeBy, Unclosed
<1>2. CASE kind = "dtx" /\ ~enc.speaking
  <2>1. PolledPackets(enc, kind) = << >>
    BY <1>2 DEF PolledPackets
  <2>2. PolledEncoder(enc, kind).seq = (enc.seq + Len(PolledPackets(enc, kind))) % SeqMod
          /\ ~PolledEncoder(enc, kind).speaking
    BY <1>2 DEF PolledEncoder, NextSeq
  <2> QED
    BY <2>1, <2>2 DEF MadeBy, Unclosed
<1>3. CASE (kind = "dtx" /\ enc.speaking) \/ kind = "voice"
  <2> DEFINE opened == IF OpensWith(enc, kind) THEN 1 ELSE 0
  <2> DEFINE hist == [enc.hist EXCEPT !.spurt = @ + opened]
  <2>0. hist.idx = enc.hist.idx
    BY <1>0 DEF Histories
  <2>1. \E pkt : /\ PolledPackets(enc, kind) = <<pkt>>
                 /\ pkt.seq = enc.seq /\ pkt.hist.idx = enc.hist.idx /\ pkt.end = ~pkt.media
    <3>1. CASE kind = "voice"
      <4> DEFINE pkt ==
            MediaPacket(enc.seq, enc.timestamp, OpensWith(enc, kind), hist)
      <4>1. PolledPackets(enc, kind) = <<pkt>>
        BY <3>1 DEF PolledPackets
      <4> HIDE DEF hist
      <4>2. pkt.seq = enc.seq /\ pkt.hist.idx = enc.hist.idx /\ pkt.end = ~pkt.media
        BY <2>0 DEF MediaPacket
      <4> HIDE DEF pkt
      <4> QED
        BY <4>1, <4>2
    <3>2. CASE kind = "dtx" /\ enc.speaking
      <4> DEFINE pkt ==
            EndPacket(enc.seq, enc.timestamp, hist)
      <4>1. PolledPackets(enc, kind) = <<pkt>>
        BY <3>2 DEF PolledPackets
      <4> HIDE DEF hist
      <4>2. pkt.seq = enc.seq /\ pkt.hist.idx = enc.hist.idx /\ pkt.end = ~pkt.media
        BY <2>0 DEF EndPacket
      <4> HIDE DEF pkt
      <4> QED
        BY <4>1, <4>2
    <3> QED
      BY <1>3, <3>1, <3>2
  <2>2. PolledEncoder(enc, kind).seq = (enc.seq + Len(PolledPackets(enc, kind))) % SeqMod
          /\ (PolledEncoder(enc, kind).speaking <=> kind = "voice")
    BY <1>3 DEF PolledEncoder, NextSeq
  <2> QED
    BY <2>1, <2>2 DEF MadeBy, Unclosed
<1> QED
  BY <1>1, <1>2, <1>3 DEF FrameKinds

LEMMA FinishNumbers ==
  ASSUME NEW enc \in EncoderStates
  PROVE  /\ MadeBy(enc, FinishPackets(enc))
         /\ FinishedEncoder(enc).seq = (enc.seq + Len(FinishPackets(enc))) % SeqMod
         /\ Len(FinishPackets(enc)) = Unclosed(enc) /\ Unclosed(FinishedEncoder(enc)) = 0
<1> DEFINE pkt == EndPacket(enc.seq, enc.timestamp, enc.hist)
<1>0. pkt.seq = enc.seq /\ pkt.hist.idx = enc.hist.idx /\ pkt.end = ~pkt.media
  BY DEF EndPacket
<1>p. FinishPackets(enc) = IF enc.speaking THEN <<pkt>> ELSE << >>
  BY DEF FinishPackets
<1> HIDE DEF pkt
<1>1. MadeBy(enc, FinishPackets(enc)) /\ Len(FinishPackets(enc)) = Unclosed(enc)
  BY <1>0, <1>p DEF MadeBy, Unclosed
<1>2. FinishedEncoder(enc).seq = (enc.seq + Len(FinishPackets(enc))) % SeqMod
        /\ ~FinishedEncoder(enc).speaking
  BY DEF FinishedEncoder, NextSeq, EncoderStates
<1> QED
  BY <1>1, <1>2 DEF Unclosed

\* A stretch of the number space that is shorter than its half is ordered as counted.
LEMMA NewerInWindow ==
  ASSUME NEW first \in Nat, NEW a \in Nat, NEW b \in Nat,
         2 * a < SeqMod, 2 * b < SeqMod
  PROVE  SequenceIsNewer((first + a) % SeqMod, (first + b) % SeqMod) <=> a > b
<1> DEFINE m == SeqMod
<1> DEFINE half == SeqMod \div 2
<1>1. m \in Nat \ {0} /\ half \in Nat /\ m = 2 * half
  BY SeqModAssumption
<1> DEFINE qa == (first + a) \div m
<1> DEFINE ra == (first + a) % m
<1> DEFINE qb == (first + b) \div m
<1> DEFINE rb == (first + b) % m
<1>n. first + a \in Nat /\ first + b \in Nat
  OBVIOUS
<1>2. first + a = m * qa + ra /\ qa \in Nat /\ ra \in 0 .. m - 1
  BY <1>1, <1>n, Division, Zenon
<1>3. first + b = m * qb + rb /\ qb \in Nat /\ rb \in 0 .. m - 1
  BY <1>1, <1>n, Division, Zenon
<1> HIDE DEF qa, ra, qb, rb
<1> DEFINE distance == (ra - rb) % m
<1>4. a > b => distance = a - b
  <2> SUFFICES ASSUME a > b PROVE distance = a - b
    OBVIOUS
  <2>1. ra - rb = a - b \/ ra - rb = a - b - m
    <3>1. m * qa - m * qb = a - b - (ra - rb)
      BY <1>1, <1>2, <1>3
    <3>2. m * (qa - qb) = a - b - (ra - rb)
      BY <1>1, <1>2, <1>3, <3>1
    <3>3. qa - qb \in {0, 1}
      BY <1>1, <1>2, <1>3, <3>2, SMTT(30)
    <3> QED
      BY <1>1, <1>2, <1>3, <3>2, <3>3
  <2> QED
    BY <1>1, <2>1, SMTT(30)
<1>5. a = b => distance = 0
  BY <1>1, <1>2, <1>3 DEF ra, rb
<1>6. a < b => distance = m - (b - a)
  <2> SUFFICES ASSUME a < b PROVE distance = m - (b - a)
    OBVIOUS
  <2>1. ra - rb = a - b \/ ra - rb = a - b + m
    <3>1. m * qa - m * qb = a - b - (ra - rb)
      BY <1>1, <1>2, <1>3
    <3>2. m * (qa - qb) = a - b - (ra - rb)
      BY <1>1, <1>2, <1>3, <3>1
    <3>3. qa - qb \in {0, -1}
      BY <1>1, <1>2, <1>3, <3>2, SMTT(30)
    <3> QED
      BY <1>1, <1>2, <1>3, <3>2, <3>3
  <2> QED
    BY <1>1, <2>1, SMTT(30)
<1>7. SequenceIsNewer(ra, rb) <=> distance # 0 /\ distance < half
  BY DEF SequenceIsNewer
<1> HIDE DEF distance, half
<1>8. SequenceIsNewer(ra, rb) <=> a > b
  BY <1>1, <1>4, <1>5, <1>6, <1>7
<1> QED
  BY <1>8 DEF ra, rb

\* The media time of a history, in frames: a packet for each frame that was sent, less
\* those of finish_talkspurt, and the frames that were not sent.  The clock is this
\* time, wrapped.
MediaTime(hist) == hist.idx - hist.stops + hist.silent

OnTime(clock) ==
  clock.timestamp = MediaTime(clock.hist) % TsMod /\ clock.hist.stops <= clock.hist.idx

LEMMA MediaTimeType ==
  ASSUME NEW hist \in Histories, hist.stops <= hist.idx
  PROVE  MediaTime(hist) \in Nat
BY DEF MediaTime, Histories

\* What poll_packet returns is stamped with the time of its frame, and the encoder has
\* counted that frame.
LEMMA PolledTime ==
  ASSUME NEW enc \in EncoderStates, NEW kind \in FrameKinds, OnTime(enc)
  PROVE  /\ \A k \in DOMAIN PolledPackets(enc, kind) :
              /\ OnTime(PolledPackets(enc, kind)[k])
              /\ MediaTime(PolledPackets(enc, kind)[k].hist) = MediaTime(enc.hist)
         /\ OnTime(PolledEncoder(enc, kind))
         /\ MediaTime(PolledEncoder(enc, kind).hist)
              \in {MediaTime(enc.hist), MediaTime(enc.hist) + 1}
         /\ MediaTime(PolledEncoder(enc, kind).hist)
              = MediaTime(enc.hist) + (IF kind = "error" THEN 0 ELSE 1)
<1> DEFINE opened == IF OpensWith(enc, kind) THEN 1 ELSE 0
<1> DEFINE packets == PolledPackets(enc, kind)
<1> DEFINE sent == Len(packets)
<1> DEFINE made == [enc.hist EXCEPT !.spurt = @ + opened]
<1> DEFINE hist == [enc.hist EXCEPT !.idx = @ + sent, !.spurt = @ + opened,
                                    !.silent = @ + 1 - sent]
<1>1. enc.hist \in Histories /\ MediaTime(enc.hist) \in Nat /\ enc.hist.stops <= enc.hist.idx
  BY MediaTimeType DEF EncoderStates, OnTime
<1>2. /\ enc.hist.idx \in Nat /\ enc.hist.stops \in Nat /\ enc.hist.silent \in Nat
      /\ sent \in 0 .. 1 /\ opened \in Nat
  BY <1>1, PolledPacketsType DEF Histories
<1>3. MediaTime(made) = MediaTime(enc.hist) /\ made.stops <= made.idx
  BY <1>1 DEF MediaTime, Histories
<1>4. MediaTime(hist) = MediaTime(enc.hist) + 1 /\ hist.stops <= hist.idx
  <2>1. hist.idx = enc.hist.idx + sent /\ hist.stops = enc.hist.stops
          /\ hist.silent = enc.hist.silent + 1 - sent
    BY <1>1 DEF Histories
  <2> HIDE DEF hist, sent
  <2> QED
    BY <1>1, <1>2, <2>1 DEF MediaTime
<1>5. \A k \in DOMAIN packets : OnTime(packets[k]) /\ MediaTime(packets[k].hist) = MediaTime(enc.hist)
  <2>1. packets = << >> \/ \E pkt : /\ packets = <<pkt>>
                                    /\ pkt.timestamp = enc.timestamp /\ pkt.hist = made
    <3>1. CASE kind = "voice"
      BY <3>1 DEF PolledPackets, MediaPacket
    <3>2. CASE kind = "dtx" /\ enc.speaking
      BY <3>2 DEF PolledPackets, EndPacket
    <3>3. CASE kind # "voice" /\ ~(kind = "dtx" /\ enc.speaking)
      BY <3>3 DEF PolledPackets
    <3> QED
      BY <3>1, <3>2, <3>3
  <2> HIDE DEF packets, made
  <2> QED
    BY <1>3, <2>1 DEF OnTime
<1>6. CASE kind = "error"
  <2>1. PolledEncoder(enc, kind) = enc
    BY <1>6 DEF PolledEncoder
  <2> QED
    BY <1>1, <1>5, <1>6, <2>1
<1>7. CASE kind # "error"
  <2>1. PolledEncoder(enc, kind).timestamp = (enc.timestamp + 1) % TsMod
          /\ PolledEncoder(enc, kind).hist = hist
    BY <1>7 DEF PolledEncoder, NextTimestamp
  <2> HIDE DEF hist
  <2>2. (enc.timestamp + 1) % TsMod = (MediaTime(enc.hist) + 1) % TsMod
    BY <1>1, ClockAdvances, TsModAssumption DEF OnTime
  <2> QED
    BY <1>4, <1>5, <1>7, <2>1, <2>2 DEF OnTime
<1> QED
  BY <1>6, <1>7

LEMMA FinishTime ==
  ASSUME NEW enc \in EncoderStates, OnTime(enc)
  PROVE  /\ \A k \in DOMAIN FinishPackets(enc) :
              /\ OnTime(FinishPackets(enc)[k])
              /\ MediaTime(FinishPackets(enc)[k].hist) = MediaTime(enc.hist)
         /\ OnTime(FinishedEncoder(enc))
         /\ MediaTime(FinishedEncoder(enc).hist) = MediaTime(enc.hist)
<1> DEFINE sent == Len(FinishPackets(enc))
<1> DEFINE hist == [enc.hist EXCEPT !.idx = @ + sent, !.stops = @ + sent]
<1>1. enc.hist \in Histories /\ enc.hist.stops <= enc.hist.idx
  BY DEF EncoderStates, OnTime
<1>2. /\ enc.hist.idx \in Nat /\ enc.hist.stops \in Nat /\ enc.hist.silent \in Nat
      /\ sent \in 0 .. 1
  BY <1>1, FinishPacketsType DEF Histories
<1>3. \A k \in DOMAIN FinishPackets(enc) :
        /\ FinishPackets(enc)[k].timestamp = enc.timestamp
        /\ FinishPackets(enc)[k].hist = enc.hist
  BY DEF FinishPackets, EndPacket
<1>4. FinishedEncoder(enc).timestamp = enc.timestamp /\ FinishedEncoder(enc).hist = hist
  BY <1>1 DEF FinishedEncoder, EncoderStates, Histories
<1>5. hist.idx = enc.hist.idx + sent /\ hist.stops = enc.hist.stops + sent
        /\ hist.silent = enc.hist.silent
  BY <1>1 DEF Histories
<1> HIDE DEF sent, hist
<1>6. MediaTime(hist) = MediaTime(enc.hist) /\ hist.stops <= hist.idx
  BY <1>1, <1>2, <1>5 DEF MediaTime
<1> QED
  BY <1>3, <1>4, <1>6 DEF OnTime

LEMMA AdvancedTime ==
  ASSUME NEW enc \in EncoderStates, OnTime(enc)
  PROVE  /\ OnTime(AdvancedEncoder(enc, 1))
         /\ MediaTime(AdvancedEncoder(enc, 1).hist) = MediaTime(enc.hist) + 1
<1> DEFINE hist == [enc.hist EXCEPT !.silent = @ + 1]
<1>1. enc.hist \in Histories /\ MediaTime(enc.hist) \in Nat /\ enc.hist.stops <= enc.hist.idx
  BY MediaTimeType DEF EncoderStates, OnTime
<1>2. AdvancedEncoder(enc, 1).timestamp = (enc.timestamp + 1) % TsMod
        /\ AdvancedEncoder(enc, 1).hist = hist
  BY DEF AdvancedEncoder, EncoderStates
<1>3. MediaTime(hist) = MediaTime(enc.hist) + 1 /\ hist.stops <= hist.idx
  BY <1>1 DEF MediaTime, Histories
<1> HIDE DEF hist
<1>4. (enc.timestamp + 1) % TsMod = (MediaTime(enc.hist) + 1) % TsMod
  BY <1>1, ClockAdvances, TsModAssumption DEF OnTime
<1> QED
  BY <1>2, <1>3, <1>4 DEF OnTime

\* Times less than a clock apart are apart on the clock by what they differ.
LEMMA ClockDifference ==
  ASSUME NEW a \in Nat, NEW b \in Nat, NEW m \in Nat \ {0}, b <= a, a - b < m
  PROVE  ((a % m) - (b % m)) % m = a - b
<1> DEFINE qa == a \div m
<1> DEFINE ra == a % m
<1> DEFINE qb == b \div m
<1> DEFINE rb == b % m
<1>1. a = m * qa + ra /\ qa \in Nat /\ ra \in 0 .. m - 1
  BY Division
<1>2. b = m * qb + rb /\ qb \in Nat /\ rb \in 0 .. m - 1
  BY Division
<1> HIDE DEF qa, ra, qb, rb
<1>3. m * (qa - qb) = a - b - (ra - rb)
  <2>1. m * qa - m * qb = a - b - (ra - rb)
    BY <1>1, <1>2
  <2> QED
    BY <1>1, <1>2, <2>1
<1>4. qa - qb \in {0, 1}
  BY <1>1, <1>2, <1>3, SMTT(30)
<1>5. ra - rb = a - b \/ ra - rb = a - b - m
  BY <1>1, <1>2, <1>3, <1>4
<1>6. (ra - rb) % m = a - b
  <2>1. (a - b) % m = a - b
    OBVIOUS
  <2>2. (a - b - m) % m = a - b
    BY SMTT(30)
  <2> QED
    BY <1>5, <2>1, <2>2
<1> QED
  BY <1>6 DEF ra, rb

\* A counter that wraps may count on from where it wrapped.
LEMMA CountsOn ==
  ASSUME NEW n \in Nat, NEW m \in Nat \ {0}, NEW k \in 0 .. 1
  PROVE  ((n % m) + k) % m = (n + k) % m
<1>1. CASE k = 0
  <2> DEFINE r == n % m
  <2>1. r \in 0 .. m - 1
    BY ModuloRange
  <2> HIDE DEF r
  <2>2. (r + 0) % m = r
    BY <2>1
  <2>3. n + 0 = n
    OBVIOUS
  <2> QED
    BY <1>1, <2>2, <2>3 DEF r
<1>2. CASE k = 1
  BY <1>2, ClockAdvances
<1> QED
  BY <1>1, <1>2

LEMMA NotNewerThanItself ==
  ASSUME NEW seq \in SeqNumber
  PROVE  ~SequenceIsNewer(seq, seq)
<1>1. (seq - seq) % SeqMod = 0
  BY SeqModAssumption DEF SeqNumber
<1> QED
  BY <1>1 DEF SequenceIsNewer

-----------------------------------------------------------------------------
\* The receiver

LEMMA ReceiverInitType == ReceiverInit => ReceiverTypeOK
<1>1. 0 \in 0 .. ResumePrebuffer /\ 0 \in 0 .. 1
  BY ReceiverAssumption
<1> QED
  BY <1>1 DEF ReceiverInit, ReceiverTypeOK

\* push_packet keeps the types, whatever NetEq answers.
LEMMA PushPacketType ==
  ASSUME ReceiverTypeOK, NEW pkt \in VoicePackets, NEW inserted \in InsertOutcomes,
         PushPacket(pkt, inserted)
  PROVE  ReceiverTypeOK'
<1> DEFINE opens == OpensTalkspurt(pkt)
<1> DEFINE closes == ClosesTalkspurt(pkt)
<1> DEFINE stored == pkt.media /\ inserted
<1> DEFINE count == CountBefore(opens)
<1>1. pkt.seq \in SeqNumber /\ pkt.timestamp \in Timestamp /\ pkt.media \in BOOLEAN
  BY DEF VoicePackets
<1>2. count \in 0 .. ResumePrebuffer
  BY ReceiverAssumption DEF CountBefore, ReceiverTypeOK
<1>3. /\ pending_silence' = (closes \/ (pending_silence /\ ~opens))
      /\ intentional_silence' = (intentional_silence /\ ~opens)
      /\ resuming_talkspurt' = (resuming_talkspurt \/ opens)
  BY Zenon DEF PushPacket
<1>4. end_of_talkspurt_seq' \in {pkt.seq, None, end_of_talkspurt_seq}
  BY DEF PushPacket
<1>5. resumed_packet_count' =
        IF stored /\ resuming_talkspurt' /\ count < ResumePrebuffer THEN count + 1 ELSE count
  BY Zenon DEF PushPacket
<1>6. last_media' \in {last_media, [seq |-> pkt.seq, timestamp |-> pkt.timestamp]}
  BY DEF PushPacket
<1>7. buffer' \subseteq buffer \cup {pkt} /\ residue' \in {0, residue} /\ decoded' \in {None, decoded}
  BY DEF PushPacket
<1>8. /\ pending_silence' \in BOOLEAN /\ intentional_silence' \in BOOLEAN
      /\ resuming_talkspurt' \in BOOLEAN
  BY <1>3
<1>9. resumed_packet_count' \in 0 .. ResumePrebuffer
  BY <1>2, <1>5, ReceiverAssumption
<1> HIDE DEF opens, closes, stored, count
<1> QED
  BY <1>1, <1>4, <1>6, <1>7, <1>8, <1>9 DEF ReceiverTypeOK

\* So does pull_frame.
LEMMA PullFrameType ==
  ASSUME ReceiverTypeOK, PullFrame
  PROVE  ReceiverTypeOK'
<1>1. CASE PullSilence
  BY <1>1 DEF PullSilence, ReceiverTypeOK, neteq_vars
<1>2. CASE PullPrebuffering
  BY <1>2 DEF PullPrebuffering, ReceiverTypeOK, receiver_vars, talkspurt_vars, neteq_vars
<1>3. CASE PullResidue
  <2>1. residue' \in 0 .. 1 /\ UNCHANGED <<buffer, decoded>>
    BY <1>3 DEF PullResidue, ReceiverTypeOK
  <2> QED
    BY <1>3, <2>1 DEF PullResidue, ReachesNetEq, ReceiverTypeOK
<1>4. CASE PullDecode
  <2>1. residue' \in 0 .. 1
    BY <1>4 DEF PullDecode
  <2>2. buffer' \subseteq VoicePackets /\ decoded' \in VoicePackets
    BY <1>4 DEF PullDecode, ReceiverTypeOK
  <2> QED
    BY <1>4, <2>1, <2>2 DEF PullDecode, ReachesNetEq, ReceiverTypeOK
<1>5. CASE PullConceal
  BY <1>5 DEF PullConceal, ReachesNetEq, ReceiverTypeOK, neteq_vars
<1> QED
  BY <1>1, <1>2, <1>3, <1>4, <1>5 DEF PullFrame
=============================================================================
