--------------------------- MODULE VoiceLinkProofs ---------------------------
(***************************************************************************)
(* Proofs about VoiceLink, for any width of the numbers, any bounds of     *)
(* frames and link, any prebuffer and gap.                                 *)
(***************************************************************************)
EXTENDS VoiceLink, VoiceProofs, FiniteSetTheorems

\* Where the packet at j of a sequence without its i-th one was.
Skip(i, j) == IF j < i THEN j ELSE j + 1

LEMMA WithoutOne ==
  ASSUME NEW S, NEW s \in Seq(S), NEW i \in DOMAIN s
  PROVE  /\ Without(s, i) \in Seq(S) /\ Len(Without(s, i)) = Len(s) - 1
         /\ \A j \in DOMAIN Without(s, i) :
              /\ Skip(i, j) \in DOMAIN s /\ Skip(i, j) # i
              /\ Without(s, i)[j] = s[Skip(i, j)]
         /\ \A j, k \in DOMAIN Without(s, i) : j < k => Skip(i, j) < Skip(i, k)
<1> DEFINE n == Len(s) - 1
<1> DEFINE w == [j \in 1 .. n |-> IF j < i THEN s[j] ELSE s[j + 1]]
<1>1. n \in Nat /\ i \in 1 .. n + 1 /\ DOMAIN s = 1 .. n + 1 /\ \A k \in 1 .. n + 1 : s[k] \in S
  OBVIOUS
<1>2. Without(s, i) = w
  BY DEF Without
<1> HIDE DEF n
<1>3. w \in Seq(S) /\ Len(w) = n
  BY <1>1
<1>4. \A j \in 1 .. n : Skip(i, j) \in 1 .. n + 1 /\ Skip(i, j) # i /\ w[j] = s[Skip(i, j)]
  BY <1>1 DEF Skip
<1>5. \A j, k \in 1 .. n : j < k => Skip(i, j) < Skip(i, k)
  BY <1>1 DEF Skip
<1>6. DOMAIN w = 1 .. n
  OBVIOUS
<1> HIDE DEF w
<1> QED
  BY <1>1, <1>2, <1>3, <1>4, <1>5, <1>6 DEF n

-----------------------------------------------------------------------------
\* The number of the packet made after n others.
SeqOf(n) == (InitialSeq + n) % SeqMod

\* The sender numbers its packets in turn, and makes at most two to a frame: that of the
\* frame and an END.
NumbersInv ==
  /\ enc.seq = SeqOf(enc.hist.idx)
  /\ enc.hist.idx + Unclosed(enc) <= 2 * frames

Made(pkt, count) ==
  /\ pkt.seq = SeqOf(pkt.hist.idx) /\ pkt.hist.idx < count
  /\ pkt.end = ~pkt.media

\* What is on the link was made by the sender and leaves in the order it was made.
LinkInv ==
  /\ \A j \in DOMAIN link : Made(link[j], enc.hist.idx)
  /\ \A j, k \in DOMAIN link : j < k => link[j].hist.idx < link[k].hist.idx

\* What has arrived was made by the sender, and is not on the link.
ArrivedInv ==
  /\ \A pkt \in buffer : pkt.hist.idx < enc.hist.idx
  /\ \A pkt \in buffer : \A j \in DOMAIN link : link[j].hist.idx # pkt.hist.idx
  /\ newest # None =>
       /\ Made(newest, enc.hist.idx)
       /\ \A j \in DOMAIN link : link[j].hist.idx # newest.hist.idx
       /\ Ordered => \A j \in DOMAIN link : newest.hist.idx < link[j].hist.idx

SenderInv == TypeOK /\ NumbersInv /\ LinkInv /\ ArrivedInv

LEMMA NoneIsNoPacket == None \notin VoicePackets /\ None \notin SeqNumber
                          /\ None \notin [seq : SeqNumber, timestamp : Timestamp]
BY ReceiverAssumption

LEMMA PacketTypes ==
  ASSUME NEW pkt \in VoicePackets
  PROVE  /\ pkt.seq \in SeqNumber /\ pkt.timestamp \in Timestamp /\ pkt.media \in BOOLEAN
         /\ pkt.start \in BOOLEAN /\ pkt.end \in BOOLEAN /\ pkt.hist.idx \in Nat
         /\ pkt # None
BY NoneIsNoPacket DEF VoicePackets, Histories

LEMMA EncoderTypes ==
  ASSUME NEW e \in EncoderStates
  PROVE  /\ e.seq \in SeqNumber /\ e.timestamp \in Timestamp /\ e.speaking \in BOOLEAN
         /\ e.hist \in Histories /\ e.hist.idx \in Nat /\ Unclosed(e) \in 0 .. 1
BY DEF EncoderStates, Histories, Unclosed

\* Numbers go on from one another across the wraparound.
LEMMA SeqOfNext ==
  ASSUME NEW n \in Nat
  PROVE  (SeqOf(n) + 1) % SeqMod = SeqOf(n + 1) /\ SeqOf(n) \in SeqNumber
           /\ (SeqOf(n) + 0) % SeqMod = SeqOf(n)
<1>1. SeqMod \in Nat \ {0} /\ InitialSeq \in Nat
  BY SeqModAssumption, LinkAssumption DEF SeqNumber
<1>2. PICK k \in Nat : k = InitialSeq + n
  BY <1>1
<1>3. ((k % SeqMod) + 1) % SeqMod = (k + 1) % SeqMod
  BY <1>1, ClockAdvances
<1>4. SeqOf(n) = k % SeqMod
  BY <1>2 DEF SeqOf
<1>5. k + 1 = InitialSeq + (n + 1)
  BY <1>1, <1>2
<1>6. SeqOf(n) \in SeqNumber
  BY <1>1, <1>4, ModuloRange DEF SeqNumber
<1>7. (SeqOf(n) + 0) % SeqMod = SeqOf(n)
  BY <1>1, <1>6 DEF SeqNumber
<1> QED
  BY <1>3, <1>4, <1>5, <1>6, <1>7 DEF SeqOf

LEMMA SenderInitInv == Init => SenderInv
<1> SUFFICES ASSUME Init PROVE SenderInv
  OBVIOUS
<1>1. ReceiverTypeOK
  BY ReceiverInitType DEF Init
<1>2. /\ 0 \in Timestamp /\ InitialSeq \in SeqNumber /\ NewHistory \in Histories
      /\ MaxFrames \in Nat /\ MaxInFlight \in Nat
  BY LinkAssumption, TsModAssumption, NewHistoryType DEF Timestamp
<1>3. enc \in EncoderStates
  BY <1>2, FreshEncoderType DEF Init
<1>4. TypeOK
  BY <1>1, <1>2, <1>3 DEF Init, TypeOK
<1>5. enc.hist.idx = 0 /\ enc.seq = InitialSeq /\ ~enc.speaking /\ frames = 0
  BY DEF Init, FreshEncoder, NewHistory
<1>6. SeqOf(0) = InitialSeq
  BY <1>2, SeqModAssumption DEF SeqOf, SeqNumber
<1>7. NumbersInv
  BY <1>5, <1>6 DEF NumbersInv, Unclosed
<1>8. LinkInv /\ ArrivedInv
  BY DEF Init, ReceiverInit, LinkInv, ArrivedInv
<1> QED
  BY <1>4, <1>7, <1>8 DEF SenderInv

\* The encoder makes some packets, which go onto the link.
Sends(packets) ==
  /\ packets = << >> \/ \E pkt \in VoicePackets : packets = <<pkt>>
  /\ MadeBy(enc, packets)
  /\ link' = link \o packets
  /\ enc'.hist.idx = enc.hist.idx + Len(packets)
  /\ enc'.seq = (enc.seq + Len(packets)) % SeqMod
  /\ Unclosed(enc') + Len(packets) + 2 * frames <= Unclosed(enc) + 2 * frames'
  /\ UNCHANGED <<receiver_vars, history_vars>>

LEMMA SendsKeepsInv ==
  ASSUME SenderInv, TypeOK', NEW packets, Sends(packets)
  PROVE  SenderInv'
<1>1. /\ enc \in EncoderStates /\ enc' \in EncoderStates
      /\ link \in Seq(VoicePackets) /\ frames \in Nat /\ frames' \in Nat
  BY DEF SenderInv, TypeOK
<1>2. /\ enc.hist.idx \in Nat /\ enc'.hist.idx \in Nat
      /\ Unclosed(enc) \in 0 .. 1 /\ Unclosed(enc') \in 0 .. 1
  BY <1>1, EncoderTypes
<1>3. buffer' = buffer /\ newest' = newest
  BY DEF Sends, receiver_vars, neteq_vars, history_vars
<1>4. CASE packets = << >>
  <2>1. link' = link /\ enc'.hist.idx = enc.hist.idx
    BY <1>1, <1>2, <1>4 DEF Sends
  <2>2. enc'.seq = SeqOf(enc'.hist.idx)
    BY <1>2, <1>4, <2>1, SeqOfNext DEF Sends, SenderInv, NumbersInv
  <2>3. enc'.hist.idx + Unclosed(enc') <= 2 * frames'
    BY <1>1, <1>2, <1>4, <2>1 DEF Sends, SenderInv, NumbersInv
  <2>4. NumbersInv'
    BY <2>2, <2>3 DEF NumbersInv, Unclosed
  <2>5. LinkInv' /\ ArrivedInv'
    BY <1>3, <2>1 DEF SenderInv, LinkInv, ArrivedInv, Made
  <2> QED
    BY <2>4, <2>5 DEF SenderInv
<1>5. ASSUME NEW pkt \in VoicePackets, packets = <<pkt>> PROVE SenderInv'
  <2> DEFINE n == Len(link)
  <2>1. /\ n \in Nat /\ DOMAIN link = 1 .. n
        /\ DOMAIN link' = 1 .. n + 1 /\ link'[n + 1] = pkt
        /\ \A j \in 1 .. n : link'[j] = link[j]
    BY <1>1, <1>5 DEF Sends
  <2> HIDE DEF n
  <2>2. /\ pkt.seq = enc.seq /\ pkt.hist.idx = enc.hist.idx /\ pkt.end = ~pkt.media
        /\ enc'.hist.idx = enc.hist.idx + 1 /\ enc'.seq = (enc.seq + 1) % SeqMod
        /\ Unclosed(enc') + 1 + 2 * frames <= Unclosed(enc) + 2 * frames'
    BY <1>5 DEF Sends, MadeBy
  <2>3. enc'.seq = SeqOf(enc'.hist.idx) /\ Made(pkt, enc'.hist.idx)
    BY <1>2, <2>2, SeqOfNext DEF SenderInv, NumbersInv, Made
  <2>4. enc'.hist.idx + Unclosed(enc') <= 2 * frames'
    BY <1>1, <1>2, <2>2 DEF SenderInv, NumbersInv
  <2>5. NumbersInv'
    BY <2>3, <2>4 DEF NumbersInv, Unclosed
  <2>6. \A j \in 1 .. n : link[j] \in VoicePackets /\ link[j].hist.idx \in Nat
    BY <1>1, <2>1, PacketTypes
  <2>7. \A j \in 1 .. n : Made(link[j], enc'.hist.idx) /\ link[j].hist.idx < pkt.hist.idx
    <3> SUFFICES ASSUME NEW j \in 1 .. n
                 PROVE  Made(link[j], enc'.hist.idx) /\ link[j].hist.idx < pkt.hist.idx
      OBVIOUS
    <3>1. Made(link[j], enc.hist.idx)
      BY <2>1 DEF SenderInv, LinkInv
    <3>2. link[j].hist.idx \in Nat /\ link[j].hist.idx < enc.hist.idx
      BY <2>6, <3>1 DEF Made
    <3> QED
      BY <1>2, <2>2, <3>1, <3>2 DEF Made
  <2>8. \A j \in DOMAIN link' : Made(link'[j], enc'.hist.idx)
    <3> SUFFICES ASSUME NEW j \in 1 .. n + 1 PROVE Made(link'[j], enc'.hist.idx)
      BY <2>1
    <3>1. CASE j \in 1 .. n
      <4>1. link'[j] = link[j] /\ Made(link[j], enc'.hist.idx)
        BY <2>1, <2>7, <3>1
      <4> QED
        BY <4>1 DEF Made
    <3>2. CASE j = n + 1
      BY <2>1, <2>3, <3>2 DEF Made
    <3> QED
      BY <2>1, <3>1, <3>2
  <2>9. \A j, k \in DOMAIN link' : j < k => link'[j].hist.idx < link'[k].hist.idx
    <3> SUFFICES ASSUME NEW j \in 1 .. n + 1, NEW k \in 1 .. n + 1, j < k
                 PROVE  link'[j].hist.idx < link'[k].hist.idx
      BY <2>1
    <3>1. CASE k \in 1 .. n
      BY <2>1, <3>1 DEF SenderInv, LinkInv
    <3>2. CASE k = n + 1
      BY <2>1, <2>7, <3>2
    <3> QED
      BY <2>1, <3>1, <3>2
  <2>10. LinkInv'
    BY <2>8, <2>9 DEF LinkInv
  <2>11. buffer \subseteq VoicePackets /\ newest \in VoicePackets \cup {None}
    BY DEF SenderInv, TypeOK, ReceiverTypeOK
  <2>12. /\ \A p \in buffer : p.hist.idx \in Nat /\ p.hist.idx < enc.hist.idx
         /\ newest # None => newest.hist.idx \in Nat /\ newest.hist.idx < enc.hist.idx
    BY <2>11, PacketTypes DEF SenderInv, ArrivedInv, Made
  <2>13. ArrivedInv'
    <3>1. \A p \in buffer : p.hist.idx < enc'.hist.idx
      BY <1>2, <2>2, <2>12
    <3>2. \A p \in buffer : \A j \in 1 .. n + 1 : link'[j].hist.idx # p.hist.idx
      <4> SUFFICES ASSUME NEW p \in buffer, NEW j \in 1 .. n + 1
                   PROVE  link'[j].hist.idx # p.hist.idx
        OBVIOUS
      <4>1. CASE j \in 1 .. n
        BY <2>1, <4>1 DEF SenderInv, ArrivedInv
      <4>2. CASE j = n + 1
        BY <1>2, <2>1, <2>2, <2>12, <4>2
      <4> QED
        BY <2>1, <4>1, <4>2
    <3>3. newest # None => Made(newest, enc'.hist.idx)
      BY <1>2, <2>2, <2>12 DEF SenderInv, ArrivedInv, Made
    <3>4. ASSUME newest # None, NEW j \in 1 .. n + 1
          PROVE  /\ link'[j].hist.idx # newest.hist.idx
                 /\ Ordered => newest.hist.idx < link'[j].hist.idx
      <4>1. CASE j \in 1 .. n
        BY <2>1, <3>4, <4>1 DEF SenderInv, ArrivedInv
      <4>2. CASE j = n + 1
        BY <1>2, <2>1, <2>2, <2>12, <3>4, <4>2
      <4> QED
        BY <2>1, <4>1, <4>2
    <3> QED
      BY <1>3, <2>1, <3>1, <3>2, <3>3, <3>4 DEF ArrivedInv, Made
  <2> QED
    BY <2>5, <2>10, <2>13 DEF SenderInv
<1> QED
  BY <1>4, <1>5 DEF Sends

\* The type of the link after the packets of a call.
LEMMA TransmitType ==
  ASSUME link \in Seq(VoicePackets), Len(link) <= MaxInFlight,
         NEW packets \in Seq(VoicePackets), Transmit(packets)
  PROVE  link' \in Seq(VoicePackets) /\ Len(link') <= MaxInFlight
<1>1. link' = link \o packets /\ Len(link) + Len(packets) <= MaxInFlight
  BY DEF Transmit
<1>2. link \o packets \in Seq(VoicePackets) /\ Len(link \o packets) = Len(link) + Len(packets)
  OBVIOUS
<1> QED
  BY <1>1, <1>2

LEMMA SenderStepInv ==
  ASSUME SenderInv,
         (\E kind \in FrameKinds : CaptureFrame(kind)) \/ DropFrame \/ StopCapture \/ StartCapture
  PROVE  SenderInv'
<1>0. /\ enc \in EncoderStates /\ enc.hist.idx \in Nat /\ Unclosed(enc) \in 0 .. 1
      /\ link \in Seq(VoicePackets) /\ Len(link) <= MaxInFlight
      /\ frames \in 0 .. MaxFrames /\ frames \in Nat /\ MaxFrames \in Nat
  BY EncoderTypes, LinkAssumption DEF SenderInv, TypeOK
<1>1. enc.seq = SeqOf(enc.hist.idx) /\ enc.seq \in SeqNumber /\ (enc.seq + 0) % SeqMod = enc.seq
  BY <1>0, SeqOfNext DEF SenderInv, NumbersInv
<1>2. ASSUME NEW kind \in FrameKinds, CaptureFrame(kind) PROVE SenderInv'
  <2> DEFINE packets == PolledPackets(enc, kind)
  <2>1. /\ Transmit(packets) /\ enc' = PolledEncoder(enc, kind)
        /\ frames' = frames + 1 /\ frames < MaxFrames
        /\ UNCHANGED <<capturing, receiver_vars, history_vars>>
    BY <1>2 DEF CaptureFrame
  <2>2. packets = << >> \/ \E pkt \in VoicePackets : packets = <<pkt>>
    BY <1>0, PolledPacketsType
  <2>3. MadeBy(enc, packets) /\ enc'.seq = (enc.seq + Len(packets)) % SeqMod
          /\ Len(packets) + Unclosed(enc') <= Unclosed(enc) + 2
    BY <1>0, <2>1, PolledNumbers
  <2>4. enc' \in EncoderStates /\ enc'.hist.idx = enc.hist.idx + Len(packets)
    BY <1>0, <2>1, PolledEncoderType
  <2> HIDE DEF packets
  <2>5. packets \in Seq(VoicePackets) /\ Len(packets) \in Nat
    <3>1. CASE packets = << >>
      BY <3>1
    <3>2. ASSUME NEW pkt \in VoicePackets, packets = <<pkt>>
          PROVE  packets \in Seq(VoicePackets) /\ Len(packets) \in Nat
      BY <3>2
    <3> QED
      BY <2>2, <3>1, <3>2
  <2>6. link' \in Seq(VoicePackets) /\ Len(link') <= MaxInFlight
    BY <1>0, <2>1, <2>5, TransmitType
  <2>7. TypeOK'
    BY <1>0, <2>1, <2>4, <2>6 DEF SenderInv, TypeOK, ReceiverTypeOK, receiver_vars,
       talkspurt_vars, neteq_vars, history_vars
  <2>8. Unclosed(enc') + Len(packets) + 2 * frames <= Unclosed(enc) + 2 * frames'
    <3>1. Unclosed(enc') \in 0 .. 1
      BY <2>4, EncoderTypes
    <3> QED
      BY <1>0, <2>1, <2>3, <2>5, <3>1
  <2>9. Sends(packets)
    BY <2>1, <2>2, <2>3, <2>4, <2>8 DEF Sends, Transmit
  <2> QED
    BY <2>7, <2>9, SendsKeepsInv
<1>3. CASE StopCapture
  <2> DEFINE packets == FinishPackets(enc)
  <2>1. /\ Transmit(packets) /\ enc' = FinishedEncoder(enc) /\ frames' = frames
        /\ capturing' = FALSE /\ UNCHANGED <<receiver_vars, history_vars>>
    BY <1>3 DEF StopCapture
  <2>2. packets = << >> \/ \E pkt \in VoicePackets : packets = <<pkt>>
    BY <1>0, FinishPacketsType
  <2>3. MadeBy(enc, packets) /\ enc'.seq = (enc.seq + Len(packets)) % SeqMod
          /\ Len(packets) = Unclosed(enc) /\ Unclosed(enc') = 0
    BY <1>0, <2>1, FinishNumbers
  <2>4. enc' \in EncoderStates /\ enc'.hist.idx = enc.hist.idx + Len(packets)
    BY <1>0, <2>1, FinishedEncoderType
  <2> HIDE DEF packets
  <2>5. packets \in Seq(VoicePackets) /\ Len(packets) \in Nat
    <3>1. CASE packets = << >>
      BY <3>1
    <3>2. ASSUME NEW pkt \in VoicePackets, packets = <<pkt>>
          PROVE  packets \in Seq(VoicePackets) /\ Len(packets) \in Nat
      BY <3>2
    <3> QED
      BY <2>2, <3>1, <3>2
  <2>6. link' \in Seq(VoicePackets) /\ Len(link') <= MaxInFlight
    BY <1>0, <2>1, <2>5, TransmitType
  <2>7. TypeOK'
    BY <1>0, <2>1, <2>4, <2>6 DEF SenderInv, TypeOK, ReceiverTypeOK, receiver_vars,
       talkspurt_vars, neteq_vars, history_vars
  <2>8. Sends(packets)
    BY <1>0, <2>1, <2>2, <2>3, <2>4 DEF Sends, Transmit
  <2> QED
    BY <2>7, <2>8, SendsKeepsInv
<1>4. ASSUME enc' \in EncoderStates, enc'.hist.idx = enc.hist.idx, enc'.seq = enc.seq,
             Unclosed(enc') <= Unclosed(enc) + 2 * (frames' - frames),
             frames' \in 0 .. MaxFrames, capturing' \in BOOLEAN, link' = link,
             UNCHANGED <<receiver_vars, history_vars>>
      PROVE  SenderInv'
  <2>1. TypeOK'
    BY <1>0, <1>4 DEF SenderInv, TypeOK, ReceiverTypeOK, receiver_vars,
       talkspurt_vars, neteq_vars, history_vars
  <2>2. Len(<< >>) = 0 /\ link \o << >> = link /\ MadeBy(enc, << >>)
    BY <1>0 DEF MadeBy
  <2>3. Unclosed(enc') \in 0 .. 1
    BY <1>4, EncoderTypes
  <2>4. Unclosed(enc') + 0 + 2 * frames <= Unclosed(enc) + 2 * frames'
    BY <1>0, <1>4, <2>3
  <2>5. Sends(<< >>)
    BY <1>0, <1>1, <1>4, <2>2, <2>4 DEF Sends
  <2> QED
    BY <2>1, <2>5, SendsKeepsInv
<1>5. CASE DropFrame
  <2>1. /\ enc' = AdvancedEncoder(enc, 1) /\ frames' = frames + 1 /\ frames < MaxFrames
        /\ UNCHANGED <<capturing, link, receiver_vars, history_vars>>
    BY <1>5 DEF DropFrame
  <2>2. PICK t : t = (enc.timestamp + 1) % TsMod
    OBVIOUS
  <2>3. t \in Timestamp
    <3>1. enc.timestamp + 1 \in Nat
      BY <1>0, EncoderTypes DEF Timestamp
    <3>2. t \in 0 .. TsMod - 1
      BY <2>2, <3>1, ModuloRange, TsModAssumption, Zenon
    <3> QED
      BY <3>2 DEF Timestamp
  <2>4. PICK n \in Nat : n = enc.hist.silent + 1
    BY <1>0 DEF EncoderStates, Histories
  <2>5. enc' = [enc EXCEPT !.timestamp = t, !.hist.silent = n]
    BY <1>0, <2>1, <2>2, <2>4 DEF AdvancedEncoder, EncoderStates, Histories
  <2>6. enc' \in EncoderStates /\ enc'.hist.idx = enc.hist.idx /\ enc'.seq = enc.seq
          /\ enc'.speaking = enc.speaking
    BY <1>0, <2>3, <2>5 DEF EncoderStates, Histories
  <2>7. Unclosed(enc') = Unclosed(enc)
    BY <2>6 DEF Unclosed
  <2>8. frames' \in 0 .. MaxFrames /\ Unclosed(enc') <= Unclosed(enc) + 2 * (frames' - frames)
    BY <1>0, <2>1, <2>7
  <2> QED
    BY <1>4, <2>1, <2>6, <2>8 DEF SenderInv, TypeOK
<1>6. CASE StartCapture
  <2>1. /\ enc' = FreshEncoder(enc.seq, enc.timestamp, enc.hist) /\ frames' = frames
        /\ capturing' = TRUE /\ UNCHANGED <<link, receiver_vars, history_vars>>
    BY <1>6 DEF StartCapture
  <2>2. enc' \in EncoderStates
    BY <1>0, <2>1, EncoderTypes, FreshEncoderType
  <2>3. enc'.hist = enc.hist /\ enc'.seq = enc.seq /\ Unclosed(enc') = 0
    BY <2>1 DEF FreshEncoder, Unclosed
  <2>4. Unclosed(enc') <= Unclosed(enc) + 2 * (frames' - frames) /\ frames' \in 0 .. MaxFrames
    <3>1. 2 * (frames' - frames) = 0 /\ frames' \in 0 .. MaxFrames
      BY <1>0, <2>1
    <3>2. 0 <= Unclosed(enc) + 0
      BY <1>0
    <3> QED
      BY <2>3, <3>1, <3>2
  <2> QED
    BY <1>4, <2>1, <2>2, <2>3, <2>4
<1> QED
  BY <1>2, <1>3, <1>5, <1>6

\* What is left of the link when a packet is taken out of it.
LEMMA LinkWithout ==
  ASSUME SenderInv, NEW i \in DOMAIN link, link' = Without(link, i), enc' = enc
  PROVE  /\ link' \in Seq(VoicePackets) /\ Len(link') <= MaxInFlight /\ LinkInv'
         /\ \A j \in DOMAIN link' :
              /\ \E k \in DOMAIN link : k # i /\ link'[j] = link[k]
              /\ link'[j].hist.idx # link[i].hist.idx
              /\ i = 1 => link[i].hist.idx < link'[j].hist.idx
<1>0. link \in Seq(VoicePackets) /\ Len(link) <= MaxInFlight /\ MaxInFlight \in Nat
        /\ DOMAIN link = 1 .. Len(link) /\ Len(link) \in Nat
  BY LinkAssumption DEF SenderInv, TypeOK
<1>1. /\ link' \in Seq(VoicePackets) /\ Len(link') = Len(link) - 1
      /\ \A j \in DOMAIN link' :
           Skip(i, j) \in DOMAIN link /\ Skip(i, j) # i /\ link'[j] = link[Skip(i, j)]
      /\ \A j, k \in DOMAIN link' : j < k => Skip(i, j) < Skip(i, k)
  BY <1>0, WithoutOne
<1>2. \A j \in DOMAIN link : link[j].hist.idx \in Nat
  BY <1>0, PacketTypes
<1>3. \A j, k \in DOMAIN link : j # k => link[j].hist.idx # link[k].hist.idx
  <2> SUFFICES ASSUME NEW j \in DOMAIN link, NEW k \in DOMAIN link, j # k
               PROVE  link[j].hist.idx # link[k].hist.idx
    OBVIOUS
  <2>1. j < k \/ k < j
    BY <1>0
  <2> QED
    BY <1>2, <2>1 DEF SenderInv, LinkInv
<1>4. LinkInv'
  BY <1>1 DEF SenderInv, LinkInv
<1>5. \A j \in DOMAIN link' : i = 1 => link[i].hist.idx < link'[j].hist.idx
  <2> SUFFICES ASSUME NEW j \in DOMAIN link', i = 1
               PROVE  link[i].hist.idx < link'[j].hist.idx
    OBVIOUS
  <2>1. i < Skip(i, j)
    BY <1>0, <1>1
  <2> QED
    BY <1>1, <2>1 DEF SenderInv, LinkInv
<1>6. Len(link') <= MaxInFlight
  BY <1>0, <1>1
<1> QED
  BY <1>1, <1>3, <1>4, <1>5, <1>6

\* The packet that is delivered, and the newest one then.
LEMMA DeliverStep ==
  ASSUME SenderInv, NEW i \in Deliverable, NEW inserted \in InsertOutcomes, Deliver(i, inserted)
  PROVE  /\ i \in DOMAIN link /\ link[i] \in VoicePackets /\ Made(link[i], enc.hist.idx)
         /\ link[i].hist.idx \in Nat /\ (Ordered => i = 1)
         /\ PushPacket(link[i], inserted) /\ link' = Without(link, i)
         /\ UNCHANGED <<enc, capturing, frames>>
         /\ newest' \in VoicePackets
         /\ newest' = IF newest = None \/ link[i].hist.idx > newest.hist.idx
                      THEN link[i] ELSE newest
         /\ newest_media' \in {newest_media, link[i]}
<1>1. link \in Seq(VoicePackets) /\ newest \in VoicePackets \cup {None}
  BY DEF SenderInv, TypeOK
<1>2. i \in DOMAIN link /\ (Ordered => i = 1)
  <2>1. CASE Ordered /\ link # << >>
    <3>1. i = 1
      BY <2>1 DEF Deliverable
    <3>2. 1 \in DOMAIN link
      BY <1>1, <2>1
    <3> QED
      BY <3>1, <3>2
  <2>2. CASE ~(Ordered /\ link # << >>)
    <3>1. i \in DOMAIN link
      BY <2>2 DEF Deliverable
    <3>2. link # << >>
      BY <3>1
    <3> QED
      BY <2>2, <3>1, <3>2
  <2> QED
    BY <2>1, <2>2
<1>3. link[i] \in VoicePackets
  BY <1>1, <1>2
<1>4. link[i].hist.idx \in Nat /\ Made(link[i], enc.hist.idx)
  BY <1>2, <1>3, PacketTypes DEF SenderInv, LinkInv
<1>5. PushPacket(link[i], inserted) /\ link' = Without(link, i) /\ UNCHANGED <<enc, capturing, frames>>
  BY DEF Deliver, sender_vars
<1>6. newest' = IF newest = None \/ link[i].hist.idx > newest.hist.idx THEN link[i] ELSE newest
  BY DEF Deliver, NewerOf
<1>7. newest' \in VoicePackets
  BY <1>1, <1>3, <1>6
<1>8. newest_media' \in {newest_media, link[i]}
  BY DEF Deliver, NewerOf
<1> QED
  BY <1>2, <1>3, <1>4, <1>5, <1>6, <1>7, <1>8

LEMMA DeliverInv ==
  ASSUME SenderInv, NEW i \in Deliverable, NEW inserted \in InsertOutcomes, Deliver(i, inserted)
  PROVE  SenderInv'
<1>1. PICK pkt : pkt = link[i]
  OBVIOUS
<1>2. /\ i \in DOMAIN link /\ pkt \in VoicePackets /\ Made(pkt, enc.hist.idx)
      /\ pkt.hist.idx \in Nat /\ (Ordered => i = 1)
      /\ PushPacket(pkt, inserted) /\ link' = Without(link, i)
      /\ enc' = enc /\ capturing' = capturing /\ frames' = frames
      /\ newest' \in VoicePackets /\ newest' \in {pkt, newest}
      /\ newest' = newest => newest # None
      /\ newest_media' \in {newest_media, pkt}
  <2>1. newest' \in VoicePackets => newest' # None
    BY PacketTypes
  <2> QED
    BY <1>1, <2>1, DeliverStep
<1>3. /\ link' \in Seq(VoicePackets) /\ Len(link') <= MaxInFlight /\ LinkInv'
      /\ \A j \in DOMAIN link' :
           /\ \E k \in DOMAIN link : k # i /\ link'[j] = link[k]
           /\ link'[j].hist.idx # pkt.hist.idx
           /\ i = 1 => pkt.hist.idx < link'[j].hist.idx
  BY <1>1, <1>2, LinkWithout
<1>4. ReceiverTypeOK'
  BY <1>2, PushPacketType DEF SenderInv, TypeOK
<1>5. TypeOK'
  BY <1>2, <1>3, <1>4 DEF SenderInv, TypeOK
<1>6. NumbersInv'
  BY <1>2 DEF SenderInv, NumbersInv, Unclosed
<1>7. buffer' \subseteq buffer \cup {pkt}
  BY <1>2 DEF PushPacket
<1>8. \A p \in buffer' : p.hist.idx < enc'.hist.idx
  BY <1>2, <1>7 DEF SenderInv, ArrivedInv, Made
<1>9. \A p \in buffer' : \A j \in DOMAIN link' : link'[j].hist.idx # p.hist.idx
  BY <1>3, <1>7 DEF SenderInv, ArrivedInv
<1>10. Made(newest', enc'.hist.idx)
  BY <1>2 DEF SenderInv, ArrivedInv
<1>11. \A j \in DOMAIN link' :
         link'[j].hist.idx # newest'.hist.idx
           /\ (Ordered => newest'.hist.idx < link'[j].hist.idx)
  <2> TAKE j \in DOMAIN link'
  <2>1. CASE newest' = pkt
    BY <1>2, <1>3, <2>1
  <2>2. CASE newest' = newest /\ newest # None
    <3>1. PICK k \in DOMAIN link : link'[j] = link[k]
      BY <1>3
    <3> QED
      BY <2>2, <3>1 DEF SenderInv, ArrivedInv
  <2> QED
    BY <1>2, <2>1, <2>2
<1>12. ArrivedInv'
  BY <1>8, <1>9, <1>10, <1>11 DEF ArrivedInv
<1> QED
  BY <1>3, <1>5, <1>6, <1>12 DEF SenderInv

LEMMA LoseInv ==
  ASSUME SenderInv, NEW i \in DOMAIN link, Lose(i)
  PROVE  SenderInv'
<1>1. /\ link' = Without(link, i) /\ enc' = enc /\ capturing' = capturing /\ frames' = frames
      /\ UNCHANGED <<receiver_vars, history_vars>>
  BY DEF Lose, sender_vars
<1>2. /\ link' \in Seq(VoicePackets) /\ Len(link') <= MaxInFlight /\ LinkInv'
      /\ \A j \in DOMAIN link' : \E k \in DOMAIN link : link'[j] = link[k]
  BY <1>1, LinkWithout
<1>3. TypeOK'
  BY <1>1, <1>2 DEF SenderInv, TypeOK, ReceiverTypeOK, receiver_vars, talkspurt_vars,
     neteq_vars, history_vars
<1>4. NumbersInv'
  BY <1>1 DEF SenderInv, NumbersInv, Unclosed
<1>5. buffer' = buffer /\ newest' = newest
  BY <1>1 DEF receiver_vars, neteq_vars, history_vars
<1>6. ArrivedInv'
  BY <1>1, <1>2, <1>5 DEF SenderInv, ArrivedInv, Made
<1> QED
  BY <1>2, <1>3, <1>4, <1>6 DEF SenderInv

\* A pull takes packets from NetEq and gives it none.
LEMMA PullInv ==
  ASSUME SenderInv, Pull
  PROVE  SenderInv'
<1>1. UNCHANGED <<enc, capturing, frames, link, newest, newest_media>>
  BY DEF Pull, Unpulled, sender_vars, history_vars
<1>2. ReceiverTypeOK'
  BY PullFrameType DEF Pull, SenderInv, TypeOK
<1>3. TypeOK'
  BY <1>1, <1>2 DEF SenderInv, TypeOK
<1>4. buffer' \subseteq buffer
  BY DEF Pull, PullFrame, PullSilence, PullPrebuffering, PullResidue, PullDecode, PullConceal,
     receiver_vars, neteq_vars
<1>5. NumbersInv' /\ LinkInv'
  BY <1>1 DEF SenderInv, NumbersInv, LinkInv, Made, Unclosed
<1>6. ArrivedInv'
  BY <1>1, <1>4 DEF SenderInv, ArrivedInv, Made
<1> QED
  BY <1>3, <1>5, <1>6 DEF SenderInv

LEMMA StutterInv ==
  ASSUME SenderInv, UNCHANGED vars
  PROVE  SenderInv'
<1>1. UNCHANGED <<enc, capturing, frames, link, newest, newest_media, receiver_vars>>
  BY DEF vars, sender_vars, history_vars
<1>2. UNCHANGED <<pending_silence, intentional_silence, end_of_talkspurt_seq, resuming_talkspurt,
                  resumed_packet_count, last_media, buffer, residue, decoded>>
  BY <1>1 DEF receiver_vars, talkspurt_vars, neteq_vars
<1> QED
  BY <1>1, <1>2 DEF SenderInv, TypeOK, ReceiverTypeOK, NumbersInv, LinkInv, ArrivedInv, Made,
     Unclosed

LEMMA LinkStepInv == SenderInv /\ [Next]_vars => SenderInv'
BY SenderStepInv, DeliverInv, LoseInv, PullInv, StutterInv DEF Next, DeliverSome

\* Numbers never leave their width, the link holds what was sent, and every packet is
\* of the shape the receiver decodes.
THEOREM TypeCorrect == Spec => []TypeOK
<1>1. SenderInv => TypeOK
  BY DEF SenderInv
<1> QED
  BY SenderInitInv, LinkStepInv, <1>1, PTL DEF Spec
-----------------------------------------------------------------------------
\* The resume prebuffer

\* While a talkspurt resumes, NetEq has decoded nothing since its flush, so it keeps
\* whatever is inserted.
PrebufferInv ==
  /\ resuming_talkspurt => decoded = None
  /\ IsFiniteSet(buffer)
  /\ PrebufferIsHeld

LEMMA DeliverPrebuffer ==
  ASSUME SenderInv, PrebufferInv,
         NEW i \in Deliverable, NEW inserted \in InsertOutcomes, Deliver(i, inserted)
  PROVE  PrebufferInv'
<1>1. PICK pkt : pkt = link[i]
  OBVIOUS
<1>2. PushPacket(pkt, inserted) /\ i \in DOMAIN link /\ pkt \notin buffer
  <2>1. PushPacket(pkt, inserted) /\ i \in DOMAIN link
    BY <1>1, DeliverStep
  <2> QED
    BY <1>1, <2>1 DEF SenderInv, ArrivedInv
<1> DEFINE opens == OpensTalkspurt(pkt)
<1> DEFINE stored == pkt.media /\ inserted
<1> DEFINE count == CountBefore(opens)
<1> DEFINE kept == IF stored /\ NetEqKeeps(pkt, opens) THEN {pkt} ELSE {}
<1>3. resuming_talkspurt' = (resuming_talkspurt \/ opens)
  BY <1>2, Zenon DEF PushPacket
<1>4. resumed_packet_count' =
        IF stored /\ resuming_talkspurt' /\ count < ResumePrebuffer THEN count + 1 ELSE count
  BY <1>2, Zenon DEF PushPacket
<1>5. /\ buffer' = (IF opens THEN {} ELSE buffer) \cup kept
      /\ decoded' = IF opens THEN None ELSE decoded
  BY <1>2, Zenon DEF PushPacket
<1>6. count = IF opens THEN 0 ELSE resumed_packet_count
  BY DEF CountBefore
<1>7. opens \/ decoded = None => NetEqKeeps(pkt, opens)
  BY DEF NetEqKeeps
<1>8. resumed_packet_count \in Nat /\ IsFiniteSet(buffer) /\ Cardinality(buffer) \in Nat
  BY ReceiverAssumption, FS_CardinalityType
     DEF SenderInv, TypeOK, ReceiverTypeOK, PrebufferInv
<1>9. resuming_talkspurt \in BOOLEAN
  BY DEF SenderInv, TypeOK, ReceiverTypeOK
<1>10. /\ IsFiniteSet({}) /\ Cardinality({}) = 0
       /\ IsFiniteSet({pkt}) /\ Cardinality({pkt}) = 1
       /\ IsFiniteSet(buffer \cup {pkt}) /\ Cardinality(buffer \cup {pkt}) = Cardinality(buffer) + 1
  BY <1>2, <1>8, FS_EmptySet, FS_Singleton, FS_AddElement
<1> HIDE DEF opens, stored, count
<1>11. CASE opens
  <2>1. buffer' = IF stored THEN {pkt} ELSE {}
    BY <1>5, <1>7, <1>11
  <2>2. stored \/ resumed_packet_count' = 0
    BY <1>4, <1>6, <1>11
  <2>3. resumed_packet_count' <= 1
    BY <1>4, <1>6, <1>11
  <2>4. resumed_packet_count' <= Cardinality(buffer')
    BY <1>10, <2>1, <2>2, <2>3
  <2> QED
    BY <1>4, <1>5, <1>6, <1>10, <1>11, <2>1, <2>4 DEF PrebufferInv, PrebufferIsHeld
<1>12. CASE ~opens
  <2>1. buffer' = buffer \cup kept /\ decoded' = decoded
          /\ (resuming_talkspurt' <=> resuming_talkspurt)
    BY <1>3, <1>5, <1>9, <1>12
  <2>2. IsFiniteSet(buffer')
    BY <1>8, <1>10, <2>1
  <2>3. ASSUME resuming_talkspurt
        PROVE  Cardinality(buffer') >= resumed_packet_count'
    <3>1. decoded = None /\ Cardinality(buffer) >= resumed_packet_count
      BY <2>3 DEF PrebufferInv, PrebufferIsHeld
    <3>2. buffer' = IF stored THEN buffer \cup {pkt} ELSE buffer
      BY <1>7, <2>1, <3>1
    <3>3. resumed_packet_count' = resumed_packet_count
            \/ (stored /\ resumed_packet_count' = resumed_packet_count + 1)
      BY <1>4, <1>6, <1>12
    <3> HIDE DEF kept
    <3>4. CASE stored
      BY <1>8, <1>10, <3>1, <3>2, <3>3, <3>4
    <3>5. CASE ~stored
      BY <3>1, <3>2, <3>3, <3>5
    <3> QED
      BY <3>4, <3>5
  <2> QED
    BY <2>1, <2>2, <2>3 DEF PrebufferInv, PrebufferIsHeld
<1> QED
  BY <1>11, <1>12

LEMMA PullPrebuffer ==
  ASSUME PrebufferInv, Pull
  PROVE  PrebufferInv'
<1>1. CASE UNCHANGED <<buffer, decoded, resuming_talkspurt, resumed_packet_count>>
  BY <1>1 DEF PrebufferInv, PrebufferIsHeld
<1>2. CASE resuming_talkspurt' = FALSE /\ buffer' \subseteq buffer
  <2>1. IsFiniteSet(buffer')
    BY <1>2, FS_Subset DEF PrebufferInv
  <2> QED
    BY <1>2, <2>1 DEF PrebufferInv, PrebufferIsHeld
<1> QED
  BY <1>1, <1>2 DEF Pull, PullFrame, PullSilence, PullPrebuffering, PullResidue, PullDecode,
     PullConceal, ReachesNetEq, receiver_vars, talkspurt_vars, neteq_vars

\* Everything else leaves the receiver alone.
LEMMA OtherSteps ==
  ASSUME [Next]_vars
  PROVE  \/ \E i \in Deliverable, inserted \in InsertOutcomes : Deliver(i, inserted)
         \/ Pull
         \/ UNCHANGED <<receiver_vars, history_vars>>
BY DEF Next, DeliverSome, CaptureFrame, DropFrame, StopCapture, StartCapture, Lose, vars

\* Whatever the link does and NetEq answers, a resumed talkspurt never plays out from
\* fewer packets than were counted.
THEOREM PrebufferHeld == Spec => []PrebufferIsHeld
<1>1. Init => PrebufferInv
  BY FS_EmptySet DEF Init, ReceiverInit, PrebufferInv, PrebufferIsHeld
<1>2. SenderInv /\ PrebufferInv /\ [Next]_vars => PrebufferInv'
  <2> SUFFICES ASSUME SenderInv, PrebufferInv, [Next]_vars PROVE PrebufferInv'
    OBVIOUS
  <2>1. ASSUME UNCHANGED <<receiver_vars, history_vars>> PROVE PrebufferInv'
    BY <2>1 DEF PrebufferInv, PrebufferIsHeld, receiver_vars, talkspurt_vars, neteq_vars
  <2> QED
    BY <2>1, OtherSteps, DeliverPrebuffer, PullPrebuffer
<1>3. PrebufferInv => PrebufferIsHeld
  BY DEF PrebufferInv
<1> QED
  BY SenderInitInv, LinkStepInv, <1>1, <1>2, <1>3, PTL DEF Spec

-----------------------------------------------------------------------------
\* Silence

\* The numbers of a behaviour fit into half of the number space.
Window == 4 * MaxFrames <= SeqMod

\* The number of a packet at most as new as the newest one that arrived.
Seen(seq) == \E n \in Nat : n <= newest.hist.idx /\ seq = SeqOf(n)

\* What the receiver compares numbers with was the number of such a packet, and it has
\* one whenever it is silent.
SeenInv ==
  /\ last_media # None => newest # None /\ Seen(last_media.seq)
  /\ Silent => newest # None /\ end_of_talkspurt_seq # None /\ Seen(end_of_talkspurt_seq)

\* An arriving packet that is newer than all others is newer by number as well.
LEMMA NewerThanSeen ==
  ASSUME Window, SenderInv, newest # None, NEW pkt \in VoicePackets, Made(pkt, enc.hist.idx)
  PROVE  /\ pkt.hist.idx > newest.hist.idx =>
              \A seq : Seen(seq) => SequenceIsNewer(pkt.seq, seq)
         /\ pkt.hist.idx <= newest.hist.idx => ~SequenceIsNewer(pkt.seq, newest.seq)
<1>1. /\ enc.hist.idx \in Nat /\ Unclosed(enc) \in Nat /\ frames \in Nat /\ frames <= MaxFrames
      /\ MaxFrames \in Nat /\ InitialSeq \in Nat /\ SeqMod \in Nat
      /\ newest \in VoicePackets /\ newest.hist.idx \in Nat /\ pkt.hist.idx \in Nat
      /\ Made(newest, enc.hist.idx)
  BY EncoderTypes, PacketTypes, LinkAssumption, SeqModAssumption
     DEF SenderInv, TypeOK, ArrivedInv, SeqNumber
<1>2. enc.hist.idx <= 2 * frames
  BY <1>1 DEF SenderInv, NumbersInv
<1>3. 2 * pkt.hist.idx < SeqMod /\ 2 * newest.hist.idx < SeqMod
  BY <1>1, <1>2 DEF Made, Window
<1>4. ASSUME NEW n \in Nat, n <= newest.hist.idx, pkt.hist.idx > newest.hist.idx
      PROVE  SequenceIsNewer(pkt.seq, SeqOf(n))
  <2>1. 2 * n < SeqMod /\ pkt.hist.idx > n
    BY <1>1, <1>3, <1>4
  <2> QED
    BY <1>1, <1>3, <2>1, NewerInWindow DEF Made, SeqOf
<1>5. SequenceIsNewer(pkt.seq, newest.seq) <=> pkt.hist.idx > newest.hist.idx
  BY <1>1, <1>3, NewerInWindow DEF Made, SeqOf
<1>6. pkt.hist.idx <= newest.hist.idx => ~(pkt.hist.idx > newest.hist.idx)
  BY <1>1
<1> QED
  BY <1>4, <1>5, <1>6 DEF Seen

\* What push_packet does to the silence and to what it compares numbers with.
LEMMA PushSilence ==
  ASSUME NEW pkt \in VoicePackets, NEW inserted \in InsertOutcomes, PushPacket(pkt, inserted)
  PROVE  /\ Silent' <=> ClosesTalkspurt(pkt) \/ (Silent /\ ~OpensTalkspurt(pkt))
         /\ ClosesTalkspurt(pkt) => end_of_talkspurt_seq' = pkt.seq
         /\ ~ClosesTalkspurt(pkt) /\ ~OpensTalkspurt(pkt)
              => end_of_talkspurt_seq' = end_of_talkspurt_seq
         /\ last_media' = IF pkt.media /\ inserted /\ PacketIsNewer(pkt)
                          THEN [seq |-> pkt.seq, timestamp |-> pkt.timestamp]
                          ELSE last_media
<1> DEFINE opens == OpensTalkspurt(pkt)
<1> DEFINE closes == ClosesTalkspurt(pkt)
<1>1. /\ pending_silence' = (closes \/ (pending_silence /\ ~opens))
      /\ intentional_silence' = (intentional_silence /\ ~opens)
  BY Zenon DEF PushPacket
<1>2. end_of_talkspurt_seq' = CASE closes -> pkt.seq
                                [] opens /\ ~closes -> None
                                [] OTHER -> end_of_talkspurt_seq
  BY DEF PushPacket
<1>3. last_media' = IF pkt.media /\ inserted /\ PacketIsNewer(pkt)
                    THEN [seq |-> pkt.seq, timestamp |-> pkt.timestamp] ELSE last_media
  BY DEF PushPacket
<1> HIDE DEF opens, closes
<1>4. Silent' <=> closes \/ (Silent /\ ~opens)
  BY <1>1, Zenon DEF Silent
<1>5. (closes => end_of_talkspurt_seq' = pkt.seq)
        /\ (~closes /\ ~opens => end_of_talkspurt_seq' = end_of_talkspurt_seq)
  BY <1>2
<1> QED
  BY <1>3, <1>4, <1>5 DEF opens, closes

LEMMA DeliverSeen ==
  ASSUME SenderInv, SeenInv,
         NEW i \in Deliverable, NEW inserted \in InsertOutcomes, Deliver(i, inserted)
  PROVE  SeenInv'
<1>1. PICK pkt : pkt = link[i]
  OBVIOUS
<1>2. /\ pkt \in VoicePackets /\ pkt.hist.idx \in Nat /\ pkt.seq = SeqOf(pkt.hist.idx)
      /\ PushPacket(pkt, inserted) /\ newest' \in VoicePackets
      /\ newest' = IF newest = None \/ pkt.hist.idx > newest.hist.idx THEN pkt ELSE newest
  BY <1>1, DeliverStep DEF Made
<1>3. newest' # None /\ newest'.hist.idx \in Nat
  BY <1>2, PacketTypes
<1>4. pkt.hist.idx <= newest'.hist.idx
        /\ (newest # None => newest.hist.idx \in Nat /\ newest.hist.idx <= newest'.hist.idx)
  <2>1. newest # None => newest.hist.idx \in Nat
    BY PacketTypes DEF SenderInv, TypeOK
  <2> QED
    BY <1>2, <1>3, <2>1
<1>5. Seen(pkt.seq)'
  BY <1>2, <1>4 DEF Seen
<1>6. ASSUME NEW s, newest # None, Seen(s) PROVE Seen(s)'
  BY <1>3, <1>4, <1>6 DEF Seen
<1>7. ASSUME last_media' # None PROVE \E s : s = last_media'.seq /\ Seen(s)'
  <2>1. CASE last_media' = [seq |-> pkt.seq, timestamp |-> pkt.timestamp]
    BY <1>5, <2>1
  <2>2. CASE last_media' = last_media
    <3>1. PICK s : s = last_media.seq
      OBVIOUS
    <3>2. newest # None /\ Seen(s)
      BY <1>7, <2>2, <3>1 DEF SeenInv
    <3> QED
      BY <1>6, <2>2, <3>1, <3>2
  <2> QED
    BY <1>2, <2>1, <2>2, PushSilence
<1>8. ASSUME Silent' PROVE end_of_talkspurt_seq' # None /\ Seen(end_of_talkspurt_seq)'
  <2>1. CASE ClosesTalkspurt(pkt)
    <3>1. end_of_talkspurt_seq' = pkt.seq /\ pkt.seq # None
      BY <1>2, <2>1, PushSilence, PacketTypes, NoneIsNoPacket
    <3> QED
      BY <1>5, <3>1 DEF Seen
  <2>2. CASE ~ClosesTalkspurt(pkt)
    <3>1. PICK s : s = end_of_talkspurt_seq
      OBVIOUS
    <3>2. Silent /\ end_of_talkspurt_seq' = s
      BY <1>2, <1>8, <2>2, <3>1, PushSilence
    <3>3. s # None /\ newest # None /\ Seen(s)
      BY <3>1, <3>2 DEF SeenInv
    <3>4. Seen(s)'
      BY <1>6, <3>3
    <3> QED
      BY <3>2, <3>3, <3>4 DEF Seen
  <2> QED
    BY <2>1, <2>2
<1>9. last_media' # None => Seen(last_media.seq)'
  BY <1>7 DEF Seen
<1> QED
  BY <1>3, <1>8, <1>9 DEF SeenInv

\* pull_frame ends a talkspurt that was closed, and opens none.
LEMMA PullSilent ==
  ASSUME SenderInv, Pull
  PROVE  /\ Silent' <=> Silent
         /\ UNCHANGED <<end_of_talkspurt_seq, last_media, newest, newest_media, enc>>
<1>1. UNCHANGED <<newest, newest_media, enc>>
  BY DEF Pull, Unpulled, sender_vars, history_vars
<1>2. CASE PullSilence
  <2>1. Silent /\ Silent' /\ UNCHANGED <<end_of_talkspurt_seq, last_media>>
    BY <1>2 DEF PullSilence, Silent, Drained
  <2> QED
    BY <1>1, <2>1
<1>3. CASE PullPrebuffering \/ PullResidue \/ PullDecode \/ PullConceal
  <2>1. UNCHANGED <<pending_silence, intentional_silence, end_of_talkspurt_seq, last_media>>
    BY <1>3 DEF PullPrebuffering, PullResidue, PullDecode, PullConceal, ReachesNetEq,
       receiver_vars, talkspurt_vars
  <2> QED
    BY <1>1, <2>1 DEF Silent
<1> QED
  BY <1>2, <1>3 DEF Pull, PullFrame

LEMMA SeenStepInv == SenderInv /\ SeenInv /\ [Next]_vars => SeenInv'
<1> SUFFICES ASSUME SenderInv, SeenInv, [Next]_vars PROVE SeenInv'
  OBVIOUS
<1>1. ASSUME UNCHANGED <<newest, last_media, end_of_talkspurt_seq>>, Silent' <=> Silent
      PROVE  SeenInv'
  BY <1>1 DEF SeenInv, Seen
<1>2. CASE Pull
  BY <1>1, <1>2, PullSilent
<1>3. CASE UNCHANGED <<receiver_vars, history_vars>>
  <2>1. UNCHANGED <<newest, last_media, end_of_talkspurt_seq, pending_silence,
                    intentional_silence>>
    BY <1>3 DEF receiver_vars, talkspurt_vars, history_vars
  <2> QED
    BY <1>1, <2>1 DEF Silent
<1> QED
  BY <1>2, <1>3, OtherSteps, DeliverSeen

LEMMA InitSeen == Init => SeenInv /\ ~Silent /\ newest = None
BY DEF Init, ReceiverInit, SeenInv, Silent

\* A packet newer than all that arrived is newer to the receiver, whose END number and
\* newest media are older ones; one that is not is no newer than the newest.
LEMMA NewerToReceiver ==
  ASSUME Window, SenderInv, SeenInv, NEW pkt \in VoicePackets, Made(pkt, enc.hist.idx),
         newest = None \/ pkt.hist.idx > newest.hist.idx
  PROVE  PacketIsNewer(pkt) /\ (Silent => SequenceIsNewer(pkt.seq, end_of_talkspurt_seq))
<1>1. newest # None => \A seq : Seen(seq) => SequenceIsNewer(pkt.seq, seq)
  BY NewerThanSeen
<1> QED
  BY <1>1 DEF SeenInv, PacketIsNewer

\* Such a packet leaves the receiver silent if it is an END, and audible if it is media.
LEMMA NewestDecides ==
  ASSUME Window, SenderInv, SeenInv,
         NEW i \in Deliverable, NEW inserted \in InsertOutcomes, Deliver(i, inserted),
         newest = None \/ link[i].hist.idx > newest.hist.idx
  PROVE  newest' = link[i] /\ newest' # None /\ (Silent' <=> link[i].end)
           /\ link[i].end = ~link[i].media
<1>1. PICK pkt : pkt = link[i]
  OBVIOUS
<1>2. /\ pkt \in VoicePackets /\ Made(pkt, enc.hist.idx) /\ PushPacket(pkt, inserted)
      /\ newest' = pkt
  BY <1>1, DeliverStep
<1>3. PacketIsNewer(pkt) /\ (Silent => SequenceIsNewer(pkt.seq, end_of_talkspurt_seq))
  BY <1>1, <1>2, NewerToReceiver
<1>4. pkt # None /\ pkt.media \in BOOLEAN /\ pkt.end \in BOOLEAN /\ pkt.end = ~pkt.media
  BY <1>2, PacketTypes DEF Made
<1>5. ClosesTalkspurt(pkt) <=> pkt.end
  BY <1>3, <1>4 DEF ClosesTalkspurt
<1>6. Silent /\ pkt.media => OpensTalkspurt(pkt)
  BY <1>3 DEF OpensTalkspurt, ImplicitStart, Silent, SeenInv
<1>7. Silent' <=> ClosesTalkspurt(pkt) \/ (Silent /\ ~OpensTalkspurt(pkt))
  BY <1>2, PushSilence
<1>8. Silent' <=> pkt.end
  BY <1>4, <1>5, <1>6, <1>7
<1> QED
  BY <1>1, <1>2, <1>4, <1>8

\* On a link that keeps order the receiver is silent exactly when the newest packet it
\* has seen closed a talkspurt, whatever is lost, whatever NetEq refuses, and wherever
\* the numbers wrap, as long as those of the behaviour fit into half of their space.
THEOREM SilenceFollows ==
  ASSUME Window, Ordered
  PROVE  Spec => []SilenceFollowsNewestPacket
<1>1. Init => SeenInv /\ SilenceFollowsNewestPacket
  BY InitSeen DEF SilenceFollowsNewestPacket, NewestIsEnd
<1>2. SenderInv /\ SeenInv /\ SilenceFollowsNewestPacket /\ [Next]_vars
        => SilenceFollowsNewestPacket'
  <2> SUFFICES ASSUME SenderInv, SeenInv, SilenceFollowsNewestPacket, [Next]_vars
               PROVE  SilenceFollowsNewestPacket'
    OBVIOUS
  <2>1. ASSUME NEW i \in Deliverable, NEW inserted \in InsertOutcomes, Deliver(i, inserted)
        PROVE  SilenceFollowsNewestPacket'
    <3>1. i \in DOMAIN link /\ link[i].hist.idx \in Nat
      BY <2>1, DeliverStep
    <3>2. newest # None => newest.hist.idx < link[i].hist.idx
      BY <3>1 DEF SenderInv, ArrivedInv
    <3>3. newest # None => link[i].hist.idx > newest.hist.idx
      <4>1. newest # None => newest.hist.idx \in Nat
        BY PacketTypes DEF SenderInv, TypeOK
      <4> QED
        BY <3>1, <3>2, <4>1
    <3>4. newest' = link[i] /\ newest' # None /\ (Silent' <=> link[i].end)
      BY <2>1, <3>3, NewestDecides
    <3> QED
      BY <3>4 DEF SilenceFollowsNewestPacket, NewestIsEnd
  <2>2. CASE Pull
    BY <2>2, PullSilent DEF SilenceFollowsNewestPacket, NewestIsEnd
  <2>3. CASE UNCHANGED <<receiver_vars, history_vars>>
    <3>1. UNCHANGED <<newest, pending_silence, intentional_silence>>
      BY <2>3 DEF receiver_vars, talkspurt_vars, history_vars
    <3> QED
      BY <3>1 DEF SilenceFollowsNewestPacket, NewestIsEnd, Silent
  <2> QED
    BY <2>1, <2>2, <2>3, OtherSteps
<1> QED
  BY SenderInitInv, LinkStepInv, SeenStepInv, <1>1, <1>2, PTL DEF Spec

\* Newest media that NetEq accepted is what the receiver compares numbers with.
NewestInv ==
  NewestIsMedia => ~Silent /\ last_media # None /\ last_media.seq = newest.seq

\* Under any reordering and loss: media newer than all that arrived before it is not
\* silenced by an END that comes late, if NetEq takes what it is given.
THEOREM NewestMediaPlays ==
  ASSUME Window, InsertOutcomes = {TRUE}
  PROVE  Spec => []NewestMediaIsNotSilenced
<1>1. Init => SeenInv /\ NewestInv
  BY InitSeen DEF NewestInv, NewestIsMedia
<1>2. SenderInv /\ SeenInv /\ NewestInv /\ [Next]_vars => NewestInv'
  <2> SUFFICES ASSUME SenderInv, SeenInv, NewestInv, [Next]_vars PROVE NewestInv'
    OBVIOUS
  <2>1. ASSUME NEW i \in Deliverable, NEW inserted \in InsertOutcomes, Deliver(i, inserted)
        PROVE  NewestInv'
    <3>1. PICK pkt : pkt = link[i]
      OBVIOUS
    <3>2. /\ pkt \in VoicePackets /\ Made(pkt, enc.hist.idx) /\ PushPacket(pkt, inserted)
          /\ pkt.hist.idx \in Nat
          /\ newest' = IF newest = None \/ pkt.hist.idx > newest.hist.idx
                       THEN pkt ELSE newest
      BY <2>1, <3>1, DeliverStep
    <3>3. last_media' = IF pkt.media /\ PacketIsNewer(pkt)
                        THEN [seq |-> pkt.seq, timestamp |-> pkt.timestamp] ELSE last_media
      BY <3>2, PushSilence
    <3>4. CASE newest = None \/ pkt.hist.idx > newest.hist.idx
      <4>1. newest' = pkt /\ (Silent' <=> pkt.end) /\ pkt.end = ~pkt.media
        BY <2>1, <3>1, <3>4, NewestDecides
      <4>2. PacketIsNewer(pkt)
        BY <3>2, <3>4, NewerToReceiver
      <4>3. pkt.media => last_media' # None /\ last_media'.seq = pkt.seq
        <5>1. [seq |-> pkt.seq, timestamp |-> pkt.timestamp] # None
          BY <3>2, PacketTypes, NoneIsNoPacket
        <5> QED
          BY <3>3, <4>2, <5>1
      <4> QED
        BY <4>1, <4>3 DEF NewestInv, NewestIsMedia
    <3>5. CASE newest # None /\ ~(pkt.hist.idx > newest.hist.idx)
      <4>1. newest' = newest /\ newest.hist.idx \in Nat
        BY <3>2, <3>5, PacketTypes DEF SenderInv, TypeOK
      <4>2. ~SequenceIsNewer(pkt.seq, newest.seq)
        BY <3>2, <3>5, <4>1, NewerThanSeen
      <4>3. ASSUME NewestIsMedia PROVE ~Silent' /\ last_media' = last_media
        <5>1. ~Silent /\ last_media # None /\ last_media.seq = newest.seq
          BY <4>3 DEF NewestInv
        <5>2. ~PacketIsNewer(pkt)
          BY <4>2, <5>1 DEF PacketIsNewer
        <5>3. ~ClosesTalkspurt(pkt)
          BY <5>2 DEF ClosesTalkspurt
        <5> QED
          BY <3>2, <3>3, <5>1, <5>2, <5>3, PushSilence
      <4> QED
        BY <4>1, <4>3 DEF NewestInv, NewestIsMedia
    <3> QED
      BY <3>4, <3>5
  <2>2. CASE Pull
    BY <2>2, PullSilent DEF NewestInv, NewestIsMedia
  <2>3. CASE UNCHANGED <<receiver_vars, history_vars>>
    <3>1. UNCHANGED <<newest, last_media, pending_silence, intentional_silence>>
      BY <2>3 DEF receiver_vars, talkspurt_vars, history_vars
    <3> QED
      BY <3>1 DEF NewestInv, NewestIsMedia, Silent
  <2> QED
    BY <2>1, <2>2, <2>3, OtherSteps
<1>3. NewestInv => NewestMediaIsNotSilenced
  BY DEF NewestInv, NewestMediaIsNotSilenced
<1> QED
  BY SenderInitInv, LinkStepInv, SeenStepInv, <1>1, <1>2, <1>3, PTL DEF Spec

-----------------------------------------------------------------------------
\* Repair of lost markers

\* The frames of a behaviour fit into the media clock.
TimeFits == MaxFrames < TsMod

\* Sender and packets are stamped with the media time, which no frame is ahead of, and
\* the newest media is no newer than the newest packet.
TimeInv ==
  /\ OnTime(enc) /\ MediaTime(enc.hist) <= frames
  /\ \A j \in DOMAIN link : OnTime(link[j]) /\ MediaTime(link[j].hist) <= frames
  /\ newest_media # None =>
       /\ OnTime(newest_media) /\ Made(newest_media, enc.hist.idx)
       /\ newest # None /\ newest_media.hist.idx <= newest.hist.idx

LEMMA InitTime == Init => TimeInv
<1> SUFFICES ASSUME Init PROVE TimeInv
  OBVIOUS
<1>1. enc.timestamp = 0 /\ enc.hist = NewHistory /\ frames = 0
  BY DEF Init, FreshEncoder
<1>2. MediaTime(NewHistory) = 0 /\ NewHistory.stops <= NewHistory.idx /\ 0 % TsMod = 0
  BY TsModAssumption DEF MediaTime, NewHistory
<1>3. OnTime(enc) /\ MediaTime(enc.hist) <= frames
  BY <1>1, <1>2 DEF OnTime
<1> QED
  BY <1>3 DEF TimeInv, Init

LEMMA OneAtMost ==
  ASSUME NEW packets, packets = << >> \/ \E pkt \in VoicePackets : packets = <<pkt>>
  PROVE  packets \in Seq(VoicePackets) /\ Len(packets) \in Nat
<1>1. CASE packets = << >>
  BY <1>1
<1>2. ASSUME NEW pkt \in VoicePackets, packets = <<pkt>>
      PROVE  packets \in Seq(VoicePackets) /\ Len(packets) \in Nat
  BY <1>2
<1> QED
  BY <1>1, <1>2

\* What the sender transmits carries the time of the frame it was made for.
LEMMA SentTime ==
  ASSUME SenderInv, SenderInv', TimeInv, NEW packets \in Seq(VoicePackets),
         link' = link \o packets, frames <= frames', enc.hist.idx <= enc'.hist.idx,
         \A k \in DOMAIN packets :
           OnTime(packets[k]) /\ MediaTime(packets[k].hist) = MediaTime(enc.hist),
         OnTime(enc'), MediaTime(enc'.hist) <= frames', UNCHANGED history_vars
  PROVE  TimeInv'
<1>1. /\ link \in Seq(VoicePackets) /\ newest_media \in VoicePackets \cup {None}
      /\ enc \in EncoderStates /\ enc' \in EncoderStates
      /\ frames \in 0 .. MaxFrames /\ frames' \in 0 .. MaxFrames /\ MaxFrames \in Nat
  BY LinkAssumption DEF SenderInv, TypeOK
<1>2. enc.hist.idx \in Nat /\ enc'.hist.idx \in Nat /\ MediaTime(enc.hist) \in Nat
  BY <1>1, EncoderTypes, MediaTimeType DEF TimeInv, OnTime
<1>3. newest' = newest /\ newest_media' = newest_media
  BY DEF history_vars
<1>4. ASSUME NEW j \in DOMAIN link'
      PROVE  OnTime(link'[j]) /\ MediaTime(link'[j].hist) <= frames'
  <2>1. \/ j \in DOMAIN link /\ link'[j] = link[j]
        \/ \E k \in DOMAIN packets : link'[j] = packets[k]
    <3>1. /\ DOMAIN link = 1 .. Len(link) /\ Len(link) \in Nat
          /\ DOMAIN packets = 1 .. Len(packets) /\ Len(packets) \in Nat
          /\ j \in 1 .. Len(link) + Len(packets)
      BY <1>1, <1>4
    <3>2. CASE j <= Len(link)
      BY <1>1, <3>1, <3>2
    <3>3. CASE j > Len(link)
      <4>1. j - Len(link) \in DOMAIN packets /\ link'[j] = packets[j - Len(link)]
        BY <1>1, <3>1, <3>3
      <4> QED
        BY <4>1
    <3> QED
      BY <3>1, <3>2, <3>3
  <2>2. CASE j \in DOMAIN link /\ link'[j] = link[j]
    <3>1. OnTime(link[j]) /\ MediaTime(link[j].hist) <= frames /\ link[j] \in VoicePackets
      BY <1>1, <2>2 DEF TimeInv
    <3>2. MediaTime(link[j].hist) \in Nat
      BY <3>1, MediaTimeType DEF OnTime, VoicePackets
    <3> QED
      BY <1>1, <2>2, <3>1, <3>2 DEF OnTime
  <2>3. ASSUME NEW k \in DOMAIN packets, link'[j] = packets[k]
        PROVE  OnTime(link'[j]) /\ MediaTime(link'[j].hist) <= frames'
    <3>1. MediaTime(enc.hist) <= frames
      BY DEF TimeInv
    <3> QED
      BY <1>1, <1>2, <2>3, <3>1 DEF OnTime
  <2> QED
    BY <2>1, <2>2, <2>3
<1>5. ASSUME newest_media # None
      PROVE  /\ OnTime(newest_media) /\ Made(newest_media, enc'.hist.idx)
             /\ newest # None /\ newest_media.hist.idx <= newest.hist.idx
  <2>1. newest_media.hist.idx \in Nat
    BY <1>1, <1>5, PacketTypes
  <2> QED
    BY <1>2, <1>5, <2>1 DEF TimeInv, Made
<1> QED
  BY <1>3, <1>4, <1>5 DEF TimeInv, OnTime, Made

LEMMA SenderTime ==
  ASSUME SenderInv, TimeInv,
         (\E kind \in FrameKinds : CaptureFrame(kind)) \/ DropFrame \/ StopCapture \/ StartCapture
  PROVE  TimeInv'
<1>0. SenderInv'
  BY SenderStepInv
<1>1. /\ enc \in EncoderStates /\ enc.hist.idx \in Nat /\ link \in Seq(VoicePackets)
      /\ frames \in 0 .. MaxFrames /\ MaxFrames \in Nat
      /\ OnTime(enc) /\ MediaTime(enc.hist) \in Nat /\ MediaTime(enc.hist) <= frames
  BY EncoderTypes, MediaTimeType, LinkAssumption DEF SenderInv, TypeOK, TimeInv, OnTime
<1>2. << >> \in Seq(VoicePackets) /\ link \o << >> = link /\ DOMAIN << >> = {}
  BY <1>1
<1>3. ASSUME NEW kind \in FrameKinds, CaptureFrame(kind) PROVE TimeInv'
  <2> DEFINE packets == PolledPackets(enc, kind)
  <2>1. /\ link' = link \o packets /\ enc' = PolledEncoder(enc, kind)
        /\ frames' = frames + 1 /\ UNCHANGED history_vars
    BY <1>3 DEF CaptureFrame, Transmit
  <2>2. /\ packets = << >> \/ \E pkt \in VoicePackets : packets = <<pkt>>
        /\ enc'.hist.idx = enc.hist.idx + Len(packets)
    BY <1>1, <2>1, PolledPacketsType, PolledEncoderType
  <2>p. packets \in Seq(VoicePackets) /\ Len(packets) \in Nat
    BY <2>2, OneAtMost
  <2>3. /\ \A k \in DOMAIN packets :
             OnTime(packets[k]) /\ MediaTime(packets[k].hist) = MediaTime(enc.hist)
        /\ OnTime(enc') /\ MediaTime(enc'.hist) \in {MediaTime(enc.hist), MediaTime(enc.hist) + 1}
    BY <1>1, <2>1, PolledTime
  <2> HIDE DEF packets
  <2>4. frames <= frames' /\ enc.hist.idx <= enc'.hist.idx /\ MediaTime(enc'.hist) <= frames'
    BY <1>1, <2>1, <2>2, <2>p, <2>3
  <2> QED
    BY <1>0, <2>1, <2>p, <2>3, <2>4, SentTime
<1>4. CASE StopCapture
  <2> DEFINE packets == FinishPackets(enc)
  <2>1. /\ link' = link \o packets /\ enc' = FinishedEncoder(enc)
        /\ frames' = frames /\ UNCHANGED history_vars
    BY <1>4 DEF StopCapture, Transmit
  <2>2. /\ packets = << >> \/ \E pkt \in VoicePackets : packets = <<pkt>>
        /\ enc'.hist.idx = enc.hist.idx + Len(packets)
    BY <1>1, <2>1, FinishPacketsType, FinishedEncoderType
  <2>p. packets \in Seq(VoicePackets) /\ Len(packets) \in Nat
    BY <2>2, OneAtMost
  <2>3. /\ \A k \in DOMAIN packets :
             OnTime(packets[k]) /\ MediaTime(packets[k].hist) = MediaTime(enc.hist)
        /\ OnTime(enc') /\ MediaTime(enc'.hist) = MediaTime(enc.hist)
    BY <1>1, <2>1, FinishTime
  <2> HIDE DEF packets
  <2>4. frames <= frames' /\ enc.hist.idx <= enc'.hist.idx /\ MediaTime(enc'.hist) <= frames'
    BY <1>1, <2>1, <2>2, <2>p, <2>3
  <2> QED
    BY <1>0, <2>1, <2>p, <2>3, <2>4, SentTime
<1>5. CASE DropFrame
  <2>1. /\ enc' = AdvancedEncoder(enc, 1) /\ frames' = frames + 1 /\ link' = link
        /\ UNCHANGED history_vars
    BY <1>5 DEF DropFrame
  <2>2. OnTime(enc') /\ MediaTime(enc'.hist) = MediaTime(enc.hist) + 1
    BY <1>1, <2>1, AdvancedTime
  <2>3. enc'.hist.idx = enc.hist.idx
    BY <1>1, <2>1 DEF AdvancedEncoder, EncoderStates, Histories
  <2>4. frames <= frames' /\ enc.hist.idx <= enc'.hist.idx /\ MediaTime(enc'.hist) <= frames'
    BY <1>1, <2>1, <2>2, <2>3
  <2> QED
    BY <1>0, <1>2, <2>1, <2>2, <2>4, SentTime
<1>6. CASE StartCapture
  <2>1. /\ enc'.hist = enc.hist /\ enc'.timestamp = enc.timestamp /\ frames' = frames
        /\ link' = link /\ UNCHANGED history_vars
    BY <1>6 DEF StartCapture, FreshEncoder
  <2>2. OnTime(enc')
    BY <1>1, <2>1 DEF OnTime
  <2>3. frames <= frames' /\ enc.hist.idx <= enc'.hist.idx /\ MediaTime(enc'.hist) <= frames'
    BY <1>1, <2>1
  <2> QED
    BY <1>0, <1>2, <2>1, <2>2, <2>3, SentTime
<1> QED
  BY <1>3, <1>4, <1>5, <1>6

LEMMA DeliverTime ==
  ASSUME SenderInv, TimeInv,
         NEW i \in Deliverable, NEW inserted \in InsertOutcomes, Deliver(i, inserted)
  PROVE  TimeInv'
<1>1. PICK pkt : pkt = link[i]
  OBVIOUS
<1>2. /\ i \in DOMAIN link /\ pkt \in VoicePackets /\ Made(pkt, enc.hist.idx)
      /\ pkt.hist.idx \in Nat /\ link' = Without(link, i)
      /\ UNCHANGED <<enc, frames>> /\ newest' \in VoicePackets
      /\ newest' = IF newest = None \/ pkt.hist.idx > newest.hist.idx THEN pkt ELSE newest
  BY <1>1, DeliverStep
<1>3. \A j \in DOMAIN link' : \E k \in DOMAIN link : link'[j] = link[k]
  BY <1>2, LinkWithout
<1>4. \A j \in DOMAIN link' : OnTime(link'[j]) /\ MediaTime(link'[j].hist) <= frames'
  <2> SUFFICES ASSUME NEW j \in DOMAIN link'
               PROVE  OnTime(link'[j]) /\ MediaTime(link'[j].hist) <= frames'
    OBVIOUS
  <2>1. PICK k \in DOMAIN link : link'[j] = link[k]
    BY <1>3
  <2> QED
    BY <1>2, <2>1 DEF TimeInv, OnTime
<1>5. newest' # None /\ newest'.hist.idx \in Nat
        /\ (newest # None => newest.hist.idx \in Nat /\ newest.hist.idx <= newest'.hist.idx)
        /\ pkt.hist.idx <= newest'.hist.idx
  <2>1. newest # None => newest.hist.idx \in Nat
    BY PacketTypes DEF SenderInv, TypeOK
  <2> QED
    BY <1>2, <2>1, PacketTypes
<1>6. newest_media' \in {newest_media, pkt}
  BY <1>1, DeliverStep
<1>7. CASE newest_media' = pkt
  BY <1>1, <1>2, <1>4, <1>5, <1>7 DEF TimeInv, OnTime, Made
<1>8. CASE newest_media' = newest_media
  <2>1. newest_media # None => newest_media.hist.idx \in Nat
    BY PacketTypes DEF SenderInv, TypeOK
  <2> QED
    BY <1>2, <1>4, <1>5, <1>8, <2>1 DEF TimeInv, OnTime, Made
<1> QED
  BY <1>6, <1>7, <1>8

LEMMA TimeStepInv == SenderInv /\ TimeInv /\ [Next]_vars => TimeInv'
<1> SUFFICES ASSUME SenderInv, TimeInv, [Next]_vars PROVE TimeInv'
  OBVIOUS
<1>1. ASSUME NEW i \in DOMAIN link, Lose(i) PROVE TimeInv'
  <2>1. link' = Without(link, i) /\ UNCHANGED <<enc, frames, newest, newest_media>>
    BY <1>1 DEF Lose, sender_vars, history_vars
  <2>2. \A j \in DOMAIN link' : \E k \in DOMAIN link : link'[j] = link[k]
    BY <2>1, LinkWithout
  <2> QED
    BY <2>1, <2>2 DEF TimeInv, OnTime, Made
<1>2. ASSUME UNCHANGED <<enc, frames, link, newest, newest_media>> PROVE TimeInv'
  BY <1>2 DEF TimeInv, OnTime, Made
<1>3. CASE Pull
  BY <1>2, <1>3 DEF Pull, Unpulled, sender_vars, history_vars
<1>4. CASE UNCHANGED vars
  BY <1>2, <1>4 DEF vars, sender_vars, history_vars
<1> QED
  BY <1>1, <1>3, <1>4, SenderTime, DeliverTime DEF Next, DeliverSome

\* Packets that come in order are newer than all that came before, by number as well.
LEMMA InOrder ==
  ASSUME Window, Ordered, SenderInv, SeenInv, TimeInv,
         NEW i \in Deliverable, NEW inserted \in InsertOutcomes, Deliver(i, inserted)
  PROVE  /\ newest # None => link[i].hist.idx > newest.hist.idx
         /\ newest_media # None => link[i].hist.idx > newest_media.hist.idx
         /\ PacketIsNewer(link[i]) /\ (Silent => SequenceIsNewer(link[i].seq, end_of_talkspurt_seq))
         /\ newest # None => \A seq : Seen(seq) => SequenceIsNewer(link[i].seq, seq)
<1>1. i \in DOMAIN link /\ link[i] \in VoicePackets /\ Made(link[i], enc.hist.idx)
        /\ link[i].hist.idx \in Nat
  BY DeliverStep
<1>2. newest # None => newest.hist.idx \in Nat /\ newest.hist.idx < link[i].hist.idx
  BY <1>1, PacketTypes DEF SenderInv, TypeOK, ArrivedInv
<1>3. newest # None => link[i].hist.idx > newest.hist.idx
  BY <1>1, <1>2
<1>4. newest_media # None => link[i].hist.idx > newest_media.hist.idx
  <2>1. newest_media # None => newest_media.hist.idx \in Nat
    BY PacketTypes DEF SenderInv, TypeOK
  <2> QED
    BY <1>1, <1>2, <2>1 DEF TimeInv
<1> QED
  BY <1>1, <1>3, <1>4, NewerToReceiver, NewerThanSeen

\* The receiver has the time of the newest media where it has its number.
LastInv ==
  last_media # None /\ newest_media # None /\ last_media.seq = newest_media.seq
    => last_media.timestamp = newest_media.timestamp

LEMMA LastStepInv ==
  ASSUME Window, Ordered
  PROVE  SenderInv /\ SeenInv /\ TimeInv /\ LastInv /\ [Next]_vars => LastInv'
<1> SUFFICES ASSUME SenderInv, SeenInv, TimeInv, LastInv, [Next]_vars PROVE LastInv'
  OBVIOUS
<1>1. ASSUME NEW i \in Deliverable, NEW inserted \in InsertOutcomes, Deliver(i, inserted)
      PROVE  LastInv'
  <2>1. PICK pkt : pkt = link[i]
    OBVIOUS
  <2>2. /\ pkt \in VoicePackets /\ PushPacket(pkt, inserted)
        /\ newest_media' = IF pkt.media THEN NewerOf(newest_media, pkt) ELSE newest_media
    BY <1>1, <2>1, DeliverStep DEF Deliver
  <2>3. /\ newest_media # None => pkt.hist.idx > newest_media.hist.idx
        /\ newest # None => \A seq : Seen(seq) => SequenceIsNewer(pkt.seq, seq)
    BY <1>1, <2>1, InOrder
  <2>4. last_media' = IF pkt.media /\ inserted /\ PacketIsNewer(pkt)
                      THEN [seq |-> pkt.seq, timestamp |-> pkt.timestamp] ELSE last_media
    BY <2>2, PushSilence
  <2>5. CASE ~pkt.media
    BY <2>2, <2>4, <2>5 DEF LastInv
  <2>6. CASE pkt.media
    <3>1. newest_media' = pkt
      BY <2>2, <2>3, <2>6 DEF NewerOf
    <3>2. CASE last_media' = [seq |-> pkt.seq, timestamp |-> pkt.timestamp]
      BY <3>1, <3>2 DEF LastInv
    <3>3. CASE last_media' = last_media
      <4>1. last_media # None => SequenceIsNewer(pkt.seq, last_media.seq)
        BY <2>3 DEF SeenInv
      <4>2. last_media # None => last_media.seq # pkt.seq
        BY <2>2, <4>1, PacketTypes, NotNewerThanItself
      <4> QED
        BY <3>1, <3>3, <4>2 DEF LastInv
    <3> QED
      BY <2>4, <3>2, <3>3
  <2> QED
    BY <2>2, <2>5, <2>6, PacketTypes
<1>2. CASE Pull
  BY <1>2, PullSilent DEF LastInv
<1>3. CASE UNCHANGED <<receiver_vars, history_vars>>
  <2>1. UNCHANGED <<last_media, newest_media>>
    BY <1>3 DEF receiver_vars, talkspurt_vars, history_vars
  <2> QED
    BY <2>1 DEF LastInv
<1> QED
  BY <1>1, <1>2, <1>3, OtherSteps

\* A silence that numbers do not account for shows in the times.
LEMMA GapShows ==
  ASSUME Window, TimeFits, SenderInv, TimeInv, LastInv,
         NEW pkt \in VoicePackets, Made(pkt, enc.hist.idx), OnTime(pkt),
         MediaTime(pkt.hist) <= frames,
         last_media # None, newest_media # None, last_media.seq = newest_media.seq,
         pkt.hist.idx > newest_media.hist.idx,
         UnaccountedFrames(newest_media, pkt) >= DtxGapFrames
  PROVE  MediaTimestampHasDtxGap(pkt)
<1> DEFINE a == newest_media.hist
<1> DEFINE b == pkt.hist
<1>1. /\ newest_media \in VoicePackets /\ OnTime(newest_media) /\ Made(newest_media, enc.hist.idx)
      /\ enc \in EncoderStates /\ frames \in 0 .. MaxFrames /\ MaxFrames \in Nat
      /\ InitialSeq \in Nat /\ SeqMod \in Nat \ {0} /\ TsMod \in Nat \ {0} /\ DtxGapFrames \in Nat
  BY LinkAssumption, SeqModAssumption, TsModAssumption, ReceiverAssumption
     DEF SenderInv, TypeOK, TimeInv, SeqNumber
<1>2. a \in Histories /\ b \in Histories
  BY <1>1 DEF VoicePackets
<1>3. /\ a.idx \in Nat /\ a.stops \in Nat /\ a.silent \in Nat
      /\ b.idx \in Nat /\ b.stops \in Nat /\ b.silent \in Nat
      /\ enc.hist.idx \in Nat /\ Unclosed(enc) \in 0 .. 1
  BY <1>1, <1>2, EncoderTypes DEF Histories
<1>4. MediaTime(a) \in Nat /\ MediaTime(b) \in Nat
  BY <1>1, <1>2, MediaTimeType DEF OnTime
<1> HIDE DEF a, b
<1>5. 2 * b.idx < SeqMod /\ a.idx < b.idx /\ b.idx - a.idx < SeqMod
  BY <1>1, <1>3 DEF SenderInv, NumbersInv, Made, Window, a, b
<1>6. MediaTime(b) - MediaTime(a) >= (b.idx - a.idx) + DtxGapFrames
        /\ MediaTime(a) <= MediaTime(b) /\ MediaTime(b) - MediaTime(a) < TsMod
  <2>1. (b.silent - a.silent) - (b.stops - a.stops) >= DtxGapFrames
    BY DEF UnaccountedFrames, a, b
  <2>2. MediaTime(b) - MediaTime(a) >= (b.idx - a.idx) + DtxGapFrames
    BY <1>1, <1>3, <2>1 DEF MediaTime
  <2>3. MediaTime(b) <= frames /\ frames <= MaxFrames /\ MaxFrames < TsMod
    BY <1>1 DEF TimeFits, b
  <2> QED
    BY <1>1, <1>3, <1>4, <1>5, <2>2, <2>3
<1>7. (pkt.seq - last_media.seq) % SeqMod = b.idx - a.idx
  <2>1. pkt.seq = (InitialSeq + b.idx) % SeqMod /\ last_media.seq = (InitialSeq + a.idx) % SeqMod
    BY <1>1 DEF Made, SeqOf, a, b
  <2>2. PICK x \in Nat : x = InitialSeq + b.idx
    BY <1>1, <1>3
  <2>3. PICK y \in Nat : y = InitialSeq + a.idx
    BY <1>1, <1>3
  <2>4. y <= x /\ x - y < SeqMod /\ x - y = b.idx - a.idx
    BY <1>1, <1>3, <1>5, <2>2, <2>3
  <2>5. ((x % SeqMod) - (y % SeqMod)) % SeqMod = x - y
    BY <1>1, <2>4, ClockDifference
  <2> QED
    BY <2>1, <2>2, <2>3, <2>4, <2>5
<1>8. (pkt.timestamp - last_media.timestamp) % TsMod = MediaTime(b) - MediaTime(a)
  <2>1. pkt.timestamp = MediaTime(b) % TsMod /\ last_media.timestamp = MediaTime(a) % TsMod
    BY <1>1 DEF LastInv, OnTime, a, b
  <2> QED
    BY <1>1, <1>4, <1>6, <2>1, ClockDifference
<1>9. b.idx - a.idx # 0 /\ b.idx - a.idx < SeqMod \div 2
  <2> DEFINE half == SeqMod \div 2
  <2>1. half \in Nat /\ SeqMod = 2 * half
    BY SeqModAssumption
  <2> HIDE DEF half
  <2>2. b.idx - a.idx # 0 /\ b.idx - a.idx < half
    BY <1>3, <1>5, <2>1
  <2> QED
    BY <2>2 DEF half
<1> QED
  BY <1>6, <1>7, <1>8, <1>9 DEF MediaTimestampHasDtxGap

\* A packet that opens a talkspurt starts NetEq afresh.
LEMMA OpeningFlushes ==
  ASSUME NEW pkt, NEW inserted, PushPacket(pkt, inserted), OpensTalkspurt(pkt)
  PROVE  resuming_talkspurt' /\ buffer' \subseteq {pkt}
<1>1. resuming_talkspurt' = (resuming_talkspurt \/ OpensTalkspurt(pkt))
  BY Zenon DEF PushPacket
<1>2. buffer' \subseteq {pkt}
  BY DEF PushPacket
<1> QED
  BY <1>1, <1>2

\* On a link that keeps order, media of a later talkspurt is played as such when its own
\* marker or that of the end before it arrived, or when the pause was long enough to show
\* in the clock: whatever else was lost, whatever NetEq refused and wherever the numbers
\* and the clock wrap.
THEOREM LostMarkersRepaired ==
  ASSUME Window, TimeFits, Ordered
  PROVE  Spec => LostMarkersAreRepaired
<1> DEFINE Repair ==
      \A i \in Deliverable, inserted \in InsertOutcomes :
        LET pkt == link[i]
        IN  ( /\ Deliver(i, inserted)
              /\ pkt.media /\ last_media # None /\ newest_media # None
              /\ last_media.seq = newest_media.seq
              /\ pkt.hist.spurt > newest_media.hist.spurt
              /\ \/ pkt.start
                 \/ newest.end
                 \/ UnaccountedFrames(newest_media, pkt) >= DtxGapFrames )
            => resuming_talkspurt' /\ buffer' \subseteq {pkt}
<1>1. Init => TimeInv /\ LastInv
  BY InitTime DEF Init, LastInv
<1>2. SenderInv /\ SeenInv /\ TimeInv /\ LastInv /\ SilenceFollowsNewestPacket /\ [Next]_vars
        => [Repair]_vars
  <2> SUFFICES ASSUME SenderInv, SeenInv, TimeInv, LastInv, SilenceFollowsNewestPacket
               PROVE  Repair
    OBVIOUS
  <2> SUFFICES ASSUME NEW i \in Deliverable, NEW inserted \in InsertOutcomes, NEW pkt,
                      pkt = link[i], Deliver(i, inserted),
                      pkt.media, last_media # None, newest_media # None,
                      last_media.seq = newest_media.seq,
                      \/ pkt.start
                      \/ newest.end
                      \/ UnaccountedFrames(newest_media, pkt) >= DtxGapFrames
               PROVE  resuming_talkspurt' /\ buffer' \subseteq {pkt}
    BY Zenon
  <2>1. /\ i \in DOMAIN link /\ pkt \in VoicePackets /\ Made(pkt, enc.hist.idx)
        /\ PushPacket(pkt, inserted)
    BY DeliverStep
  <2>2. /\ pkt.hist.idx > newest_media.hist.idx /\ PacketIsNewer(pkt)
        /\ Silent => SequenceIsNewer(pkt.seq, end_of_talkspurt_seq)
    BY InOrder
  <2> SUFFICES OpensTalkspurt(pkt)
    BY <2>1, OpeningFlushes
  <2>3. CASE pkt.start
    BY <2>2, <2>3 DEF OpensTalkspurt
  <2>4. CASE newest.end
    <3>1. newest # None
      BY DEF TimeInv
    <3>2. Silent
      BY <2>4, <3>1 DEF SilenceFollowsNewestPacket, NewestIsEnd
    <3> QED
      BY <2>2, <3>2 DEF OpensTalkspurt, ImplicitStart, Silent, SeenInv
  <2>5. CASE UnaccountedFrames(newest_media, pkt) >= DtxGapFrames
    <3>1. OnTime(pkt) /\ MediaTime(pkt.hist) <= frames
      BY <2>1 DEF TimeInv
    <3>2. MediaTimestampHasDtxGap(pkt)
      BY <2>1, <2>2, <2>5, <3>1, GapShows
    <3> QED
      BY <2>2, <3>2 DEF OpensTalkspurt
  <2> QED
    BY <2>3, <2>4, <2>5
<1>3. LostMarkersAreRepaired <=> [][Repair]_vars
  BY Zenon DEF LostMarkersAreRepaired
<1> HIDE DEF Repair
<1>4. Spec => []SilenceFollowsNewestPacket
  BY SilenceFollows
<1> QED
  BY SenderInitInv, LinkStepInv, InitSeen, SeenStepInv, TimeStepInv, LastStepInv,
     <1>1, <1>2, <1>3, <1>4, PTL DEF Spec
=============================================================================
