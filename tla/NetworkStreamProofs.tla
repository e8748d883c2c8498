------------------------- MODULE NetworkStreamProofs -------------------------
(***************************************************************************)
(* Proofs about NetworkStream, for any number of producers and packets and *)
(* any capacities and budgets, whatever NetEq answers.                     *)
(***************************************************************************)
EXTENDS NetworkStream, VoiceProofs, FiniteSetTheorems

Mixers == [at : MixerPlaces, budget : 0 .. DrainBudget, pulls : 0 .. MaxPulls,
           block : Blocks \cup {None}]
Taps == [generation : 0 .. MaxCalls, blocks : Seq(Blocks)]

\* Every generation of the tap was begun by a call.
TapInv ==
  tap \in Taps /\ Len(tap.blocks) <= TapCapacity /\ tap.generation <= calls

\* A pull is entered only while the callback has one left; a block is in the mixer's
\* hand exactly between its stamp and its push, and there are samples to stamp.
MixerInv ==
  /\ mixer \in Mixers
  /\ mixer.at \in {"drain", "fill", "refill", "pull"} => mixer.pulls > 0
  /\ At("push") => mixer.block \in Blocks
  /\ ~At("push") => mixer.block = None
  /\ At("stamp") => pending \in 0 .. MaxCalls

\* A producer inside enqueue_packet has a packet of its own in hand.
ProducerInv ==
  /\ producing \in [Producers -> {"idle", "push", "evict", "retry"}]
  /\ \A p \in Producers : offered[p] \in 0 .. Len(Voice[p])
  /\ \A p \in Producers : producing[p] # "idle" => offered[p] # 0

QueueInv ==
  /\ queue \in Seq(PacketIds) /\ Len(queue) <= QueueCapacity
  /\ offered \in [Producers -> Nat]
  /\ taken \subseteq PacketIds
  /\ newest \in VoicePackets \cup {None}

FlagInv ==
  /\ active \in BOOLEAN /\ playing \in BOOLEAN /\ playout_paused \in BOOLEAN
  /\ pending \in 0 .. MaxCalls \cup {None}
  /\ main \in {"idle", "deactivating", "pausing", "clearing"}
  /\ calls \in 0 .. MaxCalls

StreamTypeInv ==
  ReceiverTypeOK /\ TapInv /\ MixerInv /\ ProducerInv /\ QueueInv /\ FlagInv

LEMMA StreamTypes == StreamTypeInv => TypeOK
BY DEF StreamTypeInv, TapInv, MixerInv, ProducerInv, QueueInv, FlagInv, TypeOK,
       Taps, Mixers

LEMMA AppendWithin ==
  ASSUME NEW S, NEW s \in Seq(S), NEW x \in S, NEW n \in Nat, Len(s) < n
  PROVE  Append(s, x) \in Seq(S) /\ Len(Append(s, x)) <= n
OBVIOUS

LEMMA PacketTypes ==
  /\ \A p \in Producers : Len(Voice[p]) \in Nat
  /\ \A p \in Producers : \A k \in 1 .. Len(Voice[p]) : <<p, k>> \in PacketIds
  /\ \A id \in PacketIds : PacketOf(id) \in VoicePackets
<1>1. ASSUME NEW p \in Producers
      PROVE  Voice[p] \in Seq(VoicePackets) /\ DOMAIN Voice[p] = 1 .. Len(Voice[p])
  BY StreamAssumption
<1>2. \A p \in Producers : Len(Voice[p]) \in Nat
  BY <1>1
<1>3. ASSUME NEW p \in Producers, NEW k \in 1 .. Len(Voice[p]) PROVE <<p, k>> \in PacketIds
  BY <1>1 DEF PacketIds
<1>4. ASSUME NEW id \in PacketIds PROVE PacketOf(id) \in VoicePackets
  <2>1. PICK p \in Producers : id \in {p} \X DOMAIN Voice[p]
    BY DEF PacketIds
  <2>2. id[1] = p /\ id[2] \in 1 .. Len(Voice[p])
    BY <1>1, <2>1
  <2>3. Voice[p][id[2]] \in VoicePackets
    BY <1>1, <2>2
  <2> QED
    BY <2>2, <2>3 DEF PacketOf
<1> QED
  BY <1>2, <1>3, <1>4

LEMMA StreamInitType == Init => StreamTypeInv
<1> SUFFICES ASSUME Init PROVE StreamTypeInv
  OBVIOUS
<1>1. ReceiverTypeOK
  BY ReceiverInitType DEF Init
<1>2. 0 \in 0 .. MaxCalls /\ 0 \in 0 .. DrainBudget /\ 0 \in 0 .. MaxPulls /\ 0 <= TapCapacity
  BY StreamAssumption
<1>3. TapInv
  <2>1. tap = [generation |-> 0, blocks |-> << >>] /\ calls = 0
    BY DEF Init
  <2>2. << >> \in Seq(Blocks) /\ Len(<< >>) = 0
    OBVIOUS
  <2> QED
    BY <1>2, <2>1, <2>2 DEF TapInv, Taps
<1>6. FlagInv
  BY <1>2 DEF Init, FlagInv
<1>4. MixerInv
  BY <1>2 DEF Init, MixerInv, Mixers, Idle, At, MixerPlaces
<1>5. ProducerInv /\ QueueInv
  BY StreamAssumption, PacketTypes DEF Init, ProducerInv, QueueInv
<1> QED
  BY <1>1, <1>3, <1>4, <1>5, <1>6 DEF StreamTypeInv

\* Enqueuing leaves the queue within its capacity.
LEMMA EnqueueType ==
  ASSUME StreamTypeInv, NEW p \in Producers, Enqueue(p)
  PROVE  StreamTypeInv'
<1> USE DEF StreamTypeInv, Goto
<1>1. UNCHANGED <<receiver_vars, flag_vars, mixer_vars, tap_vars, control_vars, taken>>
  BY DEF Enqueue, Offer, Push, Evict, Retry, Unenqueued
<1>2. ReceiverTypeOK' /\ TapInv' /\ MixerInv' /\ FlagInv'
  BY <1>1 DEF receiver_vars, talkspurt_vars, neteq_vars, flag_vars, mixer_vars, tap_vars,
              control_vars, ReceiverTypeOK, TapInv, MixerInv, At, FlagInv
<1>3. offered[p] \in 0 .. Len(Voice[p]) /\ Len(Voice[p]) \in Nat
  BY PacketTypes DEF ProducerInv
<1>4. producing[p] # "idle" => InHand(p) \in PacketIds
  BY <1>3, PacketTypes DEF InHand, ProducerInv
<1>5. CASE Offer(p)
  <2>1. offered' = [offered EXCEPT ![p] = @ + 1] /\ queue' = queue /\ UNCHANGED <<taken, newest>>
    BY <1>1, <1>5 DEF Offer, mixer_vars
  <2>2. producing' \in {producing, [producing EXCEPT ![p] = "push"]}
    BY <1>5 DEF Offer
  <2>3. offered[p] + 1 \in 1 .. Len(Voice[p])
    BY <1>3, <1>5 DEF Offer
  <2>4. QueueInv'
    BY <2>1, <2>3 DEF QueueInv
  <2>5. ProducerInv'
    BY <2>1, <2>2, <2>3 DEF ProducerInv, QueueInv
  <2> QED
    BY <1>2, <2>4, <2>5
<1>6. CASE Push(p)
  <2>1. queue' \in Seq(PacketIds) /\ Len(queue') <= QueueCapacity
    <3>1. InHand(p) \in PacketIds
      BY <1>4, <1>6 DEF Push
    <3>2. queue' = queue \/ (Len(queue) < QueueCapacity /\ queue' = Append(queue, InHand(p)))
      BY <1>6 DEF Push, HasRoom
    <3>3. queue \in Seq(PacketIds) /\ Len(queue) <= QueueCapacity /\ QueueCapacity \in Nat
      BY StreamAssumption DEF QueueInv
    <3> HIDE DEF StreamTypeInv
    <3> QED
      BY <3>1, <3>2, <3>3, AppendWithin
  <2>2. offered' = offered /\ producing' \in {[producing EXCEPT ![p] = "idle"],
                                             [producing EXCEPT ![p] = "evict"]}
    BY <1>6 DEF Push
  <2>3. producing[p] # "idle"
    BY <1>6 DEF Push
  <2>4. ProducerInv'
    BY <2>2, <2>3 DEF ProducerInv, QueueInv
  <2> QED
    BY <1>1, <1>2, <2>1, <2>2, <2>4 DEF QueueInv, mixer_vars
<1>7. CASE Evict(p)
  <2>1. queue' \in Seq(PacketIds) /\ Len(queue') <= QueueCapacity
    BY <1>7, StreamAssumption DEF Evict, QueueInv
  <2> QED
    BY <1>1, <1>2, <1>7, <2>1 DEF Evict, ProducerInv, QueueInv, mixer_vars
<1>8. CASE Retry(p)
  <2>1. queue' \in Seq(PacketIds) /\ Len(queue') <= QueueCapacity
    BY <1>4, <1>8, StreamAssumption DEF Retry, Retried, HasRoom, QueueInv
  <2> QED
    BY <1>1, <1>2, <1>8, <2>1 DEF Retry, ProducerInv, QueueInv, mixer_vars
<1> QED
  BY <1>2, <1>5, <1>6, <1>7, <1>8 DEF Enqueue

LEMMA ReceiverKept == receiver_vars' = receiver_vars /\ ReceiverTypeOK => ReceiverTypeOK'
BY DEF receiver_vars, talkspurt_vars, neteq_vars, ReceiverTypeOK

\* The mixer's steps, one lemma for those that only move it on and one for each of
\* the others.
MixMove == MixEnter \/ MixCheckPaused \/ DrainEnd \/ Fill \/ Stamp \/ Publish

LEMMA MixMoveType ==
  ASSUME StreamTypeInv, MixMove
  PROVE  StreamTypeInv'
<1> USE DEF StreamTypeInv
<1>1. UNCHANGED <<receiver_vars, queue, taken, pending, newest, tap, offered, producing,
                  main, calls, active, playing>>
  BY DEF MixMove, MixEnter, MixCheckPaused, DrainEnd, Fill, Stamp, Publish, Unmixed,
         flag_vars, control_vars
<1>2. ReceiverTypeOK' /\ TapInv' /\ ProducerInv' /\ QueueInv'
  BY <1>1, ReceiverKept DEF TapInv, ProducerInv, QueueInv
<1>3. FlagInv'
  <2>1. playout_paused' \in BOOLEAN
    BY DEF MixMove, MixEnter, MixCheckPaused, DrainEnd, Fill, Stamp, Publish, Unmixed,
           flag_vars, PublishedPause, FlagInv, ReceiverTypeOK
  <2> QED
    BY <1>1, <2>1 DEF FlagInv
<1>4. 0 \in 0 .. DrainBudget /\ DrainBudget \in 0 .. DrainBudget
      /\ 0 \in 0 .. MaxPulls /\ MaxPulls \in 0 .. MaxPulls /\ MaxPulls > 0
  BY StreamAssumption
<1>5. CASE MixEnter
  BY <1>1, <1>2, <1>3, <1>5 DEF MixEnter, MixerInv, Mixers, At, MixerPlaces
<1>6. CASE MixCheckPaused
  BY <1>1, <1>2, <1>3, <1>4, <1>6 DEF MixCheckPaused, MixerInv, Mixers, At, MixerPlaces, Idle
<1>7. CASE DrainEnd
  BY <1>1, <1>2, <1>3, <1>4, <1>7 DEF DrainEnd, Draining, MixerInv, Mixers, At, MixerPlaces
<1>8. CASE Fill
  BY <1>1, <1>2, <1>3, <1>4, <1>8 DEF Fill, MixerInv, Mixers, At, MixerPlaces, FlagInv
<1>9. CASE Stamp
  BY <1>1, <1>2, <1>3, <1>9 DEF Stamp, MixerInv, Mixers, At, MixerPlaces, TapInv, Taps, Blocks
<1>10. CASE Publish
  BY <1>1, <1>2, <1>3, <1>4, <1>10 DEF Publish, MixerInv, Mixers, At, MixerPlaces, Idle
<1> QED
  BY <1>5, <1>6, <1>7, <1>8, <1>9, <1>10 DEF MixMove

\* The audio thread hands the head of the queue to the receiver.
LEMMA DrainPacketType ==
  ASSUME StreamTypeInv, DrainPacket
  PROVE  StreamTypeInv'
<1> USE DEF StreamTypeInv
<1>1. queue # << >> /\ mixer.budget > 0
  BY DEF DrainPacket
<1>2. Head(queue) \in PacketIds /\ queue' \in Seq(PacketIds) /\ Len(queue') <= QueueCapacity
  BY <1>1, StreamAssumption DEF DrainPacket, QueueInv
<1>3. PacketOf(Head(queue)) \in VoicePackets
  BY <1>2, PacketTypes
<1>4. ReceiverTypeOK'
  BY <1>3, PushPacketType DEF DrainPacket
<1>5. newest' \in VoicePackets \cup {None} /\ taken' \subseteq PacketIds
  BY <1>2, <1>3 DEF DrainPacket, NewerOf, QueueInv
<1>6. UNCHANGED <<pending, tap, active, playing, playout_paused, offered, producing, main, calls>>
  BY DEF DrainPacket, Unmixed, flag_vars, control_vars
<1>7. mixer' = [mixer EXCEPT !.budget = @ - 1]
  BY DEF DrainPacket
<1>8. MixerInv'
  BY <1>1, <1>6, <1>7, StreamAssumption DEF MixerInv, Mixers, At
<1>9. TapInv' /\ ProducerInv' /\ QueueInv' /\ FlagInv'
  BY <1>2, <1>5, <1>6 DEF TapInv, ProducerInv, QueueInv, FlagInv
<1> QED
  BY <1>4, <1>8, <1>9

LEMMA PullType ==
  ASSUME StreamTypeInv, Pull
  PROVE  StreamTypeInv'
<1> USE DEF StreamTypeInv
<1>1. ReceiverTypeOK'
  BY PullFrameType DEF Pull
<1>2. UNCHANGED <<queue, taken, newest, tap, active, playing, playout_paused, offered,
                  producing, main, calls>>
  BY DEF Pull, Unmixed, flag_vars, control_vars
<1>3. tap.generation \in 0 .. MaxCalls
  BY DEF TapInv, Taps
<1>4. /\ mixer.at = "pull" /\ pending' = tap.generation
      /\ mixer' = [mixer EXCEPT !.at = "stamp", !.pulls = @ - 1]
  BY DEF Pull, At
<1>5. MixerInv'
  <2>1. mixer \in Mixers /\ mixer.pulls > 0 /\ mixer.block = None
    BY <1>4 DEF MixerInv, At
  <2>2. mixer.pulls - 1 \in 0 .. MaxPulls
    BY <2>1, StreamAssumption DEF Mixers
  <2>3. mixer' = [at |-> "stamp", budget |-> mixer.budget, pulls |-> mixer.pulls - 1, block |-> None]
    BY <1>4, <2>1 DEF Mixers
  <2> HIDE DEF StreamTypeInv
  <2> QED
    BY <1>3, <1>4, <2>1, <2>2, <2>3 DEF MixerInv, Mixers, At, MixerPlaces
<1>6. TapInv' /\ ProducerInv' /\ QueueInv' /\ FlagInv'
  BY <1>2, <1>3, <1>4 DEF TapInv, ProducerInv, QueueInv, FlagInv
<1> QED
  BY <1>1, <1>5, <1>6

LEMMA TapPushType ==
  ASSUME StreamTypeInv, TapPush
  PROVE  StreamTypeInv'
<1> USE DEF StreamTypeInv
<1>1. UNCHANGED <<receiver_vars, queue, taken, newest, active, playing, playout_paused,
                  offered, producing, main, calls>>
  BY DEF TapPush, Unmixed, flag_vars, control_vars
<1>2. mixer.at = "push" /\ mixer.block \in Blocks
  BY DEF TapPush, At, MixerInv
<1>3. TapInv'
  <2>1. tap' = tap \/ (Len(tap.blocks) < TapCapacity
                        /\ tap' = [tap EXCEPT !.blocks = Append(@, mixer.block)])
    BY DEF TapPush
  <2>2. tap \in Taps /\ tap.blocks \in Seq(Blocks)
    BY DEF TapInv, Taps
  <2> HIDE DEF StreamTypeInv
  <2>5. Len(tap.blocks) <= TapCapacity /\ TapCapacity \in Nat
    BY StreamAssumption DEF StreamTypeInv, TapInv
  <2>6. tap'.blocks = tap.blocks
          \/ (Len(tap.blocks) < TapCapacity /\ tap'.blocks = Append(tap.blocks, mixer.block))
    BY <2>1, <2>2 DEF Taps
  <2>3. tap'.blocks \in Seq(Blocks) /\ Len(tap'.blocks) <= TapCapacity
    BY <1>2, <2>2, <2>5, <2>6, AppendWithin
  <2>4. tap' = [generation |-> tap.generation, blocks |-> tap'.blocks]
    BY <2>1, <2>2 DEF Taps
  <2> QED
    BY <1>1, <2>2, <2>3, <2>4 DEF StreamTypeInv, TapInv, Taps
<1>4. PICK place \in {"fill", "publish"}, left \in {pending, None} :
        /\ place = "fill" => left = None /\ mixer.pulls > 0
        /\ pending' = left
        /\ mixer' = [mixer EXCEPT !.at = place, !.block = None]
  BY DEF TapPush
<1>5. MixerInv'
  BY <1>2, <1>4 DEF MixerInv, Mixers, At, MixerPlaces
<1>6. ReceiverTypeOK' /\ ProducerInv' /\ QueueInv' /\ FlagInv'
  BY <1>1, <1>4, ReceiverKept DEF ProducerInv, QueueInv, FlagInv
<1> QED
  BY <1>3, <1>5, <1>6

\* The calls of the main thread, and the consumer of the tap.
LEMMA CallType ==
  ASSUME StreamTypeInv, Call \/ TapPop
  PROVE  StreamTypeInv'
<1> USE DEF StreamTypeInv
<1>1. UNCHANGED <<receiver_vars, offered, producing, taken, mixer, newest>>
  BY DEF Call, Start, Stop, SetPlaying, Deactivate, StoreInactive, StorePaused,
         ClearPendingPackets, ClearPop, TapPop, Unclear, queue_vars, mixer_vars
<1>2. ReceiverTypeOK' /\ ProducerInv'
  BY <1>1, ReceiverKept DEF ProducerInv
<1>3. QueueInv'
  <2>1. queue' = queue \/ (queue # << >> /\ queue' = Tail(queue))
    BY DEF Call, Start, Stop, SetPlaying, Deactivate, StoreInactive, StorePaused,
           ClearPendingPackets, ClearPop, TapPop, Unclear, queue_vars
  <2>2. queue' \in Seq(PacketIds) /\ Len(queue') <= QueueCapacity
    BY <2>1, StreamAssumption DEF QueueInv
  <2> QED
    BY <1>1, <2>2 DEF QueueInv
<1>4. calls' \in 0 .. MaxCalls /\ calls <= calls'
  <2>1. calls' = calls \/ (calls < MaxCalls /\ calls' = calls + 1)
    BY DEF Call, Start, Stop, SetPlaying, Deactivate, StoreInactive, StorePaused,
           ClearPendingPackets, ClearPop, TapPop, Unclear, Called
  <2> QED
    BY <2>1, StreamAssumption DEF FlagInv
<1>5. MixerInv' /\ pending' \in {pending, None}
  <2>1. pending' = pending \/ (mixer.at = "idle" /\ pending' = None)
    BY DEF Call, Start, Stop, SetPlaying, Deactivate, StoreInactive, StorePaused,
           ClearPendingPackets, ClearPop, TapPop, Unclear, mixer_vars, LeftOver, At
  <2> QED
    BY <1>1, <2>1 DEF MixerInv, At
<1>6. FlagInv'
  BY <1>4, <1>5 DEF FlagInv, Call, Start, Stop, SetPlaying, Deactivate, StoreInactive,
         StorePaused, ClearPendingPackets, ClearPop, TapPop, Called, flag_vars
<1>7. TapInv'
  <2>1. tap \in Taps /\ tap.generation <= calls /\ Len(tap.blocks) <= TapCapacity
    BY DEF TapInv
  <2>2. CASE Start \/ Stop \/ Deactivate
    <3>1. tap' = [tap EXCEPT !.generation = @ + 1] /\ calls' = calls + 1 /\ calls < MaxCalls
      BY <2>2 DEF Start, Stop, SetPlaying, Deactivate, ResetTap, Called
    <3>2. tap.generation + 1 \in 0 .. MaxCalls
      BY <2>1, <3>1, StreamAssumption DEF Taps, FlagInv
    <3> QED
      BY <2>1, <3>1, <3>2 DEF TapInv, Taps, FlagInv
  <2>3. CASE StoreInactive \/ StorePaused \/ ClearPendingPackets \/ ClearPop
    <3>1. tap' = tap
      BY <2>3 DEF StoreInactive, StorePaused, ClearPendingPackets, ClearPop
    <3> QED
      BY <1>4, <2>1, <3>1 DEF TapInv, Taps, FlagInv
  <2>4. CASE TapPop
    <3>1. tap.blocks # << >> /\ tap' = [tap EXCEPT !.blocks = Tail(@)]
      BY <2>4 DEF TapPop
    <3>2. tap.blocks \in Seq(Blocks)
      BY <2>1 DEF Taps
    <3>3. Tail(tap.blocks) \in Seq(Blocks) /\ Len(Tail(tap.blocks)) <= TapCapacity
      BY <2>1, <3>1, <3>2, StreamAssumption
    <3>4. tap' = [generation |-> tap.generation, blocks |-> Tail(tap.blocks)]
      BY <2>1, <3>1 DEF Taps
    <3>5. calls' = calls
      BY <2>4 DEF TapPop
    <3> HIDE DEF StreamTypeInv
    <3> QED
      BY <2>1, <3>3, <3>4, <3>5 DEF TapInv, Taps
  <2> QED
    BY <2>2, <2>3, <2>4 DEF Call
<1> QED
  BY <1>2, <1>3, <1>5, <1>6, <1>7

LEMMA StreamStepType == StreamTypeInv /\ [Next]_vars => StreamTypeInv'
<1> SUFFICES ASSUME StreamTypeInv, [Next]_vars PROVE StreamTypeInv'
  OBVIOUS
<1>1. CASE UNCHANGED vars
  BY <1>1, ReceiverKept DEF vars, queue_vars, flag_vars, mixer_vars, tap_vars, control_vars,
     StreamTypeInv, TapInv, MixerInv, At, ProducerInv, QueueInv, FlagInv
<1>2. CASE Mix
  BY <1>2, MixMoveType, DrainPacketType, PullType, TapPushType DEF Mix, MixMove
<1> QED
  BY <1>1, <1>2, EnqueueType, CallType DEF Next

\* Every reachable state is well typed: the queue and the tap stay within their
\* capacities, whatever the threads do in between (stream.rs, pcm_tap.rs).
THEOREM TypeCorrect == Spec => []TypeOK
<1>1. Spec => []StreamTypeInv
  BY StreamInitType, StreamStepType, PTL DEF Spec
<1> QED
  BY <1>1, StreamTypes, PTL

-----------------------------------------------------------------------------
\* The tap's generation

\* Once deactivate has begun its reset excuses what the tap holds, for good: nothing
\* makes a stream active again.
Excused == ~active \/ main = "deactivating"

ExactBlocks == {block \in Blocks : block.pulled = block.generation}

\* Until then the samples in hand are of the current generation, and so was each
\* block when it was stamped.
Exact ==
  /\ At("stamp") \/ pending # None => pending = tap.generation
  /\ At("push") => mixer.block \in ExactBlocks
  /\ tap.blocks \in Seq(ExactBlocks)

ResetInv == Excused \/ Exact

LEMMA ResetInit == Init => ResetInv
<1> SUFFICES ASSUME Init PROVE Exact
  BY DEF ResetInv
<1>1. mixer.at = "idle" /\ pending = None /\ tap.blocks = << >>
  BY DEF Init, Idle
<1> QED
  BY <1>1 DEF Exact, At

LEMMA ExcusedForGood == Excused /\ [Next]_vars => Excused'
<1> SUFFICES ASSUME Excused, [Next]_vars PROVE Excused'
  OBVIOUS
<1>1. CASE active' = active /\ main' = main
  BY <1>1 DEF Excused
<1>2. CASE UNCHANGED vars
  BY <1>1, <1>2 DEF vars, flag_vars, control_vars
<1>3. ASSUME NEW p \in Producers, Enqueue(p) PROVE Excused'
  BY <1>1, <1>3 DEF Enqueue, Offer, Push, Evict, Retry, Unenqueued, flag_vars, control_vars
<1>4. CASE Mix
  BY <1>1, <1>4 DEF Mix, MixEnter, MixCheckPaused, DrainPacket, DrainEnd, Fill, Pull, Stamp,
         TapPush, Publish, Unmixed, flag_vars, control_vars
<1>5. CASE Call \/ TapPop
  BY <1>5 DEF Call, Start, Stop, SetPlaying, Deactivate, StoreInactive, StorePaused,
         ClearPendingPackets, ClearPop, TapPop, Called, flag_vars, Excused
<1> QED
  BY <1>2, <1>3, <1>4, <1>5 DEF Next

LEMMA ResetStep == StreamTypeInv /\ ResetInv /\ [Next]_vars => ResetInv'
<1> SUFFICES ASSUME StreamTypeInv, Exact, [Next]_vars PROVE Exact' \/ Excused'
  BY ExcusedForGood DEF ResetInv
<1>1. CASE UNCHANGED <<mixer, pending, tap>>
  BY <1>1 DEF Exact, At
<1>2. CASE UNCHANGED vars
  BY <1>1, <1>2 DEF vars, mixer_vars, tap_vars
<1>3. ASSUME NEW p \in Producers, Enqueue(p) PROVE Exact' \/ Excused'
  <2>1. UNCHANGED <<mixer, pending, tap>>
    BY <1>3 DEF Enqueue, Offer, Push, Evict, Retry, Unenqueued, mixer_vars, tap_vars
  <2> QED
    BY <1>1, <2>1
<1>4. mixer \in Mixers
  BY DEF StreamTypeInv, MixerInv
<1>5. CASE MixEnter \/ MixCheckPaused \/ DrainPacket \/ DrainEnd \/ Publish
  <2>1. UNCHANGED <<pending, tap>>
    BY <1>5 DEF MixEnter, MixCheckPaused, DrainPacket, DrainEnd, Publish
  <2>2. mixer'.at \notin {"stamp", "push"}
    <3>1. CASE MixEnter
      BY <1>4, <3>1 DEF MixEnter, Mixers
    <3>4. CASE MixCheckPaused
      <4>1. mixer'.at \in {"idle", "drain"}
        BY <1>4, <3>4 DEF MixCheckPaused, Idle, Mixers
      <4> QED
        BY <4>1
    <3>2. CASE DrainPacket
      BY <1>4, <3>2 DEF DrainPacket, Draining, At, Mixers
    <3>3. CASE DrainEnd
      <4>1. mixer'.at \in {"fill", "pull"}
        BY <1>4, <3>3 DEF DrainEnd, Mixers
      <4> QED
        BY <4>1
    <3>5. CASE Publish
      BY <3>5 DEF Publish, Idle
    <3> QED
      BY <1>5, <3>1, <3>2, <3>3, <3>4, <3>5
  <2> QED
    BY <2>1, <2>2 DEF Exact, At
<1>6. CASE Fill
  BY <1>4, <1>6 DEF Fill, Exact, At, Mixers
<1>7. CASE Pull
  BY <1>4, <1>7 DEF Pull, Exact, At, Mixers
<1>8. CASE Stamp
  <2>1. pending = tap.generation /\ pending \in 0 .. MaxCalls
    BY <1>8 DEF Stamp, Exact, StreamTypeInv, MixerInv
  <2>2. mixer'.at = "push" /\ mixer'.block = [generation |-> tap.generation, pulled |-> pending]
    BY <1>4, <1>8 DEF Stamp, Mixers
  <2>3. mixer'.block \in ExactBlocks
    BY <2>1, <2>2 DEF ExactBlocks, Blocks
  <2> QED
    BY <1>8, <2>2, <2>3 DEF Stamp, Exact, At
<1>9. CASE TapPush
  <2>1. mixer.block \in ExactBlocks /\ mixer'.at \in {"fill", "publish"}
    BY <1>4, <1>9 DEF TapPush, Exact, At, Mixers
  <2>2. tap \in Taps /\ tap.blocks \in Seq(ExactBlocks)
    BY DEF Exact, StreamTypeInv, TapInv
  <2>3. tap'.generation = tap.generation
          /\ tap'.blocks \in {tap.blocks, Append(tap.blocks, mixer.block)}
    BY <1>9, <2>2 DEF TapPush, Taps
  <2>4. tap'.blocks \in Seq(ExactBlocks)
    BY <2>1, <2>2, <2>3
  <2>5. pending' \in {pending, None}
    BY <1>9 DEF TapPush
  <2> QED
    BY <2>1, <2>3, <2>4, <2>5 DEF Exact, At
<1>10. CASE Start \/ Stop
  <2>1. mixer.at = "idle" /\ mixer' = mixer /\ pending' = None
          /\ tap' = [tap EXCEPT !.generation = @ + 1]
    BY <1>10 DEF Start, Stop, SetPlaying, At, LeftOver, ResetTap
  <2>2. tap'.blocks = tap.blocks
    BY <2>1 DEF StreamTypeInv, TapInv, Taps
  <2> QED
    BY <2>1, <2>2 DEF Exact, At
<1>11. CASE Deactivate
  BY <1>11 DEF Deactivate, Called, Excused
<1>12. CASE StoreInactive \/ StorePaused \/ ClearPendingPackets \/ ClearPop
  BY <1>1, <1>12 DEF StoreInactive, StorePaused, ClearPendingPackets, ClearPop, Unclear, mixer_vars
<1>13. CASE TapPop
  <2>1. tap.blocks # << >> /\ tap'.blocks = Tail(tap.blocks)
          /\ tap'.generation = tap.generation /\ UNCHANGED <<mixer, pending>>
    BY <1>13 DEF TapPop, Unclear, mixer_vars, StreamTypeInv, TapInv, Taps
  <2>2. tap'.blocks \in Seq(ExactBlocks)
    BY <2>1 DEF Exact
  <2> QED
    BY <2>1, <2>2 DEF Exact, At
<1> QED
  BY <1>2, <1>3, <1>5, <1>6, <1>7, <1>8, <1>9, <1>10, <1>11, <1>12, <1>13 DEF Next, Mix, Call

\* A start or a stop separates the samples before it from those after it, for any
\* number of calls and any interleaving with the mixer (pcm_tap.rs:46-67).
THEOREM RestartsAreExact == Spec => []RestartResetIsExact
<1>1. StreamTypeInv /\ ResetInv => RestartResetIsExact
  <2> SUFFICES ASSUME StreamTypeInv, Exact, NEW block \in TapBlocks
               PROVE  ~(block.pulled < block.generation)
    BY DEF ResetInv, Excused, RestartResetIsExact
  <2>1. block \in ExactBlocks
    BY DEF TapBlocks, Exact, StreamTypeInv, MixerInv
  <2> QED
    BY <2>1 DEF ExactBlocks, Blocks
<1>2. Spec => []StreamTypeInv
  BY StreamInitType, StreamStepType, PTL DEF Spec
<1>3. Spec => []ResetInv
  BY <1>2, ResetInit, ResetStep, PTL DEF Spec
<1> QED
  BY <1>1, <1>2, <1>3, PTL

-----------------------------------------------------------------------------
\* The dead stream

Busy == {p \in Producers : producing[p] # "idle"}

LEMMA BusyIsFinite == IsFiniteSet(Busy) /\ Cardinality(Busy) <= Cardinality(Producers)
                        /\ Cardinality(Busy) \in Nat
BY StreamAssumption, FS_Subset, FS_CardinalityType DEF Busy

\* Producers that are done with a packet leave; the queue has what they left.
LEMMA StragglersStep ==
  StreamTypeInv /\ DeadStreamHoldsStragglersOnly /\ [Next]_vars
    => DeadStreamHoldsStragglersOnly'
<1> SUFFICES ASSUME StreamTypeInv, DeadStreamHoldsStragglersOnly, [Next]_vars,
                    ~active', main' = "idle"
             PROVE  Len(queue') + Cardinality(Busy') <= Cardinality(Producers)
  BY DEF DeadStreamHoldsStragglersOnly, Busy
<1> USE DEF StreamTypeInv
<1>1. queue \in Seq(PacketIds) /\ Len(queue) \in Nat
  BY DEF QueueInv
<1>2. Cardinality(Producers) \in Nat
  BY StreamAssumption, FS_CardinalityType
<1>3. ~active /\ main = "idle" =>
        Len(queue) + Cardinality(Busy) <= Cardinality(Producers)
  BY DEF DeadStreamHoldsStragglersOnly, Busy
<1>4. CASE UNCHANGED vars
  BY <1>3, <1>4 DEF vars, queue_vars, flag_vars, control_vars, Busy
<1>5. ASSUME NEW p \in Producers, Enqueue(p)
      PROVE  Len(queue') + Cardinality(Busy') <= Cardinality(Producers)
  <2>1. UNCHANGED <<active, main>>
    BY <1>5 DEF Enqueue, Offer, Push, Evict, Retry, Unenqueued, flag_vars, control_vars
  <2>2. Len(queue) + Cardinality(Busy) <= Cardinality(Producers)
    BY <1>3, <2>1
  <2>3. CASE Len(queue') <= Len(queue) /\ Busy' = Busy /\ Len(queue') \in Nat
    BY <1>1, <1>2, <2>2, <2>3, BusyIsFinite
  <2>4. CASE Len(queue') <= Len(queue) + 1 /\ Len(queue') \in Nat
               /\ producing[p] # "idle" /\ Goto(p, "idle")
    <3>1. Busy' = Busy \ {p} /\ p \in Busy
      BY <2>4 DEF Busy, Goto, ProducerInv
    <3>2. Cardinality(Busy') = Cardinality(Busy) - 1
      BY <3>1, BusyIsFinite, FS_RemoveElement
    <3> QED
      BY <1>1, <1>2, <2>2, <2>4, <3>2, BusyIsFinite
  <2>5. CASE Offer(p)
    BY <2>1, <2>3, <2>5, <1>1 DEF Offer, Accepted, Busy
  <2>6. CASE Push(p)
    <3>1. CASE HasRoom
      BY <1>1, <2>4, <2>6, <3>1 DEF Push
    <3>2. CASE ~HasRoom
      <4>1. Busy' = Busy
        BY <2>6, <3>2 DEF Push, Goto, Busy, ProducerInv
      <4> QED
        BY <1>1, <2>3, <2>6, <3>2, <4>1 DEF Push
    <3> QED
      BY <3>1, <3>2
  <2>7. CASE Evict(p)
    <3>1. Busy' = Busy
      BY <2>7 DEF Evict, Goto, Busy, ProducerInv
    <3>2. Len(queue') <= Len(queue) /\ Len(queue') \in Nat
      BY <1>1, <2>7 DEF Evict
    <3> QED
      BY <2>3, <3>1, <3>2
  <2>8. CASE Retry(p)
    <3>1. queue' = queue \/ queue' = Append(queue, InHand(p))
      BY <2>8 DEF Retry, Retried
    <3>2. Len(queue') <= Len(queue) + 1 /\ Len(queue') \in Nat
      BY <1>1, <3>1
    <3> QED
      BY <2>4, <2>8, <3>2 DEF Retry
  <2> QED
    BY <1>5, <2>5, <2>6, <2>7, <2>8 DEF Enqueue
<1>6. CASE UNCHANGED <<active, main, producing>>
             /\ (queue' = queue \/ (queue # << >> /\ queue' = Tail(queue)))
  <2>1. Len(queue') \in Nat /\ Len(queue') <= Len(queue) /\ Busy' = Busy
    BY <1>1, <1>6 DEF Busy
  <2> QED
    BY <1>1, <1>2, <1>3, <1>6, <2>1, BusyIsFinite
<1>7. CASE Mix
  BY <1>6, <1>7 DEF Mix, MixEnter, MixCheckPaused, DrainPacket, DrainEnd, Fill, Pull, Stamp,
         TapPush, Publish, Unmixed, flag_vars, control_vars
<1>8. CASE Start \/ Stop \/ TapPop
  BY <1>6, <1>8 DEF Start, Stop, SetPlaying, TapPop, Called, Unclear, queue_vars, flag_vars
<1>9. CASE ClearPop
  <2>1. queue' = << >> /\ producing' = producing
    BY <1>9 DEF ClearPop, Unclear
  <2> QED
    BY <1>2, <2>1, BusyIsFinite DEF Busy
<1>10. CASE Deactivate \/ StoreInactive \/ StorePaused \/ ClearPendingPackets
  BY <1>10 DEF Deactivate, StoreInactive, StorePaused, ClearPendingPackets, Called
<1> QED
  BY <1>4, <1>5, <1>7, <1>8, <1>9, <1>10 DEF Next, Call

\* A deactivated stream is left with the packets that were in a producer's hand, for
\* any number of producers (stream.rs:384-389).
THEOREM DeadStreamsHoldStragglers == Spec => []DeadStreamHoldsStragglersOnly
<1>1. Init => DeadStreamHoldsStragglersOnly
  BY DEF Init, DeadStreamHoldsStragglersOnly
<1>2. Spec => []StreamTypeInv
  BY StreamInitType, StreamStepType, PTL DEF Spec
<1> QED
  BY <1>1, <1>2, StragglersStep, PTL DEF Spec
-----------------------------------------------------------------------------
\* The refinement of PacketDelivery.  Of the packets of one producer, those taken come
\* before those in the queue, those before the one in its hand, and those before the
\* packets it has yet to offer.
InQueue == {queue[k] : k \in DOMAIN queue}

QueueOrdered ==
  \A j, k \in DOMAIN queue :
    j < k /\ queue[j][1] = queue[k][1] => queue[j][2] < queue[k][2]

TakenFirst == \A i \in taken : \A j \in InQueue : i[1] = j[1] => i[2] < j[2]

HandIsLast ==
  \A i \in taken \cup InQueue :
    i[2] <= offered[i[1]] /\ (producing[i[1]] # "idle" => i[2] < offered[i[1]])

LineInv == StreamTypeInv /\ QueueOrdered /\ TakenFirst /\ HandIsLast

LEMMA IdParts ==
  ASSUME NEW id \in PacketIds
  PROVE  id[1] \in Producers /\ id[2] \in Nat \ {0} /\ id = <<id[1], id[2]>>
<1>1. PICK p \in Producers : id \in {p} \X DOMAIN Voice[p]
  BY DEF PacketIds
<1>2. DOMAIN Voice[p] = 1 .. Len(Voice[p]) /\ Len(Voice[p]) \in Nat
  BY StreamAssumption
<1> QED
  BY <1>1, <1>2

LEMMA QueueElements ==
  ASSUME LineInv
  PROVE  /\ queue \in Seq(PacketIds) /\ InQueue \subseteq PacketIds /\ taken \subseteq PacketIds
         /\ InQueue \cap taken = {}
         /\ \A p \in Producers : offered[p] \in Nat
         /\ \A p \in Producers : producing[p] # "idle" =>
              InHand(p) \in PacketIds /\ InHand(p) \notin taken \cup InQueue
<1> USE DEF LineInv, StreamTypeInv
<1>1. queue \in Seq(PacketIds) /\ InQueue \subseteq PacketIds /\ taken \subseteq PacketIds
  BY DEF QueueInv, InQueue
<1>2. \A p \in Producers : offered[p] \in Nat
  BY DEF QueueInv
<1>3. InQueue \cap taken = {}
  <2> SUFFICES ASSUME NEW i \in InQueue \cap taken PROVE FALSE
    OBVIOUS
  <2>1. i[2] \in Nat /\ i[2] < i[2]
    BY <1>1, IdParts DEF TakenFirst
  <2> QED
    BY <2>1
<1>4. ASSUME NEW p \in Producers, producing[p] # "idle"
      PROVE  InHand(p) \in PacketIds /\ InHand(p) \notin taken \cup InQueue
  <2>1. offered[p] \in 1 .. Len(Voice[p])
    BY <1>2, <1>4, PacketTypes DEF ProducerInv
  <2>2. InHand(p) \in PacketIds
    BY <2>1, PacketTypes DEF InHand
  <2>3. InHand(p) \notin taken \cup InQueue
    BY <1>2, <1>4 DEF HandIsLast, InHand
  <2> QED
    BY <2>2, <2>3
<1> QED
  BY <1>1, <1>2, <1>3, <1>4

\* Where a packet is decides its status.
StatusTable ==
  \A id \in PacketIds :
    /\ id \in taken => DeliveryStatus(id) = "delivered"
    /\ id \in InQueue => DeliveryStatus(id) = "inflight"
    /\ id = InHand(id[1]) /\ producing[id[1]] # "idle" => DeliveryStatus(id) = "inflight"
    /\ id[2] > offered[id[1]] => DeliveryStatus(id) = "unsent"
    /\ ( /\ id \notin taken \cup InQueue /\ ~(id[2] > offered[id[1]])
         /\ id # InHand(id[1]) \/ producing[id[1]] = "idle" ) => DeliveryStatus(id) = "lost"

LEMMA StatusOf == LineInv => StatusTable
<1> SUFFICES ASSUME LineInv, NEW id \in PacketIds
             PROVE  /\ id \in taken => DeliveryStatus(id) = "delivered"
                    /\ id \in InQueue => DeliveryStatus(id) = "inflight"
                    /\ id = InHand(id[1]) /\ producing[id[1]] # "idle"
                         => DeliveryStatus(id) = "inflight"
                    /\ id[2] > offered[id[1]] => DeliveryStatus(id) = "unsent"
                    /\ ( /\ id \notin taken \cup InQueue /\ ~(id[2] > offered[id[1]])
                         /\ id # InHand(id[1]) \/ producing[id[1]] = "idle" )
                         => DeliveryStatus(id) = "lost"
  BY DEF StatusTable
<1>1. id[1] \in Producers /\ id[2] \in Nat /\ offered[id[1]] \in Nat
  BY IdParts, QueueElements
<1>2. id \in taken \cup InQueue => ~(id[2] > offered[id[1]])
  BY <1>1 DEF LineInv, HandIsLast
<1>3. id = InHand(id[1]) => ~(id[2] > offered[id[1]])
  BY <1>1 DEF InHand
<1>4. DeliveryStatus(id) =
        CASE id[2] > offered[id[1]] -> "unsent"
          [] id \in taken -> "delivered"
          [] id \in InQueue -> "inflight"
          [] id = InHand(id[1]) /\ producing[id[1]] # "idle" -> "inflight"
          [] OTHER -> "lost"
  BY DEF DeliveryStatus, InQueue
<1>5. id \in InQueue => id \notin taken
  BY QueueElements
<1>6. id = InHand(id[1]) /\ producing[id[1]] # "idle" => id \notin taken \cup InQueue
  BY <1>1, QueueElements
<1> QED
  BY <1>2, <1>3, <1>4, <1>5, <1>6

Mapped == [id \in PacketIds |-> DeliveryStatus(id)]

Moves(id, from, to) == Mapped[id] = from /\ Mapped' = [Mapped EXCEPT ![id] = to]

LEMMA MovesOne ==
  ASSUME NEW id \in PacketIds, NEW from, NEW to,
         DeliveryStatus(id) = from, DeliveryStatus(id)' = to,
         \A j \in PacketIds \ {id} : DeliveryStatus(j)' = DeliveryStatus(j)
  PROVE  Moves(id, from, to)
BY DEF Moves, Mapped

\* The queue with a packet appended, and without its oldest one.
LEMMA AppendedElements ==
  ASSUME NEW x \in PacketIds, queue \in Seq(PacketIds), queue' = Append(queue, x)
  PROVE  /\ InQueue' = InQueue \cup {x}
         /\ Len(queue) \in Nat /\ DOMAIN queue = 1 .. Len(queue)
         /\ DOMAIN queue' = 1 .. Len(queue) + 1 /\ queue'[Len(queue) + 1] = x
         /\ \A k \in DOMAIN queue : queue'[k] = queue[k] /\ queue[k] \in InQueue
BY DEF InQueue

LEMMA PoppedElements ==
  ASSUME queue \in Seq(PacketIds), queue # << >>, queue' = Tail(queue)
  PROVE  /\ InQueue = InQueue' \cup {Head(queue)}
         /\ 1 \in DOMAIN queue /\ Head(queue) = queue[1] /\ Head(queue) \in PacketIds
         /\ \A k \in DOMAIN queue' : k \in Nat /\ 1 < k + 1 /\ k + 1 \in DOMAIN queue
                                       /\ queue'[k] = queue[k + 1]
<1>1. /\ 1 \in DOMAIN queue /\ Head(queue) = queue[1] /\ Head(queue) \in PacketIds
      /\ \A k \in DOMAIN Tail(queue) : k \in Nat /\ 1 < k + 1 /\ k + 1 \in DOMAIN queue
                                         /\ Tail(queue)[k] = queue[k + 1]
  OBVIOUS
<1>2. \A k \in DOMAIN queue : k = 1 \/ (k - 1 \in DOMAIN Tail(queue) /\ k = (k - 1) + 1)
  OBVIOUS
<1>3. InQueue = InQueue' \cup {Head(queue)}
  BY <1>1, <1>2 DEF InQueue
<1> QED
  BY <1>1, <1>3
LEMMA LineInit == Init => LineInv
<1> SUFFICES ASSUME Init PROVE QueueOrdered /\ TakenFirst /\ HandIsLast
  BY StreamInitType DEF LineInv
<1>1. queue = << >> /\ taken = {} /\ InQueue = {}
  BY DEF Init, InQueue
<1> QED
  BY <1>1 DEF QueueOrdered, TakenFirst, HandIsLast

\* The changes of the line: none, a packet offered, one appended from a hand, and the
\* oldest one popped, taken or not.
LineStays == UNCHANGED <<queue, taken, offered>>
               /\ \A p \in Producers : producing'[p] # "idle" => producing[p] # "idle"

LineOffered(p) ==
  /\ UNCHANGED <<queue, taken>> /\ producing[p] = "idle"
  /\ offered' = [offered EXCEPT ![p] = @ + 1]
  /\ \A q \in Producers \ {p} : producing'[q] = producing[q]

LineAppended(p) ==
  /\ queue' = Append(queue, InHand(p)) /\ UNCHANGED <<taken, offered>>
  /\ producing[p] # "idle" /\ producing' = [producing EXCEPT ![p] = "idle"]

LinePopped ==
  /\ queue # << >> /\ queue' = Tail(queue) /\ offered' = offered
  /\ taken' = taken \/ taken' = taken \cup {Head(queue)}
  /\ \A p \in Producers : producing'[p] # "idle" => producing[p] # "idle"

LEMMA StaysKeepsLine ==
  ASSUME LineInv, StreamTypeInv', LineStays
  PROVE  LineInv'
<1>1. queue' = queue /\ taken' = taken /\ offered' = offered /\ InQueue' = InQueue
  BY DEF LineStays, InQueue
<1>2. \A i \in taken \cup InQueue : i[1] \in Producers
  BY QueueElements, IdParts
<1>3. HandIsLast'
  BY <1>1, <1>2 DEF LineInv, LineStays, HandIsLast
<1> QED
  BY <1>1, <1>3 DEF LineInv, QueueOrdered, TakenFirst

LEMMA OfferedKeepsLine ==
  ASSUME LineInv, StreamTypeInv', NEW p \in Producers, LineOffered(p)
  PROVE  LineInv'
<1>1. queue' = queue /\ taken' = taken /\ InQueue' = InQueue
  BY DEF LineOffered, InQueue
<1>2. offered \in [Producers -> Nat]
  BY DEF LineInv, StreamTypeInv, QueueInv
<1>3. ASSUME NEW i \in taken \cup InQueue
      PROVE  i[2] <= offered'[i[1]] /\ (producing'[i[1]] # "idle" => i[2] < offered'[i[1]])
  <2>1. i[1] \in Producers /\ i[2] \in Nat /\ i[2] <= offered[i[1]]
    BY QueueElements, IdParts DEF LineInv, HandIsLast
  <2>2. CASE i[1] = p
    <3>1. offered'[p] = offered[p] + 1 /\ offered[p] \in Nat
      BY <1>2 DEF LineOffered
    <3> QED
      BY <2>1, <2>2, <3>1
  <2>3. CASE i[1] # p
    <3>1. offered'[i[1]] = offered[i[1]] /\ producing'[i[1]] = producing[i[1]]
      BY <1>2, <2>1, <2>3 DEF LineOffered
    <3> QED
      BY <2>1, <3>1 DEF LineInv, HandIsLast
  <2> QED
    BY <2>2, <2>3
<1>4. HandIsLast'
  BY <1>1, <1>3 DEF HandIsLast
<1> QED
  BY <1>1, <1>4 DEF LineInv, QueueOrdered, TakenFirst

LEMMA AppendedKeepsLine ==
  ASSUME LineInv, StreamTypeInv', NEW p \in Producers, LineAppended(p)
  PROVE  LineInv'
<1> DEFINE x == InHand(p)
<1>1. x \in PacketIds /\ x[1] = p /\ x[2] = offered[p] /\ offered[p] \in Nat
  BY QueueElements DEF LineAppended, InHand
<1>2. /\ queue \in Seq(PacketIds) /\ queue' = Append(queue, x)
      /\ taken' = taken /\ offered' = offered
  BY QueueElements DEF LineAppended
<1> HIDE DEF x
<1>3. /\ InQueue' = InQueue \cup {x}
      /\ Len(queue) \in Nat /\ DOMAIN queue = 1 .. Len(queue)
      /\ DOMAIN queue' = 1 .. Len(queue) + 1 /\ queue'[Len(queue) + 1] = x
      /\ \A k \in DOMAIN queue : queue'[k] = queue[k] /\ queue[k] \in InQueue
  BY <1>1, <1>2, AppendedElements
<1>4. \A i \in taken \cup InQueue : i[1] = x[1] => i[2] < x[2]
  BY <1>1 DEF LineInv, HandIsLast, LineAppended
<1>5. QueueOrdered'
  <2> SUFFICES ASSUME NEW j \in DOMAIN queue', NEW k \in DOMAIN queue',
                      j < k, queue'[j][1] = queue'[k][1]
               PROVE  queue'[j][2] < queue'[k][2]
    BY DEF QueueOrdered
  <2>1. j \in DOMAIN queue
    BY <1>3
  <2>2. CASE k \in DOMAIN queue
    BY <1>3, <2>1, <2>2 DEF LineInv, QueueOrdered
  <2>3. CASE k = Len(queue) + 1
    BY <1>3, <1>4, <2>1, <2>3
  <2> QED
    BY <1>3, <2>2, <2>3
<1>6. TakenFirst'
  BY <1>2, <1>3, <1>4 DEF LineInv, TakenFirst
<1>7. HandIsLast'
  <2> SUFFICES ASSUME NEW i \in taken \cup InQueue \cup {x}
               PROVE  i[2] <= offered[i[1]]
                        /\ (producing'[i[1]] # "idle" => i[2] < offered[i[1]])
    BY <1>2, <1>3 DEF HandIsLast
  <2>1. \A q \in Producers \ {p} : producing'[q] = producing[q]
    BY DEF LineAppended, LineInv, StreamTypeInv, ProducerInv
  <2>2. producing'[p] = "idle"
    BY DEF LineAppended, LineInv, StreamTypeInv, ProducerInv
  <2>3. CASE i = x
    BY <1>1, <2>2, <2>3
  <2>4. CASE i \in taken \cup InQueue
    <3>1. i[1] \in Producers
      BY <2>4, QueueElements, IdParts
    <3> QED
      BY <2>1, <2>2, <2>4, <3>1 DEF LineInv, HandIsLast
  <2> QED
    BY <2>3, <2>4
<1> QED
  BY <1>5, <1>6, <1>7 DEF LineInv

LEMMA PoppedKeepsLine ==
  ASSUME LineInv, StreamTypeInv', LinePopped
  PROVE  LineInv' /\ Head(queue) \notin InQueue'
<1> DEFINE x == Head(queue)
<1>1. /\ InQueue = InQueue' \cup {x}
      /\ 1 \in DOMAIN queue /\ x = queue[1] /\ x \in PacketIds
      /\ \A k \in DOMAIN queue' : k \in Nat /\ 1 < k + 1 /\ k + 1 \in DOMAIN queue
                                    /\ queue'[k] = queue[k + 1]
  BY QueueElements, PoppedElements DEF LinePopped
<1> HIDE DEF x
<1>2. \A j \in InQueue' : x[1] = j[1] => x[2] < j[2]
  <2>1. \A k \in DOMAIN queue' : x[1] = queue'[k][1] => x[2] < queue'[k][2]
    BY <1>1 DEF LineInv, QueueOrdered
  <2> QED
    BY <2>1 DEF InQueue
<1>3. x \notin InQueue'
  <2>1. x[2] \in Nat
    BY <1>1, IdParts
  <2> QED
    BY <1>2, <2>1
<1>4. QueueOrdered'
  <2> SUFFICES ASSUME NEW j \in DOMAIN queue', NEW k \in DOMAIN queue',
                      j < k, queue'[j][1] = queue'[k][1]
               PROVE  queue'[j][2] < queue'[k][2]
    BY DEF QueueOrdered
  <2>1. /\ j + 1 \in DOMAIN queue /\ k + 1 \in DOMAIN queue /\ j + 1 < k + 1
        /\ queue'[j] = queue[j + 1] /\ queue'[k] = queue[k + 1]
    BY <1>1
  <2> QED
    BY <2>1 DEF LineInv, QueueOrdered
<1>5. TakenFirst'
  <2>1. taken' \subseteq taken \cup {x}
    BY DEF LinePopped, x
  <2> QED
    BY <1>1, <1>2, <2>1 DEF LineInv, TakenFirst
<1>6. HandIsLast'
  <2>1. taken' \cup InQueue' \subseteq taken \cup InQueue /\ offered' = offered
    BY <1>1 DEF LinePopped, x
  <2>2. \A i \in taken \cup InQueue : i[1] \in Producers
    BY QueueElements, IdParts
  <2> QED
    BY <2>1, <2>2 DEF LineInv, HandIsLast, LinePopped
<1> QED
  BY <1>3, <1>4, <1>5, <1>6 DEF LineInv, x
SameBusy == \A p \in Producers : producing'[p] # "idle" <=> producing[p] # "idle"

LEMMA UnmovedStatus ==
  ASSUME UNCHANGED <<queue, taken, offered>>, SameBusy
  PROVE  Mapped' = Mapped
<1>1. ASSUME NEW id \in PacketIds PROVE DeliveryStatus(id)' = DeliveryStatus(id)
  <2>1. id[1] \in Producers /\ InHand(id[1])' = InHand(id[1])
    BY IdParts DEF InHand
  <2> QED
    BY <2>1 DEF DeliveryStatus, SameBusy
<1> QED
  BY <1>1 DEF Mapped

LEMMA OfferedStatus ==
  ASSUME LineInv, LineInv', NEW p \in Producers, LineOffered(p), offered[p] < Len(Voice[p])
  PROVE  \E id \in PacketIds :
           Moves(id, "unsent", IF producing'[p] = "idle" THEN "lost" ELSE "inflight")
<1>1. offered[p] \in Nat /\ offered \in [Producers -> Nat]
  BY DEF LineInv, StreamTypeInv, QueueInv
<1>2. PICK k \in Nat : k = offered[p] + 1
  BY <1>1
<1>3. k > offered[p] /\ offered' = [offered EXCEPT ![p] = k] /\ offered'[p] = k
        /\ ~(k > offered'[p]) /\ <<p, k>> \in PacketIds
  BY <1>1, <1>2, PacketTypes DEF LineOffered
<1>4. PICK x \in PacketIds : x = <<p, k>> /\ x[1] = p /\ x[2] = k
  BY <1>3
<1>5. UNCHANGED <<taken, InQueue>>
  BY DEF LineOffered, InQueue
<1>6. StatusTable /\ StatusTable'
  BY StatusOf, PTL
<1>7. DeliveryStatus(x) = "unsent" /\ x \notin taken \cup InQueue
  <2>1. ~(x[2] <= offered[x[1]])
    BY <1>1, <1>3, <1>4
  <2> QED
    BY <1>3, <1>4, <1>6, <2>1 DEF StatusTable, LineInv, HandIsLast
<1>8. x = InHand(p)'
  BY <1>3, <1>4 DEF InHand
<1>9. DeliveryStatus(x)' = IF producing'[p] = "idle" THEN "lost" ELSE "inflight"
  <2>1. x[1] = p /\ ~(x[2] > offered'[x[1]]) /\ x \notin (taken \cup InQueue)'
    BY <1>3, <1>4, <1>5, <1>7
  <2>2. CASE producing'[p] = "idle"
    BY <1>6, <2>1, <2>2 DEF StatusTable
  <2>3. CASE producing'[p] # "idle"
    <3>1. x = InHand(x[1])'
      BY <1>4, <1>8
    <3> QED
      BY <1>6, <2>1, <2>3, <3>1 DEF StatusTable
  <2> QED
    BY <2>2, <2>3
<1>10. ASSUME NEW j \in PacketIds \ {x} PROVE DeliveryStatus(j)' = DeliveryStatus(j)
  <2>1. j[1] \in Producers /\ j[2] \in Nat /\ j = <<j[1], j[2]>>
    BY IdParts
  <2>2. CASE j[1] # p
    <3>1. offered'[j[1]] = offered[j[1]] /\ producing'[j[1]] = producing[j[1]]
      BY <1>1, <1>3, <2>1, <2>2 DEF LineOffered
    <3> QED
      BY <1>5, <3>1 DEF DeliveryStatus, InHand, LineOffered
  <2>3. CASE j[1] = p
    <3>1. j[2] # k /\ j # InHand(p)'
      BY <1>4, <1>8, <2>1, <2>3
    <3>2. (j[2] > offered[p]) <=> (j[2] > offered'[p])
      BY <1>1, <1>2, <1>3, <2>1, <3>1
    <3>3. producing[p] = "idle"
      BY DEF LineOffered
    <3>4. InHand(j[1])' = InHand(p)'
      BY <2>3
    <3> QED
      BY <1>5, <1>6, <2>3, <3>1, <3>2, <3>3, <3>4 DEF DeliveryStatus, LineOffered
  <2> QED
    BY <2>2, <2>3
<1> QED
  BY <1>7, <1>9, <1>10, MovesOne

\* A packet in a hand is in flight as one in the queue is.
LEMMA AppendedStatus ==
  ASSUME LineInv, LineInv', NEW p \in Producers, LineAppended(p)
  PROVE  Mapped' = Mapped
<1>1. PICK x \in PacketIds : x = InHand(p)
  BY QueueElements DEF LineAppended
<1>2. InQueue' = InQueue \cup {x} /\ taken' = taken /\ offered' = offered
  BY <1>1, QueueElements, AppendedElements DEF LineAppended
<1>3. producing'[p] = "idle" /\ \A q \in Producers \ {p} : producing'[q] = producing[q]
  BY DEF LineAppended, LineInv, StreamTypeInv, ProducerInv
<1>4. StatusTable /\ StatusTable'
  BY StatusOf, PTL
<1>5. ASSUME NEW j \in PacketIds PROVE DeliveryStatus(j)' = DeliveryStatus(j)
  <2>1. CASE j = x
    <3>1. j[1] = p
      BY <1>1, <2>1 DEF InHand
    <3> QED
      BY <1>1, <1>2, <1>4, <2>1, <3>1 DEF StatusTable, LineAppended
  <2>2. CASE j # x
    <3>1. j[1] \in Producers /\ InHand(j[1])' = InHand(j[1])
      BY <1>2, IdParts DEF InHand
    <3>2. j[1] = p => j # InHand(j[1])
      BY <1>1, <2>2
    <3>3. j \in InQueue' <=> j \in InQueue
      BY <1>2, <2>2
    <3> QED
      BY <1>2, <1>3, <3>1, <3>2, <3>3 DEF DeliveryStatus, InQueue
  <2> QED
    BY <2>1, <2>2
<1> QED
  BY <1>5 DEF Mapped

\* The oldest packet leaves the queue.
LEMMA PoppedStatus ==
  ASSUME LineInv, LineInv', LinePopped, SameBusy
  PROVE  \E x \in PacketIds :
           /\ x \in InQueue
           /\ taken' = taken => Moves(x, "inflight", "lost")
           /\ taken' # taken => Moves(x, "inflight", "delivered")
<1>1. PICK x \in PacketIds : x = Head(queue) /\ InQueue = InQueue' \cup {x}
  BY QueueElements, PoppedElements DEF LinePopped
<1>2. x \notin InQueue' /\ x \in InQueue /\ x \notin taken
  BY <1>1, PoppedKeepsLine, QueueElements DEF LineInv
<1>3. offered' = offered /\ (taken' = taken \/ taken' = taken \cup {x})
  BY <1>1 DEF LinePopped
<1>4. StatusTable /\ StatusTable'
  BY StatusOf, PTL
<1>5. DeliveryStatus(x) = "inflight"
  BY <1>2, <1>4 DEF StatusTable
<1>6. taken' # taken => DeliveryStatus(x)' = "delivered"
  BY <1>3, <1>4 DEF StatusTable
<1>7. taken' = taken => DeliveryStatus(x)' = "lost"
  <2>1. x[1] \in Producers /\ InHand(x[1])' = InHand(x[1]) /\ x[2] \in Nat
          /\ offered[x[1]] \in Nat
    BY <1>3, IdParts, QueueElements DEF InHand
  <2>2. x # InHand(x[1]) \/ producing[x[1]] = "idle"
    BY <1>2, <2>1, QueueElements
  <2>3. x # InHand(x[1])' \/ producing'[x[1]] = "idle"
    BY <2>1, <2>2 DEF SameBusy
  <2>4. ~(x[2] > offered'[x[1]])
    BY <1>2, <1>3, <2>1 DEF LineInv, HandIsLast
  <2> QED
    BY <1>2, <1>4, <2>3, <2>4 DEF StatusTable
<1>8. ASSUME NEW j \in PacketIds \ {x} PROVE DeliveryStatus(j)' = DeliveryStatus(j)
  <2>1. j[1] \in Producers /\ InHand(j[1])' = InHand(j[1])
    BY <1>3, IdParts DEF InHand
  <2>2. (j \in InQueue' <=> j \in InQueue) /\ (j \in taken' <=> j \in taken)
    BY <1>1, <1>3
  <2> QED
    BY <1>3, <2>1, <2>2 DEF DeliveryStatus, InQueue, SameBusy
<1> QED
  BY <1>2, <1>5, <1>6, <1>7, <1>8, MovesOne

\* The second push finds the queue full again.
LEMMA DroppedStatus ==
  ASSUME LineInv, LineInv', NEW p \in Producers, producing[p] # "idle",
         UNCHANGED <<queue, taken, offered>>, producing' = [producing EXCEPT ![p] = "idle"]
  PROVE  \E x \in PacketIds : Moves(x, "inflight", "lost")
<1>1. PICK x \in PacketIds : x = InHand(p) /\ x \notin taken \cup InQueue
  BY QueueElements
<1>2. producing'[p] = "idle" /\ \A q \in Producers \ {p} : producing'[q] = producing[q]
  BY DEF LineInv, StreamTypeInv, ProducerInv
<1>3. StatusTable /\ StatusTable'
  BY StatusOf, PTL
<1>4. x[1] = p /\ x[2] = offered[p] /\ offered[p] \in Nat /\ InQueue' = InQueue
  BY <1>1, QueueElements DEF InHand, InQueue
<1>5. DeliveryStatus(x) = "inflight" /\ DeliveryStatus(x)' = "lost"
  BY <1>1, <1>2, <1>3, <1>4 DEF StatusTable
<1>6. ASSUME NEW j \in PacketIds \ {x} PROVE DeliveryStatus(j)' = DeliveryStatus(j)
  <2>1. j[1] \in Producers /\ InHand(j[1])' = InHand(j[1])
    BY IdParts DEF InHand
  <2>2. j[1] = p => j # InHand(j[1])
    BY <1>1
  <2> QED
    BY <1>2, <2>1, <2>2 DEF DeliveryStatus
<1> QED
  BY <1>5, <1>6, MovesOne
\* Each of these moves is a step of PacketDelivery.
LEMMA MovesAreDelivery ==
  ASSUME NEW x \in PacketIds
  PROVE  /\ Moves(x, "unsent", "inflight") => Delivery!Next
         /\ Moves(x, "unsent", "lost") => Delivery!Next
         /\ Moves(x, "inflight", "lost") => Delivery!Next
         /\ ( /\ Moves(x, "inflight", "delivered")
              /\ \A j \in PacketIds : <<x, j>> \in SameProducerPairs => Mapped[j] # "delivered" )
              => Delivery!Next
<1>1. Moves(x, "unsent", "inflight") => Delivery!Send(x)
  BY DEF Moves, Mapped, Delivery!Send, Delivery!Move
<1>2. Moves(x, "unsent", "lost") => Delivery!Refuse(x)
  BY DEF Moves, Mapped, Delivery!Refuse, Delivery!Move
<1>3. ASSUME Moves(x, "inflight", "lost")
      PROVE  /\ {x} \in SUBSET {i \in PacketIds : Mapped[i] = "inflight"}
             /\ Delivery!Lose({x})
  <2>1. {x} \in SUBSET {i \in PacketIds : Mapped[i] = "inflight"}
    BY <1>3 DEF Moves
  <2>2. Mapped' = [i \in PacketIds |-> IF i \in {x} THEN "lost" ELSE Mapped[i]]
    BY <1>3 DEF Moves, Mapped
  <2> QED
    BY <2>1, <2>2 DEF Mapped, Delivery!Lose
<1>4. ( /\ Moves(x, "inflight", "delivered")
        /\ \A j \in PacketIds : <<x, j>> \in SameProducerPairs => Mapped[j] # "delivered" )
        => Delivery!Deliver(x)
  BY DEF Moves, Mapped, Delivery!Deliver, Delivery!Move
<1> QED
  BY <1>1, <1>2, <1>3, <1>4 DEF Delivery!Next, Mapped

LEMMA EnqueueDelivers ==
  ASSUME LineInv, StreamTypeInv', NEW p \in Producers, Enqueue(p)
  PROVE  LineInv' /\ (Delivery!Next \/ Mapped' = Mapped)
<1>1. producing \in [Producers -> {"idle", "push", "evict", "retry"}] /\ taken' = taken
  BY DEF LineInv, StreamTypeInv, ProducerInv, Enqueue, Offer, Push, Evict, Retry, Unenqueued
<1>2. ASSUME UNCHANGED <<queue, offered>>, SameBusy
      PROVE  LineInv' /\ Mapped' = Mapped
  BY <1>1, <1>2, StaysKeepsLine, UnmovedStatus DEF LineStays, SameBusy
<1>3. CASE Offer(p)
  <2>1. LineOffered(p) /\ offered[p] < Len(Voice[p])
    BY <1>1, <1>3 DEF Offer, Goto, LineOffered
  <2>2. LineInv'
    BY <2>1, OfferedKeepsLine
  <2> QED
    BY <2>1, <2>2, OfferedStatus, MovesAreDelivery
<1>4. ASSUME queue' = Append(queue, InHand(p)), offered' = offered, producing[p] # "idle",
             Goto(p, "idle")
      PROVE  LineInv' /\ Mapped' = Mapped
  <2>1. LineAppended(p)
    BY <1>1, <1>4 DEF LineAppended, Goto
  <2> QED
    BY <2>1, AppendedKeepsLine, AppendedStatus
<1>5. CASE Push(p)
  <2>1. CASE HasRoom
    BY <1>4, <1>5, <2>1 DEF Push
  <2>2. CASE ~HasRoom
    <3>1. SameBusy
      BY <1>1, <1>5, <2>2 DEF Push, Goto, SameBusy
    <3> QED
      BY <1>2, <1>5, <2>2, <3>1 DEF Push
  <2> QED
    BY <2>1, <2>2
<1>6. CASE Evict(p)
  <2>1. SameBusy
    BY <1>1, <1>6 DEF Evict, Goto, SameBusy
  <2>2. CASE queue = << >>
    BY <1>2, <1>6, <2>1, <2>2 DEF Evict
  <2>3. CASE queue # << >>
    <3>1. LinePopped
      BY <1>1, <1>6, <2>1, <2>3 DEF Evict, LinePopped, SameBusy
    <3>2. LineInv'
      BY <3>1, PoppedKeepsLine
    <3> QED
      BY <1>1, <2>1, <3>1, <3>2, PoppedStatus, MovesAreDelivery
  <2> QED
    BY <2>2, <2>3
<1>7. CASE Retry(p)
  <2>1. CASE HasRoom
    BY <1>4, <1>7, <2>1 DEF Retry, Retried
  <2>2. CASE ~HasRoom
    <3>1. UNCHANGED <<queue, taken, offered>> /\ producing[p] # "idle"
            /\ producing' = [producing EXCEPT ![p] = "idle"]
      BY <1>1, <1>7, <2>2 DEF Retry, Retried, Goto
    <3>2. LineStays
      BY <1>1, <3>1 DEF LineStays
    <3>3. LineInv'
      BY <3>2, StaysKeepsLine
    <3> QED
      BY <3>1, <3>3, DroppedStatus, MovesAreDelivery
  <2> QED
    BY <2>1, <2>2
<1> QED
  BY <1>3, <1>5, <1>6, <1>7 DEF Enqueue

LEMMA OthersDeliver ==
  ASSUME LineInv, StreamTypeInv', Mix \/ Call \/ TapPop \/ UNCHANGED vars
  PROVE  LineInv' /\ (Delivery!Next \/ Mapped' = Mapped)
<1>1. offered' = offered /\ producing' = producing
  BY DEF Mix, MixEnter, MixCheckPaused, DrainPacket, DrainEnd, Fill, Pull, Stamp, TapPush,
     Publish, Unmixed, Call, Start, Stop, SetPlaying, Deactivate, StoreInactive, StorePaused,
     ClearPendingPackets, ClearPop, TapPop, Unclear, queue_vars, vars
<1>2. SameBusy
  BY <1>1 DEF SameBusy
<1>3. ASSUME UNCHANGED <<queue, taken>> PROVE LineInv' /\ Mapped' = Mapped
  BY <1>1, <1>2, <1>3, StaysKeepsLine, UnmovedStatus DEF LineStays, SameBusy
<1>4. CASE DrainPacket
  <2>1. queue # << >> /\ queue' = Tail(queue) /\ taken' = taken \cup {Head(queue)}
    BY <1>4 DEF DrainPacket
  <2>2. LinePopped
    BY <1>1, <1>2, <2>1 DEF LinePopped, SameBusy
  <2>3. LineInv'
    BY <2>2, PoppedKeepsLine
  <2>4. PICK x \in PacketIds :
          /\ x \in InQueue
          /\ taken' = taken => Moves(x, "inflight", "lost")
          /\ taken' # taken => Moves(x, "inflight", "delivered")
    BY <1>2, <2>2, <2>3, PoppedStatus
  <2>5. \A j \in PacketIds : <<x, j>> \in SameProducerPairs => Mapped[j] # "delivered"
    <3> SUFFICES ASSUME NEW j \in PacketIds, <<x, j>> \in SameProducerPairs,
                        DeliveryStatus(j) = "delivered"
                 PROVE  FALSE
      BY DEF Mapped
    <3>1. j \in taken
      BY DEF DeliveryStatus
    <3>2. x[1] = j[1] /\ x[2] < j[2] /\ x[2] \in Nat /\ j[2] \in Nat
      BY IdParts DEF SameProducerPairs
    <3> QED
      BY <2>4, <3>1, <3>2 DEF LineInv, TakenFirst
  <2> QED
    BY <2>3, <2>4, <2>5, MovesAreDelivery
<1>5. CASE ClearPop /\ queue # << >>
  <2>1. LinePopped /\ taken' = taken
    BY <1>1, <1>2, <1>5 DEF ClearPop, Unclear, LinePopped, SameBusy
  <2>2. LineInv'
    BY <2>1, PoppedKeepsLine
  <2> QED
    BY <1>2, <2>1, <2>2, PoppedStatus, MovesAreDelivery
<1>6. CASE ClearPop /\ queue = << >>
  BY <1>3, <1>6 DEF ClearPop, Unclear
<1>7. CASE MixEnter \/ MixCheckPaused \/ DrainEnd \/ Fill \/ Pull \/ Stamp \/ TapPush
             \/ Publish \/ Start \/ Stop \/ Deactivate \/ StoreInactive \/ StorePaused
             \/ ClearPendingPackets \/ TapPop \/ UNCHANGED vars
  BY <1>3, <1>7 DEF MixEnter, MixCheckPaused, DrainEnd, Fill, Pull, Stamp, TapPush, Publish,
     Start, Stop, SetPlaying, Deactivate, StoreInactive, StorePaused, ClearPendingPackets,
     TapPop, Unclear, queue_vars, vars
<1> QED
  BY <1>4, <1>5, <1>6, <1>7 DEF Mix, Call

\* The stream implements PacketDelivery: whatever pops the queue, and however full it is,
\* a packet is given to the receiver at most once, and those of one producer in order
\* (stream.rs:223-230, 374-389, 681-688).
THEOREM StreamDelivers == Spec => ImplementsDelivery
<1>1. Init => Delivery!Init
  <2> SUFFICES ASSUME Init PROVE Mapped = [i \in PacketIds |-> "unsent"]
    BY DEF Delivery!Init, Mapped
  <2>1. ASSUME NEW id \in PacketIds PROVE DeliveryStatus(id) = "unsent"
    <3>1. id[2] > offered[id[1]]
      BY IdParts DEF Init
    <3>2. taken = {} /\ InQueue = {} /\ producing[id[1]] = "idle"
      BY IdParts DEF Init, InQueue
    <3> QED
      BY <3>1, <3>2 DEF DeliveryStatus, InQueue
  <2> QED
    BY <2>1 DEF Mapped
<1>2. LineInv /\ [Next]_vars => LineInv' /\ [Delivery!Next]_Mapped
  <2> SUFFICES ASSUME LineInv, [Next]_vars
               PROVE  LineInv' /\ (Delivery!Next \/ Mapped' = Mapped)
    OBVIOUS
  <2>1. StreamTypeInv'
    BY StreamStepType DEF LineInv
  <2> QED
    BY <2>1, EnqueueDelivers, OthersDeliver DEF Next
<1> QED
  BY <1>1, <1>2, LineInit, PTL DEF Spec, ImplementsDelivery, Delivery!Spec, Mapped

-----------------------------------------------------------------------------
\* A pause is left over in front of no media

\* The packets lie within half of the number space, so that their numbers tell the order
\* they were made in (VoiceProofs, NewerInWindow: 2^15 numbers in the code).
NumbersTellOrder ==
  \A i, j \in PacketIds :
    SequenceIsNewer(PacketOf(i).seq, PacketOf(j).seq)
      <=> PacketOf(i).hist.idx > PacketOf(j).hist.idx

\* The encoder's packets are media or END, never both.
EndsHoldNoMedia == \A id \in PacketIds : ~(PacketOf(id).media /\ PacketOf(id).end)

\* NetEq takes every packet.
NothingRefused == InsertOutcomes = {TRUE}

NewestIsMedia == newest # None /\ newest.media

\* The receiver remembers the newest media it was given; what else is newer is no media.
LastInv ==
  IF last_media = None THEN ~NewestIsMedia
  ELSE /\ newest # None
       /\ \E id \in PacketIds :
            /\ last_media.seq = PacketOf(id).seq
            /\ PacketOf(id).hist.idx <= newest.hist.idx
            /\ newest.media => PacketOf(id).hist.idx = newest.hist.idx

\* A silence goes back to an END that no media is newer than.
SilenceInv ==
  pending_silence \/ intentional_silence =>
    /\ newest # None /\ ~newest.media
    /\ end_of_talkspurt_seq # None
    /\ \E id \in PacketIds : /\ end_of_talkspurt_seq = PacketOf(id).seq
                             /\ PacketOf(id).hist.idx <= newest.hist.idx

PauseInv ==
  /\ main = "pausing" => ~active
  /\ mixer.at \in {"idle", "paused"} /\ active /\ playout_paused => ~NewestIsMedia

WakeInv == StreamTypeInv /\ LastInv /\ SilenceInv /\ PauseInv

NewestVars == <<newest, last_media, end_of_talkspurt_seq>>

\* The receiver's invariants hold on as long as it is given nothing and no silence begins.
LEMMA KeepsNewest ==
  ASSUME LastInv, SilenceInv, UNCHANGED NewestVars,
         pending_silence' \/ intentional_silence' => pending_silence \/ intentional_silence
  PROVE  LastInv' /\ SilenceInv' /\ NewestIsMedia' = NewestIsMedia
BY DEF NewestVars, LastInv, SilenceInv, NewestIsMedia, PacketOf

LEMMA NewerIsHigher ==
  ASSUME NumbersTellOrder, LastInv, NEW new \in PacketIds, last_media # None
  PROVE  \E id \in PacketIds :
           /\ PacketOf(id).hist.idx <= newest.hist.idx
           /\ newest.media => PacketOf(id).hist.idx = newest.hist.idx
           /\ PacketIsNewer(PacketOf(new)) <=> PacketOf(new).hist.idx > PacketOf(id).hist.idx
<1>1. PICK id \in PacketIds :
        /\ last_media.seq = PacketOf(id).seq
        /\ PacketOf(id).hist.idx <= newest.hist.idx
        /\ newest.media => PacketOf(id).hist.idx = newest.hist.idx
  BY DEF LastInv
<1>2. PacketIsNewer(PacketOf(new)) <=> SequenceIsNewer(PacketOf(new).seq, PacketOf(id).seq)
  BY <1>1 DEF PacketIsNewer
<1> QED
  BY <1>1, <1>2 DEF NumbersTellOrder

\* A packet is given to the receiver.
LEMMA DrainKeepsNewest ==
  ASSUME NumbersTellOrder, EndsHoldNoMedia, NothingRefused, StreamTypeInv, LastInv, SilenceInv,
         NEW new \in PacketIds, PushPacket(PacketOf(new), TRUE),
         newest' = NewerOf(newest, PacketOf(new))
  PROVE  LastInv' /\ SilenceInv'
<1>1. PICK pkt \in VoicePackets : pkt = PacketOf(new)
  BY PacketTypes
<1>2. pkt.hist.idx \in Nat /\ pkt.media \in BOOLEAN /\ pkt # None /\ pkt.seq \in SeqNumber
  BY <1>1, ReceiverAssumption DEF VoicePackets, Histories
<1>3. newest # None => newest.hist.idx \in Nat /\ newest.media \in BOOLEAN
  BY DEF StreamTypeInv, QueueInv, VoicePackets, Histories
<1>4. newest' = IF newest = None \/ pkt.hist.idx > newest.hist.idx THEN pkt ELSE newest
  BY <1>1 DEF NewerOf
<1>5. \A id \in PacketIds : PacketOf(id).hist.idx \in Nat /\ PacketOf(id).seq \in SeqNumber
  BY PacketTypes DEF VoicePackets, Histories
<1>6. newest' # None /\ newest'.hist.idx \in Nat /\ pkt.hist.idx <= newest'.hist.idx
        /\ (newest # None => newest.hist.idx <= newest'.hist.idx)
  BY <1>2, <1>3, <1>4
<1>7. last_media # None =>
        \E id \in PacketIds :
          /\ PacketOf(id).hist.idx <= newest.hist.idx
          /\ newest.media => PacketOf(id).hist.idx = newest.hist.idx
          /\ PacketIsNewer(pkt) <=> pkt.hist.idx > PacketOf(id).hist.idx
  BY <1>1, NewerIsHigher
<1>8. last_media = None => PacketIsNewer(pkt) /\ ~NewestIsMedia
  BY DEF PacketIsNewer, LastInv
<1>9. last_media' = IF pkt.media /\ PacketIsNewer(pkt)
                    THEN [seq |-> pkt.seq, timestamp |-> pkt.timestamp] ELSE last_media
  BY <1>1 DEF PushPacket
<1>10. [seq |-> pkt.seq, timestamp |-> pkt.timestamp] # None
  BY <1>2, ReceiverAssumption DEF VoicePackets
<1>11. LastInv'
  <2>1. CASE pkt.media /\ PacketIsNewer(pkt)
    <3>1. last_media' # None /\ last_media'.seq = PacketOf(new).seq
      BY <1>1, <1>9, <1>10, <2>1
    <3>2. newest'.media => pkt.hist.idx = newest'.hist.idx
      <4>1. CASE last_media = None
        BY <1>2, <1>3, <1>4, <1>8, <4>1 DEF NewestIsMedia
      <4>2. CASE last_media # None
        BY <1>2, <1>3, <1>4, <1>5, <1>7, <2>1, <4>2
      <4> QED
        BY <4>1, <4>2
    <3>3. /\ last_media'.seq = PacketOf(new).seq
          /\ PacketOf(new).hist.idx <= newest'.hist.idx
          /\ newest'.media => PacketOf(new).hist.idx = newest'.hist.idx
      BY <1>1, <1>6, <3>1, <3>2
    <3> QED
      BY <1>6, <3>1, <3>3 DEF LastInv, PacketOf
  <2>2. CASE ~(pkt.media /\ PacketIsNewer(pkt)) /\ last_media = None
    BY <1>4, <1>8, <1>9, <2>2 DEF LastInv, NewestIsMedia
  <2>3. CASE ~(pkt.media /\ PacketIsNewer(pkt)) /\ last_media # None
    <3>1. last_media' = last_media
      BY <1>9, <2>3
    <3>2. newest # None
      BY <2>3 DEF LastInv
    <3>3. newest' = newest \/ ~newest'.media
      <4>1. SUFFICES ASSUME pkt.media, pkt.hist.idx > newest.hist.idx PROVE FALSE
        BY <1>4, <3>2
      <4> QED
        BY <1>2, <1>3, <1>5, <1>7, <2>3, <3>2, <4>1
    <3>4. PICK id \in PacketIds :
            /\ last_media.seq = PacketOf(id).seq
            /\ PacketOf(id).hist.idx <= newest.hist.idx
            /\ newest.media => PacketOf(id).hist.idx = newest.hist.idx
      BY <2>3 DEF LastInv
    <3>5. PacketOf(id).hist.idx <= newest'.hist.idx
      BY <1>3, <1>5, <1>6, <3>2, <3>4
    <3> QED
      BY <1>6, <2>3, <3>1, <3>3, <3>4, <3>5 DEF LastInv, PacketOf
  <2> QED
    BY <2>1, <2>2, <2>3
<1>12. /\ pending_silence' = (ClosesTalkspurt(pkt) \/ (pending_silence /\ ~OpensTalkspurt(pkt)))
       /\ intentional_silence' = (intentional_silence /\ ~OpensTalkspurt(pkt))
  BY <1>1, Zenon DEF PushPacket
<1>13. end_of_talkspurt_seq' = CASE ClosesTalkspurt(pkt) -> pkt.seq
                                 [] OpensTalkspurt(pkt) /\ ~ClosesTalkspurt(pkt) -> None
                                 [] OTHER -> end_of_talkspurt_seq
  BY <1>1, Zenon DEF PushPacket
<1>14. CASE ClosesTalkspurt(pkt)
  <2>1. pkt.end /\ PacketIsNewer(pkt) /\ ~pkt.media
    BY <1>1, <1>14 DEF ClosesTalkspurt, EndsHoldNoMedia
  <2>2. ~newest'.media
    <3>1. CASE last_media = None
      BY <1>4, <1>8, <2>1, <3>1 DEF NewestIsMedia
    <3>2. CASE last_media # None
      BY <1>2, <1>3, <1>4, <1>5, <1>7, <2>1, <3>2
    <3> QED
      BY <3>1, <3>2
  <2>3. end_of_talkspurt_seq' = PacketOf(new).seq
    BY <1>1, <1>13, <1>14
  <2>4. end_of_talkspurt_seq' # None
    BY <1>1, <1>2, <2>3, ReceiverAssumption
  <2> QED
    BY <1>1, <1>6, <1>11, <2>2, <2>3, <2>4 DEF SilenceInv, PacketOf
<1>15. CASE ~ClosesTalkspurt(pkt)
  <2>1. SUFFICES ASSUME pending_silence \/ intentional_silence, ~OpensTalkspurt(pkt)
                 PROVE  SilenceInv'
    BY <1>11, <1>12, <1>15 DEF SilenceInv
  <2>2. end_of_talkspurt_seq' = end_of_talkspurt_seq /\ end_of_talkspurt_seq # None
          /\ newest # None /\ ~newest.media
    BY <1>13, <1>15, <2>1 DEF SilenceInv
  <2>3. PICK id \in PacketIds : /\ end_of_talkspurt_seq = PacketOf(id).seq
                                /\ PacketOf(id).hist.idx <= newest.hist.idx
    BY <2>1 DEF SilenceInv
  <2>4. ~newest'.media
    <3>1. SUFFICES ASSUME pkt.media, pkt.hist.idx > newest.hist.idx PROVE FALSE
      BY <1>4, <2>2
    <3>2. SequenceIsNewer(pkt.seq, end_of_talkspurt_seq)
      BY <1>1, <1>2, <1>3, <1>5, <2>2, <2>3, <3>1 DEF NumbersTellOrder
    <3> QED
      BY <2>1, <2>2, <3>1, <3>2 DEF OpensTalkspurt, ImplicitStart
  <2>5. PacketOf(id).hist.idx <= newest'.hist.idx
    BY <1>3, <1>5, <1>6, <2>2, <2>3
  <2> QED
    BY <1>6, <2>2, <2>3, <2>4, <2>5 DEF SilenceInv, PacketOf
<1> QED
  BY <1>11, <1>14, <1>15

LEMMA StreamKeepsWake ==
  ASSUME NumbersTellOrder, EndsHoldNoMedia, NothingRefused, WakeInv, [Next]_vars
  PROVE  WakeInv'
<1>1. StreamTypeInv'
  BY StreamStepType DEF WakeInv
<1>2. mixer \in Mixers
  BY DEF WakeInv, StreamTypeInv, MixerInv
<1>3. ASSUME UNCHANGED <<receiver_vars, newest>>
      PROVE  LastInv' /\ SilenceInv' /\ NewestIsMedia' = NewestIsMedia
  <2>1. UNCHANGED NewestVars /\ UNCHANGED <<pending_silence, intentional_silence>>
    BY <1>3 DEF receiver_vars, talkspurt_vars, NewestVars
  <2> QED
    BY <2>1, KeepsNewest DEF WakeInv
<1>4. ASSUME UNCHANGED <<receiver_vars, newest, active, playout_paused, main, mixer>>
      PROVE  WakeInv'
  BY <1>1, <1>3, <1>4 DEF WakeInv, PauseInv
<1>5. ASSUME NEW p \in Producers, Enqueue(p) PROVE WakeInv'
  BY <1>4, <1>5 DEF Enqueue, Offer, Push, Evict, Retry, Unenqueued, flag_vars, mixer_vars,
                    control_vars
<1>6. CASE UNCHANGED vars
  BY <1>4, <1>6 DEF vars, flag_vars, mixer_vars, control_vars
<1>7. CASE MixEnter \/ MixCheckPaused \/ DrainEnd \/ Fill \/ Stamp \/ TapPush
  <2>1. UNCHANGED <<receiver_vars, newest, active, playout_paused, main>>
    BY <1>7 DEF MixEnter, MixCheckPaused, DrainEnd, Fill, Stamp, TapPush, Unmixed, flag_vars,
                control_vars
  <2>2. mixer'.at \in {"idle", "paused"} => mixer.at \in {"idle", "paused"}
    <3>1. CASE MixEnter
      BY <3>1 DEF MixEnter, At
    <3>2. CASE MixCheckPaused
      BY <3>2 DEF MixCheckPaused, At
    <3>3. CASE DrainEnd
      BY <1>2, <3>3 DEF DrainEnd, Mixers
    <3>4. CASE Fill \/ Stamp
      BY <1>2, <3>4 DEF Fill, Stamp, Mixers
    <3>5. CASE TapPush
      BY <1>2, <3>5 DEF TapPush, Mixers
    <3> QED
      BY <1>7, <3>1, <3>2, <3>3, <3>4, <3>5
  <2> QED
    BY <1>1, <1>3, <2>1, <2>2 DEF WakeInv, PauseInv
<1>8. CASE DrainPacket
  <2>1. PICK new \in PacketIds : new = Head(queue)
    BY <1>8 DEF DrainPacket, WakeInv, StreamTypeInv, QueueInv
  <2>2. PushPacket(PacketOf(new), TRUE) /\ newest' = NewerOf(newest, PacketOf(new))
    BY <1>8, <2>1 DEF DrainPacket, NothingRefused
  <2>3. LastInv' /\ SilenceInv'
    BY <2>2, DrainKeepsNewest DEF WakeInv
  <2>4. mixer'.at \notin {"idle", "paused"}
    BY <1>2, <1>8 DEF DrainPacket, Draining, At, Mixers
  <2>5. UNCHANGED <<main, active>>
    BY <1>8 DEF DrainPacket, Unmixed, flag_vars, control_vars
  <2> QED
    BY <1>1, <2>3, <2>4, <2>5 DEF WakeInv, PauseInv
<1>9. CASE Pull
  <2>1. UNCHANGED NewestVars
    BY <1>9 DEF Pull, PullFrame, PullSilence, PullPrebuffering, PullResidue, PullDecode,
                PullConceal, ReachesNetEq, receiver_vars, talkspurt_vars, NewestVars
  <2>2. pending_silence' \/ intentional_silence' => pending_silence \/ intentional_silence
    BY <1>9 DEF Pull, PullFrame, PullSilence, Drained, PullPrebuffering, PullResidue,
                PullDecode, PullConceal, ReachesNetEq, receiver_vars, talkspurt_vars
  <2>3. LastInv' /\ SilenceInv'
    BY <2>1, <2>2, KeepsNewest DEF WakeInv
  <2>4. mixer'.at \notin {"idle", "paused"}
    BY <1>2, <1>9 DEF Pull, Mixers
  <2>5. UNCHANGED <<main, active>>
    BY <1>9 DEF Pull, Unmixed, flag_vars, control_vars
  <2> QED
    BY <1>1, <2>3, <2>4, <2>5 DEF WakeInv, PauseInv
<1>10. CASE Publish
  <2>1. UNCHANGED <<receiver_vars, newest, main, active>> /\ playout_paused' = intentional_silence
    BY <1>10 DEF Publish, PublishedPause, control_vars
  <2>2. intentional_silence => ~NewestIsMedia
    BY DEF WakeInv, SilenceInv, NewestIsMedia
  <2> QED
    BY <1>1, <1>3, <2>1, <2>2 DEF WakeInv, PauseInv
<1>11. CASE Start \/ Stop
  <2>1. UNCHANGED <<receiver_vars, newest, active>> /\ main' = "idle" /\ playout_paused' = FALSE
    BY <1>11 DEF Start, Stop, SetPlaying, Called
  <2> QED
    BY <1>1, <1>3, <2>1 DEF WakeInv, PauseInv
<1>12. CASE Deactivate \/ StoreInactive \/ StorePaused \/ ClearPendingPackets \/ ClearPop \/ TapPop
  <2>1. UNCHANGED <<receiver_vars, newest, mixer>>
    BY <1>12 DEF Deactivate, StoreInactive, StorePaused, ClearPendingPackets, ClearPop, TapPop,
                 Unclear, mixer_vars
  <2>2. /\ active' => active
        /\ active' => playout_paused' = playout_paused
        /\ main' = "pausing" => ~active'
    BY <1>12 DEF Deactivate, StoreInactive, StorePaused, ClearPendingPackets, ClearPop, TapPop,
                 Called, flag_vars, WakeInv, PauseInv
  <2> QED
    BY <1>1, <1>3, <2>1, <2>2 DEF WakeInv, PauseInv
<1> QED
  BY <1>5, <1>6, <1>7, <1>8, <1>9, <1>10, <1>11, <1>12 DEF Next, Mix, Call

\* Between two callbacks, playout is paused only if no media is newer than the END that
\* paused it: a pause is never left over in front of a talkspurt the receiver holds,
\* provided NetEq takes the packets and their numbers tell their order
\* (stream.rs:189-193, 613-617, receiver.rs:109-200).
THEOREM AudibleMediaIsHeard ==
  ASSUME NumbersTellOrder, EndsHoldNoMedia, NothingRefused
  PROVE  Spec => []AudibleMediaKeepsMixerAwake
<1>1. Init => WakeInv
  BY StreamInitType DEF Init, ReceiverInit, WakeInv, LastInv, SilenceInv, PauseInv, NewestIsMedia
<1>2. WakeInv /\ [Next]_vars => WakeInv'
  BY StreamKeepsWake
<1>3. WakeInv => AudibleMediaKeepsMixerAwake
  BY DEF WakeInv, PauseInv, AudibleMediaKeepsMixerAwake, At, NewestIsMedia
<1> QED
  BY <1>1, <1>2, <1>3, PTL DEF Spec
=============================================================================
