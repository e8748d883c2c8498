-------------------------- MODULE SendPipelineProofs --------------------------
(***************************************************************************)
(* Proofs about SendPipeline, for any number of frames and of rebuilds,    *)
(* any capacity of its queues and any width of the packet clock.           *)
(***************************************************************************)
EXTENDS SendPipeline, VoiceProofs

Hands == {"polled", "enabled", "direct", "queueing"}
Holds == worker.at \in Hands

LEMMA WorkerPlaces ==
  ASSUME TypeOK
  PROVE  /\ Holds => /\ worker.pkt \in VoicePackets /\ worker.last \in BOOLEAN
                     /\ worker = Holding(worker.at, worker.pkt, worker.last)
         /\ worker.at \in Hands \cup {"none", "starting", "loop", "storing", "done"}
BY DEF TypeOK, WorkerStates, Holds, Hands, Holding

LEMMA MainPlaces ==
  ASSUME TypeOK
  PROVE  /\ main.at \in {"joining", "emptying"} => main.then \in Afterwards
         /\ main.at \in {"idle", "draining", "emitting", "building", "muting", "installing",
                         "joining", "emptying"}
         /\ main.at = "idle" => main = Idle
BY DEF TypeOK, MainStates, Idle

LEMMA AppendSeq ==
  ASSUME NEW S, NEW s \in Seq(S), NEW x \in S
  PROVE  Append(s, x) \in Seq(S)
OBVIOUS

LEMMA HoldingType ==
  ASSUME NEW place \in Hands, NEW pkt \in VoicePackets, NEW last \in BOOLEAN
  PROVE  Holding(place, pkt, last) \in WorkerStates
BY DEF Hands, Holding, WorkerStates

LEMMA WorkerType ==
  ASSUME NEW place \in {"none", "starting", "loop", "storing", "done"}
  PROVE  Worker(place) \in WorkerStates
BY DEF Worker, WorkerStates

LEMMA InitType == Init => TypeOK
<1> SUFFICES ASSUME Init PROVE TypeOK
  OBVIOUS
<1>1. 0 \in SeqNumber /\ 0 \in Timestamp
  BY SeqModAssumption, TsModAssumption DEF SeqNumber, Timestamp
<1>2. enc \in EncoderStates
  BY <1>1, NewHistoryType, FreshEncoderType DEF Init
<1>3. worker \in WorkerStates
  BY WorkerType DEF Init
<1>4. main \in MainStates
  BY DEF Init, Idle, MainStates
<1>5. node_clock \in Clocks /\ clock \in Clocks
  BY <1>1 DEF Init, Clocks
<1>6. /\ pipelines \in 0 .. MaxPipelines
      /\ pcm = 0 /\ pending = 0 /\ captured = 0 /\ discarded = 0
      /\ 0 \in 0 .. FramePcm * MaxFrames /\ 0 \in 0 .. FramePcm - 1
  BY PipelineAssumption DEF Init, FramePcm
<1>7. /\ batch = << >> /\ queue = << >> /\ wire = << >> /\ use \in Uses
      /\ {node_transmit, node_handler, stop, transmit, handler} \subseteq BOOLEAN
  BY DEF Init
<1>8. << >> \in Seq(VoicePackets) /\ Len(<< >>) = 0
  OBVIOUS
<1> QED
  BY <1>2, <1>3, <1>4, <1>5, <1>6, <1>7, <1>8, PipelineAssumption DEF TypeOK

\* PCM is an amount.
LEMMA PcmTypes ==
  ASSUME TypeOK
  PROVE  /\ pcm \in Nat /\ pending \in 0 .. 1 /\ captured \in Nat /\ discarded \in Nat
         /\ captured <= 2 * MaxFrames /\ MaxFrames \in Nat /\ MaxPendingPcm \in Nat \ {0}
         /\ MaxLag \in Nat
         /\ Stale \in 0 .. pcm
BY PipelineAssumption DEF TypeOK, FramePcm, Stale

\* All PCM that was captured and not encoded.
Unheard == pcm + (pending + discarded)

LEMMA ThreeSum == \A a, b, c \in Nat : a + (b + c) \in Nat
OBVIOUS

LEMMA MovedSum == \A a, b, c \in Nat : 0 + (b + (c + a)) = a + (b + c)
OBVIOUS

LEMMA UnheardType == TypeOK => Unheard \in Nat
BY PcmTypes DEF Unheard

\* What the worker only reads.
LEMMA WorkerFrame ==
  ASSUME WorkerStep
  PROVE  UNCHANGED <<main, batch, node_transmit, node_handler, node_clock, stop, transmit,
                     handler, captured, use, pipelines>>
BY DEF pcm_vars, WorkerStep, StartWorker, Tick, Finish, CheckTransmit, ReadHandler, CallHandler,
       QueuePacket, StoreClock, node_vars, state_vars, pcm_vars, history_vars

\* What a tick does with the PCM: it is encoded, discarded or still waits.
Ticked(kind) ==
  /\ pcm' \in 0 .. pcm /\ pending' \in 0 .. 1 /\ discarded' \in Nat
  /\ \/ Unheard' = Unheard /\ UNCHANGED <<worker, enc>>
     \/ /\ Unheard = Unheard' + (IF kind = "error" THEN 0 ELSE 2)
        /\ worker' = IF PolledPackets(enc, kind) = << >> THEN worker
                     ELSE Holding("polled", PolledPackets(enc, kind)[1], FALSE)
        /\ enc' = PolledEncoder(enc, kind)

LEMMA TickTakes ==
  ASSUME TypeOK, Tick
  PROVE  \E kind \in FrameKinds : Ticked(kind)
<1> DEFINE taken == IF pcm - Stale < FramePcm THEN pcm - Stale ELSE FramePcm
<1> DEFINE held == pending + taken
<1>1. PICK kind \in FrameKinds :
        /\ pcm' = pcm - Stale - taken
        /\ IF held < FramePcm
           THEN /\ pending' = held
                /\ discarded' = discarded + Stale
                /\ UNCHANGED <<worker, enc>>
           ELSE /\ pending' = held - FramePcm
                /\ discarded' = discarded + Stale + (IF kind = "error" THEN FramePcm ELSE 0)
                /\ worker' = IF PolledPackets(enc, kind) = << >> THEN worker
                             ELSE Holding("polled", PolledPackets(enc, kind)[1], FALSE)
                /\ enc' = PolledEncoder(enc, kind)
  BY DEF Tick
<1>2. taken \in 0 .. 2 /\ taken <= pcm - Stale /\ FramePcm = 2
  BY PcmTypes DEF FramePcm
<1> HIDE DEF taken
<1>3. /\ pcm \in Nat /\ pending \in 0 .. 1 /\ discarded \in Nat /\ Stale \in 0 .. pcm
      /\ pcm - Stale \in Nat
  BY PcmTypes
<1>4. pcm' \in 0 .. pcm /\ held \in Nat
  BY <1>1, <1>2, <1>3
<1>5. CASE held < FramePcm
  <2>1. pending' = pending + taken /\ discarded' = discarded + Stale /\ UNCHANGED <<worker, enc>>
    BY <1>1, <1>5
  <2>2. Unheard' = Unheard
    BY <1>1, <1>2, <1>3, <1>4, <2>1 DEF Unheard
  <2>3. pending' \in 0 .. 1 /\ discarded' \in Nat
    BY <1>2, <1>3, <1>5, <2>1
  <2> QED
    BY <1>4, <2>1, <2>2, <2>3 DEF Ticked
<1>6. CASE ~(held < FramePcm)
  <2> DEFINE failed == IF kind = "error" THEN 2 ELSE 0
  <2>1. /\ pending' = (pending + taken) - 2 /\ discarded' = (discarded + Stale) + failed
        /\ worker' = IF PolledPackets(enc, kind) = << >> THEN worker
                     ELSE Holding("polled", PolledPackets(enc, kind)[1], FALSE)
        /\ enc' = PolledEncoder(enc, kind)
    BY <1>1, <1>2, <1>6
  <2>2. failed \in 0 .. 2 /\ 2 - failed = (IF kind = "error" THEN 0 ELSE 2)
    OBVIOUS
  <2> HIDE DEF failed
  <2>3. Unheard = Unheard' + (2 - failed)
    BY <1>1, <1>2, <1>3, <1>4, <2>1, <2>2 DEF Unheard
  <2>4. pending' \in 0 .. 1 /\ discarded' \in Nat
    BY <1>2, <1>3, <1>6, <2>1, <2>2
  <2> QED
    BY <1>4, <2>1, <2>2, <2>3, <2>4 DEF Ticked
<1> QED
  BY <1>5, <1>6

LEMMA WorkerStepType ==
  ASSUME TypeOK, WorkerStep
  PROVE  TypeOK'
<1>1. UNCHANGED <<main, batch, node_transmit, node_handler, node_clock, stop, transmit,
                  handler, captured, use, pipelines>>
  BY WorkerFrame
<1>2. enc.hist \in Histories /\ clock.seq \in SeqNumber /\ clock.timestamp \in Timestamp
  BY DEF TypeOK, EncoderStates, Clocks
<1>3. Holds => AfterPacket \in WorkerStates
  BY WorkerPlaces, WorkerType DEF AfterPacket
<1>4. CASE StartWorker
  <2>1. enc' \in EncoderStates /\ worker' \in WorkerStates
    BY <1>2, <1>4, FreshEncoderType, WorkerType DEF StartWorker, TypeOK
  <2> QED
    BY <1>1, <1>4, <2>1 DEF StartWorker, TypeOK, state_vars, pcm_vars, history_vars
<1>5. CASE Tick
  <2>1. PICK kind \in FrameKinds : Ticked(kind)
    BY <1>5, TickTakes
  <2>2. enc' \in EncoderStates
    BY <2>1, PolledEncoderType DEF TypeOK, Ticked
  <2>3. worker' \in WorkerStates
    <3>1. PolledPackets(enc, kind) # << >> => PolledPackets(enc, kind)[1] \in VoicePackets
      BY PolledPacketsType DEF TypeOK
    <3> QED
      BY <2>1, <3>1, HoldingType DEF TypeOK, Hands, Ticked
  <2>4. /\ pcm' \in Nat /\ ("driver" \notin use => pcm' <= MaxPendingPcm)
        /\ pending' \in 0 .. FramePcm - 1 /\ discarded' \in Nat
    BY <2>1, PcmTypes DEF TypeOK, Ticked, FramePcm
  <2> QED
    BY <1>1, <1>5, <2>2, <2>3, <2>4 DEF Tick, TypeOK, state_vars, pcm_vars, history_vars
<1>6. CASE Finish
  <2>1. enc' \in EncoderStates
    BY <1>6, FinishedEncoderType DEF Finish, TypeOK
  <2>2. worker' \in WorkerStates
    <3>1. FinishPackets(enc) # << >> => FinishPackets(enc)[1] \in VoicePackets
      BY FinishPacketsType DEF TypeOK
    <3> QED
      BY <1>6, <3>1, HoldingType, WorkerType DEF Finish, Hands
  <2>3. pending' \in 0 .. FramePcm - 1 /\ discarded' \in Nat
    BY <1>6, PcmTypes DEF Finish, FramePcm
  <2> QED
    BY <1>1, <1>6, <2>1, <2>2, <2>3 DEF Finish, TypeOK, state_vars, history_vars
<1>7. CASE CheckTransmit \/ ReadHandler
  <2>1. Holds /\ UNCHANGED <<clock, queue, enc, wire, pcm, pending, discarded>>
    BY <1>7 DEF CheckTransmit, ReadHandler, Holds, Hands, state_vars, pcm_vars, history_vars
  <2>2. worker' = AfterPacket \/ \E place \in Hands : worker' = [worker EXCEPT !.at = place]
    BY <1>7 DEF CheckTransmit, ReadHandler, Hands
  <2>3. \A place \in Hands : [worker EXCEPT !.at = place] = Holding(place, worker.pkt, worker.last)
    BY <2>1, WorkerPlaces DEF Holding
  <2>4. worker' \in WorkerStates
    BY <1>3, <2>1, <2>2, <2>3, WorkerPlaces, HoldingType
  <2> QED
    BY <1>1, <2>1, <2>4 DEF TypeOK
<1>8. CASE CallHandler
  <2>1. Holds
    BY <1>8 DEF CallHandler, Holds, Hands
  <2>2. wire' \in Seq(VoicePackets) /\ worker' \in WorkerStates
    BY <1>3, <1>8, <2>1, WorkerPlaces DEF CallHandler, TypeOK
  <2> QED
    BY <1>1, <1>8, <2>2 DEF CallHandler, TypeOK, state_vars, pcm_vars
<1>9. CASE QueuePacket
  <2>1. Holds
    BY <1>9 DEF QueuePacket, Holds, Hands
  <2>2. worker' \in WorkerStates
    BY <1>3, <1>9, <2>1 DEF QueuePacket
  <2> DEFINE kept == IF worker.last THEN << >> ELSE QueueWithRoom
  <2>3. kept \in Seq(VoicePackets) /\ Len(kept) < MaxPendingPackets
    BY PipelineAssumption DEF QueueWithRoom, TypeOK
  <2>4. queue' = Append(kept, worker.pkt)
    BY <1>9 DEF QueuePacket, Queued
  <2> HIDE DEF kept
  <2>5. queue' \in Seq(VoicePackets) /\ Len(queue') <= MaxPendingPackets
    BY <2>1, <2>3, <2>4, WorkerPlaces, PipelineAssumption
  <2> QED
    BY <1>1, <1>9, <2>2, <2>5 DEF QueuePacket, TypeOK, pcm_vars, history_vars
<1>10. CASE StoreClock
  <2>1. clock' \in Clocks
    BY <1>10 DEF StoreClock, ClockOf, Clocks, TypeOK, EncoderStates
  <2> QED
    BY <1>1, <1>10, <2>1, WorkerType DEF StoreClock, TypeOK, pcm_vars, history_vars
<1> QED
  BY <1>4, <1>5, <1>6, <1>7, <1>8, <1>9, <1>10 DEF WorkerStep

\* Every step of the main thread, a call's or the start of one.
MainNext ==
  \/ MainStep \/ StartDrain \/ InstallHandler \/ Flush
  \/ \E then \in Afterwards : StopSender(then)
  \/ \E enabled \in BOOLEAN : SetTransmitEnabled(enabled)
  \/ \E amount \in Chunks : PushPcm(amount) \/ Record(amount)

LEMMA ChunkTypes == \A amount \in Chunks : amount \in 1 .. 2
BY DEF Chunks, FramePcm

\* The main thread and the driver encode nothing: PCM is captured, waits or is discarded.
MovesPcm ==
  /\ UNCHANGED pending /\ pcm' \in Nat /\ discarded' \in Nat
  /\ "driver" \notin use => pcm' <= MaxPendingPcm
  /\ captured' \in 0 .. FramePcm * MaxFrames
  /\ Unheard' + captured = Unheard + captured'
  /\ use' = use

LEMMA MainMovesPcm ==
  ASSUME TypeOK, MainNext
  PROVE  MovesPcm
<1>1. /\ pcm \in Nat /\ pending \in Nat /\ discarded \in Nat
      /\ captured \in 0 .. FramePcm * MaxFrames
      /\ "driver" \notin use => pcm <= MaxPendingPcm
      /\ MaxPendingPcm \in Nat
  BY PcmTypes DEF TypeOK, FramePcm
<1>2. CASE UNCHANGED <<pcm_vars, use>>
  BY <1>1, <1>2 DEF pcm_vars, MovesPcm, Unheard
\* PCM that waited is thrown away.
<1>3. ASSUME pcm' \in {pcm, 0}, discarded' = discarded + pcm - pcm',
             UNCHANGED <<pending, captured, use>>
      PROVE  MovesPcm
  <2>1. pcm' \in Nat /\ discarded' \in Nat /\ pcm' <= pcm
    <3>1. CASE pcm' = pcm
      BY <1>1, <1>3, <3>1
    <3>2. CASE pcm' = 0
      BY <1>1, <1>3, <3>2
    <3> QED
      BY <1>3, <3>1, <3>2
  <2>2. /\ Unheard' = pcm' + (pending + discarded')
        /\ Unheard = pcm + (pending + discarded)
    BY <1>3 DEF Unheard
  <2>3. pcm' + (pending + discarded') = pcm + (pending + discarded)
    <3>1. pcm \in Nat /\ pending \in Nat /\ discarded \in Nat
      BY <1>1
    <3>2. CASE pcm' = pcm
      <4>1. discarded' = discarded
        BY <1>1, <1>3, <3>2
      <4> QED
        BY <3>2, <4>1
    <3>3. CASE pcm' = 0
      <4>1. discarded' = discarded + pcm
        BY <1>1, <1>3, <3>3
      <4> QED
        BY <3>1, <3>3, <4>1, MovedSum
    <3> QED
      BY <1>3, <3>2, <3>3
  <2>4. "driver" \notin use => pcm' <= MaxPendingPcm
    BY <1>1, <1>3, <2>1
  <2> QED
    BY <1>1, <1>3, <2>1, <2>2, <2>3, <2>4 DEF MovesPcm
<1>4. CASE EmptyQueue
  <2>1. /\ pcm' \in {pcm, 0} /\ discarded' = discarded + pcm - pcm'
        /\ UNCHANGED <<pending, captured, use>>
    BY <1>1, <1>4 DEF EmptyQueue
  <2> QED
    BY <1>3, <2>1
<1>5. CASE Flush
  BY <1>3, <1>5 DEF Flush, history_vars
\* PCM comes, all or a part of it to stay.
<1>6. ASSUME NEW amount \in Chunks, NEW rest \in Nat, pcm' = rest, rest <= pcm + amount,
             "driver" \notin use => pcm' <= MaxPendingPcm,
             captured' = captured + amount, captured' <= FramePcm * MaxFrames,
             discarded' = discarded + (pcm + amount) - rest, UNCHANGED <<pending, use>>
      PROVE  MovesPcm
  <2>1. amount \in Nat /\ captured \in Nat /\ FramePcm * MaxFrames \in Nat
    BY <1>1, ChunkTypes, PcmTypes DEF FramePcm
  <2>2. captured' \in 0 .. FramePcm * MaxFrames /\ discarded' \in Nat
    BY <1>1, <1>6, <2>1
  <2>3. Unheard' = Unheard + amount /\ Unheard \in Nat
    BY <1>1, <1>6, <2>1, <2>2 DEF Unheard
  <2>4. Unheard' + captured = Unheard + captured'
    BY <1>6, <2>1, <2>3
  <2> QED
    BY <1>6, <2>2, <2>4 DEF MovesPcm
<1>8. ASSUME NEW amount \in Chunks, PushPcm(amount) PROVE MovesPcm
  <2>1. pcm' \in Nat /\ pcm' <= pcm + amount /\ ("driver" \notin use => pcm' <= MaxPendingPcm)
    BY <1>1, <1>8, ChunkTypes DEF PushPcm, PushedInput
  <2> QED
    BY <1>6, <1>8, <2>1 DEF PushPcm, history_vars
<1>9. ASSUME NEW amount \in Chunks, Record(amount) PROVE MovesPcm
  <2>1. pcm' \in Nat /\ pcm' = pcm + amount /\ "driver" \in use
    BY <1>1, <1>9, ChunkTypes DEF Record
  <2>2. discarded' = discarded + (pcm + amount) - pcm'
    BY <1>1, <1>9, <2>1, ChunkTypes DEF Record
  <2> QED
    BY <1>6, <1>9, <2>1, <2>2 DEF Record, history_vars
<1>7. CASE \/ PopPacket \/ EmitPacket \/ Join \/ NewPipeline \/ PassTransmit \/ PassHandler
          \/ StartDrain \/ InstallHandler \/ (\E then \in Afterwards : StopSender(then))
          \/ \E enabled \in BOOLEAN : SetTransmitEnabled(enabled)
  <2>1. UNCHANGED <<pcm_vars, use>>
    BY <1>7 DEF PopPacket, EmitPacket, Join, NewPipeline, PassTransmit, PassHandler, StartDrain,
       InstallHandler, StopSender, SetTransmitEnabled, history_vars
  <2> QED
    BY <1>2, <2>1
<1> QED
  BY <1>4, <1>5, <1>7, <1>8, <1>9 DEF MainNext, MainStep

LEMMA MainNextType ==
  ASSUME TypeOK, MainNext
  PROVE  TypeOK'
<1>0. /\ pcm' \in Nat /\ ("driver" \notin use' => pcm' <= MaxPendingPcm)
      /\ pending' \in 0 .. FramePcm - 1
      /\ captured' \in 0 .. FramePcm * MaxFrames
      /\ discarded' \in Nat
  BY MainMovesPcm DEF MovesPcm, TypeOK
<1>1. CASE PopPacket
  <2>1. CASE queue = << >>
    BY <1>0, <1>1, <2>1 DEF PopPacket, TypeOK, MainStates, pcm_vars, history_vars
  <2>2. CASE queue # << >>
    <3>1. Head(queue) \in VoicePackets /\ Tail(queue) \in Seq(VoicePackets)
            /\ Len(Tail(queue)) <= MaxPendingPackets
      BY <2>2, PipelineAssumption DEF TypeOK
    <3>2. batch' = Append(batch, Head(queue)) /\ batch \in Seq(VoicePackets)
      BY <1>0, <1>1, <2>2 DEF PopPacket, TypeOK
    <3>3. batch' \in Seq(VoicePackets)
      BY <3>1, <3>2, AppendSeq
    <3> QED
      BY <1>0, <1>1, <2>2, <3>1, <3>3 DEF PopPacket, TypeOK, pcm_vars, history_vars
  <2> QED
    BY <2>1, <2>2
<1>2. CASE EmitPacket
  <2>1. CASE batch = << >>
    BY <1>0, <1>2, <2>1 DEF EmitPacket, TypeOK, MainStates, Idle, state_vars
  <2>2. CASE batch # << >>
    <3>1. Head(batch) \in VoicePackets /\ Tail(batch) \in Seq(VoicePackets)
      BY <2>2 DEF TypeOK
    <3>2. wire' = Append(wire, Head(batch)) /\ wire \in Seq(VoicePackets)
      BY <1>0, <1>2, <2>2 DEF EmitPacket, TypeOK
    <3>3. wire' \in Seq(VoicePackets)
      BY <3>1, <3>2, AppendSeq
    <3> QED
      BY <1>0, <1>2, <2>2, <3>1, <3>3 DEF EmitPacket, TypeOK, state_vars
  <2> QED
    BY <2>1, <2>2
<1>3. CASE Join
  <2>1. main' \in MainStates
    BY <1>0, <1>3, MainPlaces DEF Join, Main, MainStates
  <2> QED
    BY <1>0, <1>3, <2>1 DEF Join, TypeOK, state_vars, pcm_vars, history_vars
<1>4. CASE EmptyQueue
  <2>1. CASE queue = << >>
    <3>1. main' \in MainStates /\ worker' \in WorkerStates
      BY <1>0, <1>4, <2>1, WorkerType DEF EmptyQueue, MainStates, Idle
    <3> QED
      BY <1>0, <1>4, <2>1, <3>1 DEF EmptyQueue, TypeOK
  <2>2. CASE queue # << >>
    <3>1. Head(queue) \in VoicePackets /\ Tail(queue) \in Seq(VoicePackets)
            /\ Len(Tail(queue)) <= MaxPendingPackets
      BY <2>2, PipelineAssumption DEF TypeOK
    <3>2. wire' = Append(wire, Head(queue)) /\ wire \in Seq(VoicePackets)
      BY <1>0, <1>4, <2>2 DEF EmptyQueue, TypeOK
    <3>3. wire' \in Seq(VoicePackets)
      BY <3>1, <3>2, AppendSeq
    <3> QED
      BY <1>0, <1>4, <2>2, <3>1, <3>3 DEF EmptyQueue, TypeOK
  <2> QED
    BY <2>1, <2>2
<1>5. CASE NewPipeline
  <2>1. main' \in MainStates /\ worker' \in WorkerStates /\ pipelines' \in 0 .. MaxPipelines
    BY <1>0, <1>5, WorkerType, PipelineAssumption DEF NewPipeline, MainStates, Idle, TypeOK
  <2> QED
    BY <1>0, <1>5, <2>1 DEF NewPipeline, TypeOK
<1>6. CASE PassTransmit \/ PassHandler \/ InstallHandler \/ Flush \/ StartDrain
  <2>1. main' \in MainStates
    BY <1>6 DEF PassTransmit, PassHandler, InstallHandler, Flush, StartDrain, MainStates, Idle,
           TypeOK, node_vars
  <2>2. {node_transmit', node_handler', stop', transmit', handler'} \subseteq BOOLEAN
    BY <1>6 DEF PassTransmit, PassHandler, InstallHandler, Flush, StartDrain, TypeOK, node_vars,
           state_vars, HasPipeline
  <2>3. queue' \in {queue, << >>}
          /\ UNCHANGED <<batch, node_clock, clock, worker, enc, use, wire, pipelines>>
    BY <1>6 DEF PassTransmit, PassHandler, InstallHandler, Flush, StartDrain, node_vars,
           state_vars, pcm_vars, history_vars
  <2>4. queue' \in Seq(VoicePackets) /\ Len(queue') <= MaxPendingPackets
    <3>1. << >> \in Seq(VoicePackets) /\ Len(<< >>) = 0
      OBVIOUS
    <3>2. CASE queue' = queue
      BY <3>2 DEF TypeOK
    <3>3. CASE queue' = << >>
      BY <3>1, <3>3, PipelineAssumption
    <3> QED
      BY <2>3, <3>2, <3>3
  <2> QED
    BY <1>0, <2>1, <2>2, <2>3, <2>4 DEF TypeOK
<1>7. ASSUME NEW then \in Afterwards, StopSender(then) PROVE TypeOK'
  <2>1. main' \in {Main("joining", then), Main("emptying", then)} /\ stop' \in {TRUE, stop}
    BY <1>7 DEF StopSender
  <2>2. main' \in MainStates
    BY <2>1 DEF Main, MainStates
  <2>3. stop' \in BOOLEAN
    BY <2>1 DEF TypeOK
  <2> QED
    BY <1>0, <1>7, <2>2, <2>3 DEF StopSender, TypeOK, pcm_vars, history_vars
<1>8. ASSUME NEW enabled \in BOOLEAN, SetTransmitEnabled(enabled) PROVE TypeOK'
  <2>1. {node_transmit', transmit'} \subseteq BOOLEAN
    BY <1>8 DEF SetTransmitEnabled, TypeOK
  <2> QED
    BY <1>0, <1>8, <2>1 DEF SetTransmitEnabled, TypeOK, pcm_vars, history_vars
<1>9. ASSUME NEW amount \in Chunks, PushPcm(amount) \/ Record(amount) PROVE TypeOK'
  BY <1>0, <1>9 DEF PushPcm, Record, TypeOK, node_vars, state_vars, history_vars
<1> QED
  BY <1>1, <1>2, <1>3, <1>4, <1>5, <1>6, <1>7, <1>8, <1>9 DEF MainNext, MainStep

LEMMA StepType == TypeOK /\ [Next]_vars => TypeOK'
<1>1. ASSUME TypeOK, UNCHANGED vars PROVE TypeOK'
  BY <1>1 DEF vars, node_vars, state_vars, pcm_vars, history_vars, TypeOK
<1> QED
  BY <1>1, WorkerStepType, MainNextType DEF Next, MainNext

\* Every reachable state is well typed; the packet queue keeps to MAX_PENDING_PACKETS
\* whatever process pops in between (sender.rs:1035-1050).
THEOREM TypeCorrect == Spec => []TypeOK
BY InitType, StepType, PTL DEF Spec
-----------------------------------------------------------------------------
\* Where the two threads are, relative to one another, when a call of the main thread
\* is under way: the pipeline is gone only when its queue has been emptied.
PlaceInv ==
  /\ main.at = "joining" => worker.at # "none"
  /\ main.at = "emptying" => worker.at \in {"none", "done"}
  /\ main.at = "building" => worker.at = "none"
  /\ main.at \notin {"draining", "emitting"} => batch = << >>
  /\ worker.at = "none" /\ main.at # "emptying" => queue = << >>

\* A step of the worker is a step of one that runs, and leaves the worker in place.
LEMMA WorkerStaysInPlace ==
  ASSUME TypeOK, WorkerStep
  PROVE  worker.at \notin {"none", "done"} /\ worker'.at # "none"
<1>1. Holds => AfterPacket.at \in {"storing", "loop"}
  BY WorkerPlaces DEF AfterPacket, Worker
<1>2. CASE StartWorker \/ Finish \/ StoreClock
  BY <1>2 DEF StartWorker, Finish, StoreClock, Worker, Holding
<1>3. CASE Tick
  BY <1>3 DEF Tick, Holding
<1>4. CASE CheckTransmit \/ ReadHandler \/ CallHandler \/ QueuePacket
  <2>1. Holds
    BY <1>4 DEF CheckTransmit, ReadHandler, CallHandler, QueuePacket, Holds, Hands
  <2>2. worker' = AfterPacket \/ \E place \in Hands : worker' = [worker EXCEPT !.at = place]
    BY <1>4 DEF CheckTransmit, ReadHandler, CallHandler, QueuePacket, Hands
  <2>3. \A place \in Hands : [worker EXCEPT !.at = place].at = place
    BY <2>1, WorkerPlaces DEF Holding
  <2> QED
    BY <1>1, <2>1, <2>2, <2>3 DEF Holds, Hands
<1> QED
  BY <1>2, <1>3, <1>4 DEF WorkerStep

LEMMA PlaceStep ==
  ASSUME TypeOK, PlaceInv, [Next]_vars
  PROVE  PlaceInv'
<1>1. CASE WorkerStep
  BY <1>1, WorkerStaysInPlace, WorkerFrame DEF PlaceInv
<1>2. CASE PopPacket \/ EmitPacket \/ StartDrain
  BY <1>2 DEF PopPacket, EmitPacket, StartDrain, PlaceInv, Idle, HasPipeline, state_vars
<1>3. CASE Join
  BY <1>3 DEF Join, Joined, Main, PlaceInv, state_vars
<1>4. CASE EmptyQueue
  BY <1>4 DEF EmptyQueue, PlaceInv, Idle, Worker
<1>5. CASE NewPipeline
  BY <1>5 DEF NewPipeline, PlaceInv, Idle, Worker
<1>6. CASE PassTransmit \/ PassHandler
  BY <1>6 DEF PassTransmit, PassHandler, PlaceInv, Idle
<1>7. CASE InstallHandler \/ Flush
  BY <1>7 DEF InstallHandler, Flush, PlaceInv, Idle, HasPipeline, node_vars
<1>8. ASSUME NEW then \in Afterwards, StopSender(then) PROVE PlaceInv'
  BY <1>8 DEF StopSender, Main, PlaceInv, Idle, HasPipeline
<1>9. ASSUME NEW enabled \in BOOLEAN, SetTransmitEnabled(enabled) PROVE PlaceInv'
  BY <1>9 DEF SetTransmitEnabled, PlaceInv
<1>10. ASSUME NEW amount \in Chunks, PushPcm(amount) \/ Record(amount) PROVE PlaceInv'
  BY <1>10 DEF PushPcm, Record, PlaceInv, node_vars, state_vars
<1>11. CASE UNCHANGED vars
  BY <1>11 DEF vars, node_vars, state_vars, PlaceInv
<1> QED
  BY <1>1, <1>2, <1>3, <1>4, <1>5, <1>6, <1>7, <1>8, <1>9, <1>10, <1>11 DEF Next, MainStep

LEMMA PlaceInit == Init => PlaceInv
BY DEF Init, PlaceInv, Idle, Worker

LEMMA PlacesAreInvariant == Spec => [](TypeOK /\ PlaceInv)
BY InitType, PlaceInit, StepType, PlaceStep, PTL DEF Spec

-----------------------------------------------------------------------------
\* A step in which neither thread does anything but to record PCM.
Still == UNCHANGED <<node_vars, state_vars, worker, enc, history_vars>>

LEMMA StillSteps ==
  /\ UNCHANGED vars => Still
  /\ \A amount \in Chunks : PushPcm(amount) \/ Record(amount) => Still
BY DEF vars, PushPcm, Record, Still

\* A step of the worker that makes nothing of the PCM it took.
Waits == UNCHANGED <<worker, enc>>

LEMMA TickEncodes ==
  ASSUME TypeOK, Tick, ~Waits
  PROVE  \E kind \in FrameKinds :
           /\ worker' = IF PolledPackets(enc, kind) = << >> THEN worker
                        ELSE Holding("polled", PolledPackets(enc, kind)[1], FALSE)
           /\ enc' = PolledEncoder(enc, kind)
BY TickTakes DEF Ticked, Waits

Running == {"loop", "polled", "enabled", "direct", "queueing", "storing"}

\* The order of the packets, by their age in the sender's history: one line of packets
\* from the wire through the batch and the queue to the worker's hand.
Age(pkt) == pkt.hist.idx

Ordered(s) == \A i, j \in DOMAIN s : i < j => Age(s[i]) < Age(s[j])
Before(s, t) == \A i \in DOMAIN s, j \in DOMAIN t : Age(s[i]) < Age(t[j])
Below(s, age) == \A i \in DOMAIN s : Age(s[i]) < age

LEMMA AgeType ==
  ASSUME NEW pkt \in VoicePackets
  PROVE  Age(pkt) \in Nat
BY DEF Age, VoicePackets, Histories

LEMMA EmptyOrder ==
  ASSUME NEW t, NEW n
  PROVE  Ordered(<< >>) /\ Before(<< >>, t) /\ Before(t, << >>) /\ Below(<< >>, n)
BY DEF Ordered, Before, Below

LEMMA BelowGrows ==
  ASSUME NEW s \in Seq(VoicePackets), NEW m \in Nat, NEW n \in Nat, m <= n, Below(s, m)
  PROVE  Below(s, n)
<1>1. \A i \in DOMAIN s : Age(s[i]) \in Nat
  BY AgeType
<1> QED
  BY <1>1 DEF Below

\* The elements of Tail(s) and of Append(s, x).
LEMMA TailElements ==
  ASSUME NEW S, NEW s \in Seq(S), s # << >>
  PROVE  /\ Tail(s) \in Seq(S) /\ Head(s) = s[1] /\ 1 \in DOMAIN s /\ Head(s) \in S
         /\ \A i \in DOMAIN Tail(s) : i + 1 \in DOMAIN s /\ 1 < i + 1 /\ Tail(s)[i] = s[i + 1]
         /\ DOMAIN Tail(s) \subseteq Nat
OBVIOUS

LEMMA AppendElements ==
  ASSUME NEW S, NEW s \in Seq(S), NEW x \in S
  PROVE  /\ Append(s, x) \in Seq(S)
         /\ DOMAIN Append(s, x) = DOMAIN s \cup {Len(s) + 1}
         /\ \A i \in DOMAIN s : i \in Nat /\ i < Len(s) + 1 /\ Append(s, x)[i] = s[i]
         /\ Append(s, x)[Len(s) + 1] = x /\ Len(s) \in Nat
OBVIOUS

LEMMA TailOrder ==
  ASSUME NEW s \in Seq(VoicePackets), s # << >>, Ordered(s)
  PROVE  /\ Ordered(Tail(s))
         /\ \A i \in DOMAIN Tail(s) : Age(Head(s)) < Age(Tail(s)[i])
         /\ \A t : Before(s, t) => Before(Tail(s), t)
         /\ \A t : Before(t, s) => Before(t, Tail(s))
         /\ \A n : Below(s, n) => Below(Tail(s), n)
<1>1. /\ Head(s) = s[1] /\ 1 \in DOMAIN s
      /\ \A i \in DOMAIN Tail(s) : i + 1 \in DOMAIN s /\ 1 < i + 1 /\ Tail(s)[i] = s[i + 1]
      /\ DOMAIN Tail(s) \subseteq Nat
  BY TailElements
<1>2. Ordered(Tail(s))
  BY <1>1 DEF Ordered
<1>3. \A i \in DOMAIN Tail(s) : Age(Head(s)) < Age(Tail(s)[i])
  BY <1>1 DEF Ordered
<1>4. \A t : Before(s, t) => Before(Tail(s), t)
  BY <1>1 DEF Before
<1>5. \A t : Before(t, s) => Before(t, Tail(s))
  BY <1>1 DEF Before
<1>6. \A n : Below(s, n) => Below(Tail(s), n)
  BY <1>1 DEF Below
<1> QED
  BY <1>2, <1>3, <1>4, <1>5, <1>6

LEMMA AppendOrder ==
  ASSUME NEW s \in Seq(VoicePackets), NEW x \in VoicePackets, Ordered(s), Below(s, Age(x))
  PROVE  /\ Ordered(Append(s, x))
         /\ \A t : Before(t, s) /\ Below(t, Age(x)) => Before(t, Append(s, x))
         /\ \A t : Before(s, t) /\ (\A j \in DOMAIN t : Age(x) < Age(t[j]))
                     => Before(Append(s, x), t)
         /\ \A n : Below(s, n) /\ Age(x) < n => Below(Append(s, x), n)
<1> DEFINE r == Append(s, x)
<1> DEFINE k == Len(s) + 1
<1>1. /\ DOMAIN r = DOMAIN s \cup {k} /\ r[k] = x /\ k \in Nat
      /\ \A i \in DOMAIN s : i \in Nat /\ i < k /\ r[i] = s[i]
  BY AppendElements
<1> HIDE DEF r, k
<1>2. Ordered(r)
  <2> SUFFICES ASSUME NEW i \in DOMAIN r, NEW j \in DOMAIN r, i < j
               PROVE  Age(r[i]) < Age(r[j])
    BY DEF Ordered
  <2>1. CASE i \in DOMAIN s /\ j \in DOMAIN s
    BY <1>1, <2>1 DEF Ordered
  <2>2. CASE i \in DOMAIN s /\ j = k
    BY <1>1, <2>2 DEF Below
  <2>3. CASE i = k
    BY <1>1, <2>3
  <2> QED
    BY <1>1, <2>1, <2>2, <2>3
<1>3. \A t : Before(t, s) /\ Below(t, Age(x)) => Before(t, r)
  BY <1>1 DEF Before, Below
<1>4. \A t : Before(s, t) /\ (\A j \in DOMAIN t : Age(x) < Age(t[j])) => Before(r, t)
  BY <1>1 DEF Before
<1>5. \A n : Below(s, n) /\ Age(x) < n => Below(r, n)
  BY <1>1 DEF Below
<1> QED
  BY <1>2, <1>3, <1>4, <1>5 DEF r

\* Moving the oldest packet of one container to the end of the one before it keeps both
\* in order, between themselves and with any other.
LEMMA MoveOrder ==
  ASSUME NEW s \in Seq(VoicePackets), NEW t \in Seq(VoicePackets), t # << >>,
         Ordered(s), Ordered(t), Before(s, t)
  PROVE  /\ Ordered(Append(s, Head(t))) /\ Ordered(Tail(t))
         /\ Before(Append(s, Head(t)), Tail(t))
         /\ \A u : Before(u, s) /\ Before(u, t) =>
                     Before(u, Append(s, Head(t))) /\ Before(u, Tail(t))
         /\ \A u : Before(s, u) /\ Before(t, u) =>
                     Before(Append(s, Head(t)), u) /\ Before(Tail(t), u)
         /\ \A n : Below(s, n) /\ Below(t, n) =>
                     Below(Append(s, Head(t)), n) /\ Below(Tail(t), n)
<1> DEFINE x == Head(t)
<1>1. x \in VoicePackets /\ x = t[1] /\ 1 \in DOMAIN t
  BY TailElements
<1> HIDE DEF x
<1>2. Below(s, Age(x)) /\ \A u : Before(u, t) => Below(u, Age(x))
  BY <1>1 DEF Before, Below
<1>3. \A u : Before(t, u) => \A j \in DOMAIN u : Age(x) < Age(u[j])
  BY <1>1 DEF Before
<1>4. \A n : Below(t, n) => Age(x) < n
  BY <1>1 DEF Below
<1>5. \A i \in DOMAIN Tail(t) : Age(x) < Age(Tail(t)[i])
  BY TailOrder DEF x
<1>6. Ordered(Append(s, x)) /\ Ordered(Tail(t))
  BY <1>1, <1>2, AppendOrder, TailOrder
<1>7. Before(Append(s, x), Tail(t))
  BY <1>1, <1>2, <1>5, AppendOrder, TailOrder
<1>8. \A u : Before(u, s) /\ Before(u, t) => Before(u, Append(s, x)) /\ Before(u, Tail(t))
  BY <1>1, <1>2, AppendOrder, TailOrder
<1>9. \A u : Before(s, u) /\ Before(t, u) => Before(Append(s, x), u) /\ Before(Tail(t), u)
  BY <1>1, <1>2, <1>3, AppendOrder, TailOrder
<1>10. \A n : Below(s, n) /\ Below(t, n) => Below(Append(s, x), n) /\ Below(Tail(t), n)
  BY <1>1, <1>2, <1>4, AppendOrder, TailOrder
<1> QED
  BY <1>6, <1>7, <1>8, <1>9, <1>10 DEF x

\* What is older than the packet in the worker's hand, or than the next one.
Bound == IF Holds THEN Age(worker.pkt) ELSE enc.hist.idx

LineInv ==
  /\ Ordered(wire) /\ Ordered(batch) /\ Ordered(queue)
  /\ Before(wire, batch) /\ Before(wire, queue) /\ Before(batch, queue)
  /\ Below(wire, Bound) /\ Below(batch, Bound) /\ Below(queue, Bound)
  /\ Holds => Age(worker.pkt) < enc.hist.idx

NoHandlerInv == ~handler /\ ~node_handler /\ worker.at # "direct"

OrderInv == "handler" \notin use => NoHandlerInv /\ LineInv

LEMMA NoHandlerStep ==
  ASSUME TypeOK, "handler" \notin use, NoHandlerInv, [Next]_vars
  PROVE  NoHandlerInv' /\ use' = use
<1>1. use' = use
  BY StillSteps DEF Next, WorkerStep, MainStep, StartWorker, Tick, Finish, CheckTransmit, ReadHandler,
         CallHandler, QueuePacket, StoreClock, PopPacket, EmitPacket, Join, EmptyQueue,
         NewPipeline, PassTransmit, PassHandler, StartDrain, InstallHandler, Flush,
         StopSender, SetTransmitEnabled, Still, pcm_vars, history_vars
<1>2. Holds => AfterPacket.at \in {"storing", "loop"}
  BY DEF AfterPacket, Worker
<1>3. CASE CheckTransmit \/ ReadHandler
  <2>1. Holds
    BY <1>3 DEF CheckTransmit, ReadHandler, Holds, Hands
  <2>2. worker' = AfterPacket
          \/ \E place \in {"enabled", "queueing"} : worker' = [worker EXCEPT !.at = place]
    BY <1>3 DEF CheckTransmit, ReadHandler, NoHandlerInv
  <2>3. \A place \in {"enabled", "queueing"} : [worker EXCEPT !.at = place].at = place
    BY <2>1, WorkerPlaces DEF Holding
  <2>4. worker'.at # "direct"
    BY <1>2, <2>1, <2>2, <2>3
  <2>5. UNCHANGED <<handler, node_handler>>
    BY <1>3, WorkerFrame DEF WorkerStep
  <2> QED
    BY <1>1, <2>4, <2>5 DEF NoHandlerInv
<1>4. CASE StartWorker \/ Tick \/ Finish \/ CallHandler \/ QueuePacket \/ StoreClock
  <2>1. worker'.at # "direct"
    BY <1>2, <1>4 DEF StartWorker, Tick, Finish, CallHandler, QueuePacket, StoreClock, Worker,
       Holding, Holds, Hands, NoHandlerInv
  <2>2. UNCHANGED <<handler, node_handler>>
    BY <1>4, WorkerFrame DEF WorkerStep
  <2> QED
    BY <1>1, <2>1, <2>2 DEF NoHandlerInv
<1>5. CASE EmptyQueue \/ NewPipeline
  BY <1>1, <1>5 DEF EmptyQueue, NewPipeline, Worker, NoHandlerInv
<1>6. CASE PopPacket \/ EmitPacket \/ Join \/ PassTransmit \/ PassHandler \/ StartDrain
             \/ InstallHandler \/ Flush \/ Still
  <2>1. worker' = worker
    BY <1>6 DEF PopPacket, EmitPacket, Join, PassTransmit, PassHandler, StartDrain,
       InstallHandler, Flush, Still
  <2>2. node_handler' = node_handler
    BY <1>6 DEF PopPacket, EmitPacket, Join, PassTransmit, PassHandler, StartDrain,
       InstallHandler, Flush, Still, node_vars
  <2>3. handler' = handler \/ (handler' = (handler \/ node_handler))
    BY <1>6 DEF PopPacket, EmitPacket, Join, PassTransmit, PassHandler, StartDrain,
       InstallHandler, Flush, Still, state_vars
  <2>4. ~handler'
    <3>1. (handler \/ node_handler) = FALSE
      BY DEF NoHandlerInv
    <3> QED
      BY <2>3, <3>1 DEF NoHandlerInv
  <2> QED
    BY <1>1, <2>1, <2>2, <2>4 DEF NoHandlerInv
<1>7. ASSUME NEW then \in Afterwards, StopSender(then) PROVE NoHandlerInv'
  BY <1>7 DEF StopSender, NoHandlerInv
<1>8. ASSUME NEW enabled \in BOOLEAN, SetTransmitEnabled(enabled) PROVE NoHandlerInv'
  BY <1>8 DEF SetTransmitEnabled, NoHandlerInv
<1> QED
  BY <1>1, <1>3, <1>4, <1>5, <1>6, <1>7, <1>8, StillSteps DEF Next, WorkerStep, MainStep

LEMMA LineBounds ==
  ASSUME TypeOK
  PROVE  /\ Bound \in Nat /\ enc.hist.idx \in Nat
         /\ wire \in Seq(VoicePackets) /\ batch \in Seq(VoicePackets)
         /\ queue \in Seq(VoicePackets)
<1>1. enc.hist.idx \in Nat
  BY DEF TypeOK, EncoderStates, Histories
<1> QED
  BY <1>1, WorkerPlaces, AgeType DEF TypeOK, Bound

\* A step that leaves the containers alone, and the hand with nothing younger than it had.
LEMMA LineStays ==
  ASSUME TypeOK, TypeOK', LineInv, UNCHANGED <<wire, batch, queue>>,
         Bound' \in Nat, Bound <= Bound',
         Holds' => Age(worker'.pkt) < enc'.hist.idx
  PROVE  LineInv'
<1>1. /\ Bound \in Nat /\ wire \in Seq(VoicePackets)
      /\ batch \in Seq(VoicePackets) /\ queue \in Seq(VoicePackets)
  BY LineBounds
<1>2. Below(wire, Bound') /\ Below(batch, Bound') /\ Below(queue, Bound')
  BY <1>1, BelowGrows DEF LineInv
<1>3. (Below(wire, Bound) /\ Below(batch, Bound) /\ Below(queue, Bound))'
  BY <1>2
<1>4. ( /\ Ordered(wire) /\ Ordered(batch) /\ Ordered(queue)
        /\ Before(wire, batch) /\ Before(wire, queue) /\ Before(batch, queue) )'
  BY DEF LineInv
<1> QED
  BY <1>3, <1>4 DEF LineInv

LEMMA WorkerKeepsLine ==
  ASSUME TypeOK, TypeOK', NoHandlerInv, LineInv, WorkerStep
  PROVE  LineInv'
<1>1. enc \in EncoderStates /\ enc.hist.idx \in Nat /\ Bound \in Nat
  BY LineBounds DEF TypeOK
<1>2. AfterPacket.at \in {"storing", "loop"}
  BY DEF AfterPacket, Worker
<1>3. CASE StartWorker \/ StoreClock
  <2>1. ~Holds /\ ~Holds' /\ enc'.hist.idx = enc.hist.idx
    BY <1>3 DEF StartWorker, StoreClock, Holds, Hands, Worker, FreshEncoder
  <2>2. UNCHANGED <<wire, batch, queue>>
    BY <1>3 DEF StartWorker, StoreClock, node_vars, state_vars, pcm_vars, history_vars
  <2> QED
    BY <1>1, <2>1, <2>2, LineStays DEF Bound
<1>4a. CASE Tick /\ Waits
  <2>1. /\ UNCHANGED <<worker, enc, wire, batch, queue>> /\ ~Holds
    BY <1>4a DEF Waits, Tick, Holds, Hands, node_vars, state_vars, history_vars
  <2>2. ~Holds' /\ Bound' = Bound
    BY <2>1 DEF Holds, Bound
  <2> QED
    BY <1>1, <2>1, <2>2, LineStays DEF Bound
<1>4. CASE Tick /\ ~Waits
  <2>1. PICK kind \in FrameKinds :
          /\ worker' = IF PolledPackets(enc, kind) = << >> THEN worker
                       ELSE Holding("polled", PolledPackets(enc, kind)[1], FALSE)
          /\ enc' = PolledEncoder(enc, kind)
    BY <1>4, TickEncodes
  <2>2. ~Holds /\ UNCHANGED <<wire, batch, queue>>
    BY <1>4 DEF Tick, Holds, Hands, node_vars, state_vars, history_vars
  <2>3. enc'.hist.idx = enc.hist.idx + Len(PolledPackets(enc, kind))
    BY <1>1, <2>1, PolledEncoderType
  <2>4. CASE PolledPackets(enc, kind) = << >>
    <3>1. ~Holds' /\ enc'.hist.idx = enc.hist.idx
      BY <1>1, <2>1, <2>2, <2>3, <2>4 DEF Holds
    <3> QED
      BY <1>1, <2>2, <3>1, LineStays DEF Bound
  <2>5. CASE PolledPackets(enc, kind) # << >>
    <3>1. PICK pkt \in VoicePackets :
            PolledPackets(enc, kind) = <<pkt>> /\ pkt.hist.idx = enc.hist.idx
      BY <1>1, <2>5, PolledPacketsType
    <3>2. worker' = Holding("polled", pkt, FALSE) /\ enc'.hist.idx = enc.hist.idx + 1
      BY <1>1, <2>1, <2>3, <2>5, <3>1
    <3>3. Holds' /\ worker'.pkt = pkt
      BY <3>2 DEF Holding, Holds, Hands
    <3>4. Bound = enc.hist.idx
      BY <2>2 DEF Bound
    <3>5. Age(worker'.pkt) = enc.hist.idx /\ Bound' = Age(worker'.pkt)
      BY <3>1, <3>3 DEF Bound, Age
    <3> DEFINE age == Age(worker'.pkt)
    <3>6. age = enc.hist.idx /\ Bound' = age /\ enc'.hist.idx = enc.hist.idx + 1
      BY <3>2, <3>5
    <3> HIDE DEF age
    <3>7. Bound' \in Nat /\ Bound <= Bound' /\ age < enc'.hist.idx
      BY <1>1, <3>4, <3>6
    <3> QED
      BY <2>2, <3>7, LineStays DEF age
  <2> QED
    BY <2>4, <2>5
<1>5. CASE Finish
  <2>1. /\ worker' = IF FinishPackets(enc) = << >> THEN Worker("storing")
                     ELSE Holding("polled", FinishPackets(enc)[1], TRUE)
        /\ enc' = FinishedEncoder(enc)
    BY <1>5 DEF Finish
  <2>2. ~Holds /\ UNCHANGED <<wire, batch, queue>>
    BY <1>5 DEF Finish, Holds, Hands, node_vars, state_vars, pcm_vars, history_vars
  <2>3. enc'.hist.idx = enc.hist.idx + Len(FinishPackets(enc))
    BY <1>1, <2>1, FinishedEncoderType
  <2>4. CASE FinishPackets(enc) = << >>
    <3>1. ~Holds' /\ enc'.hist.idx = enc.hist.idx
      BY <1>1, <2>1, <2>3, <2>4 DEF Worker, Holds, Hands
    <3> QED
      BY <1>1, <2>2, <3>1, LineStays DEF Bound
  <2>5. CASE FinishPackets(enc) # << >>
    <3>1. PICK pkt \in VoicePackets :
            FinishPackets(enc) = <<pkt>> /\ pkt.hist.idx = enc.hist.idx
      BY <1>1, <2>5, FinishPacketsType
    <3>2. worker' = Holding("polled", pkt, TRUE) /\ enc'.hist.idx = enc.hist.idx + 1
      BY <1>1, <2>1, <2>3, <2>5, <3>1
    <3>3. Holds' /\ worker'.pkt = pkt
      BY <3>2 DEF Holding, Holds, Hands
    <3>4. Bound = enc.hist.idx
      BY <2>2 DEF Bound
    <3>5. Age(worker'.pkt) = enc.hist.idx /\ Bound' = Age(worker'.pkt)
      BY <3>1, <3>3 DEF Bound, Age
    <3> DEFINE age == Age(worker'.pkt)
    <3>6. age = enc.hist.idx /\ Bound' = age /\ enc'.hist.idx = enc.hist.idx + 1
      BY <3>2, <3>5
    <3> HIDE DEF age
    <3>7. Bound' \in Nat /\ Bound <= Bound' /\ age < enc'.hist.idx
      BY <1>1, <3>4, <3>6
    <3> QED
      BY <2>2, <3>7, LineStays DEF age
  <2> QED
    BY <2>4, <2>5
<1>6. CASE CheckTransmit \/ ReadHandler
  <2>1. Holds /\ UNCHANGED <<wire, batch, queue, enc>>
    BY <1>6 DEF CheckTransmit, ReadHandler, Holds, Hands, node_vars, state_vars, pcm_vars, history_vars
  <2>2. worker' = AfterPacket \/ \E place \in Hands : worker' = [worker EXCEPT !.at = place]
    BY <1>6 DEF CheckTransmit, ReadHandler, Hands
  <2>3. Age(worker.pkt) \in Nat /\ Age(worker.pkt) < enc.hist.idx
    BY <2>1, WorkerPlaces, AgeType DEF LineInv
  <2>4. CASE worker' = AfterPacket
    <3>1. ~Holds'
      BY <1>2, <2>4 DEF Holds, Hands
    <3> QED
      BY <1>1, <2>1, <2>3, <3>1, LineStays DEF Bound
  <2>5. CASE \E place \in Hands : worker' = [worker EXCEPT !.at = place]
    <3>1. Holds' /\ worker'.pkt = worker.pkt
      BY <2>1, <2>5, WorkerPlaces DEF Holds, Holding
    <3>2. Bound' = Bound /\ Age(worker'.pkt) < enc'.hist.idx
      BY <2>1, <2>3, <3>1 DEF Bound, Age
    <3> QED
      BY <1>1, <2>1, <3>2, LineStays
  <2> QED
    BY <2>2, <2>4, <2>5
<1>7. CASE CallHandler
  BY <1>7 DEF CallHandler, NoHandlerInv
<1>8. CASE QueuePacket
  <2>1. Holds /\ UNCHANGED <<wire, batch, enc>> /\ worker' = AfterPacket
    BY <1>8 DEF QueuePacket, Holds, Hands, node_vars, pcm_vars, history_vars
  <2>2. worker.pkt \in VoicePackets /\ Age(worker.pkt) \in Nat
          /\ Age(worker.pkt) < enc.hist.idx
    BY <2>1, WorkerPlaces, AgeType DEF LineInv
  <2>3. ~Holds' /\ Bound = Age(worker.pkt) /\ Bound' = enc.hist.idx
    BY <1>2, <2>1 DEF Holds, Hands, Bound
  <2> DEFINE kept == IF worker.last THEN << >> ELSE QueueWithRoom
  <2>4. queue' = Append(kept, worker.pkt)
    BY <1>8 DEF QueuePacket, Queued
  <2>5. kept \in Seq(VoicePackets) /\ Ordered(kept) /\ Before(wire, kept)
          /\ Before(batch, kept) /\ Below(kept, Bound)
    <3>1. CASE kept = << >>
      <4>1. << >> \in Seq(VoicePackets)
        OBVIOUS
      <4> HIDE DEF kept
      <4> QED
        BY <3>1, <4>1, EmptyOrder
    <3>2. CASE kept = queue
      BY <3>2, LineBounds DEF LineInv
    <3>3. CASE kept = Tail(queue) /\ queue # << >>
      <4> HIDE DEF kept
      <4> QED
        BY <3>3, LineBounds, TailElements, TailOrder DEF LineInv
    <3>4. Len(queue) >= MaxPendingPackets => queue # << >>
      BY PipelineAssumption
    <3> QED
      BY <3>1, <3>2, <3>3, <3>4 DEF QueueWithRoom
  <2> HIDE DEF kept
  <2>6. Ordered(queue') /\ Before(wire, queue') /\ Before(batch, queue')
    BY <2>2, <2>3, <2>4, <2>5, AppendOrder DEF LineInv
  <2>7. Below(kept, Bound') /\ Below(wire, Bound') /\ Below(batch, Bound')
    BY <1>1, <2>2, <2>3, <2>5, BelowGrows, LineBounds DEF LineInv
  <2>8. Below(queue', Bound')
    BY <2>2, <2>3, <2>4, <2>5, <2>7, AppendOrder
  <2> QED
    BY <2>1, <2>3, <2>6, <2>7, <2>8 DEF LineInv
<1> QED
  BY <1>3, <1>4, <1>4a, <1>5, <1>6, <1>7, <1>8 DEF WorkerStep
\* The main thread ends or starts a worker, or leaves it alone.
LEMMA BoundGrows ==
  ASSUME TypeOK, LineInv, enc' = enc,
         worker' \in {worker, Worker("none"), Worker("starting")}
  PROVE  Bound' \in Nat /\ Bound <= Bound' /\ (Holds' => Age(worker'.pkt) < enc'.hist.idx)
<1>1. Bound \in Nat /\ enc.hist.idx \in Nat
  BY LineBounds
<1>2. CASE worker' = worker
  <2>1. Bound' = Bound
    BY <1>2 DEF Bound, Holds
  <2>2. Holds' => Age(worker'.pkt) < enc'.hist.idx
    BY <1>2 DEF LineInv, Holds
  <2> QED
    BY <1>1, <2>1, <2>2
<1>3. CASE worker' \in {Worker("none"), Worker("starting")}
  <2>1. ~Holds'
    BY <1>3 DEF Holds, Hands, Worker
  <2>2. Bound' = enc.hist.idx
    BY <2>1 DEF Bound
  <2>3. Bound <= enc.hist.idx
    <3>1. CASE Holds
      BY <1>1, <3>1, WorkerPlaces, AgeType DEF Bound, LineInv
    <3>2. CASE ~Holds
      BY <1>1, <3>2 DEF Bound
    <3> QED
      BY <3>1, <3>2
  <2> QED
    BY <1>1, <2>1, <2>2, <2>3
<1> QED
  BY <1>2, <1>3

LEMMA MainKeepsLine ==
  ASSUME TypeOK, TypeOK', PlaceInv, LineInv, MainNext \/ UNCHANGED vars
  PROVE  LineInv'
<1>1. enc' = enc /\ worker' \in {worker, Worker("none"), Worker("starting")}
  BY StillSteps DEF MainNext, MainStep, PopPacket, EmitPacket, Join, EmptyQueue, NewPipeline, PassTransmit,
     PassHandler, StartDrain, InstallHandler, Flush, StopSender, SetTransmitEnabled, Still
<1>2. Bound' \in Nat /\ Bound <= Bound' /\ (Holds' => Age(worker'.pkt) < enc'.hist.idx)
  BY <1>1, BoundGrows
<1>3. /\ Bound \in Nat /\ wire \in Seq(VoicePackets) /\ batch \in Seq(VoicePackets)
      /\ queue \in Seq(VoicePackets)
  BY LineBounds
<1>4. ASSUME UNCHANGED <<wire, batch, queue>> PROVE LineInv'
  BY <1>2, <1>4, LineStays
<1>5. Below(wire, Bound') /\ Below(batch, Bound') /\ Below(queue, Bound')
  BY <1>2, <1>3, BelowGrows DEF LineInv
<1>6. CASE PopPacket
  <2>1. CASE queue = << >>
    BY <1>4, <1>6, <2>1 DEF PopPacket, pcm_vars, history_vars
  <2>2. CASE queue # << >>
    <3>1. batch' = Append(batch, Head(queue)) /\ queue' = Tail(queue) /\ wire' = wire
      BY <1>6, <2>2 DEF PopPacket, pcm_vars, history_vars
    <3>2. /\ Ordered(batch') /\ Ordered(queue') /\ Before(batch', queue')
          /\ Before(wire, batch') /\ Before(wire, queue')
          /\ Below(batch', Bound') /\ Below(queue', Bound')
      BY <1>3, <1>5, <2>2, <3>1, MoveOrder DEF LineInv
    <3> QED
      BY <1>2, <1>5, <3>1, <3>2 DEF LineInv
  <2> QED
    BY <2>1, <2>2
<1>7. CASE EmitPacket
  <2>1. CASE batch = << >>
    BY <1>4, <1>7, <2>1 DEF EmitPacket, state_vars
  <2>2. CASE batch # << >>
    <3>1. wire' = Append(wire, Head(batch)) /\ batch' = Tail(batch) /\ queue' = queue
      BY <1>7, <2>2 DEF EmitPacket, state_vars
    <3>2. /\ Ordered(wire') /\ Ordered(batch') /\ Before(wire', batch')
          /\ Before(wire', queue) /\ Before(batch', queue)
          /\ Below(wire', Bound') /\ Below(batch', Bound')
      BY <1>3, <1>5, <2>2, <3>1, MoveOrder DEF LineInv
    <3> QED
      BY <1>2, <1>5, <3>1, <3>2 DEF LineInv
  <2> QED
    BY <2>1, <2>2
<1>8. CASE EmptyQueue
  <2>1. CASE queue = << >>
    BY <1>4, <1>8, <2>1 DEF EmptyQueue
  <2>2. CASE queue # << >>
    <3>1. wire' = Append(wire, Head(queue)) /\ queue' = Tail(queue) /\ batch' = batch
            /\ batch = << >>
      BY <1>8, <2>2 DEF EmptyQueue, PlaceInv
    <3>2. /\ Ordered(wire') /\ Ordered(queue') /\ Before(wire', queue')
          /\ Below(wire', Bound') /\ Below(queue', Bound')
      BY <1>3, <1>5, <2>2, <3>1, MoveOrder DEF LineInv
    <3>3. Before(wire', batch') /\ Before(batch', queue')
      BY <3>1, EmptyOrder
    <3> QED
      BY <1>2, <1>5, <3>1, <3>2, <3>3 DEF LineInv
  <2> QED
    BY <2>1, <2>2
<1>9. CASE Flush
  <2>1. queue' = << >> /\ wire' = wire /\ batch' = batch
    BY <1>9 DEF Flush, node_vars, pcm_vars, history_vars
  <2>2. Ordered(queue') /\ Before(wire', queue') /\ Before(batch', queue')
          /\ Below(queue', Bound')
    BY <2>1, EmptyOrder
  <2> QED
    BY <1>2, <1>5, <2>1, <2>2 DEF LineInv
<1>10. CASE Join \/ NewPipeline \/ PassTransmit \/ PassHandler \/ StartDrain \/ InstallHandler
              \/ (\E then \in Afterwards : StopSender(then))
              \/ (\E enabled \in BOOLEAN : SetTransmitEnabled(enabled)) \/ Still
  BY <1>4, <1>10 DEF Join, NewPipeline, PassTransmit, PassHandler, StartDrain, InstallHandler,
     StopSender, SetTransmitEnabled, Still, node_vars, state_vars, pcm_vars, history_vars
<1> QED
  BY <1>6, <1>7, <1>8, <1>9, <1>10, StillSteps DEF MainNext, MainStep

LEMMA OrderInit == Init => OrderInv
<1> SUFFICES ASSUME Init PROVE OrderInv
  OBVIOUS
<1>1. ~Holds
  BY DEF Init, Holds, Hands, Worker
<1>2. LineInv
  BY <1>1, EmptyOrder DEF Init, LineInv
<1> QED
  BY <1>2 DEF Init, OrderInv, NoHandlerInv, Worker

LEMMA OrderStep ==
  ASSUME TypeOK, PlaceInv, OrderInv, [Next]_vars
  PROVE  OrderInv'
<1>1. use' = use
  BY StillSteps DEF Next, WorkerStep, MainStep, StartWorker, Tick, Finish, CheckTransmit, ReadHandler,
         CallHandler, QueuePacket, StoreClock, PopPacket, EmitPacket, Join, EmptyQueue,
         NewPipeline, PassTransmit, PassHandler, StartDrain, InstallHandler, Flush,
         StopSender, SetTransmitEnabled, Still, pcm_vars, history_vars
<1>2. CASE "handler" \notin use
  <2>1. NoHandlerInv /\ LineInv /\ TypeOK'
    BY <1>2, StepType DEF OrderInv
  <2>2. NoHandlerInv'
    BY <1>2, <2>1, NoHandlerStep
  <2>3. LineInv'
    BY <2>1, WorkerKeepsLine, MainKeepsLine DEF Next, MainNext
  <2> QED
    BY <2>2, <2>3 DEF OrderInv
<1>3. CASE "handler" \in use
  BY <1>1, <1>3 DEF OrderInv
<1> QED
  BY <1>2, <1>3

\* Without a direct send handler packets leave in the order they were encoded
\* (sender.rs:736-760, 1021-1050), whatever is dropped, muted, flushed or stopped in
\* between: the queue is popped by two threads, but into one line.
THEOREM PacketsLeaveInOrder == Spec => []PacketsStayInOrder
<1>1. OrderInv => PacketsStayInOrder
  BY DEF OrderInv, LineInv, Ordered, Age, PacketsStayInOrder
<1> QED
  BY <1>1, PlacesAreInvariant, OrderInit, OrderStep, PTL DEF Spec
-----------------------------------------------------------------------------
\* The end of a stop: the youngest packet on its way closes the talkspurt whenever the
\* encoder is silent, and the encoder of a worker that is done is.
LineEnds ==
  ~enc.speaking =>
    /\ Holds => worker.pkt.end
    /\ ~Holds /\ queue # << >> => Last(queue).end
    /\ ~Holds /\ queue = << >> /\ batch # << >> => Last(batch).end
    /\ ~Holds /\ queue = << >> /\ batch = << >> /\ wire # << >> => Last(wire).end

SilenceInv ==
  /\ worker.at \in {"none", "starting", "storing", "done"} => ~enc.speaking
  /\ Holds /\ worker.last => ~enc.speaking

UnmutedInv == transmit /\ node_transmit

BoundaryInv ==
  use \subseteq {"driver", "partial", "error"} => UnmutedInv /\ NoHandlerInv /\ SilenceInv /\ LineEnds

LEMMA LastAppended ==
  ASSUME NEW s \in Seq(VoicePackets), NEW x \in VoicePackets
  PROVE  Append(s, x) # << >> /\ Last(Append(s, x)) = x
BY DEF Last

LEMMA LastOfTail ==
  ASSUME NEW s \in Seq(VoicePackets), s # << >>
  PROVE  /\ Tail(s) # << >> => Last(Tail(s)) = Last(s)
         /\ Tail(s) = << >> => Head(s) = Last(s)
         /\ Head(s) \in VoicePackets
<1>1. Tail(s) \in Seq(VoicePackets) /\ Len(s) \in Nat \ {0} /\ Len(Tail(s)) = Len(s) - 1
        /\ Head(s) = s[1] /\ Head(s) \in VoicePackets
  OBVIOUS
<1>2. ASSUME Tail(s) # << >> PROVE Last(Tail(s)) = Last(s)
  <2>1. Len(Tail(s)) \in 1 .. Len(Tail(s))
    BY <1>1, <1>2
  <2>2. \A i \in 1 .. Len(Tail(s)) : Tail(s)[i] = s[i + 1]
    OBVIOUS
  <2>3. Tail(s)[Len(Tail(s))] = s[Len(Tail(s)) + 1]
    BY <2>1, <2>2
  <2>4. Len(Tail(s)) + 1 = Len(s)
    BY <1>1
  <2>5. Tail(s)[Len(Tail(s))] = s[Len(s)]
    BY <2>3, <2>4
  <2> QED
    BY <2>5 DEF Last
<1>3. ASSUME Tail(s) = << >> PROVE Head(s) = Last(s)
  <2> DEFINE t == Tail(s)
  <2>1. t = << >> /\ Len(s) \in Nat /\ Len(t) = Len(s) - 1
    BY <1>1, <1>3
  <2> HIDE DEF t
  <2>2. Len(s) = 1
    BY <2>1
  <2> QED
    BY <1>1, <2>2 DEF Last
<1> QED
  BY <1>1, <1>2, <1>3

LEMMA WorkerKeepsBoundary ==
  ASSUME TypeOK, UnmutedInv, NoHandlerInv, SilenceInv, LineEnds, WorkerStep
  PROVE  SilenceInv' /\ LineEnds'
<1>1. enc \in EncoderStates /\ queue \in Seq(VoicePackets)
  BY DEF TypeOK
<1>2. AfterPacket.at = (IF worker.last THEN "storing" ELSE "loop")
  BY DEF AfterPacket, Worker
<1>3. CASE StartWorker \/ StoreClock
  <2>1. ~enc.speaking /\ ~enc'.speaking /\ ~Holds /\ ~Holds'
    BY <1>3 DEF StartWorker, StoreClock, Holds, Hands, Worker, FreshEncoder, SilenceInv
  <2>2. UNCHANGED <<wire, batch, queue>>
    BY <1>3 DEF StartWorker, StoreClock, node_vars, state_vars, pcm_vars, history_vars
  <2> QED
    BY <2>1, <2>2 DEF SilenceInv, LineEnds
<1>4a. CASE Tick /\ Waits
  <2>1. UNCHANGED <<worker, enc, wire, batch, queue>>
    BY <1>4a DEF Waits, Tick, node_vars, state_vars, history_vars
  <2> QED
    BY <2>1 DEF SilenceInv, LineEnds, Holds
<1>4. CASE Tick /\ ~Waits
  <2>1. PICK kind \in FrameKinds :
          /\ worker' = IF PolledPackets(enc, kind) = << >> THEN worker
                       ELSE Holding("polled", PolledPackets(enc, kind)[1], FALSE)
          /\ enc' = PolledEncoder(enc, kind)
    BY <1>4, TickEncodes
  <2>2. ~Holds /\ worker.at = "loop" /\ UNCHANGED <<wire, batch, queue>>
    BY <1>4 DEF Tick, Holds, Hands, node_vars, state_vars, history_vars
  <2>3. CASE PolledPackets(enc, kind) = << >>
    <3>1. worker' = worker /\ (~enc'.speaking => ~enc.speaking)
      BY <1>1, <2>1, <2>3, PolledEncoderSpeech
    <3>2. ~Holds' /\ worker'.at = "loop"
      BY <2>2, <3>1 DEF Holds
    <3> QED
      BY <2>2, <3>1, <3>2 DEF SilenceInv, LineEnds
  <2>4. CASE PolledPackets(enc, kind) # << >>
    <3> DEFINE pkt == PolledPackets(enc, kind)[1]
    <3>1. worker' = Holding("polled", pkt, FALSE) /\ (~enc'.speaking => pkt.end)
      BY <1>1, <2>1, <2>4, PolledEncoderSpeech
    <3> HIDE DEF pkt
    <3>2. Holds' /\ worker'.pkt = pkt /\ worker'.at = "polled" /\ ~worker'.last
      BY <3>1 DEF Holding, Holds, Hands
    <3> QED
      BY <3>1, <3>2 DEF SilenceInv, LineEnds
  <2> QED
    BY <2>3, <2>4
<1>5. CASE Finish
  <2>1. /\ worker' = IF FinishPackets(enc) = << >> THEN Worker("storing")
                     ELSE Holding("polled", FinishPackets(enc)[1], TRUE)
        /\ enc' = FinishedEncoder(enc)
    BY <1>5 DEF Finish
  <2>2. ~Holds /\ UNCHANGED <<wire, batch, queue>>
    BY <1>5 DEF Finish, Holds, Hands, node_vars, state_vars, pcm_vars, history_vars
  <2>3. ~enc'.speaking
    BY <1>1, <2>1, FinishedEncoderSpeech
  <2>4. CASE FinishPackets(enc) = << >>
    <3>1. ~enc.speaking /\ worker' = Worker("storing")
      BY <1>1, <2>1, <2>4, FinishedEncoderSpeech
    <3>2. ~Holds'
      BY <3>1 DEF Worker, Holds, Hands
    <3> QED
      BY <2>2, <2>3, <3>1, <3>2 DEF SilenceInv, LineEnds
  <2>5. CASE FinishPackets(enc) # << >>
    <3>1. PICK pkt \in VoicePackets : FinishPackets(enc) = <<pkt>> /\ pkt.end
      BY <1>1, <2>5, FinishPacketsType
    <3>2. worker' = Holding("polled", pkt, TRUE)
      BY <2>1, <2>5, <3>1
    <3>3. Holds' /\ worker'.pkt = pkt
      BY <3>2 DEF Holding, Holds, Hands
    <3> QED
      BY <2>3, <3>1, <3>3 DEF SilenceInv, LineEnds
  <2> QED
    BY <2>4, <2>5
<1>6. CASE CheckTransmit \/ ReadHandler
  <2>1. Holds /\ UNCHANGED <<wire, batch, queue, enc>>
    BY <1>6 DEF CheckTransmit, ReadHandler, Holds, Hands, node_vars, state_vars, pcm_vars, history_vars
  <2>2. PICK place \in Hands : worker' = [worker EXCEPT !.at = place]
    BY <1>6 DEF CheckTransmit, ReadHandler, UnmutedInv, Hands
  <2>3. worker'.at \in Hands /\ worker'.pkt = worker.pkt /\ worker'.last = worker.last
    BY <2>1, <2>2, WorkerPlaces DEF Holding
  <2>4. Holds'
    BY <2>3 DEF Holds
  <2>5. worker'.at \notin {"none", "starting", "storing", "done"}
    BY <2>3 DEF Hands
  <2> QED
    BY <2>1, <2>3, <2>4, <2>5 DEF SilenceInv, LineEnds
<1>7. CASE CallHandler
  BY <1>7 DEF CallHandler, NoHandlerInv
<1>8. CASE QueuePacket
  <2>1. Holds /\ enc' = enc /\ worker' = AfterPacket
    BY <1>8 DEF QueuePacket, Holds, Hands
  <2>2. ~Holds'
    BY <1>2, <2>1 DEF Holds, Hands
  <2> DEFINE kept == IF worker.last THEN << >> ELSE QueueWithRoom
  <2>3. queue' = Append(kept, worker.pkt)
    BY <1>8 DEF QueuePacket, Queued
  <2>4. kept \in Seq(VoicePackets) /\ worker.pkt \in VoicePackets
    BY <1>1, <2>1, WorkerPlaces, PipelineAssumption DEF QueueWithRoom
  <2> HIDE DEF kept
  <2>5. queue' # << >> /\ Last(queue') = worker.pkt
    BY <2>3, <2>4, LastAppended
  <2>6. LineEnds'
    BY <2>1, <2>2, <2>5 DEF LineEnds
  <2>7. SilenceInv'
    BY <1>2, <2>1, <2>2 DEF SilenceInv
  <2> QED
    BY <2>6, <2>7
<1> QED
  BY <1>3, <1>4, <1>4a, <1>5, <1>6, <1>7, <1>8 DEF WorkerStep

LEMMA MainKeepsBoundary ==
  ASSUME TypeOK, PlaceInv, "flush" \notin use, SilenceInv, LineEnds,
         MainNext \/ UNCHANGED vars
  PROVE  SilenceInv' /\ LineEnds'
<1>1. enc' = enc /\ wire \in Seq(VoicePackets) /\ batch \in Seq(VoicePackets)
        /\ queue \in Seq(VoicePackets)
  BY StillSteps DEF TypeOK, MainNext, MainStep, PopPacket, EmitPacket, Join, EmptyQueue, NewPipeline,
     PassTransmit, PassHandler, StartDrain, InstallHandler, Flush, StopSender,
     SetTransmitEnabled, Still
<1>2. ASSUME UNCHANGED <<wire, batch, queue, worker>> PROVE SilenceInv' /\ LineEnds'
  BY <1>1, <1>2 DEF SilenceInv, LineEnds, Holds
<1>3. CASE PopPacket
  <2>1. CASE queue = << >>
    BY <1>2, <1>3, <2>1 DEF PopPacket, pcm_vars, history_vars
  <2>2. CASE queue # << >>
    <3>1. batch' = Append(batch, Head(queue)) /\ queue' = Tail(queue)
            /\ wire' = wire /\ worker' = worker
      BY <1>3, <2>2 DEF PopPacket, pcm_vars, history_vars
    <3>2. /\ queue' # << >> => Last(queue') = Last(queue)
          /\ queue' = << >> => batch' # << >> /\ Last(batch') = Last(queue)
      BY <1>1, <2>2, <3>1, LastOfTail, LastAppended
    <3>3. Holds' <=> Holds
      BY <3>1 DEF Holds
    <3> QED
      BY <1>1, <2>2, <3>1, <3>2, <3>3 DEF SilenceInv, LineEnds
  <2> QED
    BY <2>1, <2>2
<1>4. CASE EmitPacket
  <2>1. CASE batch = << >>
    BY <1>2, <1>4, <2>1 DEF EmitPacket, state_vars
  <2>2. CASE batch # << >>
    <3>1. wire' = Append(wire, Head(batch)) /\ batch' = Tail(batch)
            /\ queue' = queue /\ worker' = worker
      BY <1>4, <2>2 DEF EmitPacket, state_vars
    <3>2. /\ batch' # << >> => Last(batch') = Last(batch)
          /\ batch' = << >> => wire' # << >> /\ Last(wire') = Last(batch)
      BY <1>1, <2>2, <3>1, LastOfTail, LastAppended
    <3>3. Holds' <=> Holds
      BY <3>1 DEF Holds
    <3> QED
      BY <1>1, <2>2, <3>1, <3>2, <3>3 DEF SilenceInv, LineEnds
  <2> QED
    BY <2>1, <2>2
<1>5. CASE EmptyQueue
  <2>1. ~Holds /\ batch = << >> /\ batch' = batch /\ ~enc.speaking
    BY <1>5 DEF EmptyQueue, PlaceInv, SilenceInv, Holds, Hands
  <2>2. CASE queue = << >>
    <3>1. UNCHANGED <<wire, queue>> /\ worker' = Worker("none")
      BY <1>5, <2>2 DEF EmptyQueue
    <3>2. ~Holds'
      BY <3>1 DEF Holds, Hands, Worker
    <3> QED
      BY <1>1, <2>1, <3>1, <3>2 DEF SilenceInv, LineEnds
  <2>3. CASE queue # << >>
    <3>1. wire' = Append(wire, Head(queue)) /\ queue' = Tail(queue) /\ worker' = worker
      BY <1>5, <2>3 DEF EmptyQueue
    <3>2. /\ queue' # << >> => Last(queue') = Last(queue)
          /\ queue' = << >> => wire' # << >> /\ Last(wire') = Last(queue)
      BY <1>1, <2>3, <3>1, LastOfTail, LastAppended
    <3>3. Holds' <=> Holds
      BY <3>1 DEF Holds
    <3> QED
      BY <1>1, <2>1, <2>3, <3>1, <3>2, <3>3 DEF SilenceInv, LineEnds
  <2> QED
    BY <2>2, <2>3
<1>6. CASE NewPipeline
  <2>1. CASE worker' = worker
    BY <1>2, <1>6, <2>1 DEF NewPipeline
  <2>2. CASE worker' = Worker("starting")
    <3>1. worker.at = "none" /\ UNCHANGED <<wire, batch, queue>>
      BY <1>6 DEF NewPipeline, PlaceInv
    <3>2. ~Holds /\ ~Holds'
      BY <2>2, <3>1 DEF Holds, Hands, Worker
    <3> QED
      BY <1>1, <3>1, <3>2 DEF SilenceInv, LineEnds
  <2> QED
    BY <1>6, <2>1, <2>2 DEF NewPipeline
<1>7. CASE Flush
  BY <1>7 DEF Flush
<1>8. CASE Join \/ PassTransmit \/ PassHandler \/ StartDrain \/ InstallHandler
             \/ (\E then \in Afterwards : StopSender(then))
             \/ (\E enabled \in BOOLEAN : SetTransmitEnabled(enabled)) \/ Still
  BY <1>2, <1>8 DEF Join, PassTransmit, PassHandler, StartDrain, InstallHandler, StopSender,
     SetTransmitEnabled, Still, node_vars, state_vars, pcm_vars, history_vars
<1> QED
  BY <1>3, <1>4, <1>5, <1>6, <1>7, <1>8, StillSteps DEF MainNext, MainStep

LEMMA UnmutedStep ==
  ASSUME TypeOK, "mute" \notin use, UnmutedInv, [Next]_vars
  PROVE  UnmutedInv'
<1>1. CASE WorkerStep
  BY <1>1, WorkerFrame DEF UnmutedInv
<1>2. CASE NewPipeline \/ PassTransmit
  BY <1>2 DEF NewPipeline, PassTransmit, UnmutedInv
<1>3. ASSUME NEW enabled \in BOOLEAN, SetTransmitEnabled(enabled) PROVE UnmutedInv'
  BY <1>3 DEF SetTransmitEnabled
<1>4. ASSUME UNCHANGED <<transmit, node_transmit>> PROVE UnmutedInv'
  BY <1>4 DEF UnmutedInv
<1>5. CASE PopPacket \/ EmitPacket \/ Join \/ EmptyQueue \/ PassHandler \/ StartDrain
             \/ InstallHandler \/ Flush \/ (\E then \in Afterwards : StopSender(then))
             \/ Still
  BY <1>4, <1>5 DEF PopPacket, EmitPacket, Join, EmptyQueue, PassHandler, StartDrain,
     InstallHandler, Flush, StopSender, Still, node_vars, state_vars
<1> QED
  BY <1>1, <1>2, <1>3, <1>5, StillSteps DEF Next, MainStep

LEMMA BoundaryInit == Init => BoundaryInv
<1> SUFFICES ASSUME Init PROVE BoundaryInv
  OBVIOUS
<1>1. ~Holds /\ worker.at = "none" /\ ~enc.speaking
  BY DEF Init, Holds, Hands, Worker, FreshEncoder
<1>2. LineEnds /\ SilenceInv
  BY <1>1 DEF Init, LineEnds, SilenceInv
<1> QED
  BY <1>1, <1>2 DEF Init, BoundaryInv, UnmutedInv, NoHandlerInv

LEMMA BoundaryStep ==
  ASSUME TypeOK, PlaceInv, BoundaryInv, [Next]_vars
  PROVE  BoundaryInv'
<1>1. use' = use
  BY StillSteps DEF Next, WorkerStep, MainStep, StartWorker, Tick, Finish, CheckTransmit, ReadHandler,
         CallHandler, QueuePacket, StoreClock, PopPacket, EmitPacket, Join, EmptyQueue,
         NewPipeline, PassTransmit, PassHandler, StartDrain, InstallHandler, Flush,
         StopSender, SetTransmitEnabled, Still, pcm_vars, history_vars
<1>2. CASE use \subseteq {"driver", "partial", "error"}
  <2>1. "flush" \notin use /\ "mute" \notin use /\ "handler" \notin use
    BY <1>2
  <2>2. UnmutedInv /\ NoHandlerInv /\ SilenceInv /\ LineEnds
    BY <1>2 DEF BoundaryInv
  <2>3. UnmutedInv' /\ NoHandlerInv'
    BY <2>1, <2>2, UnmutedStep, NoHandlerStep
  <2>4. SilenceInv' /\ LineEnds'
    BY <2>1, <2>2, WorkerKeepsBoundary, MainKeepsBoundary DEF Next, MainNext
  <2> QED
    BY <2>3, <2>4 DEF BoundaryInv
<1>3. CASE ~(use \subseteq {"driver", "partial", "error"})
  BY <1>1, <1>3 DEF BoundaryInv
<1> QED
  BY <1>2, <1>3

\* "Stop is a speech boundary, not packet loss" (sender.rs:1114): once the sender is
\* stopped the last packet that went out carries END, however many packets the queue
\* dropped and the encoder failed at, when nobody mutes, flushes or takes packets over.
THEOREM StopIsSpeechBoundary == Spec => []PlainStopIsSpeechBoundary
<1>1. TypeOK /\ PlaceInv /\ BoundaryInv => PlainStopIsSpeechBoundary
  <2> SUFFICES ASSUME TypeOK, PlaceInv, BoundaryInv, use \subseteq {"driver", "partial", "error"},
                      main = Idle, ~HasPipeline, wire # << >>
               PROVE  Last(wire).end
    BY DEF PlainStopIsSpeechBoundary
  <2>1. worker.at = "none" /\ ~Holds /\ batch = << >> /\ queue = << >>
    BY DEF HasPipeline, Holds, Hands, PlaceInv, Idle
  <2> QED
    BY <2>1 DEF BoundaryInv, SilenceInv, LineEnds
<1> QED
  BY <1>1, PlacesAreInvariant, BoundaryInit, BoundaryStep, PTL DEF Spec
-----------------------------------------------------------------------------
\* The packet clock as a count: whoever has it has counted every packet made and all the
\* media time there was, which no frame is ahead of.
Stamped(packet_clock) ==
  /\ packet_clock.seq = enc.hist.idx % SeqMod
  /\ packet_clock.timestamp = MediaTime(enc.hist) % TsMod

NowInv ==
  /\ worker.at \in Running => Stamped(ClockOf(enc))
  /\ worker.at \in {"starting", "done"} => Stamped(clock)
  /\ worker.at = "none" \/ main.at = "emptying" => Stamped(node_clock)
  /\ enc.hist.stops <= enc.hist.idx
  /\ enc.hist.idx + Unclosed(enc) <= 2 * MediaTime(enc.hist)

\* What a step makes of the sender's history.
Grows ==
  enc.hist.idx <= enc'.hist.idx /\ MediaTime(enc.hist) <= MediaTime(enc'.hist)

LEMMA NowTypes ==
  ASSUME TypeOK, NowInv
  PROVE  /\ enc \in EncoderStates /\ enc.hist \in Histories /\ enc.hist.idx \in Nat
         /\ MediaTime(enc.hist) \in Nat /\ Unclosed(enc) \in 0 .. 1
         /\ SeqMod \in Nat \ {0} /\ TsMod \in Nat \ {0}
         /\ worker.at \in Running => OnTime(enc) /\ enc.seq = enc.hist.idx % SeqMod
<1>1. enc \in EncoderStates /\ enc.hist \in Histories /\ enc.hist.idx \in Nat
        /\ Unclosed(enc) \in 0 .. 1
  BY DEF TypeOK, EncoderStates, Histories, Unclosed
<1>2. MediaTime(enc.hist) \in Nat
  BY <1>1, MediaTimeType DEF NowInv
<1>3. worker.at \in Running => OnTime(enc) /\ enc.seq = enc.hist.idx % SeqMod
  BY DEF NowInv, Stamped, ClockOf, OnTime
<1> QED
  BY <1>1, <1>2, <1>3, SeqModAssumption, TsModAssumption DEF TypeOK

\* A step that only passes the clock on.
LEMMA NowPassed ==
  ASSUME TypeOK, NowInv, UNCHANGED enc,
         worker'.at \in Running => worker.at \in Running,
         worker'.at \in {"starting", "done"} => Stamped(clock'),
         worker'.at = "none" \/ main'.at = "emptying" => Stamped(node_clock')
  PROVE  NowInv' /\ Grows
<1>1. enc.hist.idx \in Nat /\ MediaTime(enc.hist) \in Nat
  BY NowTypes
<1> QED
  BY <1>1 DEF NowInv, Stamped, ClockOf, Grows, Unclosed, MediaTime

LEMMA WorkerNow ==
  ASSUME TypeOK, PlaceInv, NowInv, WorkerStep
  PROVE  NowInv' /\ Grows
<1>0. /\ enc \in EncoderStates /\ enc.hist.idx \in Nat /\ MediaTime(enc.hist) \in Nat
      /\ Unclosed(enc) \in 0 .. 1
      /\ SeqMod \in Nat \ {0} /\ TsMod \in Nat \ {0}
      /\ worker.at \in Running => OnTime(enc) /\ enc.seq = enc.hist.idx % SeqMod
  BY NowTypes
<1>1. main' = main /\ main.at # "emptying" /\ worker'.at # "none" /\ node_clock' = node_clock
  BY WorkerFrame, WorkerStaysInPlace DEF PlaceInv
\* A step that counts the packets it makes.
<1>2. ASSUME NEW sent \in 0 .. 1, worker.at = "loop", worker'.at \in Running,
             OnTime(enc'), enc'.seq = (enc.seq + sent) % SeqMod,
             enc'.hist.idx = enc.hist.idx + sent,
             MediaTime(enc'.hist) \in MediaTime(enc.hist) .. MediaTime(enc.hist) + 1,
             enc'.hist.idx + Unclosed(enc') <= 2 * MediaTime(enc'.hist)
      PROVE  NowInv' /\ Grows
  <2>1. enc.seq = enc.hist.idx % SeqMod
    BY <1>0, <1>2 DEF Running
  <2>2. enc'.seq = enc'.hist.idx % SeqMod
    <3>1. /\ enc.hist.idx \in Nat /\ SeqMod \in Nat \ {0} /\ enc.seq = enc.hist.idx % SeqMod
          /\ enc'.seq = (enc.seq + sent) % SeqMod /\ enc'.hist.idx = enc.hist.idx + sent
      BY <1>0, <1>2, <2>1
    <3>2. ((enc.hist.idx % SeqMod) + sent) % SeqMod = (enc.hist.idx + sent) % SeqMod
      BY <3>1, CountsOn
    <3> QED
      BY <3>1, <3>2, Zenon
  <2>3. Stamped(ClockOf(enc))' /\ enc'.hist.stops <= enc'.hist.idx
    BY <1>2, <2>2 DEF Stamped, ClockOf, OnTime
  <2>4. Grows
    BY <1>0, <1>2 DEF Grows
  <2>5. worker'.at \notin {"starting", "done", "none"} /\ main'.at # "emptying"
    BY <1>1, <1>2 DEF Running
  <2> QED
    BY <1>2, <2>3, <2>4, <2>5 DEF NowInv, Unclosed
<1>3. CASE StartWorker
  <2>1. UNCHANGED clock /\ worker.at = "starting" /\ Stamped(clock)
    BY <1>3 DEF StartWorker, state_vars, pcm_vars, history_vars, NowInv
  <2>2. CASE worker' = Worker("done") /\ UNCHANGED enc
    BY <1>1, <2>1, <2>2, NowPassed DEF Worker, Running, Stamped
  <2>3. CASE worker' = Worker("loop") /\ enc' = FreshEncoder(clock.seq, clock.timestamp, enc.hist)
    <3>1. /\ enc'.hist = enc.hist /\ enc'.seq = clock.seq /\ enc'.timestamp = clock.timestamp
          /\ Unclosed(enc') = 0 /\ worker'.at = "loop"
      BY <2>3 DEF FreshEncoder, Unclosed, Worker
    <3>2. Stamped(ClockOf(enc))' /\ Grows
      BY <1>0, <2>1, <3>1 DEF Stamped, ClockOf, Grows
    <3>3. enc.hist.idx + 0 <= 2 * MediaTime(enc.hist)
      BY <1>0 DEF NowInv
    <3> QED
      BY <1>1, <2>1, <3>1, <3>2, <3>3 DEF NowInv, Unclosed
  <2> QED
    BY <1>3, <2>2, <2>3 DEF StartWorker
<1>4a. CASE Tick /\ Waits
  <2>1. UNCHANGED <<worker, enc, clock>> /\ worker.at = "loop"
    BY <1>4a DEF Tick, Waits, state_vars
  <2> QED
    BY <1>1, <2>1, NowPassed DEF Running
<1>4. CASE Tick /\ ~Waits
  <2>1. PICK kind \in FrameKinds :
          /\ worker' = IF PolledPackets(enc, kind) = << >> THEN worker
                       ELSE Holding("polled", PolledPackets(enc, kind)[1], FALSE)
          /\ enc' = PolledEncoder(enc, kind)
    BY <1>4, TickEncodes
  <2>2. worker.at = "loop" /\ OnTime(enc)
    BY <1>0, <1>4 DEF Tick, Running
  <2> DEFINE sent == Len(PolledPackets(enc, kind))
  <2>3. sent \in 0 .. 1
    BY <1>0, PolledPacketsType
  <2>4. /\ OnTime(enc') /\ enc'.seq = (enc.seq + sent) % SeqMod
        /\ enc'.hist.idx = enc.hist.idx + sent
        /\ MediaTime(enc'.hist) = MediaTime(enc.hist) + 1
        /\ sent + Unclosed(enc') <= Unclosed(enc) + 2
    <3>1. kind # "error"
      BY <1>4, <2>1 DEF Waits, PolledEncoder, PolledPackets
    <3> QED
      BY <1>0, <2>1, <2>2, <3>1, PolledTime, PolledNumbers, PolledEncoderType
  <2>5. worker'.at \in Running
    BY <2>1, <2>2 DEF Holding, Running
  <2> HIDE DEF sent
  <2>6. Unclosed(enc') \in 0 .. 1
    BY DEF Unclosed
  <2>7. enc'.hist.idx + Unclosed(enc') <= 2 * MediaTime(enc'.hist)
    BY <1>0, <2>3, <2>4, <2>6 DEF NowInv
  <2>8. MediaTime(enc'.hist) \in MediaTime(enc.hist) .. MediaTime(enc.hist) + 1
    BY <1>0, <2>4
  <2> QED
    BY <1>2, <2>2, <2>3, <2>4, <2>5, <2>7, <2>8
<1>5. CASE Finish
  <2>1. /\ worker' = IF FinishPackets(enc) = << >> THEN Worker("storing")
                     ELSE Holding("polled", FinishPackets(enc)[1], TRUE)
        /\ enc' = FinishedEncoder(enc)
    BY <1>5 DEF Finish, pcm_vars, history_vars
  <2>2. worker.at = "loop" /\ OnTime(enc)
    BY <1>0, <1>5 DEF Finish, Running
  <2> DEFINE sent == Len(FinishPackets(enc))
  <2>3. sent \in 0 .. 1
    BY <1>0, FinishPacketsType
  <2>4. /\ OnTime(enc') /\ enc'.seq = (enc.seq + sent) % SeqMod
        /\ enc'.hist.idx = enc.hist.idx + sent
        /\ MediaTime(enc'.hist) = MediaTime(enc.hist)
        /\ sent = Unclosed(enc) /\ Unclosed(enc') = 0
    BY <1>0, <2>1, <2>2, FinishTime, FinishNumbers, FinishedEncoderType
  <2>5. worker'.at \in Running
    BY <2>1, <2>2 DEF Holding, Worker, Running
  <2> HIDE DEF sent
  <2>7. enc'.hist.idx + Unclosed(enc') <= 2 * MediaTime(enc'.hist)
    BY <1>0, <2>1, <2>3, <2>4 DEF NowInv
  <2>8. MediaTime(enc'.hist) \in MediaTime(enc.hist) .. MediaTime(enc.hist) + 1
    BY <1>0, <2>1, <2>4
  <2> QED
    BY <1>2, <2>2, <2>3, <2>4, <2>5, <2>7, <2>8
<1>6. CASE CheckTransmit \/ ReadHandler \/ CallHandler \/ QueuePacket
  <2>1. Holds /\ UNCHANGED <<enc, clock>>
    BY <1>6 DEF CheckTransmit, ReadHandler, CallHandler, QueuePacket, Holds, Hands, state_vars,
       pcm_vars, history_vars
  <2>2. worker' = AfterPacket \/ \E place \in Hands : worker' = [worker EXCEPT !.at = place]
    BY <1>6 DEF CheckTransmit, ReadHandler, CallHandler, QueuePacket, Hands
  <2>3. worker'.at \in Running /\ worker.at \in Running
    <3>1. AfterPacket.at \in {"storing", "loop"}
      BY DEF AfterPacket, Worker
    <3>2. \A place \in Hands : [worker EXCEPT !.at = place].at = place
      BY <2>1, WorkerPlaces DEF Holding
    <3> QED
      BY <2>1, <2>2, <3>1, <3>2 DEF Running, Hands, Holds
  <2> QED
    BY <1>1, <2>1, <2>3, NowPassed DEF Running
<1>7. CASE StoreClock
  <2>1. UNCHANGED enc /\ clock' = ClockOf(enc) /\ worker' = Worker("done")
          /\ worker.at \in Running
    BY <1>7 DEF StoreClock, Running, pcm_vars, history_vars
  <2>2. Stamped(clock')
    BY <2>1 DEF NowInv
  <2> QED
    BY <1>1, <2>1, <2>2, NowPassed DEF Worker, Running
<1> QED
  BY <1>3, <1>4, <1>4a, <1>5, <1>6, <1>7 DEF WorkerStep

LEMMA MainNow ==
  ASSUME TypeOK, PlaceInv, NowInv, MainNext \/ UNCHANGED vars
  PROVE  NowInv' /\ Grows
<1>1. enc' = enc
  BY StillSteps DEF MainNext, MainStep, PopPacket, EmitPacket, Join, EmptyQueue, NewPipeline, PassTransmit,
     PassHandler, StartDrain, InstallHandler, Flush, StopSender, SetTransmitEnabled, Still,
     pcm_vars, history_vars
<1>2. CASE Join
  <2>1. worker' = worker /\ worker.at = "done" /\ clock' = clock /\ node_clock' = clock
    BY <1>2 DEF Join, Joined, state_vars
  <2> QED
    BY <1>1, <2>1, NowPassed DEF NowInv, Stamped
<1>3. CASE EmptyQueue
  <2>1. worker' \in {worker, Worker("none")} /\ UNCHANGED <<clock, node_clock>>
          /\ main.at = "emptying"
    BY <1>3 DEF EmptyQueue
  <2> QED
    BY <1>1, <2>1, NowPassed DEF NowInv, Stamped, Worker, Running
<1>4. CASE NewPipeline
  <2>1. CASE UNCHANGED <<worker, clock, node_clock>> /\ main' = Idle
    BY <1>1, <2>1, NowPassed DEF NowInv, Stamped, Idle
  <2>2. CASE worker' = Worker("starting") /\ clock' = node_clock /\ main'.at = "muting"
    <3>1. Stamped(node_clock)
      BY <1>4 DEF NewPipeline, PlaceInv, NowInv
    <3> QED
      BY <1>1, <2>2, <3>1, NowPassed DEF Stamped, Worker, Running
  <2> QED
    BY <1>4, <2>1, <2>2 DEF NewPipeline
<1>5. ASSUME UNCHANGED <<worker, clock, node_clock>>,
             main'.at = "emptying" => main.at = "emptying" \/ worker.at = "none"
      PROVE  NowInv' /\ Grows
  BY <1>1, <1>5, NowPassed DEF NowInv, Stamped
<1>6. CASE PopPacket \/ EmitPacket \/ PassTransmit \/ PassHandler \/ StartDrain
             \/ InstallHandler \/ Flush \/ Still
  <2>1. UNCHANGED <<worker, clock, node_clock>>
    BY <1>6 DEF PopPacket, EmitPacket, PassTransmit, PassHandler, StartDrain, InstallHandler,
       Flush, Still, node_vars, state_vars
  <2>2. main'.at = "emptying" => main.at = "emptying"
    BY <1>6 DEF PopPacket, EmitPacket, PassTransmit, PassHandler, StartDrain, InstallHandler,
       Flush, Idle, Still, node_vars
  <2> QED
    BY <1>5, <2>1, <2>2
<1>7. ASSUME NEW then \in Afterwards, StopSender(then) PROVE NowInv' /\ Grows
  BY <1>5, <1>7 DEF StopSender, Main, HasPipeline
<1>8. ASSUME NEW enabled \in BOOLEAN, SetTransmitEnabled(enabled) PROVE NowInv' /\ Grows
  BY <1>5, <1>8 DEF SetTransmitEnabled
<1> QED
  BY <1>2, <1>3, <1>4, <1>6, <1>7, <1>8, StillSteps DEF MainNext, MainStep

LEMMA NowStep ==
  ASSUME TypeOK, PlaceInv, NowInv, [Next]_vars
  PROVE  NowInv' /\ Grows
BY WorkerNow, MainNow DEF Next, MainNext

LEMMA NowInit == Init => NowInv
<1> SUFFICES ASSUME Init PROVE NowInv
  OBVIOUS
<1>1. enc.hist = NewHistory /\ ~enc.speaking /\ worker.at = "none" /\ main = Idle
        /\ node_clock = [seq |-> 0, timestamp |-> 0]
  BY DEF Init, FreshEncoder, Worker
<1>2. /\ NewHistory.idx = 0 /\ NewHistory.stops = 0 /\ MediaTime(NewHistory) = 0
      /\ 0 % SeqMod = 0 /\ 0 % TsMod = 0
  BY SeqModAssumption, TsModAssumption DEF NewHistory, MediaTime
<1>3. Stamped(node_clock)
  BY <1>1, <1>2 DEF Stamped
<1>4. Unclosed(enc) = 0
  BY <1>1 DEF Unclosed
<1> QED
  BY <1>1, <1>2, <1>3, <1>4 DEF NowInv, Running, Idle

-----------------------------------------------------------------------------
\* All PCM that came out of capture is in one of four places.  What was encoded is the
\* media time of the encoder's history, two half frames each.
PcmInv == Unheard + 2 * MediaTime(enc.hist) = captured

LEMMA UnheardNext ==
  ASSUME TypeOK'
  PROVE  Unheard' \in Nat
<1>1. pcm' \in Nat /\ pending' \in Nat /\ discarded' \in Nat
  BY DEF TypeOK, FramePcm
<1>2. Unheard' = pcm' + (pending' + discarded')
  BY DEF Unheard
<1> QED
  BY <1>1, <1>2, ThreeSum

\* A step that encodes a frame or none, and moves the rest.
LEMMA PcmMoved ==
  ASSUME TypeOK, TypeOK', NowInv, PcmInv, NEW frames \in 0 .. 1,
         MediaTime(enc'.hist) = MediaTime(enc.hist) + frames,
         (Unheard' + 2 * frames) + captured = Unheard + captured'
  PROVE  PcmInv'
<1>1. MediaTime(enc.hist) \in Nat /\ Unheard \in Nat /\ captured \in Nat
  BY NowTypes, UnheardType, PcmTypes
<1>3. Unheard' \in Nat
  BY UnheardNext
<1>4. captured' \in Nat
  BY PcmTypes DEF TypeOK
<1>2. PcmInv' <=> Unheard' + 2 * MediaTime(enc'.hist) = captured'
  BY DEF PcmInv
<1> QED
  BY <1>1, <1>2, <1>3, <1>4 DEF PcmInv

LEMMA PcmStep ==
  ASSUME TypeOK, PlaceInv, NowInv, PcmInv, [Next]_vars
  PROVE  PcmInv'
<1>0. /\ TypeOK' /\ NowInv'
      /\ MediaTime(enc.hist) \in Nat /\ enc \in EncoderStates
      /\ Unheard \in Nat /\ Unheard' \in Nat /\ captured \in Nat
      /\ worker.at \in Running => OnTime(enc)
  <2>1. TypeOK' /\ NowInv'
    BY StepType, NowStep
  <2>2. Unheard' \in Nat
    BY <2>1, UnheardNext
  <2> QED
    BY <2>1, <2>2, NowTypes, PcmTypes, UnheardType
<1>1. ASSUME UNCHANGED <<pcm_vars, enc>> PROVE PcmInv'
  BY <1>1 DEF pcm_vars, PcmInv, Unheard
<1>2. CASE StartWorker
  <2>1. MediaTime(enc'.hist) = MediaTime(enc.hist) /\ UNCHANGED pcm_vars
    BY <1>2 DEF StartWorker, FreshEncoder
  <2> QED
    BY <2>1 DEF pcm_vars, PcmInv, Unheard
<1>3. CASE Tick
  <2>1. PICK kind \in FrameKinds : Ticked(kind)
    BY <1>3, TickTakes
  <2>2. OnTime(enc) /\ captured' = captured
    BY <1>0, <1>3 DEF Tick, Running
  <2>3. CASE Unheard' = Unheard /\ UNCHANGED enc
    BY <1>0, <2>2, <2>3 DEF PcmInv
  <2>4. CASE Unheard = Unheard' + (IF kind = "error" THEN 0 ELSE 2) /\ enc' = PolledEncoder(enc, kind)
    <3> DEFINE frames == IF kind = "error" THEN 0 ELSE 1
    <3>1. MediaTime(enc'.hist) = MediaTime(enc.hist) + frames
      BY <1>0, <2>2, <2>4, PolledTime
    <3>2. (Unheard' + 2 * frames) + captured = Unheard + captured'
      BY <1>0, <2>2, <2>4
    <3>3. frames \in 0 .. 1
      OBVIOUS
    <3> HIDE DEF frames
    <3> QED
      BY <1>0, <3>1, <3>2, <3>3, PcmMoved
  <2> QED
    BY <2>1, <2>3, <2>4 DEF Ticked
<1>4. CASE Finish
  <2>1. MediaTime(enc'.hist) = MediaTime(enc.hist)
    BY <1>0, <1>4, FinishTime DEF Finish, Running
  <2>2. /\ pending' = 0 /\ discarded' = discarded + pending /\ UNCHANGED <<pcm, captured>>
    BY <1>4 DEF Finish
  <2>3. Unheard' = Unheard
    BY <2>2, PcmTypes DEF Unheard
  <2> QED
    BY <2>1, <2>2, <2>3 DEF PcmInv
<1>5. CASE CheckTransmit \/ ReadHandler \/ CallHandler \/ QueuePacket \/ StoreClock
  BY <1>1, <1>5 DEF CheckTransmit, ReadHandler, CallHandler, QueuePacket, StoreClock
<1>6. CASE MainNext
  <2>1. Unheard' + captured = Unheard + captured'
    BY <1>6, MainMovesPcm DEF MovesPcm
  <2>2. enc' = enc
    BY <1>6, StillSteps DEF MainNext, MainStep, PopPacket, EmitPacket, Join, EmptyQueue, NewPipeline,
       PassTransmit, PassHandler, StartDrain, InstallHandler, Flush, StopSender,
       SetTransmitEnabled, Still
  <2>3. (Unheard' + 2 * 0) + captured = Unheard + captured'
    BY <1>0, <2>1
  <2>4. MediaTime(enc'.hist) = MediaTime(enc.hist) + 0
    BY <1>0, <2>2
  <2> QED
    BY <1>0, <2>3, <2>4, PcmMoved
<1> QED
  BY <1>1, <1>2, <1>3, <1>4, <1>5, <1>6 DEF Next, MainNext, WorkerStep, vars

LEMMA PcmInit == Init => PcmInv
BY DEF Init, PcmInv, Unheard, MediaTime, FreshEncoder, NewHistory

LEMMA ClockIsInvariant == Spec => [](TypeOK /\ PlaceInv /\ NowInv /\ PcmInv)
BY PlacesAreInvariant, NowInit, NowStep, PcmInit, PcmStep, PTL DEF Spec

\* The media clock misses the PCM that was thrown away and nothing else, for any amount of
\* capture in whole frames and parts, any order of flushes, stops, rebuilds and failed
\* starts, and any capacity of the queues (sender.rs:751-755, 797-805, 857, 945-951,
\* 1114-1138, encoder.rs:82-95 and 141).
THEOREM ClockMissesOnlyDiscards == Spec => []MediaClockMissesOnlyDiscards
<1>1. TypeOK /\ PlaceInv /\ NowInv /\ PcmInv => MediaClockMissesOnlyDiscards
  <2> SUFFICES ASSUME TypeOK, PlaceInv, NowInv, PcmInv
               PROVE  ClockCounts(captured - discarded - pcm - pending)
    BY DEF MediaClockMissesOnlyDiscards
  <2> DEFINE time == MediaTime(enc.hist)
  <2>1. time \in Nat /\ captured - discarded - pcm - pending = 2 * time
    BY NowTypes, PcmTypes DEF PcmInv, Unheard
  <2>2. MediaClock = time % TsMod
    <3>1. worker.at \in Running \cup {"none", "starting", "done"}
      BY WorkerPlaces DEF Running, Hands
    <3> QED
      BY <3>1 DEF NowInv, Stamped, ClockOf, MediaClock, Running
  <2> HIDE DEF time
  <2>3. (2 * time) % FramePcm = 0 /\ (2 * time) \div FramePcm = time
    BY <2>1 DEF FramePcm
  <2> QED
    BY <2>1, <2>2, <2>3 DEF ClockCounts
<1> QED
  BY <1>1, ClockIsInvariant, PTL
-----------------------------------------------------------------------------
\* A packet of the sender's past, numbered and stamped with what had been counted then.
Known(pkt, hist) ==
  /\ pkt.seq = Age(pkt) % SeqMod /\ OnTime(pkt)
  /\ Age(pkt) < hist.idx /\ MediaTime(pkt.hist) <= MediaTime(hist)

\* Two packets made at different times, the later one with no earlier media time.
Fit(p, q) ==
  /\ Age(p) # Age(q)
  /\ Age(p) < Age(q) => MediaTime(p.hist) <= MediaTime(q.hist)
  /\ Age(q) < Age(p) => MediaTime(q.hist) <= MediaTime(p.hist)

AllKnown(s, hist) == \A i \in DOMAIN s : Known(s[i], hist)
Distinct(s) == \A i, j \in DOMAIN s : i # j => Fit(s[i], s[j])
Apart(s, t) == \A i \in DOMAIN s, j \in DOMAIN t : Fit(s[i], t[j])
AllFit(s, pkt) == \A i \in DOMAIN s : Fit(s[i], pkt)

\* Every packet is in one place.
IdsInv ==
  /\ AllKnown(wire, enc.hist) /\ AllKnown(batch, enc.hist) /\ AllKnown(queue, enc.hist)
  /\ Distinct(wire) /\ Distinct(batch) /\ Distinct(queue)
  /\ Apart(wire, batch) /\ Apart(wire, queue) /\ Apart(batch, queue)
  /\ Holds => /\ Known(worker.pkt, enc.hist)
              /\ AllFit(wire, worker.pkt) /\ AllFit(batch, worker.pkt)
              /\ AllFit(queue, worker.pkt)

LEMMA FitSymmetric == \A p, q : Fit(p, q) => Fit(q, p)
BY DEF Fit

LEMMA ApartSymmetric == \A s, t : Apart(s, t) => Apart(t, s)
BY FitSymmetric DEF Apart

LEMMA EmptyFits ==
  ASSUME NEW t, NEW pkt, NEW hist
  PROVE  AllKnown(<< >>, hist) /\ Distinct(<< >>) /\ Apart(t, << >>) /\ AllFit(<< >>, pkt)
BY DEF AllKnown, Distinct, Apart, AllFit

LEMMA TailFits ==
  ASSUME NEW s \in Seq(VoicePackets), s # << >>, Distinct(s)
  PROVE  /\ Distinct(Tail(s)) /\ AllFit(Tail(s), Head(s))
         /\ \A t : Apart(t, s) => Apart(t, Tail(s)) /\ AllFit(t, Head(s))
         /\ \A pkt : AllFit(s, pkt) => AllFit(Tail(s), pkt) /\ Fit(Head(s), pkt)
         /\ \A hist : AllKnown(s, hist) => AllKnown(Tail(s), hist) /\ Known(Head(s), hist)
<1> DEFINE r == Tail(s)
<1>1. /\ Head(s) = s[1] /\ 1 \in DOMAIN s
      /\ \A i \in DOMAIN r : i + 1 \in DOMAIN s /\ 1 < i + 1 /\ r[i] = s[i + 1]
      /\ DOMAIN r \subseteq Nat
  BY TailElements
<1> HIDE DEF r
<1>2. Distinct(r)
  BY <1>1 DEF Distinct
<1>3. AllFit(r, Head(s))
  BY <1>1 DEF Distinct, AllFit
<1>4. \A t : Apart(t, s) => Apart(t, r) /\ AllFit(t, Head(s))
  BY <1>1 DEF Apart, AllFit
<1>5. \A pkt : AllFit(s, pkt) => AllFit(r, pkt) /\ Fit(Head(s), pkt)
  BY <1>1 DEF AllFit
<1>6. \A hist : AllKnown(s, hist) => AllKnown(r, hist) /\ Known(Head(s), hist)
  BY <1>1 DEF AllKnown
<1> QED
  BY <1>2, <1>3, <1>4, <1>5, <1>6 DEF r

LEMMA AppendFits ==
  ASSUME NEW s \in Seq(VoicePackets), NEW x \in VoicePackets, Distinct(s), AllFit(s, x)
  PROVE  /\ Distinct(Append(s, x))
         /\ \A t : Apart(t, s) /\ AllFit(t, x) => Apart(t, Append(s, x))
         /\ \A pkt : AllFit(s, pkt) /\ Fit(x, pkt) => AllFit(Append(s, x), pkt)
         /\ \A hist : AllKnown(s, hist) /\ Known(x, hist) => AllKnown(Append(s, x), hist)
<1> DEFINE r == Append(s, x)
<1> DEFINE k == Len(s) + 1
<1>1. /\ DOMAIN r = DOMAIN s \cup {k} /\ r[k] = x
      /\ \A i \in DOMAIN s : r[i] = s[i]
  BY AppendElements
<1> HIDE DEF r, k
<1>2. Distinct(r)
  <2> SUFFICES ASSUME NEW i \in DOMAIN r, NEW j \in DOMAIN r, i # j
               PROVE  Fit(r[i], r[j])
    BY DEF Distinct
  <2>1. CASE i \in DOMAIN s /\ j \in DOMAIN s
    BY <1>1, <2>1 DEF Distinct
  <2>2. CASE i \in DOMAIN s /\ j = k
    BY <1>1, <2>2 DEF AllFit
  <2>3. CASE i = k /\ j \in DOMAIN s
    BY <1>1, <2>3, FitSymmetric DEF AllFit
  <2> QED
    BY <1>1, <2>1, <2>2, <2>3
<1>3. \A t : Apart(t, s) /\ AllFit(t, x) => Apart(t, r)
  BY <1>1 DEF Apart, AllFit
<1>4. \A pkt : AllFit(s, pkt) /\ Fit(x, pkt) => AllFit(r, pkt)
  BY <1>1 DEF AllFit
<1>5. \A hist : AllKnown(s, hist) /\ Known(x, hist) => AllKnown(r, hist)
  BY <1>1 DEF AllKnown
<1> QED
  BY <1>2, <1>3, <1>4, <1>5 DEF r

\* Moving the head of t to the end of s.
LEMMA MoveFits ==
  ASSUME NEW s \in Seq(VoicePackets), NEW t \in Seq(VoicePackets), t # << >>,
         Distinct(s), Distinct(t), Apart(s, t)
  PROVE  /\ Distinct(Append(s, Head(t))) /\ Distinct(Tail(t))
         /\ Apart(Append(s, Head(t)), Tail(t))
         /\ \A u : Apart(u, s) /\ Apart(u, t) =>
                     Apart(u, Append(s, Head(t))) /\ Apart(u, Tail(t))
         /\ \A pkt : AllFit(s, pkt) /\ AllFit(t, pkt) =>
                       AllFit(Append(s, Head(t)), pkt) /\ AllFit(Tail(t), pkt)
         /\ \A hist : AllKnown(s, hist) /\ AllKnown(t, hist) =>
                        AllKnown(Append(s, Head(t)), hist) /\ AllKnown(Tail(t), hist)
<1> DEFINE x == Head(t)
<1> DEFINE r == Append(s, x)
<1>1. x \in VoicePackets
  BY TailElements
<1>2. AllFit(s, x) /\ AllFit(Tail(t), x) /\ Distinct(Tail(t)) /\ Apart(s, Tail(t))
  BY TailFits
<1>3. /\ \A u : Apart(u, t) => Apart(u, Tail(t)) /\ AllFit(u, x)
      /\ \A pkt : AllFit(t, pkt) => AllFit(Tail(t), pkt) /\ Fit(x, pkt)
      /\ \A hist : AllKnown(t, hist) => AllKnown(Tail(t), hist) /\ Known(x, hist)
  BY TailFits
<1> HIDE DEF x
<1>4. /\ Distinct(r)
      /\ \A u : Apart(u, s) /\ AllFit(u, x) => Apart(u, r)
      /\ \A pkt : AllFit(s, pkt) /\ Fit(x, pkt) => AllFit(r, pkt)
      /\ \A hist : AllKnown(s, hist) /\ Known(x, hist) => AllKnown(r, hist)
  BY <1>1, <1>2, AppendFits
<1> HIDE DEF r
<1>5. Apart(r, Tail(t))
  BY <1>2, <1>4, ApartSymmetric
<1> QED
  BY <1>2, <1>3, <1>4, <1>5 DEF x, r

LEMMA KnownGrows ==
  ASSUME TypeOK, TypeOK', NowInv, NowInv', Grows,
         NEW pkt \in VoicePackets, Known(pkt, enc.hist)
  PROVE  Known(pkt, enc'.hist)
<1>1. enc.hist.idx \in Nat /\ MediaTime(enc.hist) \in Nat
  BY NowTypes
<1>n. enc'.hist.idx \in Nat /\ MediaTime(enc'.hist) \in Nat
  <2>1. enc'.hist \in Histories /\ enc'.hist.stops <= enc'.hist.idx
    BY DEF TypeOK, EncoderStates, NowInv
  <2> QED
    BY <2>1, MediaTimeType DEF Histories
<1>2. Age(pkt) \in Nat /\ MediaTime(pkt.hist) \in Nat
  BY AgeType, MediaTimeType DEF Known, OnTime, VoicePackets
<1> QED
  BY <1>1, <1>n, <1>2 DEF Known, Grows

LEMMA AllKnownGrows ==
  ASSUME TypeOK, TypeOK', NowInv, NowInv', Grows,
         NEW s \in Seq(VoicePackets), AllKnown(s, enc.hist)
  PROVE  AllKnown(s, enc'.hist)
BY KnownGrows DEF AllKnown

\* A step that puts nothing into the worker's hand and moves no packet.
LEMMA IdsStay ==
  ASSUME TypeOK, TypeOK', NowInv, NowInv', Grows, IdsInv, UNCHANGED <<wire, batch, queue>>,
         Holds' => Holds /\ worker'.pkt = worker.pkt
  PROVE  IdsInv'
<1>1. AllKnown(wire, enc'.hist) /\ AllKnown(batch, enc'.hist) /\ AllKnown(queue, enc'.hist)
  BY AllKnownGrows DEF TypeOK, IdsInv
<1>2. ASSUME Holds'
      PROVE  /\ Known(worker'.pkt, enc'.hist)
             /\ AllFit(wire, worker'.pkt) /\ AllFit(batch, worker'.pkt)
             /\ AllFit(queue, worker'.pkt)
  BY <1>2, WorkerPlaces, KnownGrows DEF IdsInv
<1> QED
  BY <1>1, <1>2 DEF IdsInv

\* A packet just made fits those made before it.
LEMMA NewestFits ==
  ASSUME TypeOK, NowInv, NEW s \in Seq(VoicePackets), AllKnown(s, enc.hist),
         NEW pkt \in VoicePackets, Age(pkt) = enc.hist.idx,
         MediaTime(pkt.hist) = MediaTime(enc.hist)
  PROVE  AllFit(s, pkt)
<1> SUFFICES ASSUME NEW i \in DOMAIN s PROVE Fit(s[i], pkt)
  BY DEF AllFit
<1>1. s[i] \in VoicePackets /\ Known(s[i], enc.hist)
  BY DEF AllKnown
<1>2. Age(s[i]) \in Nat /\ MediaTime(s[i].hist) \in Nat /\ enc.hist.idx \in Nat
        /\ MediaTime(enc.hist) \in Nat
  BY <1>1, NowTypes, AgeType, MediaTimeType DEF Known, OnTime, VoicePackets
<1> QED
  BY <1>1, <1>2 DEF Known, Fit

LEMMA IdsMade ==
  ASSUME TypeOK, TypeOK', NowInv, NowInv', Grows, IdsInv, UNCHANGED <<wire, batch, queue>>,
         NEW pkt \in VoicePackets, worker.at = "loop", Holds', worker'.pkt = pkt,
         pkt.seq = enc.seq, Age(pkt) = enc.hist.idx, OnTime(pkt),
         MediaTime(pkt.hist) = MediaTime(enc.hist), enc'.hist.idx = enc.hist.idx + 1
  PROVE  IdsInv'
<1>1. /\ wire \in Seq(VoicePackets) /\ batch \in Seq(VoicePackets) /\ queue \in Seq(VoicePackets)
      /\ AllKnown(wire, enc.hist) /\ AllKnown(batch, enc.hist) /\ AllKnown(queue, enc.hist)
  BY DEF TypeOK, IdsInv
<1>2. AllKnown(wire, enc'.hist) /\ AllKnown(batch, enc'.hist) /\ AllKnown(queue, enc'.hist)
  BY <1>1, AllKnownGrows
<1>3. AllFit(wire, pkt) /\ AllFit(batch, pkt) /\ AllFit(queue, pkt)
  BY <1>1, NewestFits
<1>4. Known(pkt, enc'.hist)
  <2>1. enc.hist.idx \in Nat /\ enc.seq = enc.hist.idx % SeqMod
    BY NowTypes DEF Running
  <2>2. Age(pkt) < enc'.hist.idx
    BY <2>1
  <2> QED
    BY <2>1, <2>2 DEF Known, Grows
<1> QED
  BY <1>2, <1>3, <1>4 DEF IdsInv

LEMMA WorkerIds ==
  ASSUME TypeOK, PlaceInv, NowInv, IdsInv, WorkerStep
  PROVE  IdsInv'
<1>0. TypeOK' /\ NowInv' /\ Grows /\ batch' = batch
  BY WorkerStepType, WorkerNow, WorkerFrame
<1>1. /\ enc \in EncoderStates
      /\ wire \in Seq(VoicePackets) /\ batch \in Seq(VoicePackets) /\ queue \in Seq(VoicePackets)
      /\ worker.at \in Running => OnTime(enc)
  BY NowTypes DEF TypeOK
<1>2. AfterPacket.at \notin Hands
  BY DEF AfterPacket, Worker, Hands
<1>3. CASE StartWorker \/ StoreClock
  <2>1. ~Holds' /\ UNCHANGED <<wire, batch, queue>>
    BY <1>3 DEF StartWorker, StoreClock, Holds, Hands, Worker, node_vars, state_vars,
       pcm_vars, history_vars
  <2> QED
    BY <1>0, <2>1, IdsStay
<1>4a. CASE Tick /\ Waits
  <2>1. UNCHANGED <<worker, enc, wire, batch, queue>> /\ ~Holds
    BY <1>4a DEF Waits, Tick, Holds, Hands, node_vars, state_vars, history_vars
  <2>2. ~Holds'
    BY <2>1 DEF Holds
  <2> QED
    BY <1>0, <2>1, <2>2, IdsStay
<1>4. CASE Tick /\ ~Waits
  <2>1. PICK kind \in FrameKinds :
          /\ worker' = IF PolledPackets(enc, kind) = << >> THEN worker
                       ELSE Holding("polled", PolledPackets(enc, kind)[1], FALSE)
          /\ enc' = PolledEncoder(enc, kind)
    BY <1>4, TickEncodes
  <2>2. worker.at = "loop" /\ ~Holds /\ OnTime(enc) /\ UNCHANGED <<wire, batch, queue>>
    BY <1>1, <1>4 DEF Tick, Holds, Hands, Running, node_vars, state_vars,
       history_vars
  <2>3. CASE PolledPackets(enc, kind) = << >>
    <3>1. ~Holds'
      BY <2>1, <2>2, <2>3 DEF Holds
    <3> QED
      BY <1>0, <2>2, <3>1, IdsStay
  <2>4. CASE PolledPackets(enc, kind) # << >>
    <3>1. PICK pkt \in VoicePackets :
            PolledPackets(enc, kind) = <<pkt>> /\ pkt.hist.idx = enc.hist.idx
      BY <1>1, <2>4, PolledPacketsType
    <3>2. worker' = Holding("polled", pkt, FALSE)
      BY <2>1, <2>4, <3>1
    <3>3. enc'.hist.idx = enc.hist.idx + 1
      BY <1>1, <2>1, <3>1, PolledEncoderType
    <3>4. pkt.seq = enc.seq /\ OnTime(pkt) /\ MediaTime(pkt.hist) = MediaTime(enc.hist)
      <4> DEFINE packets == PolledPackets(enc, kind)
      <4>1. /\ MadeBy(enc, packets)
            /\ \A k \in DOMAIN packets :
                 OnTime(packets[k]) /\ MediaTime(packets[k].hist) = MediaTime(enc.hist)
        BY <1>1, <2>2, PolledNumbers, PolledTime
      <4>2. 1 \in DOMAIN packets /\ packets[1] = pkt
        BY <3>1
      <4> HIDE DEF packets
      <4> QED
        BY <4>1, <4>2 DEF MadeBy
    <3>5. Holds' /\ worker'.pkt = pkt
      BY <3>2 DEF Holding, Holds, Hands
    <3> QED
      BY <1>0, <2>2, <3>1, <3>3, <3>4, <3>5, IdsMade DEF Age
  <2> QED
    BY <2>3, <2>4
<1>5. CASE Finish
  <2>1. /\ worker' = IF FinishPackets(enc) = << >> THEN Worker("storing")
                     ELSE Holding("polled", FinishPackets(enc)[1], TRUE)
        /\ enc' = FinishedEncoder(enc)
    BY <1>5 DEF Finish
  <2>2. worker.at = "loop" /\ ~Holds /\ OnTime(enc) /\ UNCHANGED <<wire, batch, queue>>
    BY <1>1, <1>5 DEF Finish, Holds, Hands, Running, node_vars, state_vars, pcm_vars, history_vars
  <2>3. CASE FinishPackets(enc) = << >>
    <3>1. ~Holds'
      BY <2>1, <2>3 DEF Holds, Hands, Worker
    <3> QED
      BY <1>0, <2>2, <3>1, IdsStay
  <2>4. CASE FinishPackets(enc) # << >>
    <3>1. PICK pkt \in VoicePackets :
            FinishPackets(enc) = <<pkt>> /\ pkt.hist.idx = enc.hist.idx
      BY <1>1, <2>4, FinishPacketsType
    <3>2. worker' = Holding("polled", pkt, TRUE)
      BY <2>1, <2>4, <3>1
    <3>3. enc'.hist.idx = enc.hist.idx + 1
      BY <1>1, <2>1, <3>1, FinishedEncoderType
    <3>4. pkt.seq = enc.seq /\ OnTime(pkt) /\ MediaTime(pkt.hist) = MediaTime(enc.hist)
      <4> DEFINE packets == FinishPackets(enc)
      <4>1. /\ MadeBy(enc, packets)
            /\ \A k \in DOMAIN packets :
                 OnTime(packets[k]) /\ MediaTime(packets[k].hist) = MediaTime(enc.hist)
        BY <1>1, <2>2, FinishNumbers, FinishTime
      <4>2. 1 \in DOMAIN packets /\ packets[1] = pkt
        BY <3>1
      <4> HIDE DEF packets
      <4> QED
        BY <4>1, <4>2 DEF MadeBy
    <3>5. Holds' /\ worker'.pkt = pkt
      BY <3>2 DEF Holding, Holds, Hands
    <3> QED
      BY <1>0, <2>2, <3>1, <3>3, <3>4, <3>5, IdsMade DEF Age
  <2> QED
    BY <2>3, <2>4
<1>6. CASE CheckTransmit \/ ReadHandler
  <2>1. Holds /\ UNCHANGED <<wire, batch, queue>>
    BY <1>6 DEF CheckTransmit, ReadHandler, Holds, Hands, node_vars, state_vars, pcm_vars, history_vars
  <2>2. worker' = AfterPacket \/ \E place \in Hands : worker' = [worker EXCEPT !.at = place]
    BY <1>6 DEF CheckTransmit, ReadHandler, Hands
  <2>3. \A place \in Hands : [worker EXCEPT !.at = place].pkt = worker.pkt
    BY <2>1, WorkerPlaces DEF Holding
  <2>4. Holds' => worker'.pkt = worker.pkt
    BY <1>2, <2>2, <2>3 DEF Holds
  <2> QED
    BY <1>0, <2>1, <2>4, IdsStay
<1>7. CASE CallHandler
  <2>1. Holds /\ UNCHANGED <<batch, queue, enc>> /\ wire' = Append(wire, worker.pkt)
          /\ ~Holds'
    BY <1>2, <1>7 DEF CallHandler, Holds, Hands, node_vars, state_vars
  <2>2. worker.pkt \in VoicePackets /\ Known(worker.pkt, enc.hist)
    BY <2>1, WorkerPlaces DEF IdsInv
  <2>3. Distinct(wire') /\ AllKnown(wire', enc.hist)
    BY <1>1, <2>1, <2>2, AppendFits DEF IdsInv
  <2>4. Apart(wire', batch) /\ Apart(wire', queue)
    BY <1>1, <2>1, <2>2, AppendFits, ApartSymmetric DEF IdsInv
  <2> QED
    BY <2>1, <2>3, <2>4 DEF IdsInv
<1>8. CASE QueuePacket
  <2>1. Holds /\ UNCHANGED <<wire, batch, enc>> /\ ~Holds'
    BY <1>2, <1>8 DEF QueuePacket, Holds, Hands, node_vars, pcm_vars, history_vars
  <2>2. worker.pkt \in VoicePackets /\ Known(worker.pkt, enc.hist)
    BY <2>1, WorkerPlaces DEF IdsInv
  <2> DEFINE kept == IF worker.last THEN << >> ELSE QueueWithRoom
  <2>3. queue' = Append(kept, worker.pkt)
    BY <1>8 DEF QueuePacket, Queued
  <2>4. kept \in Seq(VoicePackets) /\ Distinct(kept) /\ AllKnown(kept, enc.hist)
          /\ Apart(wire, kept) /\ Apart(batch, kept) /\ AllFit(kept, worker.pkt)
    <3>1. CASE kept = << >>
      <4>1. << >> \in Seq(VoicePackets)
        OBVIOUS
      <4> HIDE DEF kept
      <4> QED
        BY <3>1, <4>1, EmptyFits
    <3>2. CASE kept = queue
      BY <1>1, <2>1, <3>2 DEF IdsInv
    <3>3. CASE kept = Tail(queue) /\ queue # << >>
      <4> HIDE DEF kept
      <4> QED
        BY <1>1, <2>1, <3>3, TailElements, TailFits DEF IdsInv
    <3>4. Len(queue) >= MaxPendingPackets => queue # << >>
      BY PipelineAssumption
    <3> QED
      BY <3>1, <3>2, <3>3, <3>4 DEF QueueWithRoom
  <2> HIDE DEF kept
  <2>5. Distinct(queue') /\ AllKnown(queue', enc.hist)
          /\ Apart(wire, queue') /\ Apart(batch, queue')
    BY <2>1, <2>2, <2>3, <2>4, AppendFits DEF IdsInv
  <2> QED
    BY <2>1, <2>5 DEF IdsInv
<1> QED
  BY <1>3, <1>4, <1>4a, <1>5, <1>6, <1>7, <1>8 DEF WorkerStep

LEMMA MainIds ==
  ASSUME TypeOK, PlaceInv, NowInv, IdsInv, MainNext \/ UNCHANGED vars
  PROVE  IdsInv'
<1>0. TypeOK' /\ NowInv' /\ Grows
  BY MainNow, StepType DEF Next, MainNext
<1>1. /\ enc' = enc /\ worker' \in {worker, Worker("none"), Worker("starting")}
      /\ wire \in Seq(VoicePackets) /\ batch \in Seq(VoicePackets) /\ queue \in Seq(VoicePackets)
  BY StillSteps DEF TypeOK, MainNext, MainStep, PopPacket, EmitPacket, Join, EmptyQueue, NewPipeline,
     PassTransmit, PassHandler, StartDrain, InstallHandler, Flush, StopSender,
     SetTransmitEnabled, Still
<1>2. Holds' => Holds /\ worker'.pkt = worker.pkt
  BY <1>1 DEF Holds, Hands, Worker
<1>3. ASSUME UNCHANGED <<wire, batch, queue>> PROVE IdsInv'
  BY <1>0, <1>2, <1>3, IdsStay
<1>4. CASE PopPacket
  <2>1. CASE queue = << >>
    BY <1>3, <1>4, <2>1 DEF PopPacket, pcm_vars, history_vars
  <2>2. CASE queue # << >>
    <3>1. batch' = Append(batch, Head(queue)) /\ queue' = Tail(queue)
            /\ wire' = wire /\ worker' = worker
      BY <1>4, <2>2 DEF PopPacket, pcm_vars, history_vars
    <3>2. /\ Distinct(batch') /\ Distinct(queue') /\ Apart(batch', queue')
          /\ Apart(wire, batch') /\ Apart(wire, queue')
          /\ AllKnown(batch', enc.hist) /\ AllKnown(queue', enc.hist)
      BY <1>1, <2>2, <3>1, MoveFits DEF IdsInv
    <3>3. \A pkt : AllFit(batch, pkt) /\ AllFit(queue, pkt) =>
                     AllFit(batch', pkt) /\ AllFit(queue', pkt)
      BY <1>1, <2>2, <3>1, MoveFits DEF IdsInv
    <3> QED
      BY <1>1, <3>1, <3>2, <3>3 DEF IdsInv, Holds
  <2> QED
    BY <2>1, <2>2
<1>5. CASE EmitPacket
  <2>1. CASE batch = << >>
    BY <1>3, <1>5, <2>1 DEF EmitPacket, state_vars
  <2>2. CASE batch # << >>
    <3>1. wire' = Append(wire, Head(batch)) /\ batch' = Tail(batch)
            /\ queue' = queue /\ worker' = worker
      BY <1>5, <2>2 DEF EmitPacket, state_vars
    <3>2. /\ Distinct(wire') /\ Distinct(batch') /\ Apart(wire', batch')
          /\ AllKnown(wire', enc.hist) /\ AllKnown(batch', enc.hist)
      BY <1>1, <2>2, <3>1, MoveFits DEF IdsInv
    <3>3. Apart(wire', queue) /\ Apart(batch', queue)
      BY <1>1, <2>2, <3>1, MoveFits, ApartSymmetric DEF IdsInv
    <3>4. \A pkt : AllFit(wire, pkt) /\ AllFit(batch, pkt) =>
                     AllFit(wire', pkt) /\ AllFit(batch', pkt)
      BY <1>1, <2>2, <3>1, MoveFits DEF IdsInv
    <3> QED
      BY <1>1, <3>1, <3>2, <3>3, <3>4 DEF IdsInv, Holds
  <2> QED
    BY <2>1, <2>2
<1>6. CASE EmptyQueue
  <2>1. CASE queue = << >>
    BY <1>3, <1>6, <2>1 DEF EmptyQueue
  <2>2. CASE queue # << >>
    <3>1. wire' = Append(wire, Head(queue)) /\ queue' = Tail(queue)
            /\ batch' = batch /\ worker' = worker /\ ~Holds
      BY <1>6, <2>2 DEF EmptyQueue, PlaceInv, Holds, Hands
    <3>2. /\ Distinct(wire') /\ Distinct(queue') /\ Apart(wire', queue')
          /\ AllKnown(wire', enc.hist) /\ AllKnown(queue', enc.hist)
      BY <1>1, <2>2, <3>1, MoveFits DEF IdsInv
    <3>3. Apart(wire', batch) /\ Apart(batch, queue')
      BY <1>1, <2>2, <3>1, MoveFits, ApartSymmetric DEF IdsInv
    <3> QED
      BY <1>1, <3>1, <3>2, <3>3 DEF IdsInv, Holds
  <2> QED
    BY <2>1, <2>2
<1>7. CASE Flush
  <2>1. queue' = << >> /\ UNCHANGED <<wire, batch, worker>>
    BY <1>7 DEF Flush, node_vars, pcm_vars, history_vars
  <2>2. /\ Distinct(queue') /\ AllKnown(queue', enc.hist) /\ Apart(wire, queue')
        /\ Apart(batch, queue') /\ AllFit(queue', worker.pkt)
    BY <2>1, EmptyFits
  <2> QED
    BY <1>1, <2>1, <2>2 DEF IdsInv, Holds
<1>8. CASE Join \/ NewPipeline \/ PassTransmit \/ PassHandler \/ StartDrain \/ InstallHandler
             \/ (\E then \in Afterwards : StopSender(then))
             \/ (\E enabled \in BOOLEAN : SetTransmitEnabled(enabled)) \/ Still
  BY <1>3, <1>8 DEF Join, NewPipeline, PassTransmit, PassHandler, StartDrain, InstallHandler,
     StopSender, SetTransmitEnabled, Still, node_vars, state_vars, pcm_vars, history_vars
<1> QED
  BY <1>4, <1>5, <1>6, <1>7, <1>8, StillSteps DEF MainNext, MainStep

LEMMA IdsInit == Init => IdsInv
<1> SUFFICES ASSUME Init PROVE IdsInv
  OBVIOUS
<1>1. ~Holds
  BY DEF Init, Holds, Hands, Worker
<1> QED
  BY <1>1, EmptyFits DEF Init, IdsInv

LEMMA IdsAreInvariant == Spec => [](TypeOK /\ NowInv /\ IdsInv)
<1>1. TypeOK /\ PlaceInv /\ NowInv /\ IdsInv /\ [Next]_vars => NowInv' /\ IdsInv'
  BY NowStep, WorkerIds, MainIds DEF Next, MainNext
<1> QED
  BY <1>1, PlacesAreInvariant, NowInit, IdsInit, PTL DEF Spec

\* The count of a packet that went out is its own, its number is that count and its
\* timestamp the media time it was made at, both wrapped: for any length of a behaviour,
\* across stops, rebuilds, failed starts, mutes and drops (sender.rs:751, 1124-1128).
CountsGoOut ==
  /\ \A i \in DOMAIN wire :
       /\ wire[i].seq = wire[i].hist.idx % SeqMod
       /\ wire[i].timestamp = MediaTime(wire[i].hist) % TsMod
  /\ \A i, j \in DOMAIN wire : i # j => wire[i].hist.idx # wire[j].hist.idx

\* No two packets of a sender go out with one count, and each has the number and the
\* timestamp of its own, whatever became of the packets between them.
THEOREM WireCounts == Spec => []CountsGoOut
<1>1. IdsInv => CountsGoOut
  BY DEF IdsInv, AllKnown, Known, Distinct, Fit, Age, OnTime, CountsGoOut
<1> QED
  BY <1>1, IdsAreInvariant, PTL

\* The numbers of a behaviour fit into half of the number space, its frames into the
\* media clock.
Window == 4 * MaxFrames <= SeqMod
TimeFits == MaxFrames < TsMod

\* "Keep the next sequence/timestamp so a later capture does not replay old IDs"
\* (sender.rs:1115): no number goes out twice, and what was made later has a later number
\* and no earlier media time, until the numbers or the clock wrap.
THEOREM NoReplay ==
  ASSUME Window, TimeFits
  PROVE  Spec => []NoIdIsReplayed
<1>1. TypeOK /\ NowInv /\ PcmInv /\ IdsInv => NoIdIsReplayed
  <2> SUFFICES ASSUME TypeOK, NowInv, PcmInv, IdsInv, NEW i \in DOMAIN wire, NEW j \in DOMAIN wire, i # j
               PROVE  /\ wire[i].seq # wire[j].seq
                      /\ wire[i].hist.idx < wire[j].hist.idx =>
                           /\ SequenceIsNewer(wire[j].seq, wire[i].seq)
                           /\ wire[i].timestamp <= wire[j].timestamp
    BY DEF NoIdIsReplayed
  <2>1. /\ enc.hist.idx \in Nat /\ MediaTime(enc.hist) \in Nat /\ Unclosed(enc) \in 0 .. 1
        /\ MaxFrames \in Nat
        /\ SeqMod \in Nat \ {0} /\ TsMod \in Nat \ {0}
    BY NowTypes, PipelineAssumption
  <2>2. /\ enc.hist.idx <= 2 * MaxFrames /\ MediaTime(enc.hist) <= MaxFrames
    BY <2>1, PcmTypes, UnheardType DEF NowInv, PcmInv
  <2>3. ASSUME NEW k \in DOMAIN wire
        PROVE  /\ Age(wire[k]) \in Nat /\ 2 * Age(wire[k]) < SeqMod
               /\ wire[k].seq = (0 + Age(wire[k])) % SeqMod /\ wire[k].seq \in SeqNumber
               /\ MediaTime(wire[k].hist) \in Nat
               /\ wire[k].timestamp = MediaTime(wire[k].hist)
    <3>1. wire[k] \in VoicePackets /\ Known(wire[k], enc.hist)
      BY DEF TypeOK, IdsInv, AllKnown
    <3>2. Age(wire[k]) \in Nat /\ MediaTime(wire[k].hist) \in Nat
      BY <3>1, AgeType, MediaTimeType DEF Known, OnTime, VoicePackets
    <3>3. 2 * Age(wire[k]) < SeqMod
      BY <2>1, <2>2, <3>1, <3>2 DEF Known, Window
    <3>4. MediaTime(wire[k].hist) < TsMod
      BY <2>1, <2>2, <3>1, <3>2 DEF Known, TimeFits
    <3>5. MediaTime(wire[k].hist) % TsMod = MediaTime(wire[k].hist)
      BY <2>1, <3>2, <3>4
    <3>6. 0 + Age(wire[k]) = Age(wire[k])
      BY <3>2
    <3> QED
      BY <3>1, <3>2, <3>3, <3>5, <3>6 DEF Known, OnTime, VoicePackets
  <2>4. Fit(wire[i], wire[j])
    BY DEF IdsInv, Distinct
  <2>5. /\ SequenceIsNewer(wire[j].seq, wire[i].seq) <=> Age(wire[j]) > Age(wire[i])
        /\ SequenceIsNewer(wire[i].seq, wire[j].seq) <=> Age(wire[i]) > Age(wire[j])
    BY <2>3, NewerInWindow
  <2>6. Age(wire[i]) < Age(wire[j]) \/ Age(wire[j]) < Age(wire[i])
    BY <2>3, <2>4 DEF Fit
  <2>7. wire[i].seq # wire[j].seq
    BY <2>3, <2>5, <2>6, NotNewerThanItself
  <2>8. Age(wire[i]) < Age(wire[j]) => wire[i].timestamp <= wire[j].timestamp
    BY <2>3, <2>4 DEF Fit
  <2> QED
    BY <2>3, <2>5, <2>7, <2>8 DEF Age
<1> QED
  BY <1>1, IdsAreInvariant, ClockIsInvariant, PTL
=============================================================================
