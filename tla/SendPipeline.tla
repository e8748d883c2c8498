----------------------------- MODULE SendPipeline -----------------------------
(***************************************************************************)
(* The NetworkAudioSender node of gdext/src/sender.rs and its send worker. *)
(*                                                                         *)
(* The node, on Godot's main thread, owns at most one LocalSendPipeline: a *)
(* worker thread that takes 20 ms of captured PCM at every tick, encodes   *)
(* it and hands the packet to the direct send handler, or queues it for    *)
(* the node's process, which emits it as packet_ready.  A change of        *)
(* settings stops and joins the worker and starts another one that goes on *)
(* with the packet clock of the first.                                     *)
(*                                                                         *)
(* PCM is an amount, in half frames, so that a tick may find a whole frame *)
(* or a part of one; its content is the kind of frame the encoder makes of *)
(* it.  A tick that finds none changes nothing and is left out.  Queues,   *)
(* handler, mute and stop are read and written in steps of their own, as   *)
(* the code takes and releases the lock, or uses atomics, for each.        *)
(***************************************************************************)
EXTENDS VoiceEncoder, FiniteSets

CONSTANTS
  MaxPendingPackets,  \* MAX_PENDING_PACKETS
  MaxPendingPcm,      \* MAX_PENDING_PCM_SAMPLES, in half frames
  MaxLag,             \* the five frames a late worker may be behind, in half frames
  MaxFrames,          \* bound: frames captured in a behaviour
  MaxPipelines,       \* bound: workers started
  Uses                \* what may happen in a behaviour: a set of sets of Features

\* driver: the worker reads Godot's AudioDriver (capture_on_worker); else PCM is pushed.
\* partial: PCM comes in parts of a frame too.  error: Opus fails to encode.
\* mute, handler, flush: callers use set_transmit_enabled, install a direct send
\* handler, flush.
Features == {"driver", "partial", "error", "mute", "handler", "flush"}

\* A frame of 20 ms.
FramePcm == 2

ASSUME PipelineAssumption ==
  /\ MaxPendingPackets \in Nat \ {0} /\ MaxPendingPcm \in Nat \ {0}
  /\ MaxLag \in Nat \ {0}
  /\ MaxFrames \in Nat /\ MaxPipelines \in Nat
  /\ Uses \subseteq SUBSET Features

VARIABLES
  \* the node
  main,           \* what the main thread is doing
  batch,          \* packets popped from the queue, to be emitted
  node_transmit,  \* NetworkAudioSender.transmit_enabled
  node_handler,   \* NetworkAudioSender.direct_send_handler is Some
  node_clock,     \* NetworkAudioSender.packet_clock
  \* PipelineState of the current pipeline
  stop, transmit, handler, clock,
  queue,          \* encoded_packets
  \* the worker
  worker,         \* where it is, and the packet in its hand
  enc,            \* its encoder
  \* PCM, in half frames
  pcm,            \* pcm_samples of the pipeline, or what the AudioDriver holds
  pending,        \* pending_pcm of the encoder
  captured,       \* history: all that came out of capture
  discarded,      \* history: what was thrown away before it was encoded
  \* histories
  use,            \* the features used in this behaviour
  wire,           \* packets emitted or handed to the handler, in order
  pipelines       \* workers started

node_vars == <<main, batch, node_transmit, node_handler, node_clock>>
state_vars == <<stop, transmit, handler, clock, queue>>
pcm_vars == <<pcm, pending, captured, discarded>>
history_vars == <<use, wire, pipelines>>
vars == <<node_vars, state_vars, worker, enc, pcm_vars, history_vars>>

Clocks == [seq : SeqNumber, timestamp : Timestamp]
ClockOf(encoder) == [seq |-> encoder.seq, timestamp |-> encoder.timestamp]

\* What the main thread does after it has stopped the pipeline.
Afterwards == {"rebuild", "rest"}

Idle == [at |-> "idle"]
Main(place, then) == [at |-> place, then |-> then]
MainStates == [at : {"idle", "draining", "emitting", "building", "muting", "installing"}]
                \cup [at : {"joining", "emptying"}, then : Afterwards]

\* last: the packet is the END of finish_talkspurt.
Worker(place) == [at |-> place]
Holding(place, pkt, last) == [at |-> place, pkt |-> pkt, last |-> last]
WorkerStates ==
  [at : {"none", "starting", "loop", "storing", "done"}]
    \cup [at : {"polled", "enabled", "direct", "queueing"}, pkt : VoicePackets,
          last : BOOLEAN]

Init ==
  /\ main = Idle
  /\ batch = << >>
  /\ node_transmit = TRUE
  /\ node_handler = FALSE
  /\ node_clock = [seq |-> 0, timestamp |-> 0]
  /\ stop = FALSE
  /\ transmit = TRUE
  /\ handler = FALSE
  /\ clock = [seq |-> 0, timestamp |-> 0]
  /\ queue = << >>
  /\ worker = Worker("none")
  /\ enc = FreshEncoder(0, 0, NewHistory)
  /\ use \in Uses
  /\ pcm = 0 /\ pending = 0 /\ captured = 0 /\ discarded = 0
  /\ wire = << >>
  /\ pipelines = 0

TypeOK ==
  /\ main \in MainStates
  /\ batch \in Seq(VoicePackets)
  /\ {node_transmit, node_handler, stop, transmit, handler} \subseteq BOOLEAN
  /\ node_clock \in Clocks /\ clock \in Clocks
  /\ queue \in Seq(VoicePackets) /\ Len(queue) <= MaxPendingPackets
  /\ worker \in WorkerStates
  /\ enc \in EncoderStates
  /\ pcm \in Nat /\ ("driver" \notin use => pcm <= MaxPendingPcm)
  /\ pending \in 0 .. FramePcm - 1
  /\ captured \in 0 .. FramePcm * MaxFrames
  /\ discarded \in Nat
  /\ use \in Uses
  /\ wire \in Seq(VoicePackets)
  /\ pipelines \in 0 .. MaxPipelines

-----------------------------------------------------------------------------
\* The worker

\* VoiceEncoder::new and restore_packet_clock: no PCM is pending, as Finish left it.  A
\* configuration the encoder rejects ends the worker at once.
StartWorker ==
  /\ worker.at = "starting"
  /\ \/ /\ enc' = FreshEncoder(clock.seq, clock.timestamp, enc.hist)
        /\ worker' = Worker("loop")
     \/ /\ worker' = Worker("done")
        /\ UNCHANGED enc
  /\ UNCHANGED <<node_vars, state_vars, pcm_vars, history_vars>>

\* Mutant of Stopping: the worker stops at the end of a talkspurt only.
StoppingAfterSpeech == stop /\ enc.speaking

Stopping == stop

\* A late worker skips what the driver holds beyond MaxLag.
Stale == IF "driver" \in use /\ pcm > MaxLag THEN pcm - MaxLag ELSE 0

\* One tick of the loop: stale PCM is skipped, up to a frame taken and pushed into the
\* encoder, which is polled and encodes when it holds a frame.  An error has used it up.
Tick ==
  /\ worker.at = "loop" /\ ~Stopping /\ pcm > 0
  /\ \E kind \in FrameKinds :
       LET taken   == IF pcm - Stale < FramePcm THEN pcm - Stale ELSE FramePcm
           held    == pending + taken
           packets == PolledPackets(enc, kind)
           failed  == IF kind = "error" THEN FramePcm ELSE 0
       IN  /\ kind = "error" => "error" \in use
           /\ pcm' = pcm - Stale - taken
           /\ IF held < FramePcm
              THEN /\ pending' = held
                   /\ discarded' = discarded + Stale
                   /\ UNCHANGED <<worker, enc>>
              ELSE /\ pending' = held - FramePcm
                   /\ discarded' = discarded + Stale + failed
                   /\ worker' = IF packets = << >> THEN worker
                                ELSE Holding("polled", packets[1], FALSE)
                   /\ enc' = PolledEncoder(enc, kind)
  /\ UNCHANGED <<node_vars, state_vars, captured, history_vars>>

\* Out of the loop: finish_talkspurt, which clears the pending PCM.
Finish ==
  /\ worker.at = "loop" /\ Stopping
  /\ LET packets == FinishPackets(enc)
     IN  worker' = IF packets = << >> THEN Worker("storing")
                   ELSE Holding("polled", packets[1], TRUE)
  /\ enc' = FinishedEncoder(enc)
  /\ pending' = 0 /\ discarded' = discarded + pending
  /\ UNCHANGED <<node_vars, state_vars, pcm, captured, history_vars>>

AfterPacket == IF worker.last THEN Worker("storing") ELSE Worker("loop")

\* A muted sender suppresses the packet; its sequence number is spent.
CheckTransmit ==
  /\ worker.at = "polled"
  /\ worker' = IF transmit THEN [worker EXCEPT !.at = "enabled"] ELSE AfterPacket
  /\ UNCHANGED <<node_vars, state_vars, enc, pcm_vars, history_vars>>

ReadHandler ==
  /\ worker.at = "enabled"
  /\ worker' = [worker EXCEPT !.at = IF handler THEN "direct" ELSE "queueing"]
  /\ UNCHANGED <<node_vars, state_vars, enc, pcm_vars, history_vars>>

CallHandler ==
  /\ worker.at = "direct"
  /\ wire' = Append(wire, worker.pkt)
  /\ worker' = AfterPacket
  /\ UNCHANGED <<node_vars, state_vars, enc, pcm_vars, use, pipelines>>

\* Mutant of QueueWithRoom: the queue grows.
WholeQueue == queue

QueueWithRoom ==
  IF Len(queue) >= MaxPendingPackets THEN Tail(queue) ELSE queue

\* Mutant of Queued: push_front.
QueuedFirst(packets, pkt) == <<pkt>> \o packets

Queued(packets, pkt) == Append(packets, pkt)

\* A full queue drops its oldest packet; the END of a stop replaces them all.
QueuePacket ==
  /\ worker.at = "queueing"
  /\ queue' = Queued(IF worker.last THEN << >> ELSE QueueWithRoom, worker.pkt)
  /\ worker' = AfterPacket
  /\ UNCHANGED <<node_vars, stop, transmit, handler, clock, enc, pcm_vars, history_vars>>

StoreClock ==
  /\ worker.at = "storing"
  /\ clock' = ClockOf(enc)
  /\ worker' = Worker("done")
  /\ UNCHANGED <<node_vars, stop, transmit, handler, queue, enc, pcm_vars, history_vars>>

WorkerStep ==
  \/ StartWorker \/ Tick \/ Finish \/ CheckTransmit \/ ReadHandler
  \/ CallHandler \/ QueuePacket \/ StoreClock

-----------------------------------------------------------------------------
\* The main thread

HasPipeline == worker.at # "none"

\* drain_worker_packets: pop until the queue is found empty, then emit.
StartDrain ==
  /\ main = Idle /\ HasPipeline
  /\ main' = [at |-> "draining"]
  /\ UNCHANGED <<batch, node_transmit, node_handler, node_clock, state_vars,
                 worker, enc, pcm_vars, history_vars>>

PopPacket ==
  /\ main.at = "draining"
  /\ IF queue = << >>
     THEN /\ main' = [at |-> "emitting"]
          /\ UNCHANGED <<batch, queue>>
     ELSE /\ batch' = Append(batch, Head(queue))
          /\ queue' = Tail(queue)
          /\ UNCHANGED main
  /\ UNCHANGED <<node_transmit, node_handler, node_clock, stop, transmit, handler,
                 clock, worker, enc, pcm_vars, history_vars>>

EmitPacket ==
  /\ main.at = "emitting"
  /\ IF batch = << >>
     THEN /\ main' = Idle
          /\ UNCHANGED <<batch, wire>>
     ELSE /\ wire' = Append(wire, Head(batch))
          /\ batch' = Tail(batch)
          /\ UNCHANGED main
  /\ UNCHANGED <<node_transmit, node_handler, node_clock, state_vars, worker, enc,
                 pcm_vars, use, pipelines>>

\* stop_sender, which rebuild_encoder starts with and stop_capture and exit_tree
\* stop at.
StopSender(then) ==
  /\ main = Idle
  /\ IF HasPipeline
     THEN main' = Main("joining", then) /\ stop' = TRUE
     ELSE main' = Main("emptying", then) /\ UNCHANGED stop
  /\ UNCHANGED <<batch, node_transmit, node_handler, node_clock, transmit, handler,
                 clock, queue, worker, enc, pcm_vars, history_vars>>

\* Mutant of Joined: the worker is not waited for.
Detached == TRUE

Joined == worker.at = "done"

\* The join returns, and the clock is taken over.
Join ==
  /\ main.at = "joining" /\ Joined
  /\ node_clock' = clock
  /\ main' = Main("emptying", main.then)
  /\ UNCHANGED <<batch, node_transmit, node_handler, state_vars, worker, enc,
                 pcm_vars, history_vars>>

\* What the worker left in the queue is emitted, then the pipeline dropped with its PCM;
\* at rest the input device is deactivated, and forgets what it had.
EmptyQueue ==
  /\ main.at = "emptying"
  /\ IF queue # << >>
     THEN /\ wire' = Append(wire, Head(queue))
          /\ queue' = Tail(queue)
          /\ UNCHANGED <<main, worker, pcm, discarded>>
     ELSE /\ worker' = Worker("none")
          /\ main' = IF main.then = "rebuild" THEN [at |-> "building"] ELSE Idle
          /\ pcm' = IF "driver" \in use /\ main.then = "rebuild" THEN pcm ELSE 0
          /\ discarded' = discarded + pcm - pcm'
          /\ UNCHANGED <<wire, queue>>
  /\ UNCHANGED <<batch, node_transmit, node_handler, node_clock, stop, transmit,
                 handler, clock, enc, pending, captured, use, pipelines>>

\* LocalSendPipeline::new.  The worker runs from here on; mute and handler are
\* passed to it afterwards.  If no thread can be spawned there is no pipeline.
NewPipeline ==
  /\ main.at = "building"
  /\ \/ /\ pipelines < MaxPipelines
        /\ worker' = Worker("starting")
        /\ pipelines' = pipelines + 1
        /\ main' = [at |-> "muting"]
        /\ stop' = FALSE /\ transmit' = TRUE /\ handler' = FALSE
        /\ clock' = node_clock
     \/ /\ main' = Idle
        /\ UNCHANGED <<worker, pipelines, stop, transmit, handler, clock>>
  /\ UNCHANGED <<batch, node_transmit, node_handler, node_clock, queue, enc, pcm_vars,
                 use, wire>>

PassTransmit ==
  /\ main.at = "muting"
  /\ transmit' = node_transmit
  /\ main' = [at |-> "installing"]
  /\ UNCHANGED <<batch, node_transmit, node_handler, node_clock, stop, handler,
                 clock, queue, worker, enc, pcm_vars, history_vars>>

PassHandler ==
  /\ main.at = "installing"
  /\ handler' = (handler \/ node_handler)
  /\ main' = Idle
  /\ UNCHANGED <<batch, node_transmit, node_handler, node_clock, stop, transmit,
                 clock, queue, worker, enc, pcm_vars, history_vars>>

SetTransmitEnabled(enabled) ==
  /\ "mute" \in use
  /\ main = Idle
  /\ node_transmit' = enabled
  /\ transmit' = IF HasPipeline THEN enabled ELSE transmit
  /\ UNCHANGED <<main, batch, node_handler, node_clock, stop, handler, clock,
                 queue, worker, enc, pcm_vars, history_vars>>

InstallHandler ==
  /\ "handler" \in use
  /\ main = Idle
  /\ node_handler' = TRUE
  /\ handler' = (handler \/ HasPipeline)
  /\ UNCHANGED <<main, batch, node_transmit, node_clock, stop, transmit, clock,
                 queue, worker, enc, pcm_vars, history_vars>>

\* flush clears the pipeline's queues, not the encoder, the worker's hand or the driver.
Flush ==
  /\ "flush" \in use
  /\ main = Idle /\ HasPipeline
  /\ queue' = << >>
  /\ pcm' = IF "driver" \in use THEN pcm ELSE 0
  /\ discarded' = discarded + pcm - pcm'
  /\ UNCHANGED <<node_vars, stop, transmit, handler, clock, worker, enc, pending, captured,
                 history_vars>>

\* PCM that comes out of capture at a time: a frame, or part of one.
Chunks == IF "partial" \in use THEN 1 .. FramePcm ELSE {FramePcm}

\* push_input_pcm: full, the pipeline's PCM queue drops its oldest.
PushedInput(amount) ==
  IF pcm + amount < MaxPendingPcm THEN pcm + amount ELSE MaxPendingPcm

\* push_pcm_slice.  Without a pipeline it begins with rebuild_encoder (StopSender), and
\* after one that failed drops everything.
PushPcm(amount) ==
  /\ "driver" \notin use
  /\ main = Idle
  /\ captured + amount <= FramePcm * MaxFrames
  /\ captured' = captured + amount
  /\ pcm' = IF HasPipeline THEN PushedInput(amount) ELSE pcm
  /\ discarded' = discarded + (pcm + amount) - pcm'
  /\ UNCHANGED <<node_vars, state_vars, worker, enc, pending, history_vars>>

\* The AudioDriver records, whatever the two threads do.
Record(amount) ==
  /\ "driver" \in use
  /\ captured + amount <= FramePcm * MaxFrames
  /\ captured' = captured + amount
  /\ pcm' = pcm + amount
  /\ UNCHANGED <<node_vars, state_vars, worker, enc, pending, discarded, history_vars>>

\* The steps of a call of the main thread that is under way.
MainStep ==
  \/ PopPacket \/ EmitPacket \/ Join \/ EmptyQueue
  \/ NewPipeline \/ PassTransmit \/ PassHandler

Next ==
  \/ WorkerStep \/ MainStep
  \/ StartDrain \/ InstallHandler \/ Flush
  \/ \E then \in Afterwards : StopSender(then)
  \/ \E enabled \in BOOLEAN : SetTransmitEnabled(enabled)
  \/ \E amount \in Chunks : PushPcm(amount) \/ Record(amount)

Spec == Init /\ [][Next]_vars

\* Both threads are scheduled.  The worker's tick has a timeout, so a stop that is
\* notified before it waits is seen all the same.
Fairness == WF_vars(WorkerStep) /\ WF_vars(MainStep)

FairSpec == Spec /\ Fairness

-----------------------------------------------------------------------------
\* Properties

Last(s) == s[Len(s)]

\* "Keep the next sequence/timestamp so a later capture does not replay old IDs":
\* across stops, rebuilds, failed starts, mutes and drops no sequence number goes
\* out twice, and a packet made later has a later number and no earlier media time.
NoIdIsReplayed ==
  \A i, j \in DOMAIN wire : i # j =>
    /\ wire[i].seq # wire[j].seq
    /\ wire[i].hist.idx < wire[j].hist.idx =>
         /\ SequenceIsNewer(wire[j].seq, wire[i].seq)
         /\ wire[i].timestamp <= wire[j].timestamp

\* Packets reach packet_ready in the order they were made, though two threads pass
\* them on and a full queue drops some.  (A handler overtakes what is queued.)
PacketsStayInOrder ==
  "handler" \notin use =>
    \A i, j \in DOMAIN wire : i < j => wire[i].hist.idx < wire[j].hist.idx

\* "Stop is a speech boundary, not packet loss": when the sender is stopped, the
\* last packet that went out closed the talkspurt, whatever the queue dropped and the
\* encoder failed at, when nobody mutes, flushes or installs a handler.
PlainStopIsSpeechBoundary ==
  ( /\ use \subseteq {"driver", "partial", "error"}
    /\ main = Idle /\ ~HasPipeline /\ wire # << >> )
    => Last(wire).end

\* The media clock, wherever it is: in the encoder that runs, in the pipeline whose worker
\* has not started or has ended, or in the node.
MediaClock ==
  CASE worker.at = "none" -> node_clock.timestamp
    [] worker.at \in {"starting", "done"} -> clock.timestamp
    [] OTHER -> enc.timestamp

ClockCounts(amount) ==
  amount % FramePcm = 0 /\ MediaClock = (amount \div FramePcm) % TsMod

\* "RTP timestamps track captured sample time, not transmitted packet count"
\* (encoder.rs:160-163) does not hold of PCM the sender throws away before it is encoded:
\* what a late worker skips, Opus fails at, a full queue or a flush drops, and what a stop,
\* a rebuild or a failed start leaves behind.  The media clock misses exactly that.
\* Nothing else is lost or counted twice on the way of the clock from encoder to pipeline,
\* node and next encoder, whether packets are sent or not.
MediaClockMissesOnlyDiscards ==
  ClockCounts(captured - discarded - pcm - pending)

\* A stop ends: the worker sees it, finishes, and is joined.
StopCompletes == main.at = "joining" ~> main = Idle
=============================================================================
