---------------------------- MODULE NetworkStream ----------------------------
(***************************************************************************)
(* AudioStreamNetwork of gdext/src/stream.rs with one playback: the        *)
(* bounded lock-free packet queue between the threads that receive packets *)
(* and Godot's audio thread, the flags that put the mixer to sleep and     *)
(* wake it, and the PCM tap (pcm_tap.rs) the mixer feeds.  The playback    *)
(* owns a VoiceReceiver.                                                   *)
(*                                                                         *)
(* Producers enqueue packets, each thread one at a time; the audio thread  *)
(* mixes; the main thread deactivates the stream or clears its queue;      *)
(* start and stop of the playback exclude a mix, since all three borrow    *)
(* the playback mutably.  Every access to the queue or a flag that another *)
(* thread may get in front of is a step of its own.                        *)
(*                                                                         *)
(* Meters, interval statistics, callback timing and the copy of the        *)
(* receiver's statistics are left out: only get_stats reads them back.     *)
(* The tap is enabled from the start; disabled, it holds no block.         *)
(***************************************************************************)
EXTENDS VoiceReceiver

CONSTANTS
  Producers,      \* threads that enqueue packets
  Voice,          \* the packets each of them enqueues, in order
  QueueCapacity,  \* DEFAULT_QUEUE_CAPACITY
  DrainBudget,    \* PLAYBACK_DRAIN_BUDGET
  TapCapacity,    \* blocks the tap's queue holds
  MaxPulls,       \* bound: 10 ms frames pulled in one callback
  MaxCalls        \* bound: calls of start, stop, deactivate and clear

ASSUME StreamAssumption ==
  /\ IsFiniteSet(Producers)
  /\ Voice \in [Producers -> Seq(VoicePackets)]
  /\ QueueCapacity \in Nat \ {0} /\ DrainBudget \in Nat \ {0}
  /\ TapCapacity \in Nat \ {0}
  /\ MaxPulls \in Nat \ {0} /\ MaxCalls \in Nat

\* A packet is named by its producer and its place among the producer's packets.
PacketIds == UNION {{p} \X DOMAIN Voice[p] : p \in Producers}

PacketOf(id) == Voice[id[1]][id[2]]

VARIABLES
  queue,           \* packet ids, oldest first
  active, playing, playout_paused,
  offered,         \* per producer, the packets it has handed to enqueue_packet
  producing,       \* per producer, where in enqueue_packet it is
  mixer,           \* where in mix_resampled the audio thread is
  pending,         \* the tap generation pending_mono was pulled in, or None
  tap,             \* generation and queued blocks
  main,            \* where in deactivate or clear_pending_packets the main thread is
  calls,           \* start, stop, deactivate and clear so far
  taken,           \* history: packets the receiver was given
  newest           \* history: the newest of them

queue_vars == <<queue, offered, producing, taken>>
flag_vars == <<active, playing, playout_paused>>
mixer_vars == <<mixer, pending, newest>>
tap_vars == <<tap>>
control_vars == <<main, calls>>
vars == <<receiver_vars, queue_vars, flag_vars, mixer_vars, tap_vars, control_vars>>

MixerPlaces ==
  {"idle", "paused", "drain", "fill", "refill", "pull", "stamp", "push", "publish"}

Idle == [at |-> "idle", budget |-> 0, pulls |-> 0, block |-> None]

\* A block of samples: the generation it is tagged with and, as history, the one
\* the samples were pulled in.
Blocks == [generation : 0 .. MaxCalls, pulled : 0 .. MaxCalls]

Init ==
  /\ ReceiverInit
  /\ queue = << >>
  /\ active = TRUE /\ playing = FALSE /\ playout_paused = FALSE
  /\ offered = [p \in Producers |-> 0]
  /\ producing = [p \in Producers |-> "idle"]
  /\ mixer = Idle
  /\ pending = None
  /\ tap = [generation |-> 0, blocks |-> << >>]
  /\ main = "idle"
  /\ calls = 0
  /\ taken = {}
  /\ newest = None

TypeOK ==
  /\ ReceiverTypeOK
  /\ queue \in Seq(PacketIds) /\ Len(queue) <= QueueCapacity
  /\ active \in BOOLEAN /\ playing \in BOOLEAN /\ playout_paused \in BOOLEAN
  /\ offered \in [Producers -> Nat]
  /\ \A p \in Producers : offered[p] <= Len(Voice[p])
  /\ producing \in [Producers -> {"idle", "push", "evict", "retry"}]
  /\ mixer.at \in MixerPlaces
  /\ mixer.budget \in 0 .. DrainBudget /\ mixer.pulls \in 0 .. MaxPulls
  /\ mixer.block \in Blocks \cup {None}
  /\ pending \in 0 .. MaxCalls \cup {None}
  /\ tap.generation \in 0 .. MaxCalls
  /\ tap.blocks \in Seq(Blocks) /\ Len(tap.blocks) <= TapCapacity
  /\ main \in {"idle", "deactivating", "pausing", "clearing"}
  /\ calls \in 0 .. MaxCalls
  /\ taken \subseteq PacketIds
  /\ newest \in VoicePackets \cup {None}

-----------------------------------------------------------------------------
\* enqueue_packet, on the thread of producer p

\* Mutant of HasRoom: off by one.
HasRoomForOneMore == Len(queue) <= QueueCapacity

HasRoom == Len(queue) < QueueCapacity

\* The packet in p's hand while it is inside enqueue_packet.
InHand(p) == <<p, offered[p]>>

Goto(p, place) == producing' = [producing EXCEPT ![p] = place]

Unenqueued == <<receiver_vars, flag_vars, mixer_vars, tap_vars, control_vars, taken>>

\* Mutant of Accepted: the flag is not read.
AcceptedAlways == TRUE

\* enqueue_packet goes on only while the stream is active.
Accepted == active

Offer(p) ==
  /\ producing[p] = "idle"
  /\ offered[p] < Len(Voice[p])
  /\ offered' = [offered EXCEPT ![p] = @ + 1]
  /\ IF Accepted THEN Goto(p, "push") ELSE UNCHANGED producing
  /\ UNCHANGED <<queue, Unenqueued>>

Push(p) ==
  /\ producing[p] = "push"
  /\ IF HasRoom THEN queue' = Append(queue, InHand(p)) /\ Goto(p, "idle")
                ELSE UNCHANGED queue /\ Goto(p, "evict")
  /\ UNCHANGED <<offered, Unenqueued>>

\* The queue was full: its oldest packet is dropped, if the mixer has left one.
Evict(p) ==
  /\ producing[p] = "evict"
  /\ queue' = IF queue = << >> THEN queue ELSE Tail(queue)
  /\ Goto(p, "retry")
  /\ UNCHANGED <<offered, Unenqueued>>

\* Mutant of Retried: the new packet goes in front of those that wait.
RetriedFirst(p) == IF HasRoom THEN <<InHand(p)>> \o queue ELSE queue

\* The second push; another producer may have taken the room, then the new packet
\* is lost.
Retried(p) == IF HasRoom THEN Append(queue, InHand(p)) ELSE queue

Retry(p) ==
  /\ producing[p] = "retry"
  /\ queue' = Retried(p)
  /\ Goto(p, "idle")
  /\ UNCHANGED <<offered, Unenqueued>>

Enqueue(p) == Offer(p) \/ Push(p) \/ Evict(p) \/ Retry(p)

-----------------------------------------------------------------------------
\* mix_resampled, on the audio thread

At(place) == mixer.at = place

Unmixed == <<flag_vars, offered, producing, control_vars>>

\* A callback starts.  It returns silence at once unless the playback plays and
\* the stream is active.
MixEnter ==
  /\ At("idle") /\ playing /\ active
  /\ mixer' = [mixer EXCEPT !.at = "paused"]
  /\ UNCHANGED <<receiver_vars, queue, taken, pending, newest, tap, Unmixed>>

\* Mutant of Sleeps: the queue is not looked at.
SleepsUnconditionally == playout_paused

\* No NetEq work while playout is paused and no packet waits.
Sleeps == playout_paused /\ queue = << >>

MixCheckPaused ==
  /\ At("paused")
  /\ mixer' = IF Sleeps THEN Idle
              ELSE [mixer EXCEPT !.at = "drain", !.budget = DrainBudget, !.pulls = MaxPulls]
  /\ UNCHANGED <<receiver_vars, queue, taken, pending, newest, tap, Unmixed>>

Draining == At("drain") \/ At("refill")

NewerOf(known, pkt) ==
  IF known = None \/ pkt.hist.idx > known.hist.idx THEN pkt ELSE known

\* drain_packets_into_receiver: one packet of its loop.
DrainPacket ==
  /\ Draining /\ mixer.budget > 0 /\ queue # << >>
  /\ LET pkt == PacketOf(Head(queue))
     IN  /\ \E inserted \in InsertOutcomes : PushPacket(pkt, inserted)
         /\ newest' = NewerOf(newest, pkt)
  /\ queue' = Tail(queue)
  /\ taken' = taken \cup {Head(queue)}
  /\ mixer' = [mixer EXCEPT !.budget = @ - 1]
  /\ UNCHANGED <<pending, tap, Unmixed>>

\* The loop ends; the first drain leads to fill_output_frames, that of each 10 ms
\* frame to the pull.
DrainEnd ==
  /\ Draining
  /\ mixer.budget = 0 \/ queue = << >>
  /\ mixer' = [mixer EXCEPT !.at = IF At("drain") THEN "fill" ELSE "pull", !.budget = 0]
  /\ UNCHANGED <<receiver_vars, queue, taken, pending, newest, tap, Unmixed>>

\* fill_output_frames: what the last callback left over is copied first; then
\* the queue is polled before each pull.
Fill ==
  /\ At("fill")
  /\ mixer' = IF pending = None THEN [mixer EXCEPT !.at = "refill", !.budget = DrainBudget]
              ELSE [mixer EXCEPT !.at = "stamp"]
  /\ UNCHANGED <<receiver_vars, queue, taken, pending, newest, tap, Unmixed>>

Pull ==
  /\ At("pull")
  /\ PullFrame
  /\ pending' = tap.generation
  /\ mixer' = [mixer EXCEPT !.at = "stamp", !.pulls = @ - 1]
  /\ UNCHANGED <<queue, taken, newest, tap, Unmixed>>

\* PcmTap::push reads the generation, then hands the block to the tap's queue.
Stamp ==
  /\ At("stamp")
  /\ mixer' = [mixer EXCEPT !.at = "push",
                           !.block = [generation |-> tap.generation, pulled |-> pending]]
  /\ UNCHANGED <<receiver_vars, queue, taken, pending, newest, tap, Unmixed>>

\* A full tap drops the block.  The samples were all copied, or the output is full.
TapPush ==
  /\ At("push")
  /\ tap' = IF Len(tap.blocks) < TapCapacity
            THEN [tap EXCEPT !.blocks = Append(@, mixer.block)] ELSE tap
  /\ \E place \in {"fill", "publish"}, left \in {pending, None} :
       /\ place = "fill" => left = None /\ mixer.pulls > 0
       /\ pending' = left
       /\ mixer' = [mixer EXCEPT !.at = place, !.block = None]
  /\ UNCHANGED <<receiver_vars, queue, taken, newest, Unmixed>>

\* Mutant of PublishedPause: a pause is published, its end never.
StickyPause == playout_paused \/ intentional_silence

\* publish_stats: the receiver's flag becomes the stream's.
PublishedPause == intentional_silence

Publish ==
  /\ At("publish")
  /\ playout_paused' = PublishedPause
  /\ mixer' = Idle
  /\ UNCHANGED <<receiver_vars, queue, taken, pending, newest, tap,
                 active, playing, offered, producing, control_vars>>

Mix == \/ MixEnter \/ MixCheckPaused \/ DrainPacket \/ DrainEnd \/ Fill \/ Pull
       \/ Stamp \/ TapPush \/ Publish

-----------------------------------------------------------------------------
\* Calls of the playback and of the stream, and the tap's consumer

Called(place) ==
  /\ main = "idle" /\ calls < MaxCalls
  /\ calls' = calls + 1
  /\ main' = place

ResetTap == tap' = [tap EXCEPT !.generation = @ + 1]

\* Mutant of LeftOver: start and stop keep the samples not yet copied.
LeftOverKept == pending

LeftOver == None

\* start and stop: the leftover samples go and the runtime statistics are reset,
\* playout_paused among them.  The receiver and the queue stay as they are.
SetPlaying(on) ==
  /\ At("idle")
  /\ Called("idle")
  /\ pending' = LeftOver
  /\ ResetTap
  /\ playout_paused' = FALSE
  /\ playing' = on
  /\ UNCHANGED <<receiver_vars, queue_vars, active, mixer, newest>>

Start == SetPlaying(TRUE)

Stop == SetPlaying(FALSE)

Unclear == <<receiver_vars, offered, producing, taken, mixer_vars>>

\* deactivate, one step for each store, then the same loop as clear_pending_packets.
Deactivate ==
  /\ Called("deactivating")
  /\ ResetTap
  /\ UNCHANGED <<queue, flag_vars, Unclear>>

StoreInactive ==
  /\ main = "deactivating"
  /\ active' = FALSE
  /\ main' = "pausing"
  /\ UNCHANGED <<queue, playing, playout_paused, tap, calls, Unclear>>

StorePaused ==
  /\ main = "pausing"
  /\ playout_paused' = TRUE
  /\ main' = "clearing"
  /\ UNCHANGED <<queue, active, playing, tap, calls, Unclear>>

ClearPendingPackets ==
  /\ Called("clearing")
  /\ UNCHANGED <<queue, flag_vars, tap, Unclear>>

\* One pop of the loop, which ends when it finds the queue empty.
ClearPop ==
  /\ main = "clearing"
  /\ IF queue = << >> THEN main' = "idle" /\ UNCHANGED queue
                      ELSE queue' = Tail(queue) /\ UNCHANGED main
  /\ UNCHANGED <<flag_vars, tap, calls, Unclear>>

TapPop ==
  /\ tap.blocks # << >>
  /\ tap' = [tap EXCEPT !.blocks = Tail(@)]
  /\ UNCHANGED <<queue, flag_vars, main, calls, Unclear>>

Call == \/ Start \/ Stop \/ Deactivate \/ StoreInactive \/ StorePaused
        \/ ClearPendingPackets \/ ClearPop

Next == (\E p \in Producers : Enqueue(p)) \/ Mix \/ Call \/ TapPop

Spec == Init /\ [][Next]_vars

\* Godot calls the mixer again and again for as long as the playback plays.
FairSpec == Spec /\ WF_vars(Mix)

-----------------------------------------------------------------------------
\* Properties

\* A packet in the queue of a playing, active stream is taken out of it: the sleep
\* of a mixer whose playout is paused ends on the packet's arrival, whatever
\* order the flag and the queue were read and written in (stream.rs:613-617).
IngressWakesMixer ==
  playing /\ active /\ queue # << >> ~> queue = << >> \/ ~playing \/ ~active

\* Between callbacks, playout is paused only if no media is newer than the END
\* that paused it: a pause is never left over in front of a talkspurt that the
\* receiver already holds, which no later packet might wake.
AudibleMediaKeepsMixerAwake ==
  At("idle") /\ active /\ playout_paused /\ newest # None => ~newest.media

\* Once deactivate has returned, the dead stream holds at most the packet each
\* producer had in hand when the flag fell (stream.rs:384-389): a disconnected
\* peer's stream does not fill up while it waits to be reclaimed.
DeadStreamHoldsStragglersOnly ==
  ~active /\ main = "idle" =>
    Len(queue) + Cardinality({p \in Producers : producing[p] # "idle"})
      <= Cardinality(Producers)

TapBlocks == {tap.blocks[k] : k \in DOMAIN tap.blocks} \cup ({mixer.block} \ {None})

\* The tap's generation tells samples from before a start or stop apart from those
\* after it exactly: only a deactivate, which does not exclude a running mix, can
\* let samples pulled before it carry the new generation (pcm_tap.rs:46-67).
RestartResetIsExact ==
  (\E block \in TapBlocks : block.pulled < block.generation)
    => ~active \/ main = "deactivating"

SameProducerPairs ==
  {pair \in PacketIds \X PacketIds : pair[1][1] = pair[2][1] /\ pair[1][2] < pair[2][2]}

DeliveryStatus(id) ==
  CASE id[2] > offered[id[1]] -> "unsent"
    [] id \in taken -> "delivered"
    [] id \in {queue[k] : k \in DOMAIN queue} -> "inflight"
    [] id = InHand(id[1]) /\ producing[id[1]] # "idle" -> "inflight"
    [] OTHER -> "lost"

Delivery ==
  INSTANCE PacketDelivery WITH Ids <- PacketIds, Precedes <- SameProducerPairs,
                               status <- [id \in PacketIds |-> DeliveryStatus(id)]

\* The queue with its pop-and-push of a full queue, the mixer's pops in between
\* and the clearing loops delivers each packet at most once and the packets of
\* one producer in order (stream.rs:223-230, 374-389, 681-688).
ImplementsDelivery == Delivery!Spec
=============================================================================
