# A TLA+ model of Godot Network Audio

Voice between Godot players: a sender encodes 20 ms Opus frames, an Iroh (QUIC)
sidecar carries them as datagrams, and a receiver per remote voice plays them
through NetEq. The modules here model the parts of that system in which several
threads, an unreliable network or a long sequence of calls decide whether it
works, check them with TLC on small instances, and prove theorems about them
with TLAPS. `PROJECT.json` lists the runs, the theorems, the lines of code each
definition stands for, the hazards found in the code and the disagreements
between code and documentation.

## The system

| Part | State | Operations | What makes it correct |
|---|---|---|---|
| `voice-core` packet, `packet.rs` | none (16-bit sequence number, 32-bit media clock, START and END flags, payload) | encode, decode | numbers compare by half window |
| `voice-core` encoder, `encoder.rs` | next number and timestamp, `speaking`, pending PCM | `push_pcm`, `poll_packet`, `finish_talkspurt`, `packet_clock`, `restore_packet_clock`, `advance_dropped_frames`, `flush` | the clock counts captured time; START and END delimit talkspurts |
| `voice-core` receiver, `receiver.rs` | two silence flags, number of the last END, resume prebuffer, newest media, NetEq | `push_packet`, `pull_frame`, `reset_stream`, `stats` | silent after an END and only then; a later talkspurt starts NetEq afresh; drained voices go to sleep |
| `iroh-sidecar` service, `service.rs` | map of peer to connection under a mutex, a broadcast channel of events, packet handler, one task per connection | `bind`, `connect`, accept loop, datagram tasks, `disconnect`, `get_connection`, `subscribe`, `set_packet_handler`, `shutdown` | a connected peer is found; a dead connection leaves the map |
| `IrohVoiceTransport`, `gdext/src/transport_iroh.rs` | send router (peer to connection, selected peers), receive router (peer to sink, pending packets), receive streams, statistics | `start_endpoint`, `connect_to_peer`, `process` (drains events), `attach_sender`, `set_send_peers`, `send_packet`, receive streams, `exit_tree` | the send router follows the map; nothing is routed to a peer that left |
| `NetworkAudioSender` and its worker, `gdext/src/sender.rs` | node settings and packet clock; shared with the worker: PCM and packet queues, `stop`, mute, handler; worker: encoder and schedule | `process`, `rebuild`, `start_capture`, `stop_capture`, `set_transmit_enabled`, `install_direct_send_handler`, `flush`, worker loop | numbers are never used twice, packets stay in order, a stop closes the talkspurt and ends |
| `AudioStreamNetwork`, `gdext/src/stream.rs` | bounded lock-free packet queue, atomics for active, playing and paused, one receiver per playback | enqueue, mix, `start`, `stop`, `deactivate` | ingress wakes a paused playback; a deactivated one is silent |
| `PcmTap`, `gdext/src/pcm_tap.rs` | queue of PCM blocks, cursor, generation | `push`, `pop`, `reset`, `enable` | blocks of an earlier generation are recognised |
| `voice-mesh-bench`, control | coordinator's list of workers; per worker a slot for each connection; a TCP control connection between them | spawn, hello, configure, connect and accept by pairs, start, result | media start on the whole mesh; the run ends |
| `voice-mesh-bench`, media | interest by frame, connection slots under locks, listener's channel, receivers and their pool, totals | sender tasks, SFU, readers, churn task, listener callback | receivers follow interest and are not mixed up; the report is the sum of what happened |
| the rest | VAD and microphone gate, decoder, resampler, fixtures, `codec-bench`, `gdext-iroh`, example scenes | | |

How they interact. The worker thread of `NetworkAudioSender` owns a
`VoiceEncoder`. A packet goes to the direct send handler, which
`attach_sender` of the transport installs and which reads the send router, or
into a queue that the node's `process` drains into the `packet_ready` signal.
The sidecar's tokio tasks read datagrams and call the packet handler, which
routes packets into the queue of an `AudioStreamNetwork`; Godot's audio thread
pops them into a `VoiceReceiver`, pulls 10 ms frames and hands the samples to a
`PcmTap`, which a script may read. Connection events reach
the transport through the broadcast channel, once per frame of the main thread.

What is hard: four kinds of threads (main, audio, send worker, tokio tasks) meet
on queues, atomics and short critical sections; events are sent after the lock
that ordered them was released; the network loses and reorders packets and so
the very markers that delimit talkspurts; numbers wrap; connections replace one
another; senders are stopped, muted and rebuilt in the middle of speech.

## Modules

| Module | Models | Extended by |
|---|---|---|
| `VoicePacket` | packets and wrapping comparison | `VoiceEncoder`, `VoiceReceiver` |
| `VoiceEncoder` | the encoder, as operators on its state | `VoiceLink`, `SendPipeline`, `VoiceProofs` |
| `VoiceReceiver` | the talkspurt state machine: `PushPacket`, and one action for each way `pull_frame` returns | `VoiceLink`, `NetworkStream`, `VoiceProofs` |
| `VoiceLink` | encoder, unreliable link and receiver composed | `MCVoiceLink`, `VoiceLinkProofs` |
| `VoiceIrohService` | the sidecar: peer map, flows, event channel | `IrohVoiceTransport`, `MCVoiceIrohService` |
| `IrohVoiceTransport` | the Godot node over that service | `MCIrohVoiceTransport`, `IrohVoiceTransportProofs` |
| `SendPipeline` | sender node and send worker | `MCSendPipeline`, `SendPipelineProofs` |
| `PacketDelivery` | abstract: what a stage of the voice path promises about the packets handed to it | instantiated by `ReceiveRouter`, `NetworkStream` |
| `ReceiveRouter` | from datagram tasks into the streams of their peers | `MCReceiveRouter`, `ReceiveRouterProofs` |
| `NetworkStream` | one `AudioStreamNetwork`: producers, packet queue, mixer with its `VoiceReceiver`, PCM tap | `MCNetworkStream`, `NetworkStreamProofs` |
| `MeshControl` | the benchmark's coordinator and worker processes | `MCMeshControl`, `MeshControlProofs` |
| `MeshMedia` | the benchmark's media phase, seen from one listener | `MCMeshMedia`, `MeshMediaProofs` |

### VoicePacket, VoiceEncoder, VoiceReceiver, VoiceLink

A packet's payload is abstracted to whether it is empty (`media`), all the
talkspurt logic asks of it. Timestamps count frames of 960 samples, since every
timestamp in the program is a multiple of that. `hist` is a history field: what
the sender had done when it made the packet. No modelled code reads it; the
properties do.

Opus is external. A frame encodes to `voice`, to `dtx` (a payload of at most two
bytes, not sent) or to `error`. NetEq is external too and modelled by what
`receiver.rs` uses it for: media awaiting decode, the 10 ms that are left of the
packet decoded last, the newest packet decoded (older media is discarded on
insertion), an estimate of what it holds that is `EstimateRounding` ms too high,
and the freedom to stretch instead of decoding.

`PushPacket` is the whole of `push_packet`, the early return for empty payloads
and a failing `insert_packet` included. The five actions of `pull_frame` are its
five returns. The audio thread calls both operations, so they are atomic with
respect to one another; sender, link and audio thread interleave freely. The
link delivers each packet at most once, as QUIC datagrams do.

### VoiceIrohService

Every connection is served by one flow of control, from its handshake to the end
of its datagram task; `stage` says where it is. The peer map changes under the
lock and the event is sent after the lock was released. Between the two the event
is in the flow's `hand`, and all the other flows may run. `Send` is the broadcast
channel: it drops an event nobody subscribed to and overwrites its oldest event
when full. `lost` remembers that one of the two happened.

### IrohVoiceTransport

The main thread (`main`) is inside `start_endpoint`, inside `connect`, between a
lookup in the service's map and the write into the send router, or idle. `batch`
holds the events drained and not yet handled. `start_endpoint` is three steps,
since the accept loop runs from the first; `connect_to_peer` is a handshake, the
flow's own steps and a lookup and a write. The node runs one service at a time:
`Bind` is enabled when there is none. `exit_tree` leaves the send router and the
statistic alone, and so does `ExitTree`.

### SendPipeline

Main thread and worker interleave at every lock and atomic they share: the stop
flag, the mute flag, the handler, each push and pop of the packet queue, and the
packet clock. `worker` holds the packet in the worker's hand between those.
A new pipeline's worker runs before its mute flag and handler are passed to it, as in
`rebuild_encoder`. Loopback, meters, gain, gate and statistics are left out.

PCM is an amount, in half frames of the encoder's rate: `captured` counts all that came
out of capture, and it waits in `pcm` or in the encoder's `pending`, is encoded, or is
`discarded` where the code throws it away: `Flush` (`sender.rs:857`), a full queue
(`PushPcm`, 797-805), a late worker (`Stale` in `Tick`, 945-951), a frame Opus fails at
(`encoder.rs:88-91`), the encoder's pending PCM at the end of a worker (`Finish`,
`encoder.rs:141`), the queue that goes with its pipeline (`EmptyQueue`), and a push that
gets no pipeline (`PushPcm`, `sender.rs:691`). Its content is the kind of frame the
encoder makes of it. What the resampler holds back of other rates is not counted.
A tick that finds no PCM changes nothing and is left out.

Where PCM comes from is fixed for a behaviour (`"driver" \in use`): Godot's
`AudioDriver`, which records whatever the node does, is read by the worker and is
deactivated when the node comes to rest (external); or callers push it through
the node. The node can change from one to the other only by a rebuild, which is not
modelled.

Every call of the node is a step that needs `main = Idle`. A script that handles
`packet_ready` runs inside `EmitPacket` or `EmptyQueue` (`sender.rs:734-739`, 756-760)
and could call the node from there; such nested calls are left out.

### PacketDelivery, and what refines it

A packet is unsent, on its way, delivered or lost; it is delivered at most once,
never after it was given up, and not after a packet it had to precede. Two modules
instantiate this with a refinement mapping that reads a packet's status off their
state, and have `Delivery!Spec` as a property. In `NetworkStream` the pairs that must
keep their order are those of one producer. In `ReceiveRouter` there are none: a
flushed backlog is overtaken by later packets, and `OnlyBacklogIsOvertaken` says
that nothing else is. A packet in two streams or twice in one has the status
"duplicated", which `PacketDelivery` does not know.

### ReceiveRouter

`route` takes the lock of the default sink and the lock of the peers one after the
other and enqueues when it has released both; each of the three is a step of the task.
`register` takes the backlog under the lock and flushes it outside, one packet a step,
during which the main thread does nothing else (`Called`). The stream of a peer is
a number; `inbox` lists what each stream was given, and `detached` remembers how long
that list was when the stream was taken out. A replaced connection has a task beside
its successor's, both of the same peer.

### NetworkStream

`enqueue_packet` is four steps: the test of `active`, a push, and when the queue is full
a pop and a second push. `mix_resampled` is a step for each access to something another
thread also uses: the pause flag with the queue's emptiness, each packet popped, each
pull, the tap's generation, the tap's queue, and the flag at the end. The playback's
`start` and `stop` borrow it mutably, as the mixer does, and so need the mixer idle.
`deactivate` is three stores and a loop of pops. `offered`, `taken` and `newest` are
history, as is a block's `pulled`. Meters and statistics that only `get_stats` reads
are left out; the tap is enabled throughout.

### MeshControl

The coordinator's straight line of sends and blocking reads has a program counter,
`place`: the send or wait it is at, and the worker or pair its loops have come to.
`Following` is the next iteration of the loops of `run_multiprocess` and of
`connect_worker_pair`. A worker is a state machine over the commands in its queue. A
connection attempt waits in the other endpoint's queue whatever that worker is doing,
and `Endpoint::accept` takes the first. Errors end a process, and a process that ends
closes its sockets. A control connection without a hello, of a worker that died or is
late, ends the coordinator as well (`MissHello`). The coordinator's wait for a worker's
exit has no time-out, and neither has the one for a worker to connect. A hello with a
wrong id is left out: the ids are those the coordinator spawned its workers with.

### MeshMedia

One listener's column of the mesh: every listener has a column of its own, and nothing
joins them but the senders' loop. Time is counted in media frames of 20 ms, where the
listener's callback runs every 10 ms. The codec and the simulated impairment are
a packet that may not come; who talks is nondeterministic. A receiver is the set of
speakers it has decoded, what it has concealed and how much of that was reported,
because this is what its reuse could get wrong; `Unreported` counts the frames
concealed and not reported, over any set of receivers. The rotation that the code hashes from
speaker and time is a constant function. Time passes freely, so that tasks may
be late by any number of frames; `tokio`'s interval skips missed ticks, as `NextDue`
does. A churn task whose new endpoint cannot be made ends there (`NewEndpoint`), and its
pairs stay torn down.

## Runs

All bounds are constants named in the modules and set in the `.cfg` files.

| Run | Question | Result |
|---|---|---|
| `voice_link_ordered` | on a lossy link that keeps order, does silence follow the newest packet, and are lost markers repaired? | holds |
| `voice_link_reordered` | with reordering, may a late END silence newer media; is the prebuffer really there; does an ended voice fall silent and a prebuffered one play? | holds |
| `voice_link_short_talkspurt` | does every ended talkspurt play or end? | no: shorter than the prebuffer, it does neither |
| `iroh_service` | is every mapped connection served, and does a dead one leave? | holds |
| `iroh_transport` | does the send router follow the map, is the statistic accounted for, is a peer with one connection routed? | holds, unless events were lost |
| `iroh_transport_liveness` | does the router forget dead connections? | holds, unless events were lost |
| `iroh_transport_reordered` | is a peer that reconnects routed? | no: events out of order |
| `send_pipeline` | order and numbering of packets, END at a stop, what the media clock misses, end of a stop | holds |
| `receive_router` | is a packet routed once, in what order, and into which stream? | holds |
| `network_stream` | does the queue keep order, the mixer wake, a dead stream stay empty, the tap's generation tell before from after? | holds |
| `mesh_control` | do media start on the whole mesh, and does the run end when processes die? | holds, with the two waits named below |
| `mesh_media` | do receivers follow interest, keep voices apart and report what they did; do slots lead to open connections? | holds |

Bounds and why they are enough.

- *Voice link.* On the ordered link 6 frames make a talkspurt, its END, a gap on
  either side of the limit `DtxGapFrames`, a START that is lost and media after it.
  On the reordering link 4 frames with 3 packets in flight put a START, an END and
  media of two talkspurts in any order, and stop and start the sender in between.
  `SeqMod` is 32 and the first number 30, so the numbers wrap within
  the first talkspurt while the half window (16) is wider than any run. The media clock
  does not wrap: the gap test across its end (`receiver.rs:295`) is not covered. The gap
  of 5 frames is scaled to 2, with the same test; the prebuffer of 2 packets, the
  tolerance of 2 ms and a rounding of 1 ms are the code's. Only the ordered run lets
  `insert_packet` fail: after a failed insertion the receiver does not know its newest
  media, and a late END may silence it.
- *Iroh.* Two connections of one peer and one of another: the least that has a
  replacement, a reconnection and a bystander. Two sessions of the endpoint. The
  channel holds 3 events in `iroh_transport` (it overflows), 2 in `iroh_service`. The
  liveness run has one peer that connects twice, and packets on the event channel
  (without a handler) that push events out of it.
- *Send pipeline.* A queue of 2 (16 in the code) overflows within 3 of the 4 frames; 3
  workers give two rebuilds, one of which may have failed to start. A PCM queue of three
  half frames (two seconds in the code) overflows by a part of a frame, and a lag of one
  frame (five in the code) is exceeded by the second. `Uses` says what happens in a
  behaviour: PCM pushed in whole frames and nothing special; capture on the worker, with
  lag and encode errors; mutes; PCM in parts of a frame; or, with whole frames pushed,
  everything (errors, mutes, handlers, flushes). Properties that need the absence of a
  feature say so.

- *Receive router.* Two tasks of one peer (a connection and the one that replaced it)
  with 2 packets each and a task of another peer: enough for a task's packets
  to pass the other's, and one another. A backlog of 2 (64 in the code) overflows. Two streams
  and three calls give every order of making, removing, forgetting and making anew,
  with the default stream set or cleared in between.
- *Network stream.* Two producers with 2 packets each into a queue of 2 (256 in the code),
  so that it is full for either while the mixer pops; one talkspurt with its END, and
  one that follows, with reordering between the producers. A drain takes 2 packets (32 in
  the code), the tap holds one block, so it overflows. Two calls of start, stop, deactivate and clear:
  the first start is one of them, so that one more comes while the mixer runs.
- *Mesh control.* Four participants, and the SFU in a star: the least with two pairs
  that share no worker and pairs that do. Two crashes and a time-out anywhere.
- *Mesh media.* Two speakers and the listener over 4 frames, 2 of them media, with
  interest that changes in every frame; one callback may span several frames. Every
  churn profile on the listener's side of a pair and on the other's. One concealed
  frame per receiver is enough to count it twice or not at all.

The properties that are conditional on `~lost` are checked up to the capacity of the
channel; behaviours in which an event is lost go on, and are checked for the rest.

Deadlock checking is off everywhere: behaviours end at the bounds.

## Fairness

- `VoiceLink`: Godot's mixer calls `pull_frame` for as long as a player plays
  (`WF` of `PullOn`), and the network delivers what it does not lose
  (`WF` of `DeliverSome`, which a link that loses everything satisfies by having
  nothing left). NetEq may stretch instead of decoding, but not for ever while it
  holds a packet; the rest of its last packet it may keep for ever, which is the
  residue the comment at `receiver.rs:178` speaks of and the reason that
  `PendingSilenceDrains` needs the rounding tolerance.
  No fairness for the sender: it may stop at any time.
- `VoiceIrohService`, `IrohVoiceTransport`: tokio schedules its tasks (`WF` of each
  flow), and Godot calls `process` every frame (`WF` of `MainStep`). Connections
  need not be made or closed.
- `SendPipeline`: both threads are scheduled. The worker waits with a timeout, so
  that a notification sent before it waits costs one tick and no more; this is
  why `WF` of `WorkerStep` is justified although `stop` notifies without the lock.

- `NetworkStream`: Godot calls the mixer for as long as the playback plays (`WF` of
  `Mix`). Nothing is assumed of the producers or the main thread.
- `MeshControl`: every process is scheduled (`WF` of `CoordinatorStep` and of each
  `WorkerStep`); crashes and time-outs never have to come. A worker's media phase ends:
  its deadlines are in the code.
- `ReceiveRouter`, `MeshMedia`: only safety is checked.

## Proofs

TLC says that the properties hold on small instances. These theorems hold for
every number of peers, tasks, producers, packets and speakers and every capacity. Where
a theorem needs more than the named assumptions of its module, the hypothesis is an
operator of the proof module, named below with the reason the code gives for it.

- `IrohVoiceTransportProofs`, `MappedConnectionsAreServed` (of the service below the node): the conjunction of the
  service's type invariant and `MappedConnectionIsServed` is inductive. A flow that
  removes a peer removes whatever connection the map holds, and the connection
  it holds may be another's; the invariant survives because the entry is gone
  then, not because it was the flow's own.
- `IrohVoiceTransportProofs`, `TypeCorrect`: types of node and service together with
  `HandMatchesStage`, which the type of the events sent depends on.
- `IrohVoiceTransportProofs`, `RouterDrops` and `RouterIsCorrected`: neither property is
  inductive. The router is written from a lookup made earlier, so the invariant
  `RouterFollowsMap` says in addition what the main thread holds between the two:
  a connection the map no longer has is followed by an event about its peer
  (`StoredConnectionIsCorrected`); a connection nobody has handshaken is neither in
  the router nor in the main thread's hand (`NeverNew`); and what is in either has
  got past its handshake (`KnownConnectionsAreEstablished`). `FollowsInvariant` proves
  it, one step for each action. The argument that carries it is that every change
  of the map puts an event in a hand, every event goes from the hand to the channel
  to the batch, and only the handling of an event about that peer takes it away,
  at which time the main thread reads the map anew.
  `disconnect` sends no event and breaks this; the transport node does not call it,
  and neither does its next-state relation.
- `IrohVoiceTransportProofs`, `SoleConnectionRouted`: `RouterFollowsMap` says that wrong
  entries are corrected, not that a missing entry comes. `SoleIsRouted` is the property at
  every moment: with no event about the peer on its way, the entry is there, or the main
  thread has looked it up and is about to write it. It is inductive with `StoredIsNotGone`
  (what the main thread looked up is of the running service) and `LeaversAreDone` (a
  `PeerDisconnected` on its way was sent by a flow that has ended, so a peer with one
  connection in the map and no other has none).
- `IrohVoiceTransportProofs`, `StatisticNeverDrifts`: `Drift` is the statistic, plus the
  connected and minus the disconnected events on their way, minus the peers in the map. Each step
  moves an event from hand to channel to batch to statistic, or changes the map and fills a
  hand, and leaves `Drift` at 0. The lemmas count events of one kind in an appended, a
  shortened and a concatenated sequence. Hypothesis `FinitelyMany`: peers and connections
  are finitely many, as in any run of the program; a statistic of infinitely many is
  no number.
- `ReceiveRouterProofs`: `TypeCorrect`; `KnownStreamsAreFed`, inductive together with the
  types, because only the main thread writes sinks and streams and a backlog is only
  added to where there is no sink; and `DetachedStreamsGetStragglers`. The last needs a
  count: the packets a detached stream got since, together with the tasks that still
  hold its sink, are at most the tasks. A step either moves a task from the one to the
  other or leaves both alone, and a detached stream is in no entry and not the default
  sink, so no task comes to hold it.
- `ReceiveRouterProofs`, `BacklogOnlyIsOvertaken`: a packet is appended to a stream by its
  task or by the flush, so `OrderInv` relates all that may still be appended to what
  was: packets in a backlog or being flushed are marked as having waited (`WaitedInv`), a
  flush gives them in the order they came (`BacklogInv`), and streams not made yet
  are empty and in nobody's hand (`FreshInv`).
- `VoiceProofs`: that `PushPacket` and `PullFrame` keep a receiver's types, for
  every width of the numbers and whatever NetEq answers; lemmas for the modules that
  own a receiver.
- `NetworkStreamProofs`, `TypeCorrect`: the strengthening `StreamTypeInv` says where in its
  callback the mixer is when it holds a block (`MixerInv`), that a producer inside
  `enqueue_packet` has a packet (`ProducerInv`), and that every generation of the tap
  was begun by a call (`TapInv`).
- `NetworkStreamProofs`, `RestartsAreExact`: the property speaks of blocks, the invariant
  `Exact` of what becomes one: samples in hand are of the current generation, and every
  block was of its own when it was stamped. It holds until a deactivate begins
  (`Excused`, which is for good). A start or stop may not come between a pull and its
  push, since it needs the mixer idle.
- `NetworkStreamProofs`, `DeadStreamsHoldStragglers`: inductive together with the types.
  In a dead stream no producer gets past the test of the flag; each that was past it
  adds one packet and leaves.
- `ReceiveRouterProofs`, `RouterDelivers`: the refinement of `PacketDelivery`. The
  invariant `PlaceInv` says that a packet is in one place: waiting in a backlog, being
  flushed, in the hand of one task, in one inbox, or gone. `PlacesMove` then names the
  ways a step changes places (`Received`, `GivenOne`, `GivenUp`), and each is a
  step of `PacketDelivery` or a stutter.
- `NetworkStreamProofs`, `StreamDelivers`: the refinement of `PacketDelivery`, with the
  order of each producer's packets: what a producer holds is newer than what it has in
  the queue, and what is in the queue is newer than what the mixer took.
- `NetworkStreamProofs`, `AudibleMediaIsHeard`: the pause flag is a copy of the receiver's
  silence made at the end of a callback, so `WakeInv` follows the silence to its cause:
  the receiver remembers the number of the newest media it was given (`LastInv`), its
  silence goes back to an END no media is newer than (`SilenceInv`), and with the mixer
  between callbacks a pause of an active stream has no newer media before it
  (`PauseInv`). Hypotheses: `NumbersTellOrder`, the packets' numbers compare as the packets
  were made (true of any packets within half the number space of one another, which
  `NewerInWindow` shows; the stream has no defence against others); `EndsHoldNoMedia`, as
  the encoder makes them; `NothingRefused`, NetEq takes every packet, because media that
  it refuses is newer than the END and yet not played. The run is set the same way.
- `VoiceProofs`: lemmas about the encoder's operators (types, the speech flag, the
  numbers of what `poll_packet` and `finish_talkspurt` make), and `NewerInWindow`: numbers
  less than half their space apart compare as the packets' ages do.
- `SendPipelineProofs`, `TypeCorrect`: inductive with nothing added.
- `SendPipelineProofs`, `ClockMissesOnlyDiscards`: the clock is in the encoder while a worker
  runs and in the shared atomic afterwards, and a new worker reads it only after the old
  one stored it. `PlaceInv` says where the two threads are relative to each other,
  `NowInv` where the clock is and that it shows the media time of the encoder's history,
  and `PcmInv` accounts for the PCM: what waits, what was discarded and what was encoded
  are together all that was captured. Each way PCM moves is a lemma of its own
  (`TickTakes`, `MainMovesPcm`, `PcmMoved`). No hypothesis: it holds for both sources of
  PCM, parts of frames and every capacity.
- `SendPipelineProofs`, `PacketsLeaveInOrder`: `LineInv` puts wire, batch, queue and the
  worker's hand into one line of growing age. A pop takes the head of what follows
  the batch, a push adds behind everything. A handler would be a second line, so
  `NoHandlerInv` goes along.
- `SendPipelineProofs`, `StopIsSpeechBoundary`: `LineEnds` says that the youngest packet of
  that line carries END whenever the encoder is silent, and `SilenceInv` that the encoder
  of a worker that is done is silent. A full queue drops its oldest packet, and an END makes
  room by clearing the queue, so the youngest is never the one that is lost.
- `SendPipelineProofs`, `WireCounts` and `NoReplay`: the encoder counts its packets in `hist`
  and never turns the count back: between two workers the count lies in the shared
  packet clock (`NowInv`), where only the next worker takes it up. `IdsInv` says of every
  packet anywhere (in the worker's hand, the queue, the main thread's batch, on the wire) that
  its number is its count and its timestamp the media time it was made at, both
  wrapped, and that no two places hold the same packet. `WireCounts` is that, with
  no hypothesis. `NoReplay` is the property the run checks, and needs the numbers not
  to come round: `Window`, the frames of a behaviour are at most a quarter of the number
  space (two packets a frame, half the space to compare), and `TimeFits`, they are
  fewer than the media clock's. With the code's widths the window is 16384 frames, more
  than five minutes of capture; in a longer one numbers may come round.
- `VoiceLinkProofs`, `TypeCorrect`: `SenderInv` adds that every packet on the link was made
  by the encoder with the number its index stands for, and on an ordered link that
  what is on its way is newer than what arrived.
- `VoiceLinkProofs`, `PrebufferHeld`: after the flush that begins a resumed talkspurt NetEq
  has decoded nothing, so no packet it is given counts as too late.
- `VoiceLinkProofs`, `SilenceFollows` and `NewestMediaPlays`: the receiver compares
  numbers, the properties ages. `SeenInv` says that the numbers the receiver remembers
  are those of packets no newer than the newest it has seen; `NewerInWindow` does the rest.
  Both assume `Window`, that the numbers of a behaviour fit into half of their space: two
  packets further apart than that compare the wrong way round, in the code too. The
  first assumes the link keeps order, the second that `insert_packet` succeeds, for the
  reasons given with the bounds; the runs that check them are set the same way.
- `VoiceLinkProofs`, `LostMarkersRepaired`: an action property, from `SilenceFollows` and
  two invariants more. `TimeInv`: everything on the link is stamped with the media time,
  which no frame is ahead of, so a gap between two packets shows in the clock as it was;
  `LastInv`: where the receiver has the number of the newest media, it has its time. Hypotheses
  `Window` and `TimeFits` as above, and the ordered link.
- `MeshMediaProofs`, `MediaTypeCorrect`: `TypeInv` adds what a churn task may hold at each
  of its stages (`ChurnInv`) and that slots and pool hold no more receivers than were
  made (`MadeInv`).
- `MeshMediaProofs`, `SlotsLead`: the two slots of a pair change in separate steps, so
  `PairInHand` says for each stage of the churn task which of the two is empty or
  filled: both are emptied before the connection is closed, and the new one is open
  before either is filled. `SlotsAreOpen` is half of the property, and `PairsDone`
  what is true of the pairs the task has behind it.
- `MeshMediaProofs`, `ReceiversPlayOneVoice`: `VoiceInv` says that a receiver in a slot has
  heard its speaker only, and one in the pool nobody and with everything reported.
- `MeshMediaProofs`, `OnlyInterestHoldsReceivers`: `InterestInv` ties the copy of interest a
  listener compares with to the frame it last woke at; a receiver is made from that copy
  and retired by its change.
- `MeshMediaProofs`, `ReportsAreTrue`: `ReportInv` splits all concealment into what the
  totals have and what the slots have not reported; nothing in the pool is unreported.
  `Unreported` is the size of a set of frames, so retiring receivers splits that set
  (`UnreportedApart`) and running dry adds to it (`DryIsUnreported`).
- `MeshControlProofs`, `ControlTypeCorrect` and `WholeMeshStarts`, from `ControlInv`. `Duty`
  says for each place of the coordinator what every worker is being made to do, and
  `DutyInv` that it is: a worker has at most one command or response on its way, and
  what is in its queues and its state tell where between the two it is, or it has
  died. So the response read is always the awaited one, and a `place` past all pairs
  means that all workers answered. The lemmas `...Follows` say what one iteration of the
  loops changes of this, for each of them: the duty of the worker at hand and, after
  `accepted`, the pairs that are done (`PairsInOrder`: the nested loops pass over no pair).
  `ConnectionsInv` has the pairs that are done connected at both ends and those to
  come at neither acceptor; `AttemptInv` says that no attempt waits anywhere but that of the
  pair in hand, so the acceptor that takes the first takes the right one.

The assumptions are the named `ASSUME`s of the modules; TLC evaluates them in every
run. Not proved but model-checked is liveness, which is out of the prover's reach. All
invariants and action properties of the passing runs are theorems.

## Hazards and disagreements

`PROJECT.json` lists both at their lines. Two runs end in a counterexample: a
comment or document of the repository promises what the code does not do in some
order of events. They are kept as runs so that a fix of the code shows as a run
to turn round. More disagreements are visible in the models and have no run of their
own; the properties of the passing runs say what holds in spite of them:

- The media clock is to "track captured sample time" (`encoder.rs:160-163`), and the sender
  never calls `advance_dropped_frames`: PCM that a flush, a full queue, a late worker, an
  Opus error, the end of a pipeline or a push without one throws away is time the clock
  does not count: three frames pushed and flushed and a fourth encoded leave it at one frame.
  `MediaClockMissesOnlyDiscards` names all of these as `discarded`, and says that the clock
  misses them and nothing else.
- A START that arrives after the END of its own talkspurt opens the talkspurt and
  forgets that END (`receiver.rs:137`); the receiver then conceals without end, where
  `receiver.rs:178-180` speaks against "unbounded PLC after an explicit end marker".
- The task of a dead connection removes the map entry of its peer whichever connection
  it holds by then (`service.rs:361`): the successor, open and being read, is no longer
  what `get_connection` calls "the active `Connection` for `peer`" (`service.rs:252`).
- A sender muted in the middle of a talkspurt and then stopped never sends its END
  (`sender.rs:1021` and `1118`), though "Stop is a speech boundary, not packet loss"
  (`sender.rs:1114`). `PlainStopIsSpeechBoundary` is checked without mutes.
- `PcmTap::reset` "invalidates queued/in-flight results" (`pcm_tap.rs:45`); a `deactivate`
  that comes between a pull and its push gives the new generation to old samples, and
  `RestartResetIsExact` excludes it by name.
- The coordinator waits for a worker that died before it connected for ever
  (`main.rs:1336`), and a worker told to accept waits for ever for a connector that
  died; `RegisteredRunEnds` excludes both by name.
- `exit_tree` forgets the receive streams and leaves them in the router
  (`transport_iroh.rs:183-187`): the next session's tasks feed streams nobody holds, until
  the peer's next stream takes their place.
- A backlog of up to 64 packets is flushed into a stream however old the packets are
  (`transport_iroh.rs:93-103`); a packet in flight across `remove_receive_stream` makes
  the router's entry again.
- In the benchmark a packet sent in one period of interest and drained in the next counts
  for the next (`main.rs:3217`), and the drains of the delivery grace may make receivers
  whose interest is never compared again (`main.rs:2898-2933`), which
  `ReceiverOnlyWhileInterested` leaves out.
- A peer accepted between `bind` (the accept loop starts at `service.rs:171`) and
  `subscribe` (`transport_iroh.rs:237`) announces itself to a channel without
  receivers and never gets into the send router. `SoleConnectionIsRouted` excludes
  it by `~lost`; `EarlyAccept = FALSE` removes the window.
- Once a handler is installed, `packet_ready` "is NOT emitted" (`sender.rs:611-613`),
  yet packets queued before are still emitted by `process` and by `stop_sender`
  (`EmitPacket`, `EmptyQueue`).
- `stop_capture` "discards pending encoded audio" (`gdext/EMBEDDING.md:21-22`), yet
  `stop_sender` emits what is in the queue after the join (`sender.rs:756`); only a
  worker that has an END to send clears the queue first (`QueuePacket`).

## Not modelled

- *Reads without effect*: statistics, meters, signals without control effect.
- *Signal processing*: resampler, decoder, VAD and microphone gate, gain.
- *Samples and loopback* of the sender: PCM is counted, and has no identity in the model.
- *Send peers*: `set_send_peers` narrows the fan-out and changes nothing else modelled.
- *The embedding transport* (`gdext-iroh/src/transport.rs`): each call goes to the sidecar
  service, and it keeps no router.
- *The tap's `enable`*: disabled, it holds no block.
- *The rest of the benchmark*: codec and impairment are nondeterminism, meters, samples
  and reservoirs do not act on anything, the two drivers run a fixed schedule against the
  components above; `codec-bench`, fixtures and examples do the same.
- *The byte codec* of packets: pure.

## What could come next

1. The fan-out of `send_packet` over selected peers (`set_send_peers`), composed with
   `IrohVoiceTransport`.
2. One composition of `ReceiveRouter` and `NetworkStream`, each now the other's
   environment by way of `PacketDelivery`.
3. Abstract specifications for the rest: an eventually consistent copy of the peer map
   that `IrohVoiceTransport` implements as long as no event is lost; a voice that is
   either audible or silent, which `VoiceLink` implements.
4. Proofs: the receiver's silence on a reordering link.
