---------------------------- MODULE ReceiveRouter ----------------------------
(***************************************************************************)
(* ReceiveRouter of gdext/src/transport_iroh.rs: how a voice packet gets   *)
(* from the datagram task that received it into the stream of its peer.    *)
(*                                                                         *)
(* Every connection has a datagram task, and a peer whose connection was   *)
(* replaced has two for a while.  route takes two locks one after the      *)
(* other and enqueues after it has released both; the main thread makes,   *)
(* removes and forgets streams and flushes the packets that waited for     *)
(* one, outside the lock as well.  What a stream does with a packet is the *)
(* subject of NetworkStream; here it lists what it was given.              *)
(***************************************************************************)
EXTENDS Naturals, Sequences, FiniteSets

CONSTANTS
  Peers,
  Tasks,            \* datagram tasks
  PeerOf,           \* the peer a task receives from
  PacketsOf,        \* the number of packets it receives
  PendingCapacity,  \* PENDING_PACKETS_PER_PEER
  MaxStreams,       \* bound: receive streams made
  MaxCalls,         \* bound: main-thread calls that change the router
  None

ASSUME RouterAssumption ==
  /\ IsFiniteSet(Tasks)
  /\ PeerOf \in [Tasks -> Peers] /\ PacketsOf \in [Tasks -> Nat]
  /\ PendingCapacity \in Nat \ {0}
  /\ MaxStreams \in Nat /\ MaxCalls \in Nat
  /\ None \notin Nat

\* The stream given to set_receive_stream, and those the node makes.
OwnStream == 0
Streams == {OwnStream} \cup 1 .. MaxStreams

PacketIds == UNION {{t} \X (1 .. PacketsOf[t]) : t \in Tasks}

VARIABLES
  default_sink,
  ingress,          \* per peer, sink and pending; an absent entry is the empty one
  receive_streams,  \* per peer, the node's stream
  received,         \* per task, packets handed to route
  routing,          \* per task, where in route it is
  flushing,         \* what register still has to enqueue, and where
  made,             \* streams made
  calls,            \* for the bound
  inbox,            \* history: per stream, the packets enqueued
  waited,           \* history: packets that were pending
  detached          \* history: per stream, Len(inbox) when it was taken out, or None

vars == <<default_sink, ingress, receive_streams, received, routing, flushing,
          made, calls, inbox, waited, detached>>

NoIngress == [sink |-> None, pending |-> << >>]

IdleTask == [at |-> "idle", sink |-> None]

Init ==
  /\ default_sink = None
  /\ ingress = [p \in Peers |-> NoIngress]
  /\ receive_streams = [p \in Peers |-> None]
  /\ received = [t \in Tasks |-> 0]
  /\ routing = [t \in Tasks |-> IdleTask]
  /\ flushing = [sink |-> None, rest |-> << >>]
  /\ made = 0
  /\ calls = 0
  /\ inbox = [s \in Streams |-> << >>]
  /\ waited = {}
  /\ detached = [s \in Streams |-> None]

TypeOK ==
  /\ default_sink \in {OwnStream, None}
  /\ ingress \in [Peers -> [sink : Streams \cup {None}, pending : Seq(PacketIds)]]
  /\ \A p \in Peers : Len(ingress[p].pending) <= PendingCapacity
  /\ receive_streams \in [Peers -> Streams \cup {None}]
  /\ received \in [Tasks -> Nat]
  /\ \A t \in Tasks : received[t] <= PacketsOf[t]
  /\ routing \in [Tasks -> [at : {"idle", "looking", "enqueuing"}, sink : Streams \cup {None}]]
  /\ flushing \in [sink : Streams \cup {None}, rest : Seq(PacketIds)]
  /\ made \in 0 .. MaxStreams
  /\ calls \in 0 .. MaxCalls
  /\ inbox \in [Streams -> Seq(PacketIds)]
  /\ waited \subseteq PacketIds
  /\ detached \in [Streams -> Nat \cup {None}]

-----------------------------------------------------------------------------
\* route, on the thread of task t

Current(t) == <<t, received[t]>>

Unrouted == <<default_sink, receive_streams, flushing, made, calls, detached>>

\* The default sink is read under its own lock.
ReadDefaultSink(t) ==
  /\ routing[t] = IdleTask
  /\ received[t] < PacketsOf[t]
  /\ received' = [received EXCEPT ![t] = @ + 1]
  /\ routing' = [routing EXCEPT ![t] = [at |-> "looking", sink |-> default_sink]]
  /\ UNCHANGED <<ingress, inbox, waited, Unrouted>>

\* The default sink read before takes precedence over the peer's.
SinkFor(t) ==
  IF routing[t].sink # None THEN routing[t].sink ELSE ingress[PeerOf[t]].sink

RouteToSink(t) ==
  /\ routing[t].at = "looking"
  /\ SinkFor(t) # None
  /\ routing' = [routing EXCEPT ![t] = [at |-> "enqueuing", sink |-> SinkFor(t)]]
  /\ UNCHANGED <<ingress, received, inbox, waited, Unrouted>>

\* Mutants of Queued: a full backlog grows on; the newest packet is put first.
QueuedUnbounded(pending, id) == Append(pending, id)
QueuedFirst(pending, id) ==
  <<id>> \o (IF Len(pending) = PendingCapacity THEN Tail(pending) ELSE pending)

\* A full backlog loses its oldest packet.
Queued(pending, id) ==
  IF Len(pending) = PendingCapacity THEN Append(Tail(pending), id) ELSE Append(pending, id)

\* No stream yet: the packet waits for one.
RouteToPending(t) ==
  /\ routing[t].at = "looking"
  /\ SinkFor(t) = None
  /\ ingress' = [ingress EXCEPT ![PeerOf[t]].pending = Queued(@, Current(t))]
  /\ waited' = waited \cup {Current(t)}
  /\ routing' = [routing EXCEPT ![t] = IdleTask]
  /\ UNCHANGED <<received, inbox, Unrouted>>

\* Outside the lock.
EnqueueRouted(t) ==
  /\ routing[t].at = "enqueuing"
  /\ inbox' = [inbox EXCEPT ![routing[t].sink] = Append(@, Current(t))]
  /\ routing' = [routing EXCEPT ![t] = IdleTask]
  /\ UNCHANGED <<ingress, received, waited, Unrouted>>

Route(t) ==
  ReadDefaultSink(t) \/ RouteToSink(t) \/ RouteToPending(t) \/ EnqueueRouted(t)

-----------------------------------------------------------------------------
\* The main thread

Unmoved == <<received, routing, waited>>

Called ==
  /\ flushing.rest = << >>
  /\ calls < MaxCalls
  /\ calls' = calls + 1

\* Mutant of RegisteredSink: an old sink is kept.
KeptSink(old, new) == IF old = None THEN new ELSE old

RegisteredSink(old, new) == new

\* Mutant of Registered: the backlog is copied, not taken.
RegisteredCopying(p, s) ==
  [sink |-> RegisteredSink(ingress[p].sink, s), pending |-> ingress[p].pending]

Registered(p, s) ==
  [sink |-> RegisteredSink(ingress[p].sink, s), pending |-> << >>]

\* ensure_receive_stream_for a peer without stream, from a connection event,
\* connect_to_peer or get_or_create_receive_stream: a new stream is registered and
\* the backlog taken, under the lock.
EnsureReceiveStream(p) ==
  /\ receive_streams[p] = None
  /\ made < MaxStreams
  /\ Called
  /\ made' = made + 1
  /\ ingress' = [ingress EXCEPT ![p] = Registered(p, made')]
  /\ flushing' = [sink |-> made', rest |-> ingress[p].pending]
  /\ receive_streams' = [receive_streams EXCEPT ![p] = made']
  /\ UNCHANGED <<default_sink, inbox, detached, Unmoved>>

\* register enqueues the backlog outside the lock.
FlushOne ==
  /\ flushing.rest # << >>
  /\ inbox' = [inbox EXCEPT ![flushing.sink] = Append(@, Head(flushing.rest))]
  /\ flushing' = [flushing EXCEPT !.rest = Tail(@)]
  /\ UNCHANGED <<default_sink, ingress, receive_streams, made, calls, detached, Unmoved>>

\* Mutant of Unregistered: only the backlog is dropped.
UnregisteredBacklog(p) == [ingress[p] EXCEPT !.pending = << >>]

Unregistered(p) == NoIngress

DetachedNow(s) == [detached EXCEPT ![s] = Len(inbox[s])]

\* remove_receive_stream: the entry goes, backlog included, with or without stream.
RemoveReceiveStream(p) ==
  /\ Called
  /\ ingress' = [ingress EXCEPT ![p] = Unregistered(p)]
  /\ receive_streams' = [receive_streams EXCEPT ![p] = None]
  /\ detached' = IF receive_streams[p] = None THEN detached
                 ELSE DetachedNow(receive_streams[p])
  /\ UNCHANGED <<default_sink, flushing, made, inbox, Unmoved>>

SetReceiveStream ==
  /\ Called
  /\ default_sink' = OwnStream
  /\ detached' = [detached EXCEPT ![OwnStream] = None]
  /\ UNCHANGED <<ingress, receive_streams, flushing, made, inbox, Unmoved>>

ClearReceiveStream ==
  /\ Called
  /\ default_sink # None
  /\ default_sink' = None
  /\ detached' = DetachedNow(OwnStream)
  /\ UNCHANGED <<ingress, receive_streams, flushing, made, inbox, Unmoved>>

\* exit_tree lets go of the streams; the router and its sinks stay, for the tasks
\* of the next session as well.
ExitTree ==
  /\ Called
  /\ receive_streams' = [p \in Peers |-> None]
  /\ UNCHANGED <<default_sink, ingress, flushing, made, inbox, detached, Unmoved>>

Main ==
  \/ \E p \in Peers : EnsureReceiveStream(p) \/ RemoveReceiveStream(p)
  \/ FlushOne \/ SetReceiveStream \/ ClearReceiveStream \/ ExitTree

Next == (\E t \in Tasks : Route(t)) \/ Main

Spec == Init /\ [][Next]_vars

-----------------------------------------------------------------------------
\* Properties

\* A stream the node hands out is the one the router feeds, and no backlog is left
\* behind it, however streams were removed, forgotten by exit_tree and made anew
\* while packets came in (transport_iroh.rs:65-117, 473-482).
KnownStreamIsFed ==
  \A p \in Peers : receive_streams[p] # None =>
    ingress[p] = [sink |-> receive_streams[p], pending |-> << >>]

\* A stream taken out of the router gets at most the one packet each task had in
\* hand when that happened (transport_iroh.rs:65-90, 109-114, 378-389).
DetachedStreamGetsStragglersOnly ==
  \A s \in Streams : detached[s] # None =>
    Len(inbox[s]) <= detached[s] + Cardinality(Tasks)

\* The network's order within a task is broken in one way only: a packet that
\* found the new stream overtakes one still being flushed from the backlog
\* (transport_iroh.rs:92-102).
OnlyBacklogIsOvertaken ==
  \A s \in Streams : \A j \in DOMAIN inbox[s] : \A k \in 1 .. j - 1 :
    (inbox[s][k][1] = inbox[s][j][1] /\ inbox[s][k][2] > inbox[s][j][2])
      => inbox[s][j] \in waited /\ inbox[s][k] \notin waited

Places(id) ==
  UNION {{s} \X {k \in DOMAIN inbox[s] : inbox[s][k] = id} : s \in Streams}

Queues == {ingress[p].pending : p \in Peers} \cup {flushing.rest}

InFlight(id) ==
  \/ \E q \in Queues : \E k \in DOMAIN q : q[k] = id
  \/ id = Current(id[1]) /\ routing[id[1]] # IdleTask

DeliveryStatus(id) ==
  CASE id[2] > received[id[1]] -> "unsent"
    [] Cardinality(Places(id)) > 1 -> "duplicated"
    [] InFlight(id) -> "inflight"
    [] Places(id) # {} -> "delivered"
    [] OTHER -> "lost"

Delivery ==
  INSTANCE PacketDelivery WITH Ids <- PacketIds, Precedes <- {},
                               status <- [id \in PacketIds |-> DeliveryStatus(id)]

\* Between the default sink, the peer's sink and the backlog, a packet goes into
\* one stream once, or is dropped (transport_iroh.rs:65-114).
ImplementsDelivery == Delivery!Spec
=============================================================================
