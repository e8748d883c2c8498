--------------------------- MODULE VoiceIrohService ---------------------------
(***************************************************************************)
(* The sidecar service of iroh-sidecar/src/service.rs: the map from peer   *)
(* to connection, the tasks that fill and empty it, and the broadcast      *)
(* channel their events go through.                                        *)
(*                                                                         *)
(* Every connection is served by one flow of control: the accept task (or  *)
(* the thread inside connect) inserts it and sends PeerConnected or        *)
(* PeerReplaced, then a datagram task reads it until the connection dies,  *)
(* removes the peer and sends PeerDisconnected.  The map is changed under  *)
(* the lock; the event it produces is sent after the lock is released, so  *)
(* between the two it is in the flow's hand, and flows interleave there.   *)
(***************************************************************************)
EXTENDS Integers, Sequences, FiniteSets

CONSTANTS
  Peers,          \* remote endpoint ids
  Conns,          \* QUIC connections, each used once
  RemoteId,       \* Connection::remote_id
  NoConn,         \* the absent connection
  EventCapacity,  \* of broadcast::channel
  MaxPackets,     \* bound: datagrams read before a handler is installed
  ApiDisconnect   \* callers use VoiceIrohService::disconnect

ASSUME ServiceAssumption ==
  /\ RemoteId \in [Conns -> Peers]
  /\ NoConn \notin Conns
  /\ EventCapacity \in Nat \ {0}
  /\ MaxPackets \in Nat
  /\ ApiDisconnect \in BOOLEAN

VARIABLES
  bound,       \* the service exists
  subscribed,  \* the event channel has a receiver
  handler,     \* a packet handler is installed
  live,        \* connections open on the wire
  stage,       \* where the flow that serves a connection is
  hand,        \* the event it has to send next
  peers,       \* SharedState.peers
  events,      \* sent and not yet received
  lost,        \* history: an event was overwritten, or sent to no receiver
  packets      \* PacketReceived events sent, for the bound

service_vars == <<bound, subscribed, handler, live, stage, hand, peers, events,
                  lost, packets>>

\* handshaken: established, not in the map yet.  inserted: in the map, event in
\* hand.  reading: datagram task runs.  ended: read_datagram failed.  removed:
\* peer taken out of the map, event in hand.  gone: its service was dropped.
Stages == {"new", "handshaken", "inserted", "reading", "ended", "removed",
           "done", "gone"}

ConnectionEvents == {"connected", "replaced", "disconnected"}
VoiceEvents == [kind : ConnectionEvents \cup {"packet"}, peer : Peers]

IsEventQueue(s) == s \in Seq(VoiceEvents) /\ Len(s) <= EventCapacity

ServiceInit ==
  /\ handler = FALSE
  /\ live = {}
  /\ stage = [c \in Conns |-> "new"]
  /\ hand = [c \in Conns |-> "none"]
  /\ peers = [p \in Peers |-> NoConn]
  /\ events = << >>
  /\ lost = FALSE
  /\ packets = 0

ServiceTypeOK ==
  /\ bound \in BOOLEAN
  /\ subscribed \in BOOLEAN
  /\ handler \in BOOLEAN
  /\ live \subseteq Conns
  /\ stage \in [Conns -> Stages]
  /\ hand \in [Conns -> ConnectionEvents \cup {"none"}]
  /\ peers \in [Peers -> Conns \cup {NoConn}]
  /\ IsEventQueue(events)
  /\ lost \in BOOLEAN
  /\ packets \in Nat

-----------------------------------------------------------------------------
\* Mutant of Send: a channel without a bound.
SendUnbounded(kind, peer) ==
  /\ events' = Append(events, [kind |-> kind, peer |-> peer])
  /\ UNCHANGED lost

\* broadcast::Sender::send: without a receiver the event is discarded, and a
\* full channel overwrites its oldest event.
Send(kind, peer) ==
  LET event == [kind |-> kind, peer |-> peer]
  IN  \/ /\ ~subscribed
         /\ lost' = TRUE
         /\ UNCHANGED events
      \/ /\ subscribed /\ Len(events) < EventCapacity
         /\ events' = Append(events, event)
         /\ UNCHANGED lost
      \/ /\ subscribed /\ Len(events) >= EventCapacity
         /\ events' = Append(Tail(events), event)
         /\ lost' = TRUE

\* A handshake completes, in an accept task or inside connect.
Handshake(c) ==
  /\ bound
  /\ stage[c] = "new"
  /\ stage' = [stage EXCEPT ![c] = "handshaken"]
  /\ live' = live \cup {c}
  /\ UNCHANGED <<bound, subscribed, handler, hand, peers, events, lost, packets>>

\* insert_connection.  A connection it replaces is neither closed nor told.
InsertConnection(c) ==
  LET p == RemoteId[c]
  IN  /\ stage[c] = "handshaken"
      /\ hand' = [hand EXCEPT ![c] = IF peers[p] = NoConn THEN "connected"
                                                          ELSE "replaced"]
      /\ peers' = [peers EXCEPT ![p] = c]
      /\ stage' = [stage EXCEPT ![c] = "inserted"]
      /\ UNCHANGED <<bound, subscribed, handler, live, events, lost, packets>>

\* The event is sent and the datagram task spawned.
AnnounceInserted(c) ==
  /\ stage[c] = "inserted"
  /\ Send(hand[c], RemoteId[c])
  /\ hand' = [hand EXCEPT ![c] = "none"]
  /\ stage' = [stage EXCEPT ![c] = "reading"]
  /\ UNCHANGED <<bound, subscribed, handler, live, peers, packets>>

\* The remote side closes it, or the path times out.
CloseConnection(c) ==
  /\ c \in live
  /\ live' = live \ {c}
  /\ UNCHANGED <<bound, subscribed, handler, stage, hand, peers, events, lost,
                 packets>>

\* A datagram is read.  With a handler installed it goes to the handler, which
\* is the receive router's business and changes nothing here.
ReadDatagram(c) ==
  /\ stage[c] = "reading" /\ c \in live
  /\ ~handler
  /\ packets < MaxPackets
  /\ packets' = packets + 1
  /\ Send("packet", RemoteId[c])
  /\ UNCHANGED <<bound, subscribed, handler, live, stage, hand, peers>>

\* Mutant of ReadFails: the task takes the error for a transient one.
ReadRetries(c) ==
  /\ stage[c] = "reading" /\ c \notin live
  /\ UNCHANGED service_vars

ReadFails(c) ==
  /\ stage[c] = "reading" /\ c \notin live
  /\ stage' = [stage EXCEPT ![c] = "ended"]
  /\ UNCHANGED <<bound, subscribed, handler, live, hand, peers, events, lost,
                 packets>>

\* Mutant of RemoveConnection: the peer is looked up, and not removed.
LookUpConnection(c) ==
  /\ stage[c] = "ended"
  /\ IF peers[RemoteId[c]] # NoConn
     THEN /\ hand' = [hand EXCEPT ![c] = "disconnected"]
          /\ stage' = [stage EXCEPT ![c] = "removed"]
     ELSE /\ stage' = [stage EXCEPT ![c] = "done"]
          /\ UNCHANGED hand
  /\ UNCHANGED <<bound, subscribed, handler, live, peers, events, lost, packets>>

\* remove_connection: by peer, whichever connection the map holds by now.
RemoveConnection(c) ==
  LET p == RemoteId[c]
  IN  /\ stage[c] = "ended"
      /\ IF peers[p] # NoConn
         THEN /\ peers' = [peers EXCEPT ![p] = NoConn]
              /\ hand' = [hand EXCEPT ![c] = "disconnected"]
              /\ stage' = [stage EXCEPT ![c] = "removed"]
         ELSE /\ stage' = [stage EXCEPT ![c] = "done"]
              /\ UNCHANGED <<peers, hand>>
      /\ UNCHANGED <<bound, subscribed, handler, live, events, lost, packets>>

AnnounceRemoved(c) ==
  /\ stage[c] = "removed"
  /\ Send(hand[c], RemoteId[c])
  /\ hand' = [hand EXCEPT ![c] = "none"]
  /\ stage' = [stage EXCEPT ![c] = "done"]
  /\ UNCHANGED <<bound, subscribed, handler, live, peers, packets>>

\* VoiceIrohService::disconnect: removes and closes, and sends no event.
Disconnect(p) ==
  /\ ApiDisconnect
  /\ peers[p] # NoConn
  /\ live' = live \ {peers[p]}
  /\ peers' = [peers EXCEPT ![p] = NoConn]
  /\ UNCHANGED <<bound, subscribed, handler, stage, hand, events, lost, packets>>

\* shutdown and drop: the accept loop ends, every connection is closed, and the
\* runtime takes its tasks, the peer map and the channel with it.
DropService ==
  /\ bound
  /\ bound' = FALSE
  /\ subscribed' = FALSE
  /\ handler' = FALSE
  /\ live' = {}
  /\ stage' = [c \in Conns |-> IF stage[c] = "new" THEN "new" ELSE "gone"]
  /\ hand' = [c \in Conns |-> "none"]
  /\ peers' = [p \in Peers |-> NoConn]
  /\ events' = << >>
  /\ UNCHANGED <<lost, packets>>

SubscribeEvents ==
  /\ bound
  /\ subscribed' = TRUE
  /\ UNCHANGED <<bound, handler, live, stage, hand, peers, events, lost, packets>>

SetPacketHandler ==
  /\ bound
  /\ handler' = TRUE
  /\ UNCHANGED <<bound, subscribed, live, stage, hand, peers, events, lost,
                 packets>>

\* The receiver takes everything the channel holds.
ReceiveEvents ==
  /\ subscribed /\ events # << >>
  /\ events' = << >>
  /\ UNCHANGED <<bound, subscribed, handler, live, stage, hand, peers, lost,
                 packets>>

\* One step of the flow that serves c, after its handshake.
Serve(c) ==
  \/ InsertConnection(c) \/ AnnounceInserted(c)
  \/ ReadFails(c) \/ RemoveConnection(c) \/ AnnounceRemoved(c)

\* The service on its own, in the hands of any caller.
ServiceNext ==
  \/ \E c \in Conns :
       Handshake(c) \/ Serve(c) \/ CloseConnection(c) \/ ReadDatagram(c)
  \/ \E p \in Peers : Disconnect(p)
  \/ SubscribeEvents \/ SetPacketHandler \/ ReceiveEvents \/ DropService

BoundInit == bound = TRUE /\ subscribed = FALSE /\ ServiceInit

\* The runtime schedules every task.
ServiceSpec ==
  /\ BoundInit /\ [][ServiceNext]_service_vars
  /\ \A c \in Conns : WF_service_vars(Serve(c))

-----------------------------------------------------------------------------
\* Properties

Mapped(c) == peers[RemoteId[c]] = c

\* Nobody but its own datagram task takes a dead connection out of the map, so a
\* connection must never be in the map without a task that still will: after
\* replacements and removals by peer id, in any interleaving.
MappedConnectionIsServed ==
  \A p \in Peers : peers[p] # NoConn =>
    /\ RemoteId[peers[p]] = p
    /\ stage[peers[p]] \in {"inserted", "reading", "ended"}

\* An event is in a flow's hand exactly between the map change and the send.
HandMatchesStage ==
  \A c \in Conns :
    /\ stage[c] = "inserted" <=> hand[c] \in {"connected", "replaced"}
    /\ stage[c] = "removed" <=> hand[c] = "disconnected"

\* A dead connection does not stay in the map.
DeadConnectionLeavesMap ==
  \A c \in Conns : (Mapped(c) /\ c \notin live) ~> ~Mapped(c)
=============================================================================
