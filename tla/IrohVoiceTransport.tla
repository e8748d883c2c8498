-------------------------- MODULE IrohVoiceTransport --------------------------
(***************************************************************************)
(* The Godot node of gdext/src/transport_iroh.rs over a VoiceIrohService.  *)
(*                                                                         *)
(* The node lives on Godot's main thread.  It learns of connections from   *)
(* the event channel, which it drains once per frame, and copies them into *)
(* the send router, which the encoder thread reads to fan a voice packet   *)
(* out.  The service's flows run on other threads all the while: the main  *)
(* thread looks a connection up in the map and writes it to the router in  *)
(* two steps.  While it is inside connect it does nothing else.            *)
(***************************************************************************)
EXTENDS VoiceIrohService

CONSTANTS
  EarlyAccept,  \* connections may complete before the node has subscribed
  MaxSessions   \* bound: calls of start_endpoint

ASSUME TransportAssumption ==
  EarlyAccept \in BOOLEAN /\ MaxSessions \in Nat

VARIABLES
  main,             \* what the main thread is doing
  batch,            \* events drained and not yet handled
  router,           \* SendRouter.connections
  receive_streams,  \* peers with a receive stream
  peers_connected,  \* the statistic
  sessions          \* calls of start_endpoint, for the bound

node_vars == <<main, batch, router, receive_streams, peers_connected, sessions>>
vars == <<service_vars, node_vars>>

Idle == [at |-> "idle"]
Connecting(c) == [at |-> "connecting", conn |-> c]
Storing(p, c, via) == [at |-> "storing", peer |-> p, conn |-> c, via |-> via]

MainStates ==
  [at : {"idle", "starting", "installing"}]
    \cup [at : {"connecting"}, conn : Conns]
    \cup [at : {"storing"}, peer : Peers, conn : Conns \cup {NoConn},
          via : {"connect", "connected", "replaced"}]

Init ==
  /\ bound = FALSE
  /\ subscribed = FALSE
  /\ ServiceInit
  /\ main = Idle
  /\ batch = << >>
  /\ router = [p \in Peers |-> NoConn]
  /\ receive_streams = {}
  /\ peers_connected = 0
  /\ sessions = 0

TypeOK ==
  /\ ServiceTypeOK
  /\ main \in MainStates
  /\ IsEventQueue(batch)
  /\ router \in [Peers -> Conns \cup {NoConn}]
  /\ receive_streams \subseteq Peers
  /\ peers_connected \in Int
  /\ sessions \in Nat

-----------------------------------------------------------------------------
\* start_endpoint: bind (the accept loop runs from here), subscribe, install the
\* packet router.
Bind ==
  /\ main = Idle /\ batch = << >>
  /\ ~bound /\ sessions < MaxSessions
  /\ bound' = TRUE
  /\ sessions' = sessions + 1
  /\ main' = [at |-> "starting"]
  /\ UNCHANGED <<subscribed, handler, live, stage, hand, peers, events, lost,
                 packets, batch, router, receive_streams, peers_connected>>

Subscribe ==
  /\ main.at = "starting"
  /\ SubscribeEvents
  /\ main' = [at |-> "installing"]
  /\ UNCHANGED <<batch, router, receive_streams, peers_connected, sessions>>

InstallPacketRouter ==
  /\ main.at = "installing"
  /\ SetPacketHandler
  /\ main' = Idle
  /\ UNCHANGED <<batch, router, receive_streams, peers_connected, sessions>>

\* connect_to_peer, up to the handshake.  A failed connect changes nothing.
ConnectToPeer(c) ==
  /\ main = Idle /\ batch = << >>
  /\ Handshake(c)
  /\ main' = Connecting(c)
  /\ UNCHANGED <<batch, router, receive_streams, peers_connected, sessions>>

\* connect has returned: get_connection.
FetchConnection ==
  /\ main.at = "connecting"
  /\ stage[main.conn] \notin {"handshaken", "inserted"}
  /\ LET p == RemoteId[main.conn]
     IN  main' = Storing(p, peers[p], "connect")
  /\ UNCHANGED <<service_vars, batch, router, receive_streams, peers_connected,
                 sessions>>

\* drain_events: everything the channel holds, a lag being skipped over.
DrainEvents ==
  /\ main = Idle /\ batch = << >>
  /\ ReceiveEvents
  /\ batch' = events
  /\ UNCHANGED <<main, router, receive_streams, peers_connected, sessions>>

\* Mutant of Counted: a replacement is counted as a connection.
CountedAlways(kind) == 1

Counted(kind) == IF kind = "connected" THEN 1 ELSE 0

\* handle_event for PeerConnected and PeerReplaced, up to get_connection.
HandleConnected ==
  /\ main = Idle /\ batch # << >>
  /\ Head(batch).kind \in {"connected", "replaced"}
  /\ LET p == Head(batch).peer
     IN  main' = Storing(p, peers[p], Head(batch).kind)
  /\ peers_connected' = peers_connected + Counted(Head(batch).kind)
  /\ batch' = Tail(batch)
  /\ UNCHANGED <<service_vars, router, receive_streams, sessions>>

\* Mutants of KeepsEntry: the event handler keeps an entry it finds as well; a new
\* peer is left to connect_to_peer.
KeepsAnyEntry(p) == router[p] # NoConn
LeavesConnected(p) ==
  main.via = "connected" \/ (main.via = "connect" /\ router[p] # NoConn)

KeepsEntry(p) == main.via = "connect" /\ router[p] # NoConn

\* The connection looked up goes into the router: connect_to_peer keeps an entry
\* it finds there, the event handler overwrites it.
StoreConnection ==
  /\ main.at = "storing"
  /\ LET p == main.peer
         keep == main.conn = NoConn \/ KeepsEntry(p)
     IN  /\ router' = IF keep THEN router ELSE [router EXCEPT ![p] = main.conn]
         /\ receive_streams' = receive_streams \cup {p}
  /\ main' = Idle
  /\ UNCHANGED <<service_vars, batch, peers_connected, sessions>>

\* Mutant of ForgetPeer: only the statistic changes.
RememberPeer(p) == UNCHANGED router

ForgetPeer(p) == router' = [router EXCEPT ![p] = NoConn]

HandleDisconnected ==
  /\ main = Idle /\ batch # << >>
  /\ Head(batch).kind = "disconnected"
  /\ ForgetPeer(Head(batch).peer)
  /\ peers_connected' = peers_connected - 1
  /\ batch' = Tail(batch)
  /\ UNCHANGED <<service_vars, main, receive_streams, sessions>>

\* Statistics and a signal only.
HandlePacket ==
  /\ main = Idle /\ batch # << >>
  /\ Head(batch).kind = "packet"
  /\ batch' = Tail(batch)
  /\ UNCHANGED <<service_vars, main, router, receive_streams, peers_connected,
                 sessions>>

\* get_or_create_receive_stream and remove_receive_stream, as the game asks.
ChangeReceiveStreams(p) ==
  /\ main = Idle
  /\ receive_streams' \in {receive_streams \cup {p}, receive_streams \ {p}}
  /\ UNCHANGED <<service_vars, main, batch, router, peers_connected, sessions>>

\* exit_tree: the service goes; the router and the statistic stay as they are.
ExitTree ==
  /\ main = Idle /\ batch = << >>
  /\ DropService
  /\ receive_streams' = {}
  /\ UNCHANGED <<main, batch, router, peers_connected, sessions>>

Accept(c) ==
  /\ EarlyAccept \/ subscribed
  /\ Handshake(c)
  /\ UNCHANGED node_vars

ServeStep(c) == Serve(c) /\ UNCHANGED node_vars
Close(c) == CloseConnection(c) /\ UNCHANGED node_vars
Read(c) == ReadDatagram(c) /\ UNCHANGED node_vars

MainStep ==
  \/ Subscribe \/ InstallPacketRouter
  \/ FetchConnection \/ StoreConnection
  \/ DrainEvents \/ HandleConnected \/ HandleDisconnected \/ HandlePacket

Next ==
  \/ \E c \in Conns :
       \/ Accept(c) \/ ServeStep(c) \/ Close(c) \/ Read(c) \/ ConnectToPeer(c)
  \/ Bind \/ MainStep \/ ExitTree
  \/ \E p \in Peers : ChangeReceiveStreams(p)

Spec == Init /\ [][Next]_vars

\* Godot calls process every frame and the runtime schedules every task.
Fairness ==
  /\ WF_vars(MainStep)
  /\ \A c \in Conns : WF_vars(ServeStep(c))

FairSpec == Spec /\ Fairness

-----------------------------------------------------------------------------
\* Properties

Gone(c) == c \in Conns /\ stage[c] = "gone"

InSeq(s, kinds, p) ==
  \E i \in 1 .. Len(s) : s[i].kind \in kinds /\ s[i].peer = p

\* An event about p is on its way to the main thread.
Pending(kinds, p) ==
  \/ \E c \in Conns : RemoteId[c] = p /\ hand[c] \in kinds
  \/ InSeq(events, kinds, p)
  \/ InSeq(batch, kinds, p)

Current(c) == c # NoConn /\ ~Gone(c)

\* The router does not go on sending to a peer that left: if it still has a
\* connection of the running service for a peer the map no longer has, the
\* PeerDisconnected that clears it is on its way.  Events travel outside the lock
\* and the main thread writes what it read before, so this needs that no older
\* state is ever written after the event was handled.  It holds as long as the
\* broadcast channel lost no event.
RouterDropsLeavers ==
  ~lost => \A p \in Peers :
    (Current(router[p]) /\ peers[p] = NoConn) => Pending({"disconnected"}, p)

\* A router entry that differs from the map is about to be corrected: an event
\* about the peer is on its way, or the main thread already holds the map's
\* connection.
RouterEntryIsCorrected ==
  ~lost => \A p \in Peers :
    (Current(router[p]) /\ router[p] # peers[p]) =>
      \/ Pending(ConnectionEvents, p)
      \/ main.at = "storing" /\ main.peer = p /\ main.via # "connect"
           /\ main.conn = peers[p]

\* Number of flows, sent and drained events of a kind.
Count(kind) ==
  LET InQueue(s) == Cardinality({i \in 1 .. Len(s) : s[i].kind = kind})
  IN  Cardinality({c \in Conns : hand[c] = kind}) + InQueue(events) + InQueue(batch)

\* The peers_connected statistic may run behind, and even be negative, while
\* events are on their way; they account for the difference exactly, so it never
\* drifts.  (Until a service is dropped with peers connected.)
PeersConnectedIsAccounted ==
  (~lost /\ \A c \in Conns : ~Gone(c)) =>
    peers_connected + Count("connected") - Count("disconnected")
      = Cardinality({p \in Peers : peers[p] # NoConn})

\* "Wire encoded output directly to all connected peers": when no event is on its
\* way and the main thread is idle, a peer in the map is in the router.
MappedPeerIsRouted ==
  (main = Idle /\ subscribed) => \A p \in Peers :
    (peers[p] # NoConn /\ ~Pending(ConnectionEvents, p)) => router[p] = peers[p]

\* The same where it holds: for a peer with no other connection in this session,
\* as long as the channel lost no event.  It takes every step from the handshake to
\* the router, from whichever side the connection was made.
SoleConnectionIsRouted ==
  (main = Idle /\ subscribed /\ ~lost) => \A p \in Peers :
    ( /\ peers[p] # NoConn /\ ~Pending(ConnectionEvents, p)
      /\ \A c \in Conns \ {peers[p]} :
           RemoteId[c] = p => stage[c] \in {"new", "gone"} )
      => router[p] = peers[p]

\* The router forgets a dead connection.
RouterForgetsDeadConnection ==
  \A p \in Peers, c \in Conns :
    (router[p] = c /\ c \notin live) ~> (router[p] # c \/ Gone(c) \/ lost)
=============================================================================
