----------------------- MODULE IrohVoiceTransportProofs -----------------------
(***************************************************************************)
(* Proofs about VoiceIrohService and the node IrohVoiceTransport over it,  *)
(* for any peers, connections, channel capacity and bounds.                *)
(***************************************************************************)
EXTENDS IrohVoiceTransport, FiniteSetTheorems, TLAPS

USE DEF Stages, ConnectionEvents

-----------------------------------------------------------------------------
\* The service alone, whoever calls it

LEMMA EmptyIsEventQueue == IsEventQueue(<< >>)
BY ServiceAssumption DEF IsEventQueue

\* What Send leaves in the channel is a sequence of events.
LEMMA SendType ==
  ASSUME ServiceTypeOK, NEW kind \in ConnectionEvents \cup {"packet"},
         NEW p \in Peers, Send(kind, p)
  PROVE  IsEventQueue(events)' /\ lost' \in BOOLEAN
<1> DEFINE event == [kind |-> kind, peer |-> p]
<1>1. event \in VoiceEvents
  BY DEF VoiceEvents
<1>2. CASE ~subscribed
  BY <1>2 DEF Send, ServiceTypeOK
<1>3. CASE subscribed /\ Len(events) < EventCapacity
  <2>1. events' = Append(events, event) /\ lost' = lost
    BY <1>3, ServiceAssumption DEF Send, ServiceTypeOK, IsEventQueue
  <2>2. IsEventQueue(Append(events, event))
    BY <1>1, <1>3, ServiceAssumption DEF ServiceTypeOK, IsEventQueue
  <2> QED
    BY <2>1, <2>2 DEF ServiceTypeOK
<1>4. CASE subscribed /\ ~(Len(events) < EventCapacity)
  <2>1. events # << >> /\ events \in Seq(VoiceEvents)
    BY <1>4, ServiceAssumption DEF ServiceTypeOK, IsEventQueue
  <2>2. Tail(events) \in Seq(VoiceEvents) /\ Len(Tail(events)) = Len(events) - 1
    BY <2>1
  <2>3. events' = Append(Tail(events), event) /\ lost' = TRUE
    BY <1>4 DEF Send
  <2>4. IsEventQueue(Append(Tail(events), event))
    BY <1>1, <2>1, <2>2, ServiceAssumption DEF ServiceTypeOK, IsEventQueue
  <2> QED
    BY <2>3, <2>4
<1> QED
  BY <1>2, <1>3, <1>4 DEF ServiceTypeOK

\* A step of a connection's flow keeps the types of the service.
LEMMA ServeType ==
  ASSUME ServiceTypeOK, NEW c \in Conns, Serve(c), HandMatchesStage
  PROVE  ServiceTypeOK'
<1>1. RemoteId[c] \in Peers
  BY ServiceAssumption
<1>2. CASE InsertConnection(c)
  BY <1>1, <1>2 DEF InsertConnection, ServiceTypeOK
<1>3. CASE AnnounceInserted(c)
  <2>1. hand[c] \in ConnectionEvents
    BY <1>3 DEF AnnounceInserted, HandMatchesStage
  <2>2. IsEventQueue(events)' /\ lost' \in BOOLEAN
    BY <1>1, <1>3, <2>1, SendType DEF AnnounceInserted
  <2> QED
    BY <1>3, <2>2 DEF AnnounceInserted, ServiceTypeOK
<1>4. CASE ReadFails(c)
  BY <1>4 DEF ReadFails, ServiceTypeOK
<1>5. CASE RemoveConnection(c)
  BY <1>1, <1>5 DEF RemoveConnection, ServiceTypeOK
<1>6. CASE AnnounceRemoved(c)
  <2>1. hand[c] \in ConnectionEvents
    BY <1>6 DEF AnnounceRemoved, HandMatchesStage
  <2>2. IsEventQueue(events)' /\ lost' \in BOOLEAN
    BY <1>1, <1>6, <2>1, SendType DEF AnnounceRemoved
  <2> QED
    BY <1>6, <2>2 DEF AnnounceRemoved, ServiceTypeOK
<1> QED
  BY <1>2, <1>3, <1>4, <1>5, <1>6 DEF Serve

ServiceInv == ServiceTypeOK /\ HandMatchesStage /\ MappedConnectionIsServed

LEMMA ServiceInitInv == BoundInit => ServiceInv
<1> SUFFICES ASSUME BoundInit PROVE ServiceInv
  OBVIOUS
<1> USE DEF BoundInit, ServiceInit
<1>1. stage \in [Conns -> Stages]
  OBVIOUS
<1>2. hand \in [Conns -> ConnectionEvents \cup {"none"}]
  OBVIOUS
<1>3. peers \in [Peers -> Conns \cup {NoConn}]
  OBVIOUS
<1>4. IsEventQueue(events)
  BY EmptyIsEventQueue
<1>5. ServiceTypeOK
  BY <1>1, <1>2, <1>3, <1>4 DEF ServiceTypeOK
<1> QED
  BY <1>5 DEF ServiceInv, HandMatchesStage, MappedConnectionIsServed

\* The removal of a peer is by id: the flow of c may take another connection out
\* of the map, but a connection that stays in it keeps the flow it had.
LEMMA ServeInv ==
  ASSUME ServiceInv, NEW c \in Conns, Serve(c)
  PROVE  ServiceInv'
<1> USE DEF ServiceInv
<1>1. ServiceTypeOK'
  BY ServeType
<1>2. HandMatchesStage'
  BY DEF Serve, InsertConnection, AnnounceInserted, ReadFails, RemoveConnection,
         AnnounceRemoved, ServiceTypeOK, HandMatchesStage
<1>3. MappedConnectionIsServed'
  <2> USE ServiceAssumption DEF ServiceTypeOK, MappedConnectionIsServed
  <2>1. CASE InsertConnection(c)
    BY <2>1 DEF InsertConnection
  <2>2. CASE AnnounceInserted(c)
    BY <2>2 DEF AnnounceInserted
  <2>3. CASE ReadFails(c)
    BY <2>3 DEF ReadFails
  <2>4. CASE RemoveConnection(c)
    BY <2>4 DEF RemoveConnection
  <2>5. CASE AnnounceRemoved(c)
    BY <2>5 DEF AnnounceRemoved
  <2> QED
    BY <2>1, <2>2, <2>3, <2>4, <2>5 DEF Serve
<1> QED
  BY <1>1, <1>2, <1>3

LEMMA ReadType ==
  ASSUME ServiceTypeOK, NEW c \in Conns, ReadDatagram(c)
  PROVE  ServiceTypeOK'
<1>1. RemoteId[c] \in Peers
  BY ServiceAssumption
<1>2. IsEventQueue(events)' /\ lost' \in BOOLEAN
  BY <1>1, SendType DEF ReadDatagram
<1> QED
  BY <1>2 DEF ReadDatagram, ServiceTypeOK

LEMMA ServiceStepInv ==
  ASSUME ServiceInv, [ServiceNext]_service_vars
  PROVE  ServiceInv'
<1> USE DEF ServiceInv
<1>1. ASSUME NEW c \in Conns, Handshake(c) PROVE ServiceInv'
  BY <1>1, ServiceAssumption
  DEF Handshake, ServiceTypeOK, HandMatchesStage, MappedConnectionIsServed
<1>2. ASSUME NEW c \in Conns, Serve(c) PROVE ServiceInv'
  BY <1>2, ServeInv
<1>3. ASSUME NEW c \in Conns, CloseConnection(c) PROVE ServiceInv'
  BY <1>3
  DEF CloseConnection, ServiceTypeOK, HandMatchesStage, MappedConnectionIsServed
<1>4. ASSUME NEW c \in Conns, ReadDatagram(c) PROVE ServiceInv'
  <2>1. ServiceTypeOK'
    BY <1>4, ReadType
  <2> QED
    BY <1>4, <2>1 DEF ReadDatagram, HandMatchesStage, MappedConnectionIsServed
<1>5. ASSUME NEW p \in Peers, Disconnect(p) PROVE ServiceInv'
  BY <1>5
  DEF Disconnect, ServiceTypeOK, HandMatchesStage, MappedConnectionIsServed
<1>6. CASE SubscribeEvents \/ SetPacketHandler \/ ReceiveEvents
  <2>0. events' = events \/ events' = << >>
    BY <1>6 DEF SubscribeEvents, SetPacketHandler, ReceiveEvents
  <2>1. IsEventQueue(events')
    BY <2>0, EmptyIsEventQueue DEF ServiceTypeOK
  <2>2. UNCHANGED <<bound, live, stage, hand, peers, lost, packets>>
    BY <1>6 DEF SubscribeEvents, SetPacketHandler, ReceiveEvents
  <2>3. subscribed' \in BOOLEAN /\ handler' \in BOOLEAN
    BY <1>6 DEF SubscribeEvents, SetPacketHandler, ReceiveEvents, ServiceTypeOK
  <2> QED
    BY <2>1, <2>2, <2>3
    DEF ServiceTypeOK, HandMatchesStage, MappedConnectionIsServed
<1>7. CASE DropService
  <2>1. stage' \in [Conns -> Stages]
    BY <1>7 DEF DropService, ServiceTypeOK
  <2>2. hand' \in [Conns -> ConnectionEvents \cup {"none"}]
    BY <1>7 DEF DropService
  <2>3. peers' \in [Peers -> Conns \cup {NoConn}]
    BY <1>7 DEF DropService
  <2>4. IsEventQueue(events')
    BY <1>7, EmptyIsEventQueue DEF DropService
  <2>5. ServiceTypeOK'
    BY <1>7, <2>1, <2>2, <2>3, <2>4 DEF DropService, ServiceTypeOK
  <2> QED
    BY <1>7, <2>5
    DEF DropService, ServiceTypeOK, HandMatchesStage, MappedConnectionIsServed
<1>8. CASE UNCHANGED service_vars
  BY <1>8
  DEF service_vars, ServiceTypeOK, HandMatchesStage, MappedConnectionIsServed
<1> QED
  BY <1>1, <1>2, <1>3, <1>4, <1>5, <1>6, <1>7, <1>8 DEF ServiceNext

\* Whatever the interleaving of handshakes, replacements, removals by peer id,
\* disconnect calls and shutdown, a connection in the peer map has a datagram task
\* that will take it out when it dies.
THEOREM MappedConnectionsAreServed ==
  ServiceSpec => [](ServiceTypeOK /\ MappedConnectionIsServed)
<1>1. ServiceInv /\ [ServiceNext]_service_vars => ServiceInv'
  BY ServiceStepInv
<1>2. ServiceInv => ServiceTypeOK /\ MappedConnectionIsServed
  BY DEF ServiceInv
<1> QED
  BY ServiceInitInv, <1>1, <1>2, PTL DEF ServiceSpec

-----------------------------------------------------------------------------
\* The node over the service

\* What makes the two inductive, beside HandMatchesStage of the service: whatever
\* is mapped, routed or about to be stored went through a handshake, and what the
\* main thread is about to store is as safe to have in the router as what is
\* there already.
NeverNew(c) == c # NoConn => stage[c] # "new"

KnownConnectionsAreEstablished ==
  /\ \A p \in Peers : NeverNew(peers[p]) /\ NeverNew(router[p])
  /\ main.at = "storing" => NeverNew(main.conn)

StoredConnectionIsCorrected ==
  (~lost /\ main.at = "storing" /\ Current(main.conn)) =>
    /\ peers[main.peer] = NoConn => Pending({"disconnected"}, main.peer)
    /\ main.conn # peers[main.peer] => Pending(ConnectionEvents, main.peer)

\* The inductive invariant behind RouterDropsLeavers and RouterEntryIsCorrected:
\* the send router follows the peer map through the event channel.
RouterFollowsMap ==
  /\ HandMatchesStage
  /\ KnownConnectionsAreEstablished
  /\ RouterDropsLeavers
  /\ RouterEntryIsCorrected
  /\ StoredConnectionIsCorrected

-----------------------------------------------------------------------------

LEMMA TailBatchType ==
  ASSUME IsEventQueue(batch), batch # << >>
  PROVE  /\ Head(batch) \in VoiceEvents
         /\ IsEventQueue(Tail(batch))
<1>1. batch \in Seq(VoiceEvents) /\ Len(batch) <= EventCapacity
  BY DEF IsEventQueue
<1>2. Tail(batch) \in Seq(VoiceEvents) /\ Len(Tail(batch)) = Len(batch) - 1
  BY <1>1
<1>3. Head(batch) \in VoiceEvents
  BY <1>1
<1> QED
  BY <1>1, <1>2, <1>3, ServiceAssumption DEF IsEventQueue

LEMMA InitType == Init => TypeOK /\ HandMatchesStage
<1> SUFFICES ASSUME Init PROVE TypeOK /\ HandMatchesStage
  OBVIOUS
<1> USE DEF Init, ServiceInit
<1>1. ServiceTypeOK
  <2>1. stage \in [Conns -> Stages]
    OBVIOUS
  <2>2. hand \in [Conns -> ConnectionEvents \cup {"none"}]
    OBVIOUS
  <2>3. peers \in [Peers -> Conns \cup {NoConn}]
    OBVIOUS
  <2>4. IsEventQueue(events)
    BY EmptyIsEventQueue
  <2> QED
    BY <2>1, <2>2, <2>3, <2>4 DEF ServiceTypeOK
<1>2. TypeOK
  BY <1>1, EmptyIsEventQueue DEF TypeOK, Idle, MainStates
<1> QED
  BY <1>2 DEF HandMatchesStage

\* Types are preserved, one step per action.
LEMMA StepType ==
  ASSUME TypeOK, HandMatchesStage, [Next]_vars
  PROVE  TypeOK'
<1> USE DEF TypeOK
<1>1. ASSUME NEW c \in Conns, Accept(c) PROVE TypeOK'
  BY <1>1 DEF Accept, Handshake, node_vars, ServiceTypeOK
<1>2. ASSUME NEW c \in Conns, ServeStep(c) PROVE TypeOK'
  BY <1>2, ServeType DEF ServeStep, node_vars
<1>3. ASSUME NEW c \in Conns, Close(c) PROVE TypeOK'
  BY <1>3 DEF Close, CloseConnection, node_vars, ServiceTypeOK
<1>4. ASSUME NEW c \in Conns, Read(c) PROVE TypeOK'
  <2>1. RemoteId[c] \in Peers
    BY ServiceAssumption
  <2>2. IsEventQueue(events)' /\ lost' \in BOOLEAN
    BY <1>4, <2>1, SendType DEF Read, ReadDatagram
  <2> QED
    BY <1>4, <2>2 DEF Read, ReadDatagram, node_vars, ServiceTypeOK
<1>5. ASSUME NEW c \in Conns, ConnectToPeer(c) PROVE TypeOK'
  BY <1>5 DEF ConnectToPeer, Handshake, ServiceTypeOK, MainStates, Connecting
<1>6. CASE Bind
  BY <1>6 DEF Bind, ServiceTypeOK, MainStates
<1>7. CASE Subscribe
  BY <1>7 DEF Subscribe, SubscribeEvents, ServiceTypeOK, MainStates
<1>8. CASE InstallPacketRouter
  BY <1>8 DEF InstallPacketRouter, SetPacketHandler, ServiceTypeOK, MainStates, Idle
<1>9. CASE FetchConnection
  <2>1. main.conn \in Conns
    BY <1>9 DEF FetchConnection, MainStates
  <2>2. main' \in MainStates
    BY <1>9, <2>1, ServiceAssumption
    DEF FetchConnection, MainStates, Storing, ServiceTypeOK
  <2> QED
    BY <1>9, <2>2 DEF FetchConnection, ServiceTypeOK, service_vars
<1>10. CASE StoreConnection
  <2>1. main.peer \in Peers /\ main.conn \in Conns \cup {NoConn}
    BY <1>10 DEF StoreConnection, MainStates
  <2> QED
    BY <1>10, <2>1
    DEF StoreConnection, ServiceTypeOK, service_vars, MainStates, Idle
<1>11. CASE DrainEvents
  BY <1>11 DEF DrainEvents, ReceiveEvents, ServiceTypeOK
<1>12. CASE HandleConnected
  <2>1. Head(batch) \in VoiceEvents /\ IsEventQueue(Tail(batch))
    BY <1>12, TailBatchType DEF HandleConnected
  <2>2. main' \in MainStates
    BY <1>12, <2>1
    DEF HandleConnected, VoiceEvents, Storing, MainStates, ServiceTypeOK
  <2> QED
    BY <1>12, <2>1, <2>2 DEF HandleConnected, Counted, ServiceTypeOK, service_vars
<1>13. CASE HandleDisconnected
  <2>1. Head(batch) \in VoiceEvents /\ IsEventQueue(Tail(batch))
    BY <1>13, TailBatchType DEF HandleDisconnected
  <2> QED
    BY <1>13, <2>1
    DEF HandleDisconnected, ForgetPeer, VoiceEvents, ServiceTypeOK, service_vars
<1>14. CASE HandlePacket
  BY <1>14, TailBatchType DEF HandlePacket, ServiceTypeOK, service_vars
<1>15. ASSUME NEW p \in Peers, ChangeReceiveStreams(p) PROVE TypeOK'
  BY <1>15 DEF ChangeReceiveStreams, ServiceTypeOK, service_vars
<1>16. CASE ExitTree
  BY <1>16 DEF ExitTree, DropService, ServiceTypeOK
<1>17. CASE UNCHANGED vars
  BY <1>17 DEF vars, service_vars, node_vars, ServiceTypeOK
<1> QED
  BY <1>1, <1>2, <1>3, <1>4, <1>5, <1>6, <1>7, <1>8, <1>9, <1>10, <1>11, <1>12,
     <1>13, <1>14, <1>15, <1>16, <1>17 DEF Next, MainStep

\* Only the flow of c touches its stage and the event in its hand.
LEMMA StepHand ==
  ASSUME TypeOK, HandMatchesStage, [Next]_vars
  PROVE  HandMatchesStage'
<1> USE DEF TypeOK, ServiceTypeOK, HandMatchesStage
<1>1. ASSUME NEW c \in Conns, Handshake(c) PROVE HandMatchesStage'
  BY <1>1 DEF Handshake
<1>2. ASSUME NEW c \in Conns, Serve(c) PROVE HandMatchesStage'
  BY <1>2 DEF Serve, InsertConnection, AnnounceInserted, ReadFails,
              RemoveConnection, AnnounceRemoved
<1>3. CASE DropService
  BY <1>3 DEF DropService
<1>4. CASE UNCHANGED <<stage, hand>>
  BY <1>4
<1> QED
  BY <1>1, <1>2, <1>3, <1>4
  DEF Next, MainStep, Accept, ServeStep, Close, CloseConnection, Read,
      ReadDatagram, ConnectToPeer, Bind, Subscribe, SubscribeEvents,
      InstallPacketRouter, SetPacketHandler, FetchConnection, StoreConnection,
      DrainEvents, ReceiveEvents, HandleConnected, HandleDisconnected,
      HandlePacket, ChangeReceiveStreams, ExitTree, vars, service_vars

\* Every variable of the node and of its service keeps its type.
THEOREM TypeCorrect == Spec => [](TypeOK /\ HandMatchesStage)
<1>1. TypeOK /\ HandMatchesStage /\ [Next]_vars => (TypeOK /\ HandMatchesStage)'
  BY StepType, StepHand
<1> QED
  BY InitType, <1>1, PTL DEF Spec

-----------------------------------------------------------------------------
\* What is in a sequence of events after an event is appended or removed.
LEMMA AppendInSeq ==
  ASSUME NEW s \in Seq(VoiceEvents), NEW e \in VoiceEvents, NEW kinds, NEW p
  PROVE  /\ InSeq(s, kinds, p) => InSeq(Append(s, e), kinds, p)
         /\ (e.kind \in kinds /\ e.peer = p) => InSeq(Append(s, e), kinds, p)
<1>1. Len(Append(s, e)) = Len(s) + 1 /\ Len(s) \in Nat
  OBVIOUS
<1>2. \A i \in 1 .. Len(s) : Append(s, e)[i] = s[i]
  OBVIOUS
<1>3. Append(s, e)[Len(s) + 1] = e
  OBVIOUS
<1> QED
  BY <1>1, <1>2, <1>3 DEF InSeq

LEMMA TailInSeq ==
  ASSUME NEW s \in Seq(VoiceEvents), s # << >>, NEW kinds, NEW p,
         InSeq(s, kinds, p), ~(Head(s).kind \in kinds /\ Head(s).peer = p)
  PROVE  InSeq(Tail(s), kinds, p)
<1>1. PICK i \in 1 .. Len(s) : s[i].kind \in kinds /\ s[i].peer = p
  BY DEF InSeq
<1>2. i # 1
  BY <1>1
<1>3. i - 1 \in 1 .. Len(Tail(s)) /\ Tail(s)[i - 1] = s[i]
  BY <1>2
<1> QED
  BY <1>1, <1>3 DEF InSeq

\* A step that touches neither hands nor queues.
LEMMA SamePending ==
  ASSUME UNCHANGED <<hand, events, batch>>, NEW kinds, NEW p
  PROVE  Pending(kinds, p) => Pending(kinds, p)'
BY DEF Pending, InSeq

\* Sending moves an event from a hand to the channel: as long as nothing is lost
\* it stays on its way.
LEMMA AnnouncedIsPending ==
  ASSUME TypeOK, NEW c \in Conns, hand[c] \in ConnectionEvents,
         Send(hand[c], RemoteId[c]), ~lost',
         hand' = [hand EXCEPT ![c] = "none"], batch' = batch,
         NEW kinds, "none" \notin kinds, NEW p, Pending(kinds, p)
  PROVE  Pending(kinds, p)'
<1> USE DEF TypeOK, ServiceTypeOK
<1> DEFINE e == [kind |-> hand[c], peer |-> RemoteId[c]]
<1>1. RemoteId[c] \in Peers /\ e \in VoiceEvents /\ events \in Seq(VoiceEvents)
  BY ServiceAssumption DEF VoiceEvents, IsEventQueue
<1>2. events' = Append(events, e)
  BY DEF Send
<1>3. CASE InSeq(events, kinds, p)
  BY <1>1, <1>2, <1>3, AppendInSeq DEF Pending, InSeq
<1>4. CASE InSeq(batch, kinds, p)
  BY <1>4 DEF Pending, InSeq
<1>5. CASE \E d \in Conns : RemoteId[d] = p /\ hand[d] \in kinds
  <2>1. PICK d \in Conns : RemoteId[d] = p /\ hand[d] \in kinds
    BY <1>5
  <2>2. CASE d = c
    <3>1. InSeq(Append(events, e), kinds, p)
      BY <1>1, <2>1, <2>2, AppendInSeq
    <3> QED
      BY <1>2, <3>1 DEF Pending, InSeq
  <2>3. CASE d # c
    BY <2>1, <2>3 DEF Pending
  <2> QED
    BY <2>2, <2>3
<1> QED
  BY <1>3, <1>4, <1>5 DEF Pending

\* Handling the first event of the batch removes that event only.
LEMMA HandledIsPending ==
  ASSUME TypeOK, batch # << >>, batch' = Tail(batch), UNCHANGED <<hand, events>>,
         NEW kinds, NEW p, Pending(kinds, p),
         ~(Head(batch).kind \in kinds /\ Head(batch).peer = p)
  PROVE  Pending(kinds, p)'
<1>1. batch \in Seq(VoiceEvents)
  BY DEF TypeOK, IsEventQueue
<1>2. CASE InSeq(batch, kinds, p)
  <2>1. InSeq(Tail(batch), kinds, p)
    BY <1>1, <1>2, TailInSeq
  <2> QED
    BY <2>1 DEF Pending, InSeq
<1>3. CASE ~InSeq(batch, kinds, p)
  BY <1>3 DEF Pending, InSeq
<1> QED
  BY <1>2, <1>3

Following == RouterDropsLeavers /\ RouterEntryIsCorrected /\ StoredConnectionIsCorrected

\* Every pending connection event stays on its way.
KeepsPending ==
  \A p \in Peers :
    /\ Pending({"disconnected"}, p) => Pending({"disconnected"}, p)'
    /\ Pending(ConnectionEvents, p) => Pending(ConnectionEvents, p)'

\* A step that changes neither map nor router, nor what the main thread is about
\* to store, and loses no event.
LEMMA QuietStep ==
  ASSUME TypeOK, Following, ~lost' => ~lost, UNCHANGED <<peers, router>>,
         \A c \in Conns : Gone(c) => Gone(c)',
         main' = main \/ (main.at # "storing" /\ main'.at # "storing"),
         ~lost' => KeepsPending
  PROVE  Following'
<1> USE DEF Following, KeepsPending, TypeOK, ServiceTypeOK, Current
<1>1. \A c \in Conns : Current(c)' => Current(c)
  OBVIOUS
<1>2. \A p \in Peers : Current(router[p])' => Current(router[p])
  BY DEF Gone
<1>3. RouterDropsLeavers'
  BY <1>2 DEF RouterDropsLeavers
<1>4. RouterEntryIsCorrected'
  BY <1>2 DEF RouterEntryIsCorrected
<1>5. StoredConnectionIsCorrected'
  <2>1. SUFFICES ASSUME ~lost', main'.at = "storing", Current(main.conn)'
                 PROVE  (/\ peers[main.peer] = NoConn =>
                              Pending({"disconnected"}, main.peer)
                         /\ main.conn # peers[main.peer] =>
                              Pending(ConnectionEvents, main.peer))'
    BY DEF StoredConnectionIsCorrected
  <2>2. main' = main /\ main.peer \in Peers
    BY <2>1 DEF MainStates
  <2>3. Current(main.conn)
    BY <2>1, <2>2 DEF Gone
  <2> QED
    BY <2>1, <2>2, <2>3 DEF StoredConnectionIsCorrected
<1> QED
  BY <1>3, <1>4, <1>5

-----------------------------------------------------------------------------
\* No connection becomes new again, and none of a service that is gone comes back.
LEMMA NeverNewAgain ==
  ASSUME TypeOK, [Next]_vars, NEW c \in Conns
  PROVE  /\ stage[c] # "new" => stage'[c] # "new"
         /\ stage[c] = "gone" => stage'[c] = "gone"
BY DEF TypeOK, ServiceTypeOK, Next, MainStep, Accept, ServeStep, Serve, Handshake,
    InsertConnection, AnnounceInserted, ReadFails, RemoveConnection,
    AnnounceRemoved, Close, CloseConnection, Read, ReadDatagram, ConnectToPeer,
    Bind, Subscribe, SubscribeEvents, InstallPacketRouter, SetPacketHandler,
    FetchConnection, StoreConnection, DrainEvents, ReceiveEvents, HandleConnected,
    HandleDisconnected, HandlePacket, ChangeReceiveStreams, ExitTree, DropService,
    vars, service_vars

\* What is in the map, in the router or about to be stored went through a
\* handshake.
LEMMA StepEstablished ==
  ASSUME TypeOK, KnownConnectionsAreEstablished, [Next]_vars
  PROVE  KnownConnectionsAreEstablished'
<1> USE DEF TypeOK, ServiceTypeOK, KnownConnectionsAreEstablished, NeverNew
<1>1. \A c \in Conns : stage[c] # "new" => stage'[c] # "new"
  BY NeverNewAgain
<1>2. \A p \in Peers : peers'[p] # NoConn =>
         (peers'[p] = peers[p] \/ stage'[peers'[p]] = "inserted")
  BY ServiceAssumption
  DEF Next, MainStep, Accept, ServeStep, Serve, Handshake, InsertConnection,
      AnnounceInserted, ReadFails, RemoveConnection, AnnounceRemoved, Close,
      CloseConnection, Read, ReadDatagram, ConnectToPeer, Bind, Subscribe,
      SubscribeEvents, InstallPacketRouter, SetPacketHandler, FetchConnection,
      StoreConnection, DrainEvents, ReceiveEvents, HandleConnected,
      HandleDisconnected, HandlePacket, ChangeReceiveStreams, ExitTree,
      DropService, vars, service_vars
<1>3. \A p \in Peers : router'[p] # NoConn =>
         (router'[p] = router[p] \/ (main.at = "storing" /\ router'[p] = main.conn))
  BY DEF Next, MainStep, Accept, ServeStep, Close, Read, ConnectToPeer, Bind,
      Subscribe, InstallPacketRouter, FetchConnection, StoreConnection,
      DrainEvents, HandleConnected, HandleDisconnected, ForgetPeer, HandlePacket,
      ChangeReceiveStreams, ExitTree, vars, node_vars
<1>4. main'.at = "storing" =>
         (main' = main \/ \E p \in Peers : main'.conn = peers[p])
  <2>1. CASE FetchConnection
    BY <2>1, ServiceAssumption DEF FetchConnection, Storing, MainStates
  <2>2. CASE HandleConnected
    BY <2>2, TailBatchType DEF HandleConnected, Storing, VoiceEvents
  <2>3. CASE main' = main
    BY <2>3
  <2>4. CASE main'.at # "storing"
    BY <2>4
  <2> QED
    BY <2>1, <2>2, <2>3, <2>4
    DEF Next, MainStep, Accept, ServeStep, Close, Read, ConnectToPeer, Bind,
        Subscribe, InstallPacketRouter, StoreConnection, DrainEvents,
        HandleDisconnected, HandlePacket, ChangeReceiveStreams, ExitTree, vars,
        node_vars, Idle, Connecting
<1>5. \A p \in Peers : NeverNew(peers[p])' /\ NeverNew(router[p])'
  BY <1>1, <1>2, <1>3, ServiceAssumption DEF MainStates
<1>6. main'.at = "storing" => NeverNew(main.conn)'
  <2> SUFFICES ASSUME main'.at = "storing", main'.conn # NoConn
               PROVE  stage'[main'.conn] # "new"
    OBVIOUS
  <2>1. CASE main' = main
    BY <1>1, <2>1 DEF MainStates
  <2>2. CASE \E p \in Peers : main'.conn = peers[p]
    BY <1>1, <2>2
  <2> QED
    BY <1>4, <2>1, <2>2
<1> QED
  BY <1>5, <1>6

\* The steps that change the map, the router or what is about to be stored.
LEMMA InsertFollows ==
  ASSUME TypeOK, HandMatchesStage, Following, NEW c \in Conns,
         InsertConnection(c), UNCHANGED node_vars
  PROVE  Following'
<1> USE DEF TypeOK, ServiceTypeOK, Following, Current, node_vars
<1> DEFINE p == RemoteId[c]
<1>1. /\ p \in Peers /\ c # NoConn
      /\ peers' = [peers EXCEPT ![p] = c]
      /\ hand' = [hand EXCEPT ![c] = hand'[c]]
      /\ hand'[c] \in {"connected", "replaced"}
      /\ UNCHANGED <<events, batch, router, main, lost>>
  BY ServiceAssumption DEF InsertConnection
<1>2. hand[c] = "none"
  BY DEF InsertConnection, HandMatchesStage
<1>3. \A d \in Conns : Gone(d)' <=> Gone(d)
  BY DEF Gone, InsertConnection
<1>4. KeepsPending
  BY <1>1, <1>2 DEF KeepsPending, Pending, InSeq
<1>5. Pending(ConnectionEvents, p)'
  BY <1>1 DEF Pending
<1>6. \A q \in Peers : Current(router[q])' => Current(router[q])
  BY <1>1, <1>3 DEF Gone
<1>7. RouterDropsLeavers'
  BY <1>1, <1>4, <1>6 DEF RouterDropsLeavers, KeepsPending
<1>8. RouterEntryIsCorrected'
  BY <1>1, <1>4, <1>5, <1>6 DEF RouterEntryIsCorrected, KeepsPending
<1>9. StoredConnectionIsCorrected'
  <2>1. SUFFICES ASSUME ~lost', main'.at = "storing", Current(main.conn)'
                 PROVE  (/\ peers[main.peer] = NoConn =>
                              Pending({"disconnected"}, main.peer)
                         /\ main.conn # peers[main.peer] =>
                              Pending(ConnectionEvents, main.peer))'
    BY DEF StoredConnectionIsCorrected
  <2>2. main.peer \in Peers /\ Current(main.conn)
    BY <1>1, <1>3, <2>1 DEF MainStates, Gone
  <2>3. CASE main.peer = p
    BY <1>1, <1>5, <2>3
  <2>4. CASE main.peer # p
    BY <1>1, <1>4, <2>1, <2>2, <2>4 DEF StoredConnectionIsCorrected, KeepsPending
  <2> QED
    BY <2>3, <2>4
<1> QED
  BY <1>7, <1>8, <1>9

LEMMA RemoveFollows ==
  ASSUME TypeOK, HandMatchesStage, Following, NEW c \in Conns,
         RemoveConnection(c), peers[RemoteId[c]] # NoConn, UNCHANGED node_vars
  PROVE  Following'
<1> USE DEF TypeOK, ServiceTypeOK, Following, Current, node_vars
<1> DEFINE p == RemoteId[c]
<1>1. /\ p \in Peers
      /\ peers' = [peers EXCEPT ![p] = NoConn]
      /\ hand' = [hand EXCEPT ![c] = "disconnected"]
      /\ UNCHANGED <<events, batch, router, main, lost>>
  BY ServiceAssumption DEF RemoveConnection
<1>2. hand[c] = "none"
  BY DEF RemoveConnection, HandMatchesStage
<1>3. \A d \in Conns : Gone(d)' <=> Gone(d)
  BY DEF Gone, RemoveConnection
<1>4. KeepsPending
  BY <1>1, <1>2 DEF KeepsPending, Pending, InSeq
<1>5. Pending({"disconnected"}, p)' /\ Pending(ConnectionEvents, p)'
  BY <1>1 DEF Pending
<1>6. \A q \in Peers : Current(router[q])' => Current(router[q])
  BY <1>1, <1>3 DEF Gone
<1>7. RouterDropsLeavers'
  BY <1>1, <1>4, <1>5, <1>6 DEF RouterDropsLeavers, KeepsPending
<1>8. RouterEntryIsCorrected'
  BY <1>1, <1>4, <1>5, <1>6 DEF RouterEntryIsCorrected, KeepsPending
<1>9. StoredConnectionIsCorrected'
  <2>1. SUFFICES ASSUME ~lost', main'.at = "storing", Current(main.conn)'
                 PROVE  (/\ peers[main.peer] = NoConn =>
                              Pending({"disconnected"}, main.peer)
                         /\ main.conn # peers[main.peer] =>
                              Pending(ConnectionEvents, main.peer))'
    BY DEF StoredConnectionIsCorrected
  <2>2. main.peer \in Peers /\ Current(main.conn)
    BY <1>1, <1>3, <2>1 DEF MainStates, Gone
  <2>3. CASE main.peer = p
    BY <1>1, <1>5, <2>3
  <2>4. CASE main.peer # p
    BY <1>1, <1>4, <2>1, <2>2, <2>4 DEF StoredConnectionIsCorrected, KeepsPending
  <2> QED
    BY <2>3, <2>4
<1> QED
  BY <1>7, <1>8, <1>9

\* The main thread takes over from the event it handles: what it looked up is
\* what the map holds.
LEMMA HandleConnectedFollows ==
  ASSUME TypeOK, Following, HandleConnected
  PROVE  Following'
<1> USE DEF TypeOK, ServiceTypeOK, Following, Current
<1> DEFINE p == Head(batch).peer
<1>1. /\ p \in Peers /\ batch # << >> /\ main = Idle
      /\ Head(batch).kind \in {"connected", "replaced"}
      /\ main' = Storing(p, peers[p], Head(batch).kind)
      /\ batch' = Tail(batch)
      /\ UNCHANGED <<stage, hand, events, peers, router, lost>>
  BY TailBatchType DEF HandleConnected, service_vars, VoiceEvents
<1>2. \A q \in Peers : Pending({"disconnected"}, q) => Pending({"disconnected"}, q)'
  BY <1>1, HandledIsPending
<1>3. \A q \in Peers : q # p =>
         (Pending(ConnectionEvents, q) => Pending(ConnectionEvents, q)')
  BY <1>1, HandledIsPending
<1>4. \A d : Current(d)' <=> Current(d)
  BY <1>1 DEF Gone
<1>5. main.at # "storing"
  BY <1>1 DEF Idle
<1>6. /\ main'.at = "storing" /\ main'.peer = p /\ main'.conn = peers[p]
      /\ main'.via # "connect"
  BY <1>1 DEF Storing
<1>7. RouterDropsLeavers'
  BY <1>1, <1>2, <1>4 DEF RouterDropsLeavers, Gone
<1>8. RouterEntryIsCorrected'
  BY <1>1, <1>3, <1>5, <1>6 DEF RouterEntryIsCorrected, Gone
<1>9. StoredConnectionIsCorrected'
  BY <1>1, <1>6 DEF StoredConnectionIsCorrected
<1> QED
  BY <1>7, <1>8, <1>9

LEMMA StoreFollows ==
  ASSUME TypeOK, Following, StoreConnection
  PROVE  Following'
<1> USE DEF TypeOK, ServiceTypeOK, Following, Current
<1> DEFINE p == main.peer
<1>1. /\ p \in Peers /\ main.at = "storing" /\ main'.at # "storing"
      /\ UNCHANGED <<stage, hand, events, batch, peers, lost>>
  BY DEF StoreConnection, service_vars, MainStates, Idle
<1>2. \A kinds, q : Pending(kinds, q) => Pending(kinds, q)'
  BY <1>1, SamePending
<1>3. \/ router' = router /\ (main.conn = NoConn \/ main.via = "connect")
      \/ router' = [router EXCEPT ![p] = main.conn]
  BY DEF StoreConnection, KeepsEntry
<1>4. \A q \in Peers : Pending({"disconnected"}, q) => Pending(ConnectionEvents, q)
  BY DEF Pending, InSeq
<1>5. RouterDropsLeavers'
  BY <1>1, <1>2, <1>3
  DEF RouterDropsLeavers, StoredConnectionIsCorrected, Gone
<1>6. RouterEntryIsCorrected'
  <2> SUFFICES ASSUME ~lost, NEW q \in Peers, Current(router'[q]), router'[q] # peers[q]
               PROVE  Pending(ConnectionEvents, q)
    BY <1>1, <1>2 DEF RouterEntryIsCorrected, Gone
  <2>1. CASE router'[q] = router[q]
    BY <1>1, <1>3, <1>4, <2>1
    DEF RouterEntryIsCorrected, RouterDropsLeavers, StoredConnectionIsCorrected
  <2>2. CASE q = p /\ router'[q] = main.conn
    BY <1>1, <2>2 DEF StoredConnectionIsCorrected
  <2> QED
    BY <1>3, <2>1, <2>2
<1>7. StoredConnectionIsCorrected'
  BY <1>1 DEF StoredConnectionIsCorrected
<1> QED
  BY <1>5, <1>6, <1>7

LEMMA HandleDisconnectedFollows ==
  ASSUME TypeOK, Following, HandleDisconnected
  PROVE  Following'
<1> USE DEF TypeOK, ServiceTypeOK, Following, Current
<1> DEFINE p == Head(batch).peer
<1>1. /\ p \in Peers /\ batch # << >> /\ main = Idle /\ main' = main
      /\ router' = [router EXCEPT ![p] = NoConn]
      /\ batch' = Tail(batch)
      /\ UNCHANGED <<stage, hand, events, peers, lost>>
  BY TailBatchType DEF HandleDisconnected, ForgetPeer, service_vars, VoiceEvents
<1>2. \A q \in Peers : q # p =>
         /\ Pending({"disconnected"}, q) => Pending({"disconnected"}, q)'
         /\ Pending(ConnectionEvents, q) => Pending(ConnectionEvents, q)'
  BY <1>1, HandledIsPending
<1>3. main.at # "storing" /\ main'.at # "storing"
  BY <1>1 DEF Idle
<1>4. RouterDropsLeavers'
  BY <1>1, <1>2 DEF RouterDropsLeavers, Gone
<1>5. RouterEntryIsCorrected'
  BY <1>1, <1>2, <1>3 DEF RouterEntryIsCorrected, Gone
<1>6. StoredConnectionIsCorrected'
  BY <1>3 DEF StoredConnectionIsCorrected
<1> QED
  BY <1>4, <1>5, <1>6

LEMMA ServeFollows ==
  ASSUME TypeOK, HandMatchesStage, Following, NEW c \in Conns, ServeStep(c)
  PROVE  Following'
<1> USE DEF TypeOK, ServiceTypeOK, ServeStep
<1>1. CASE InsertConnection(c)
  BY <1>1, InsertFollows
<1>2. CASE RemoveConnection(c) /\ peers[RemoteId[c]] # NoConn
  BY <1>2, RemoveFollows
<1>3. ASSUME AnnounceInserted(c) \/ AnnounceRemoved(c) PROVE Following'
  <2>1. /\ hand[c] \in ConnectionEvents /\ Send(hand[c], RemoteId[c])
        /\ hand' = [hand EXCEPT ![c] = "none"]
        /\ UNCHANGED <<peers, router, batch, main>>
    BY <1>3 DEF AnnounceInserted, AnnounceRemoved, HandMatchesStage, node_vars
  <2>2. ~lost' => ~lost
    BY <2>1 DEF Send
  <2>3. ~lost' => KeepsPending
    <3> SUFFICES ASSUME ~lost' PROVE KeepsPending
      OBVIOUS
    <3> QED
      BY <2>1, AnnouncedIsPending DEF KeepsPending
  <2>4. \A d \in Conns : Gone(d) => Gone(d)'
    BY <1>3 DEF AnnounceInserted, AnnounceRemoved, Gone
  <2> QED
    BY <2>1, <2>2, <2>3, <2>4, QuietStep
<1>4. ASSUME ReadFails(c) \/ (RemoveConnection(c) /\ peers[RemoteId[c]] = NoConn)
      PROVE  Following'
  <2>1. UNCHANGED <<peers, router, hand, events, batch, main, lost>>
    BY <1>4 DEF ReadFails, RemoveConnection, node_vars
  <2>2. \A d \in Conns : Gone(d) => Gone(d)'
    BY <1>4 DEF ReadFails, RemoveConnection, Gone
  <2>3. KeepsPending
    BY <2>1, SamePending DEF KeepsPending
  <2> QED
    BY <2>1, <2>2, <2>3, QuietStep
<1> QED
  BY <1>1, <1>2, <1>3, <1>4 DEF Serve

\* One step per group of actions: those of a connection's flow, those of the main
\* thread that write, and those that leave map, router and events alone.
LEMMA StepFollows ==
  ASSUME TypeOK, HandMatchesStage, KnownConnectionsAreEstablished, Following,
         [Next]_vars
  PROVE  Following'
<1>1. ASSUME NEW c \in Conns, ServeStep(c) PROVE Following'
  BY <1>1, ServeFollows
<1>2. CASE HandleConnected
  BY <1>2, HandleConnectedFollows
<1>3. CASE StoreConnection
  BY <1>3, StoreFollows
<1>4. CASE HandleDisconnected
  BY <1>4, HandleDisconnectedFollows
<1>5. ASSUME NEW c \in Conns, Read(c) PROVE Following'
  <2> USE DEF Read, ReadDatagram, TypeOK, ServiceTypeOK
  <2>1. /\ UNCHANGED <<stage, peers, router, hand, batch, main>>
        /\ Send("packet", RemoteId[c])
    BY <1>5 DEF node_vars
  <2>2. ~lost' => ~lost
    BY <2>1 DEF Send
  <2>3. ~lost' => KeepsPending
    <3> SUFFICES ASSUME ~lost' PROVE KeepsPending
      OBVIOUS
    <3> DEFINE e == [kind |-> "packet", peer |-> RemoteId[c]]
    <3>1. e \in VoiceEvents /\ events \in Seq(VoiceEvents)
      BY ServiceAssumption DEF VoiceEvents, IsEventQueue
    <3>2. events' = Append(events, e)
      BY <2>1 DEF Send
    <3>3. \A kinds, p : InSeq(events, kinds, p) => InSeq(events, kinds, p)'
      BY <3>1, <3>2, AppendInSeq DEF InSeq
    <3> QED
      BY <2>1, <3>3 DEF KeepsPending, Pending, InSeq
  <2>4. \A d \in Conns : Gone(d) => Gone(d)'
    BY <2>1 DEF Gone
  <2> QED
    BY <2>1, <2>2, <2>3, <2>4, QuietStep
<1>6. CASE DrainEvents
  <2>1. /\ UNCHANGED <<stage, peers, router, hand, main, lost>>
        /\ batch = << >> /\ batch' = events /\ events' = << >>
    BY <1>6 DEF DrainEvents, ReceiveEvents
  <2>2. KeepsPending
    BY <2>1 DEF KeepsPending, Pending, InSeq
  <2>3. \A d \in Conns : Gone(d) => Gone(d)'
    BY <2>1 DEF Gone
  <2> QED
    BY <2>1, <2>2, <2>3, QuietStep
<1>7. CASE HandlePacket
  <2>1. /\ UNCHANGED <<stage, peers, router, hand, events, main, lost>>
        /\ batch # << >> /\ batch' = Tail(batch) /\ Head(batch).kind = "packet"
    BY <1>7 DEF HandlePacket, service_vars
  <2>2. KeepsPending
    BY <2>1, HandledIsPending DEF KeepsPending
  <2>3. \A d \in Conns : Gone(d) => Gone(d)'
    BY <2>1 DEF Gone
  <2> QED
    BY <2>1, <2>2, <2>3, QuietStep
<1>8. CASE FetchConnection
  <2> USE DEF Following, Current, Gone
  <2>1. /\ UNCHANGED <<stage, peers, router, hand, events, batch, lost>>
        /\ main.at = "connecting" /\ main'.at = "storing"
        /\ main'.conn = peers[main'.peer]
    BY <1>8 DEF FetchConnection, service_vars, Storing
  <2>2. \A kinds, p : Pending(kinds, p) => Pending(kinds, p)'
    BY <2>1, SamePending
  <2>3. RouterDropsLeavers'
    BY <2>1, <2>2 DEF RouterDropsLeavers
  <2>4. RouterEntryIsCorrected'
    BY <2>1, <2>2 DEF RouterEntryIsCorrected
  <2>5. StoredConnectionIsCorrected'
    BY <2>1 DEF StoredConnectionIsCorrected
  <2> QED
    BY <2>3, <2>4, <2>5
<1>9. CASE ExitTree
  <2> USE DEF Following, Current, Gone, TypeOK, ServiceTypeOK
  <2>1. /\ stage' = [d \in Conns |-> IF stage[d] = "new" THEN "new" ELSE "gone"]
        /\ router' = router /\ main'.at # "storing"
    BY <1>9 DEF ExitTree, DropService, Idle
  <2>2. \A p \in Peers : ~Current(router[p])'
    BY <2>1 DEF KnownConnectionsAreEstablished, NeverNew
  <2> QED
    BY <2>1, <2>2
    DEF RouterDropsLeavers, RouterEntryIsCorrected, StoredConnectionIsCorrected
<1>10. ASSUME /\ UNCHANGED <<peers, router, hand, events, batch, lost>>
              /\ \A d \in Conns : Gone(d) => Gone(d)'
              /\ main' = main \/ (main.at # "storing" /\ main'.at # "storing")
       PROVE  Following'
  BY <1>10, QuietStep, SamePending DEF KeepsPending
<1>11. ASSUME NEW c \in Conns, Handshake(c) PROVE \A d \in Conns : Gone(d) => Gone(d)'
  BY <1>11 DEF Handshake, Gone, TypeOK, ServiceTypeOK
<1>12. ASSUME NEW c \in Conns, Accept(c) \/ ConnectToPeer(c) PROVE Following'
  BY <1>10, <1>11, <1>12
  DEF Accept, ConnectToPeer, Handshake, node_vars, Idle, Connecting
<1>13. ASSUME NEW c \in Conns, Close(c) PROVE Following'
  BY <1>10, <1>13 DEF Close, CloseConnection, node_vars, Gone
<1>14. CASE Bind \/ Subscribe \/ InstallPacketRouter
  BY <1>10, <1>14
  DEF Bind, Subscribe, SubscribeEvents, InstallPacketRouter, SetPacketHandler,
      Idle, Gone
<1>15. ASSUME NEW p \in Peers, ChangeReceiveStreams(p) PROVE Following'
  BY <1>10, <1>15 DEF ChangeReceiveStreams, service_vars, Gone
<1>16. CASE UNCHANGED vars
  BY <1>10, <1>16 DEF vars, service_vars, node_vars, Gone
<1> QED
  BY <1>1, <1>2, <1>3, <1>4, <1>5, <1>6, <1>7, <1>8, <1>9, <1>12, <1>13, <1>14,
     <1>15, <1>16 DEF Next, MainStep

LEMMA InitFollows == Init => RouterFollowsMap
<1> SUFFICES ASSUME Init PROVE RouterFollowsMap
  OBVIOUS
<1> USE DEF Init, ServiceInit, Idle
<1>1. \A p \in Peers : peers[p] = NoConn /\ router[p] = NoConn
  OBVIOUS
<1>2. main.at # "storing"
  OBVIOUS
<1>3. HandMatchesStage
  BY InitType
<1> QED
  BY <1>1, <1>2, <1>3
  DEF RouterFollowsMap, KnownConnectionsAreEstablished, NeverNew,
      RouterDropsLeavers, RouterEntryIsCorrected, StoredConnectionIsCorrected,
      Current

LEMMA FollowsInvariant == Spec => [](TypeOK /\ RouterFollowsMap)
<1> DEFINE Inv == TypeOK /\ RouterFollowsMap
<1>1. Init => Inv
  BY InitType, InitFollows
<1>2. Inv /\ [Next]_vars => Inv'
  <2> SUFFICES ASSUME Inv, [Next]_vars PROVE Inv'
    OBVIOUS
  <2> USE DEF RouterFollowsMap
  <2>1. TypeOK' /\ HandMatchesStage'
    BY StepType, StepHand
  <2>2. KnownConnectionsAreEstablished'
    BY StepEstablished
  <2>3. Following'
    BY StepFollows DEF Following
  <2> QED
    BY <2>1, <2>2, <2>3 DEF Following
<1> QED
  BY <1>1, <1>2, PTL DEF Spec

\* As long as the event channel loses nothing, the router's entry of a peer that
\* left is cleared: the PeerDisconnected that does it is on its way, whatever the
\* interleaving of connections, replacements, removals, the frames of the main
\* thread and restarts of the endpoint.
THEOREM RouterDrops == Spec => []RouterDropsLeavers
<1>1. TypeOK /\ RouterFollowsMap => RouterDropsLeavers
  BY DEF RouterFollowsMap
<1> QED
  BY FollowsInvariant, <1>1, PTL

\* And the entry of a peer that stayed but has another connection is corrected, by
\* an event that is on its way or by what the main thread holds.
THEOREM RouterIsCorrected == Spec => []RouterEntryIsCorrected
<1>1. TypeOK /\ RouterFollowsMap => RouterEntryIsCorrected
  BY DEF RouterFollowsMap
<1> QED
  BY FollowsInvariant, <1>1, PTL

-----------------------------------------------------------------------------
\* The service under the node is the service on its own: every step of the node is
\* one of its steps, or leaves it alone, but for Bind, which only creates it.
LEMMA StepServed ==
  ASSUME ServiceInv, [Next]_vars
  PROVE  ServiceInv'
<1>1. CASE [ServiceNext]_service_vars
  BY <1>1, ServiceStepInv
<1>2. CASE Bind
  BY <1>2
  DEF Bind, ServiceInv, ServiceTypeOK, HandMatchesStage, MappedConnectionIsServed
<1> QED
  BY <1>1, <1>2
  DEF Next, MainStep, Accept, ServeStep, Close, Read, ConnectToPeer, Subscribe,
      InstallPacketRouter, FetchConnection, StoreConnection, DrainEvents,
      HandleConnected, HandleDisconnected, HandlePacket, ChangeReceiveStreams,
      ExitTree, vars, ServiceNext

\* What the main thread holds was looked up in the running service.
StoredIsNotGone == main.at = "storing" => ~Gone(main.conn)

\* A PeerDisconnected on its way was sent by a flow that has ended.
LeaversAreDone ==
  \A p \in Peers :
    (InSeq(events, {"disconnected"}, p) \/ InSeq(batch, {"disconnected"}, p)) =>
      \E c \in Conns : RemoteId[c] = p /\ stage[c] = "done"

\* peers[p] is the only connection p has had in this session.
Sole(p) ==
  /\ peers[p] # NoConn
  /\ \A c \in Conns \ {peers[p]} : RemoteId[c] = p => stage[c] \in {"new", "gone"}

\* The main thread is about to write what the map holds for p, over any entry.
HoldsConnection(p) ==
  main.at = "storing" /\ main.peer = p /\ main.conn = peers[p] /\ main.via # "connect"

\* SoleConnectionIsRouted at every moment, not only when the main thread is idle.
SoleIsRouted ==
  ~lost => \A p \in Peers :
    (Sole(p) /\ ~Pending(ConnectionEvents, p)) =>
      (router[p] = peers[p] \/ HoldsConnection(p))

LEMMA StoredStays ==
  ASSUME TypeOK, MappedConnectionIsServed, StoredIsNotGone, [Next]_vars
  PROVE  StoredIsNotGone'
<1> USE DEF TypeOK, ServiceTypeOK, StoredIsNotGone, Gone
<1>1. CASE FetchConnection
  <2>1. UNCHANGED <<stage, peers>> /\ \E p \in Peers : main'.conn = peers[p]
    BY <1>1, ServiceAssumption DEF FetchConnection, service_vars, Storing, MainStates
  <2> QED
    BY <2>1, ServiceAssumption DEF MappedConnectionIsServed
<1>2. CASE HandleConnected
  <2>1. UNCHANGED <<stage, peers>> /\ \E p \in Peers : main'.conn = peers[p]
    BY <1>2, TailBatchType DEF HandleConnected, service_vars, Storing, VoiceEvents
  <2> QED
    BY <2>1, ServiceAssumption DEF MappedConnectionIsServed
<1>3. CASE main'.at # "storing"
  BY <1>3
<1>4. CASE main' = main /\ \A c \in Conns : Gone(c)' => Gone(c)
  BY <1>4
<1>5. ASSUME NEW c \in Conns, Handshake(c) \/ Serve(c)
      PROVE  \A d \in Conns : Gone(d)' => Gone(d)
  BY <1>5
  DEF Handshake, Serve, InsertConnection, AnnounceInserted, ReadFails,
      RemoveConnection, AnnounceRemoved
<1>6. ASSUME stage' = stage PROVE \A d \in Conns : Gone(d)' => Gone(d)
  BY <1>6
<1> HIDE DEF Gone
<1> QED
  BY <1>1, <1>2, <1>3, <1>4, <1>5, <1>6
  DEF Next, MainStep, Accept, ServeStep, Close, CloseConnection, Read,
      ReadDatagram, ConnectToPeer, Bind, Subscribe, InstallPacketRouter,
      StoreConnection, DrainEvents, HandleDisconnected, HandlePacket,
      ChangeReceiveStreams, ExitTree, vars, service_vars, node_vars, Idle,
      Connecting

\* What a sequence of events holds was in it before or is what was added.
LEMMA InTailSeq ==
  ASSUME NEW s \in Seq(VoiceEvents), s # << >>, NEW kinds, NEW p,
         InSeq(Tail(s), kinds, p)
  PROVE  InSeq(s, kinds, p)
<1>1. PICK i \in 1 .. Len(Tail(s)) : Tail(s)[i].kind \in kinds /\ Tail(s)[i].peer = p
  BY DEF InSeq
<1>2. i + 1 \in 1 .. Len(s) /\ Tail(s)[i] = s[i + 1]
  BY <1>1
<1> QED
  BY <1>1, <1>2 DEF InSeq

LEMMA InAppendSeq ==
  ASSUME NEW s \in Seq(VoiceEvents), NEW e \in VoiceEvents, NEW kinds, NEW p,
         InSeq(Append(s, e), kinds, p)
  PROVE  InSeq(s, kinds, p) \/ (e.kind \in kinds /\ e.peer = p)
<1>1. PICK i \in 1 .. Len(Append(s, e)) :
        Append(s, e)[i].kind \in kinds /\ Append(s, e)[i].peer = p
  BY DEF InSeq
<1>2. i \in 1 .. Len(s) + 1 /\ Len(s) \in Nat
  BY <1>1
<1>3. CASE i = Len(s) + 1
  BY <1>1, <1>3
<1>4. CASE i # Len(s) + 1
  <2>1. i \in 1 .. Len(s) /\ Append(s, e)[i] = s[i]
    BY <1>2, <1>4
  <2> QED
    BY <1>1, <2>1 DEF InSeq
<1> QED
  BY <1>3, <1>4

LEMMA SentInSeq ==
  ASSUME IsEventQueue(events), NEW kind \in ConnectionEvents \cup {"packet"},
         NEW q \in Peers, Send(kind, q), NEW kinds, NEW p,
         InSeq(events', kinds, p)
  PROVE  InSeq(events, kinds, p) \/ (kind \in kinds /\ q = p)
<1> DEFINE e == [kind |-> kind, peer |-> q]
<1>1. e \in VoiceEvents /\ events \in Seq(VoiceEvents)
  BY DEF VoiceEvents, IsEventQueue
<1>2. CASE events' = events
  BY <1>2
<1>3. CASE events' = Append(events, e)
  BY <1>1, <1>3, InAppendSeq
<1>4. CASE events' = Append(Tail(events), e) /\ Len(events) >= EventCapacity
  <2>1. events # << >> /\ Tail(events) \in Seq(VoiceEvents)
    BY <1>1, <1>4, ServiceAssumption
  <2>2. InSeq(Tail(events), kinds, p) \/ (kind \in kinds /\ q = p)
    BY <1>1, <1>4, <2>1, InAppendSeq
  <2> QED
    BY <1>1, <2>1, <2>2, InTailSeq
<1> QED
  BY <1>2, <1>3, <1>4 DEF Send

\* A flow sends PeerDisconnected as it ends, and a flow that has ended stays ended
\* until the service goes, with the channel and what was in it.
LEMMA LeaversStay ==
  ASSUME TypeOK, HandMatchesStage, LeaversAreDone, [Next]_vars
  PROVE  LeaversAreDone'
<1> USE DEF TypeOK, ServiceTypeOK
<1> DEFINE Left(p) == InSeq(events, {"disconnected"}, p)
                        \/ InSeq(batch, {"disconnected"}, p)
           Done(c) == stage[c] = "done"
<1>1. ASSUME \A c \in Conns : Done(c) => Done(c)',
             \A p \in Peers : Left(p)' => Left(p)
      PROVE  LeaversAreDone'
  BY <1>1 DEF LeaversAreDone
<1>2. ASSUME NEW c \in Conns, Handshake(c) \/ InsertConnection(c)
             \/ AnnounceInserted(c) \/ ReadFails(c) \/ RemoveConnection(c)
      PROVE  \A d \in Conns : Done(d) => Done(d)'
  BY <1>2
  DEF Handshake, InsertConnection, AnnounceInserted, ReadFails, RemoveConnection
<1>3. ASSUME UNCHANGED <<events, batch>> PROVE \A p \in Peers : Left(p)' => Left(p)
  BY <1>3 DEF InSeq
<1>4. ASSUME stage' = stage PROVE \A c \in Conns : Done(c) => Done(c)'
  BY <1>4
<1>5. ASSUME NEW c \in Conns, AnnounceInserted(c), UNCHANGED node_vars
      PROVE  LeaversAreDone'
  <2>1. /\ hand[c] \in {"connected", "replaced"} /\ Send(hand[c], RemoteId[c])
        /\ RemoteId[c] \in Peers /\ batch' = batch
    BY <1>5, ServiceAssumption DEF AnnounceInserted, HandMatchesStage, node_vars
  <2>2. \A p \in Peers : InSeq(events', {"disconnected"}, p)
                        => (InSeq(events, {"disconnected"}, p))
    BY <2>1, SentInSeq
  <2>3. \A p \in Peers : Left(p)' => Left(p)
    BY <2>1, <2>2 DEF InSeq
  <2> QED
    BY <1>1, <1>2, <1>5, <2>3
<1>6. ASSUME NEW c \in Conns, AnnounceRemoved(c), UNCHANGED node_vars
      PROVE  LeaversAreDone'
  <2>1. /\ hand[c] = "disconnected" /\ Send(hand[c], RemoteId[c])
        /\ RemoteId[c] \in Peers /\ batch' = batch /\ Done(c)'
        /\ \A d \in Conns : Done(d) => Done(d)'
    BY <1>6, ServiceAssumption DEF AnnounceRemoved, HandMatchesStage, node_vars
  <2>2. \A p \in Peers : InSeq(events', {"disconnected"}, p)
                        => (InSeq(events, {"disconnected"}, p) \/ p = RemoteId[c])
    BY <2>1, SentInSeq
  <2>3. \A p \in Peers : Left(p)' => (Left(p) \/ p = RemoteId[c])
    BY <2>1, <2>2 DEF InSeq
  <2> QED
    BY <2>1, <2>3 DEF LeaversAreDone
<1>7. ASSUME NEW c \in Conns, Read(c) PROVE LeaversAreDone'
  <2>1. /\ Send("packet", RemoteId[c]) /\ RemoteId[c] \in Peers
        /\ UNCHANGED <<batch, stage>>
    BY <1>7, ServiceAssumption DEF Read, ReadDatagram, node_vars
  <2>2. \A p \in Peers : InSeq(events', {"disconnected"}, p)
                        => (InSeq(events, {"disconnected"}, p))
    BY <2>1, SentInSeq
  <2>3. \A p \in Peers : Left(p)' => Left(p)
    BY <2>1, <2>2 DEF InSeq
  <2> QED
    BY <1>1, <2>1, <2>3
<1>8. CASE DrainEvents
  <2>1. stage' = stage /\ batch' = events /\ events' = << >>
    BY <1>8 DEF DrainEvents, ReceiveEvents
  <2>2. \A p \in Peers : Left(p)' => Left(p)
    BY <2>1 DEF InSeq
  <2> QED
    BY <1>1, <2>1, <2>2
<1>9. CASE HandleConnected \/ HandleDisconnected \/ HandlePacket
  <2>1. /\ UNCHANGED <<stage, events>> /\ batch # << >> /\ batch' = Tail(batch)
        /\ batch \in Seq(VoiceEvents)
    BY <1>9
    DEF HandleConnected, HandleDisconnected, HandlePacket, service_vars,
        IsEventQueue
  <2>2. \A p \in Peers : Left(p)' => Left(p)
    BY <2>1, InTailSeq DEF InSeq
  <2> QED
    BY <1>1, <2>1, <2>2
<1>10. CASE ExitTree
  <2>1. events' = << >> /\ batch' = << >>
    BY <1>10 DEF ExitTree, DropService
  <2> QED
    BY <2>1 DEF LeaversAreDone, InSeq
<1> HIDE DEF Left, Done
<1>11. ASSUME NEW c \in Conns, Accept(c) \/ ConnectToPeer(c) PROVE LeaversAreDone'
  BY <1>1, <1>2, <1>3, <1>11 DEF Accept, ConnectToPeer, Handshake, node_vars
<1>12. ASSUME NEW c \in Conns, ServeStep(c) PROVE LeaversAreDone'
  BY <1>1, <1>2, <1>3, <1>5, <1>6, <1>12
  DEF ServeStep, Serve, InsertConnection, ReadFails, RemoveConnection, node_vars
<1>13. ASSUME UNCHANGED <<stage, events, batch>> PROVE LeaversAreDone'
  BY <1>1, <1>3, <1>4, <1>13
<1> QED
  BY <1>7, <1>8, <1>9, <1>10, <1>11, <1>12, <1>13
  DEF Next, MainStep, Close, CloseConnection, Bind, Subscribe, SubscribeEvents,
      InstallPacketRouter, SetPacketHandler, FetchConnection, StoreConnection,
      ChangeReceiveStreams, vars, service_vars, node_vars

\* No PeerDisconnected is on its way for a peer with a single connection: its flow
\* would have ended, and the connection in the map has one that has not.
LEMMA SoleHasNotLeft ==
  ASSUME TypeOK, MappedConnectionIsServed, LeaversAreDone, NEW p \in Peers, Sole(p)
  PROVE  ~InSeq(batch, {"disconnected"}, p)
<1>1. \A c \in Conns : RemoteId[c] = p => stage[c] # "done"
  BY DEF TypeOK, ServiceTypeOK, Sole, MappedConnectionIsServed
<1> QED
  BY <1>1 DEF LeaversAreDone

\* A step that writes neither the map nor the router.
LEMMA QuietSole ==
  ASSUME TypeOK, SoleIsRouted, ~lost' => ~lost, UNCHANGED <<peers, router>>,
         \A p \in Peers : Sole(p)' => Sole(p),
         main' = main \/ main.at # "storing",
         ~lost' => KeepsPending
  PROVE  SoleIsRouted'
<1> SUFFICES ASSUME ~lost', NEW p \in Peers, Sole(p)', ~Pending(ConnectionEvents, p)'
             PROVE  router'[p] = peers'[p] \/ HoldsConnection(p)'
  BY DEF SoleIsRouted
<1>1. ~lost /\ Sole(p) /\ ~Pending(ConnectionEvents, p)
  BY DEF KeepsPending
<1>2. router[p] = peers[p] \/ HoldsConnection(p)
  BY <1>1 DEF SoleIsRouted
<1> QED
  BY <1>2 DEF HoldsConnection

LEMMA ServeSole ==
  ASSUME TypeOK, HandMatchesStage, MappedConnectionIsServed, SoleIsRouted,
         NEW c \in Conns, ServeStep(c)
  PROVE  SoleIsRouted'
<1> USE DEF TypeOK, ServiceTypeOK, ServeStep
<1>1. CASE InsertConnection(c)
  <2> DEFINE p == RemoteId[c]
  <2>1. /\ p \in Peers /\ hand[c] = "none" /\ hand'[c] \in ConnectionEvents
        /\ peers' = [peers EXCEPT ![p] = c]
        /\ hand' = [hand EXCEPT ![c] = hand'[c]]
        /\ stage' = [stage EXCEPT ![c] = "inserted"]
        /\ UNCHANGED <<events, batch, router, main, lost>>
    BY <1>1, ServiceAssumption DEF InsertConnection, HandMatchesStage, node_vars
  <2>2. Pending(ConnectionEvents, p)'
    BY <2>1 DEF Pending
  <2>3. KeepsPending
    BY <2>1 DEF KeepsPending, Pending, InSeq
  <2>4. \A q \in Peers : q # p =>
          /\ peers'[q] = peers[q] /\ (Sole(q)' => Sole(q))
          /\ HoldsConnection(q) => HoldsConnection(q)'
    BY <2>1 DEF Sole, HoldsConnection
  <2> QED
    BY <2>1, <2>2, <2>3, <2>4 DEF SoleIsRouted, KeepsPending
<1>2. CASE RemoveConnection(c) /\ peers[RemoteId[c]] # NoConn
  <2> DEFINE p == RemoteId[c]
  <2>1. /\ p \in Peers /\ hand[c] = "none"
        /\ peers' = [peers EXCEPT ![p] = NoConn]
        /\ hand' = [hand EXCEPT ![c] = "disconnected"]
        /\ stage' = [stage EXCEPT ![c] = "removed"]
        /\ UNCHANGED <<events, batch, router, main, lost>>
    BY <1>2, ServiceAssumption DEF RemoveConnection, HandMatchesStage, node_vars
  <2>2. ~Sole(p)'
    BY <2>1 DEF Sole
  <2>3. KeepsPending
    BY <2>1 DEF KeepsPending, Pending, InSeq
  <2>4. \A q \in Peers : q # p =>
          /\ peers'[q] = peers[q] /\ (Sole(q)' => Sole(q))
          /\ HoldsConnection(q) => HoldsConnection(q)'
    BY <2>1 DEF Sole, HoldsConnection
  <2> QED
    BY <2>1, <2>2, <2>3, <2>4 DEF SoleIsRouted, KeepsPending
<1>3. ASSUME AnnounceInserted(c) \/ AnnounceRemoved(c) PROVE SoleIsRouted'
  <2>1. /\ hand[c] \in ConnectionEvents /\ Send(hand[c], RemoteId[c])
        /\ hand' = [hand EXCEPT ![c] = "none"] /\ stage[c] \notin {"new", "gone"}
        /\ \A d \in Conns : d # c => stage'[d] = stage[d]
        /\ UNCHANGED <<peers, router, batch, main>>
    BY <1>3 DEF AnnounceInserted, AnnounceRemoved, HandMatchesStage, node_vars
  <2>2. ~lost' => ~lost
    BY <2>1 DEF Send
  <2>3. ~lost' => KeepsPending
    <3> SUFFICES ASSUME ~lost' PROVE KeepsPending
      OBVIOUS
    <3> QED
      BY <2>1, AnnouncedIsPending DEF KeepsPending
  <2>4. stage'[c] \notin {"new", "gone"}
    BY <1>3 DEF AnnounceInserted, AnnounceRemoved
  <2>5. \A p \in Peers : Sole(p)' => Sole(p)
    BY <2>1, <2>4 DEF Sole
  <2> QED
    BY <2>1, <2>2, <2>3, <2>5, QuietSole
<1>4. ASSUME ReadFails(c) \/ (RemoveConnection(c) /\ peers[RemoteId[c]] = NoConn)
      PROVE  SoleIsRouted'
  <2>1. /\ UNCHANGED <<peers, router, hand, events, batch, main, lost>>
        /\ \A d \in Conns : d # c => stage'[d] = stage[d]
        /\ stage'[c] \notin {"new", "gone"}
    BY <1>4 DEF ReadFails, RemoveConnection, node_vars
  <2>2. \A p \in Peers : Sole(p)' => Sole(p)
    BY <2>1 DEF Sole
  <2>3. KeepsPending
    BY <2>1, SamePending DEF KeepsPending
  <2> QED
    BY <2>1, <2>2, <2>3, QuietSole
<1> QED
  BY <1>1, <1>2, <1>3, <1>4 DEF Serve

\* What the main thread stores is what the map holds, or an event will correct it.
LEMMA StoreSole ==
  ASSUME TypeOK, StoredConnectionIsCorrected, StoredIsNotGone, SoleIsRouted,
         StoreConnection
  PROVE  SoleIsRouted'
<1> USE DEF TypeOK, ServiceTypeOK
<1> DEFINE p == main.peer
<1>1. /\ p \in Peers /\ main.at = "storing" /\ main.conn \in Conns \cup {NoConn}
      /\ UNCHANGED <<stage, hand, events, batch, peers, lost>>
  BY DEF StoreConnection, service_vars, MainStates
<1>2. \A q \in Peers : /\ Sole(q)' => Sole(q)
                       /\ Pending(ConnectionEvents, q) => Pending(ConnectionEvents, q)'
  BY <1>1, SamePending DEF Sole
<1> SUFFICES ASSUME ~lost, NEW q \in Peers, Sole(q), ~Pending(ConnectionEvents, q)
             PROVE  router'[q] = peers[q]
  BY <1>1, <1>2 DEF SoleIsRouted
<1>3. router[q] = peers[q] \/ HoldsConnection(q)
  BY DEF SoleIsRouted
<1>4. CASE router' = router /\ (main.conn = NoConn \/ main.via = "connect")
  BY <1>3, <1>4 DEF HoldsConnection, Sole
<1>5. CASE router' = [router EXCEPT ![p] = main.conn] /\ main.conn # NoConn
  <2>1. CASE q = p
    <3>1. Current(main.conn)
      BY <1>1, <1>5 DEF Current, StoredIsNotGone
    <3>2. main.conn = peers[p]
      BY <1>1, <2>1, <3>1 DEF StoredConnectionIsCorrected
    <3> QED
      BY <1>1, <1>5, <2>1, <3>2
  <2>2. CASE q # p
    BY <1>3, <1>5, <2>2 DEF HoldsConnection
  <2> QED
    BY <2>1, <2>2
<1> QED
  BY <1>4, <1>5 DEF StoreConnection, KeepsEntry

LEMMA HandleSole ==
  ASSUME TypeOK, MappedConnectionIsServed, LeaversAreDone, SoleIsRouted,
         HandleConnected \/ HandleDisconnected
  PROVE  SoleIsRouted'
<1> USE DEF TypeOK, ServiceTypeOK
<1>0. PICK p \in Peers : p = Head(batch).peer
  BY TailBatchType DEF HandleConnected, HandleDisconnected, VoiceEvents
<1>1. /\ p = Head(batch).peer /\ batch # << >> /\ main = Idle
      /\ batch' = Tail(batch)
      /\ UNCHANGED <<stage, hand, events, peers, lost>>
  BY <1>0 DEF HandleConnected, HandleDisconnected, service_vars
<1>2. \A q \in Peers : q # p =>
         (Pending(ConnectionEvents, q) => Pending(ConnectionEvents, q)')
  BY <1>1, HandledIsPending
<1>3. \A q \in Peers : Sole(q)' => Sole(q)
  BY <1>1 DEF Sole
<1>4. \A q \in Peers : ~HoldsConnection(q)
  BY <1>1 DEF HoldsConnection, Idle
<1>5. CASE HandleConnected
  <2>1. main' = Storing(p, peers[p], Head(batch).kind) /\ router' = router
        /\ Head(batch).kind # "connect"
    BY <1>1, <1>5 DEF HandleConnected
  <2>2. HoldsConnection(p)'
    BY <1>1, <2>1 DEF HoldsConnection, Storing
  <2> QED
    BY <1>1, <1>2, <1>3, <1>4, <2>1, <2>2 DEF SoleIsRouted
<1>6. CASE HandleDisconnected
  <2>1. router' = [router EXCEPT ![p] = NoConn] /\ Head(batch).kind = "disconnected"
    BY <1>1, <1>6 DEF HandleDisconnected, ForgetPeer
  <2>2. InSeq(batch, {"disconnected"}, p)
    <3>1. 1 \in 1 .. Len(batch) /\ Head(batch) = batch[1]
      BY <1>1 DEF IsEventQueue
    <3> QED
      BY <1>1, <2>1, <3>1 DEF InSeq
  <2>3. ~Sole(p)
    BY <1>1, <2>2, SoleHasNotLeft
  <2> QED
    BY <1>1, <1>2, <1>3, <1>4, <2>1, <2>3 DEF SoleIsRouted
<1> QED
  BY <1>5, <1>6

\* The steps that leave the events where they are, or move them towards the main
\* thread.
LEMMA MovedIsPending ==
  ASSUME TypeOK, ~lost',
         \/ \E c \in Conns : Read(c)
         \/ DrainEvents \/ HandlePacket
         \/ UNCHANGED <<hand, events, batch>>
  PROVE  KeepsPending
<1> USE DEF TypeOK, ServiceTypeOK
<1>1. ASSUME NEW c \in Conns, Read(c) PROVE KeepsPending
  <2> DEFINE e == [kind |-> "packet", peer |-> RemoteId[c]]
  <2>1. e \in VoiceEvents /\ events \in Seq(VoiceEvents)
    BY ServiceAssumption DEF VoiceEvents, IsEventQueue
  <2>2. events' = Append(events, e) /\ UNCHANGED <<hand, batch>>
    BY <1>1 DEF Read, ReadDatagram, Send, node_vars
  <2>3. \A kinds, p : InSeq(events, kinds, p) => InSeq(events, kinds, p)'
    BY <2>1, <2>2, AppendInSeq DEF InSeq
  <2> QED
    BY <2>2, <2>3 DEF KeepsPending, Pending, InSeq
<1>2. CASE DrainEvents
  BY <1>2 DEF DrainEvents, ReceiveEvents, KeepsPending, Pending, InSeq
<1>3. CASE HandlePacket
  <2>1. /\ UNCHANGED <<hand, events>> /\ batch # << >> /\ batch' = Tail(batch)
        /\ Head(batch).kind = "packet"
    BY <1>3 DEF HandlePacket, service_vars
  <2> QED
    BY <2>1, HandledIsPending DEF KeepsPending
<1>4. CASE UNCHANGED <<hand, events, batch>>
  BY <1>4, SamePending DEF KeepsPending
<1> QED
  BY <1>1, <1>2, <1>3, <1>4

LEMMA StepSole ==
  ASSUME TypeOK, HandMatchesStage, MappedConnectionIsServed,
         KnownConnectionsAreEstablished, StoredConnectionIsCorrected,
         StoredIsNotGone, LeaversAreDone, SoleIsRouted, [Next]_vars
  PROVE  SoleIsRouted'
<1> USE DEF TypeOK, ServiceTypeOK
<1>1. ASSUME NEW c \in Conns, ServeStep(c) PROVE SoleIsRouted'
  BY <1>1, ServeSole
<1>2. CASE HandleConnected \/ HandleDisconnected
  BY <1>2, HandleSole
<1>3. CASE StoreConnection
  BY <1>3, StoreSole
<1>4. CASE ExitTree
  <2>1. \A p \in Peers : ~Sole(p)'
    BY <1>4 DEF ExitTree, DropService, Sole
  <2> QED
    BY <2>1 DEF SoleIsRouted
<1>5. ASSUME UNCHANGED <<peers, router>>, ~lost' => ~lost,
             main' = main \/ main.at # "storing",
             \/ stage' = stage
             \/ \E c \in Conns : stage' = [stage EXCEPT ![c] = "handshaken"],
             \/ \E c \in Conns : Read(c)
             \/ DrainEvents \/ HandlePacket
             \/ UNCHANGED <<hand, events, batch>>
      PROVE  SoleIsRouted'
  <2>1. \A p \in Peers : Sole(p)' => Sole(p)
    BY <1>5 DEF Sole
  <2>2. ~lost' => KeepsPending
    BY <1>5, MovedIsPending
  <2> QED
    BY <1>5, <2>1, <2>2, QuietSole
<1>6. ASSUME NEW c \in Conns, Accept(c) \/ ConnectToPeer(c) PROVE SoleIsRouted'
  BY <1>5, <1>6 DEF Accept, ConnectToPeer, Handshake, node_vars, Idle
<1>7. ASSUME NEW c \in Conns, Close(c) PROVE SoleIsRouted'
  BY <1>5, <1>7 DEF Close, CloseConnection, node_vars
<1>8. ASSUME NEW c \in Conns, Read(c) PROVE SoleIsRouted'
  <2>1. UNCHANGED <<peers, router, main, stage>> /\ (~lost' => ~lost)
    BY <1>8 DEF Read, ReadDatagram, Send, node_vars
  <2> QED
    BY <1>5, <1>8, <2>1
<1>9. CASE DrainEvents \/ HandlePacket
  BY <1>5, <1>9 DEF DrainEvents, ReceiveEvents, HandlePacket, service_vars
<1>10. CASE Bind \/ Subscribe \/ InstallPacketRouter \/ FetchConnection
  BY <1>5, <1>10
  DEF Bind, Subscribe, SubscribeEvents, InstallPacketRouter, SetPacketHandler,
      FetchConnection, service_vars, Idle
<1>11. ASSUME NEW p \in Peers, ChangeReceiveStreams(p) PROVE SoleIsRouted'
  BY <1>5, <1>11 DEF ChangeReceiveStreams, service_vars
<1>12. CASE UNCHANGED vars
  BY <1>5, <1>12 DEF vars, service_vars, node_vars
<1> QED
  BY <1>1, <1>2, <1>3, <1>4, <1>6, <1>7, <1>8, <1>9, <1>10, <1>11, <1>12
  DEF Next, MainStep

\* The inductive invariant behind SoleConnectionIsRouted.
SoleInv ==
  /\ TypeOK
  /\ RouterFollowsMap
  /\ MappedConnectionIsServed
  /\ StoredIsNotGone
  /\ LeaversAreDone
  /\ SoleIsRouted

LEMMA InitSole == Init => SoleInv
<1> SUFFICES ASSUME Init PROVE SoleInv
  OBVIOUS
<1>1. TypeOK /\ RouterFollowsMap
  BY InitType, InitFollows
<1>2. /\ \A p \in Peers : peers[p] = NoConn
      /\ main.at # "storing" /\ events = << >> /\ batch = << >>
  BY DEF Init, ServiceInit, Idle
<1> QED
  BY <1>1, <1>2
  DEF SoleInv, MappedConnectionIsServed, StoredIsNotGone, LeaversAreDone, InSeq,
      SoleIsRouted, Sole

LEMMA SoleInvariant == Spec => []SoleInv
<1>1. SoleInv /\ [Next]_vars => SoleInv'
  <2> SUFFICES ASSUME SoleInv, [Next]_vars PROVE SoleInv'
    OBVIOUS
  <2> USE DEF SoleInv
  <2>0. HandMatchesStage /\ KnownConnectionsAreEstablished /\ Following
    BY DEF RouterFollowsMap, Following
  <2>1. TypeOK' /\ HandMatchesStage'
    BY <2>0, StepType, StepHand
  <2>2. RouterFollowsMap'
    BY <2>0, <2>1, StepEstablished, StepFollows DEF RouterFollowsMap, Following
  <2>3. MappedConnectionIsServed'
    BY <2>0, StepServed DEF ServiceInv, TypeOK
  <2>4. StoredIsNotGone'
    BY StoredStays
  <2>5. LeaversAreDone'
    BY <2>0, LeaversStay
  <2>6. SoleIsRouted'
    BY <2>0, StepSole DEF Following
  <2> QED
    BY <2>1, <2>2, <2>3, <2>4, <2>5, <2>6
<1> QED
  BY InitSole, <1>1, PTL DEF Spec

\* A peer with a single connection in this session is routed to: once no event
\* about it is on its way and the main thread is idle, the router has the
\* connection the map has, whichever side made it, as long as the channel lost no
\* event.
THEOREM SoleConnectionRouted == Spec => []SoleConnectionIsRouted
<1>1. SoleInv => SoleConnectionIsRouted
  BY DEF SoleInv, SoleIsRouted, SoleConnectionIsRouted, Sole, HoldsConnection, Idle
<1> QED
  BY SoleInvariant, <1>1, PTL

-----------------------------------------------------------------------------
\* Counting: two sets that differ in one element at most.
LEMMA DifferInOne ==
  ASSUME NEW F, NEW G, NEW a, IsFiniteSet(F), G \ {a} = F \ {a}
  PROVE  /\ Cardinality(F) \in Nat
         /\ Cardinality(G) = Cardinality(F) + (IF a \in G THEN 1 ELSE 0)
                                            - (IF a \in F THEN 1 ELSE 0)
<1> DEFINE R == F \ {a}
<1>1. /\ Cardinality(F) \in Nat /\ IsFiniteSet(R)
      /\ Cardinality(R) = IF a \in F THEN Cardinality(F) - 1 ELSE Cardinality(F)
  BY FS_RemoveElement, FS_CardinalityType
<1>2. a \notin R /\ G = IF a \in G THEN R \cup {a} ELSE R
  OBVIOUS
<1> HIDE DEF R
<1>3. Cardinality(R \cup {a}) = Cardinality(R) + 1 /\ Cardinality(R) \in Nat
  BY <1>1, <1>2, FS_AddElement, FS_CardinalityType
<1>4. Cardinality(G) = IF a \in G THEN Cardinality(R) + 1 ELSE Cardinality(R)
  BY <1>2, <1>3
<1> QED
  BY <1>1, <1>3, <1>4

\* How the number of events of a kind in a queue changes.
OfKind(s, kind) == {i \in 1 .. Len(s) : s[i].kind = kind}

LEMMA OfKindIsFinite ==
  ASSUME NEW s \in Seq(VoiceEvents), NEW kind
  PROVE  IsFiniteSet(OfKind(s, kind)) /\ Cardinality(OfKind(s, kind)) \in Nat
<1>1. Len(s) \in Nat /\ OfKind(s, kind) \in SUBSET (1 .. Len(s))
  BY DEF OfKind
<1>2. IsFiniteSet(1 .. Len(s))
  BY <1>1, FS_Interval
<1>3. IsFiniteSet(OfKind(s, kind))
  BY <1>1, <1>2, FS_Subset
<1> QED
  BY <1>3, FS_CardinalityType

LEMMA AppendOfKind ==
  ASSUME NEW s \in Seq(VoiceEvents), NEW e \in VoiceEvents, NEW kind
  PROVE  Cardinality(OfKind(Append(s, e), kind))
           = Cardinality(OfKind(s, kind)) + (IF e.kind = kind THEN 1 ELSE 0)
<1> DEFINE t == Append(s, e)
           F == OfKind(s, kind)
<1>1. /\ Len(s) \in Nat /\ Len(t) = Len(s) + 1 /\ t[Len(s) + 1] = e
      /\ \A i \in 1 .. Len(s) : t[i] = s[i]
  OBVIOUS
<1>2. IsFiniteSet(F) /\ Cardinality(F) \in Nat
  BY OfKindIsFinite
<1>3. Len(s) + 1 \notin F
  BY <1>1 DEF OfKind
<1> HIDE DEF t
<1>4. OfKind(t, kind) = IF e.kind = kind THEN F \cup {Len(s) + 1} ELSE F
  BY <1>1 DEF OfKind
<1>5. Cardinality(F \cup {Len(s) + 1}) = Cardinality(F) + 1
  <2> HIDE DEF F
  <2> QED
    BY <1>2, <1>3, FS_AddElement
<1> HIDE DEF F
<1>6. Cardinality(OfKind(t, kind)) = Cardinality(F) + (IF e.kind = kind THEN 1 ELSE 0)
  BY <1>2, <1>4, <1>5
<1> QED
  BY <1>6 DEF t, F

LEMMA TailOfKind ==
  ASSUME NEW s \in Seq(VoiceEvents), s # << >>, NEW kind
  PROVE  Cardinality(OfKind(s, kind))
           = Cardinality(OfKind(Tail(s), kind)) + (IF Head(s).kind = kind THEN 1 ELSE 0)
<1> DEFINE t == Tail(s)
           F == OfKind(s, kind)
           G == OfKind(t, kind)
           R == F \ {1}
           shift == [i \in G |-> i + 1]
<1>1. /\ Len(s) \in Nat /\ Len(s) >= 1 /\ t \in Seq(VoiceEvents)
      /\ Len(t) = Len(s) - 1 /\ Head(s) = s[1]
      /\ \A i \in 1 .. Len(t) : t[i] = s[i + 1]
  OBVIOUS
<1> HIDE DEF t
<1>2. /\ IsFiniteSet(F) /\ Cardinality(F) \in Nat
      /\ IsFiniteSet(G) /\ Cardinality(G) \in Nat
  BY <1>1, OfKindIsFinite
<1>3. shift \in Bijection(G, R)
  <2>1. \A i \in G : i \in Nat /\ i + 1 \in R
    BY <1>1 DEF OfKind
  <2>2. shift \in [G -> R]
    BY <2>1
  <2>3. \A i, j \in G : shift[i] = shift[j] => i = j
    <3> SUFFICES ASSUME NEW i \in G, NEW j \in G, i + 1 = j + 1 PROVE i = j
      OBVIOUS
    <3> QED
      BY <2>1
  <2>4. \A j \in R : \E i \in G : shift[i] = j
    <3> SUFFICES ASSUME NEW j \in R PROVE j - 1 \in G /\ shift[j - 1] = j
      BY Zenon
    <3>1. j - 1 \in G /\ j \in Nat
      BY <1>1 DEF OfKind
    <3> QED
      BY <3>1
  <2> HIDE DEF shift, G, R
  <2> QED
    BY <2>2, <2>3, <2>4 DEF Bijection, Injection, IsInjective, Surjection
<1>4. Cardinality(R) = Cardinality(G)
  <2> HIDE DEF shift, G, R
  <2> QED
    BY <1>2, <1>3, FS_Bijection DEF ExistsBijection
<1>5. Cardinality(R) = IF 1 \in F THEN Cardinality(F) - 1 ELSE Cardinality(F)
  <2> HIDE DEF F
  <2> QED
    BY <1>2, FS_RemoveElement
<1>6. 1 \in F <=> Head(s).kind = kind
  BY <1>1 DEF OfKind
<1> HIDE DEF F, G, R
<1>7. Cardinality(F) = Cardinality(G) + (IF Head(s).kind = kind THEN 1 ELSE 0)
  BY <1>2, <1>4, <1>5, <1>6
<1> QED
  BY <1>7 DEF t, F, G

\* Any one execution has finitely many peers and connections.
FinitelyMany == IsFiniteSet(Peers) /\ IsFiniteSet(Conns)

InHand(kind) == Cardinality({c \in Conns : hand[c] = kind})
MappedPeers == Cardinality({p \in Peers : peers[p] # NoConn})

\* Zero as long as nothing was lost: what the statistic lacks is on its way.
Drift ==
  peers_connected + Count("connected") - Count("disconnected") - MappedPeers

NoneGone == \A c \in Conns : ~Gone(c)

\* Events are about connections that were made.
EventsHaveFlows ==
  (\A c \in Conns : stage[c] = "new") => (events = << >> /\ batch = << >>)

LEMMA CountParts ==
  ASSUME NEW kind
  PROVE  Count(kind) = InHand(kind) + Cardinality(OfKind(events, kind))
                                    + Cardinality(OfKind(batch, kind))
BY DEF Count, InHand, OfKind

\* A flow that takes up or puts down an event.
LEMMA HandCount ==
  ASSUME TypeOK, FinitelyMany, NEW c \in Conns, NEW new,
         hand' = [hand EXCEPT ![c] = new], NEW kind
  PROVE  /\ InHand(kind) \in Nat
         /\ InHand(kind)' = InHand(kind) + (IF new = kind THEN 1 ELSE 0)
                                         - (IF hand[c] = kind THEN 1 ELSE 0)
<1> DEFINE F == {d \in Conns : hand[d] = kind}
           G == {d \in Conns : hand'[d] = kind}
<1>1. IsFiniteSet(F)
  <2>1. F \in SUBSET Conns
    OBVIOUS
  <2> QED
    BY <2>1, FS_Subset DEF FinitelyMany
<1>2. G \ {c} = F \ {c} /\ (c \in G <=> new = kind) /\ (c \in F <=> hand[c] = kind)
  BY DEF TypeOK, ServiceTypeOK
<1>3. InHand(kind) = Cardinality(F) /\ InHand(kind)' = Cardinality(G)
  BY DEF InHand
<1> HIDE DEF F, G
<1> QED
  BY <1>1, <1>2, <1>3, DifferInOne

\* A peer that enters or leaves the map.
LEMMA MapCount ==
  ASSUME TypeOK, FinitelyMany, NEW p \in Peers, NEW x,
         peers' = [peers EXCEPT ![p] = x]
  PROVE  /\ MappedPeers \in Nat
         /\ MappedPeers' = MappedPeers + (IF x # NoConn THEN 1 ELSE 0)
                                       - (IF peers[p] # NoConn THEN 1 ELSE 0)
<1> DEFINE F == {q \in Peers : peers[q] # NoConn}
           G == {q \in Peers : peers'[q] # NoConn}
<1>1. IsFiniteSet(F)
  <2>1. F \in SUBSET Peers
    OBVIOUS
  <2> QED
    BY <2>1, FS_Subset DEF FinitelyMany
<1>2. G \ {p} = F \ {p} /\ (p \in G <=> x # NoConn) /\ (p \in F <=> peers[p] # NoConn)
  BY DEF TypeOK, ServiceTypeOK
<1>3. MappedPeers = Cardinality(F) /\ MappedPeers' = Cardinality(G)
  BY DEF MappedPeers
<1> HIDE DEF F, G
<1> QED
  BY <1>1, <1>2, <1>3, DifferInOne

LEMMA CountTypes ==
  ASSUME TypeOK, FinitelyMany, NEW kind
  PROVE  /\ InHand(kind) \in Nat /\ MappedPeers \in Nat
         /\ Cardinality(OfKind(events, kind)) \in Nat
         /\ Cardinality(OfKind(batch, kind)) \in Nat
         /\ Count(kind) \in Nat
<1>1. InHand(kind) \in Nat
  <2>1. {c \in Conns : hand[c] = kind} \in SUBSET Conns
    OBVIOUS
  <2> QED
    BY <2>1, FS_Subset, FS_CardinalityType DEF InHand, FinitelyMany
<1>2. MappedPeers \in Nat
  <2>1. {p \in Peers : peers[p] # NoConn} \in SUBSET Peers
    OBVIOUS
  <2> QED
    BY <2>1, FS_Subset, FS_CardinalityType DEF MappedPeers, FinitelyMany
<1>3. /\ Cardinality(OfKind(events, kind)) \in Nat
      /\ Cardinality(OfKind(batch, kind)) \in Nat
  BY OfKindIsFinite DEF TypeOK, ServiceTypeOK, IsEventQueue
<1> QED
  BY <1>1, <1>2, <1>3, CountParts

\* Events come from flows, and flows have made their connections.
LEMMA StepHaveFlows ==
  ASSUME TypeOK, EventsHaveFlows, [Next]_vars
  PROVE  EventsHaveFlows'
<1> SUFFICES ASSUME \A c \in Conns : stage'[c] = "new"
             PROVE  events' = << >> /\ batch' = << >>
  BY DEF EventsHaveFlows
<1>1. \A c \in Conns : stage[c] = "new" /\ stage'[c] = "new"
  BY NeverNewAgain
<1>2. events = << >> /\ batch = << >>
  BY <1>1 DEF EventsHaveFlows
<1>3. \A c \in Conns : ~Handshake(c) /\ ~Serve(c) /\ ~Read(c)
  BY <1>1
  DEF TypeOK, ServiceTypeOK, Handshake, Serve, InsertConnection, AnnounceInserted,
      ReadFails, RemoveConnection, AnnounceRemoved, Read, ReadDatagram
<1> QED
  BY <1>2, <1>3
  DEF Next, MainStep, Accept, ServeStep, Close, CloseConnection, ConnectToPeer,
      Bind, Subscribe, SubscribeEvents, InstallPacketRouter, SetPacketHandler,
      FetchConnection, StoreConnection, DrainEvents, ReceiveEvents, HandleConnected,
      HandleDisconnected, HandlePacket, ChangeReceiveStreams, ExitTree,
      DropService, vars, service_vars, node_vars

\* An event that goes from a hand to the channel is counted in either place.
LEMMA AnnouncedIsCounted ==
  ASSUME TypeOK, FinitelyMany, NEW c \in Conns, hand[c] \in ConnectionEvents,
         Send(hand[c], RemoteId[c]), ~lost', hand' = [hand EXCEPT ![c] = "none"],
         batch' = batch, NEW kind, kind # "none"
  PROVE  Count(kind)' = Count(kind)
<1> DEFINE e == [kind |-> hand[c], peer |-> RemoteId[c]]
<1>1. /\ e \in VoiceEvents /\ events \in Seq(VoiceEvents)
      /\ events' = Append(events, e) /\ e.kind = hand[c]
  BY ServiceAssumption DEF TypeOK, ServiceTypeOK, VoiceEvents, IsEventQueue, Send
<1>2. Cardinality(OfKind(events', kind))
        = Cardinality(OfKind(events, kind)) + (IF hand[c] = kind THEN 1 ELSE 0)
  BY <1>1, AppendOfKind
<1>3. InHand(kind)' = InHand(kind) - (IF hand[c] = kind THEN 1 ELSE 0)
  <2>1. InHand(kind)' = InHand(kind) + (IF "none" = kind THEN 1 ELSE 0)
                                     - (IF hand[c] = kind THEN 1 ELSE 0)
    BY HandCount
  <2> QED
    BY <2>1, CountTypes
<1>4. /\ Count(kind) = InHand(kind) + Cardinality(OfKind(events, kind))
                                    + Cardinality(OfKind(batch, kind))
      /\ Count(kind)' = InHand(kind)' + Cardinality(OfKind(events', kind))
                                      + Cardinality(OfKind(batch, kind))
  BY CountParts DEF Count, InHand, OfKind
<1> QED
  BY <1>2, <1>3, <1>4, CountTypes

\* The main thread counts the event it takes from the batch.
LEMMA HandledIsCounted ==
  ASSUME TypeOK, FinitelyMany, batch # << >>, batch' = Tail(batch),
         UNCHANGED <<hand, events>>, NEW kind
  PROVE  Count(kind)' = Count(kind) - (IF Head(batch).kind = kind THEN 1 ELSE 0)
<1>1. batch \in Seq(VoiceEvents)
  BY DEF TypeOK, IsEventQueue
<1>2. Cardinality(OfKind(batch, kind))
        = Cardinality(OfKind(batch', kind)) + (IF Head(batch).kind = kind THEN 1 ELSE 0)
  BY <1>1, TailOfKind
<1>3. Cardinality(OfKind(batch', kind)) \in Nat
  <2>1. batch' \in Seq(VoiceEvents)
    BY <1>1
  <2> QED
    BY <2>1, OfKindIsFinite
<1>4. /\ Count(kind) = InHand(kind) + Cardinality(OfKind(events, kind))
                                    + Cardinality(OfKind(batch, kind))
      /\ Count(kind)' = InHand(kind) + Cardinality(OfKind(events, kind))
                                     + Cardinality(OfKind(batch', kind))
  BY CountParts DEF Count, InHand, OfKind
<1> QED
  BY <1>2, <1>3, <1>4, CountTypes

LEMMA SameCount ==
  ASSUME NEW kind,
         \/ UNCHANGED <<hand, events, batch>>
         \/ TypeOK /\ FinitelyMany /\ DrainEvents
         \/ TypeOK /\ FinitelyMany /\ ~lost' /\ kind # "packet" /\ \E c \in Conns : Read(c)
  PROVE  Count(kind)' = Count(kind)
<1>1. CASE UNCHANGED <<hand, events, batch>>
  BY <1>1 DEF Count
<1>2. CASE TypeOK /\ FinitelyMany /\ DrainEvents
  <2>1. batch' = events /\ batch = << >> /\ events' = << >> /\ hand' = hand
    BY <1>2 DEF DrainEvents, ReceiveEvents
  <2>2. OfKind(<< >>, kind) = {}
    BY DEF OfKind
  <2>3. /\ Count(kind) = InHand(kind) + Cardinality(OfKind(events, kind))
                                      + Cardinality({})
        /\ Count(kind)' = InHand(kind) + Cardinality({})
                                       + Cardinality(OfKind(events, kind))
    BY <2>1, <2>2, CountParts DEF Count, InHand, OfKind
  <2> QED
    BY <1>2, <2>3, CountTypes, FS_EmptySet
<1>3. ASSUME NEW c \in Conns, Read(c), TypeOK, FinitelyMany, ~lost', kind # "packet"
      PROVE  Count(kind)' = Count(kind)
  <2> DEFINE e == [kind |-> "packet", peer |-> RemoteId[c]]
  <2>1. /\ e \in VoiceEvents /\ events \in Seq(VoiceEvents)
        /\ events' = Append(events, e) /\ UNCHANGED <<hand, batch>>
    BY <1>3, ServiceAssumption
    DEF TypeOK, ServiceTypeOK, VoiceEvents, IsEventQueue, Send, Read, ReadDatagram,
        node_vars
  <2>2. Cardinality(OfKind(events', kind)) = Cardinality(OfKind(events, kind)) + 0
    BY <1>3, <2>1, AppendOfKind
  <2>3. /\ Count(kind) = InHand(kind) + Cardinality(OfKind(events, kind))
                                      + Cardinality(OfKind(batch, kind))
        /\ Count(kind)' = InHand(kind) + Cardinality(OfKind(events', kind))
                                       + Cardinality(OfKind(batch, kind))
    BY <2>1, CountParts DEF Count, InHand, OfKind
  <2> QED
    BY <1>3, <2>2, <2>3, CountTypes
<1> QED
  BY <1>1, <1>2, <1>3

\* The flow that changes the map takes up the event that tells of it.
LEMMA ServeDrift ==
  ASSUME TypeOK, HandMatchesStage, FinitelyMany, NEW c \in Conns, ServeStep(c), ~lost'
  PROVE  Drift' = Drift
<1> USE DEF TypeOK, ServiceTypeOK, ServeStep
<1> DEFINE p == RemoteId[c]
<1>0. p \in Peers /\ c # NoConn /\ peers_connected \in Int
  BY ServiceAssumption
<1>1. /\ Count("connected") \in Nat /\ Count("disconnected") \in Nat
      /\ MappedPeers \in Nat
      /\ InHand("connected") \in Nat /\ InHand("disconnected") \in Nat
      /\ \A k : Cardinality(OfKind(events, k)) \in Nat
      /\ \A k : Cardinality(OfKind(batch, k)) \in Nat
  BY CountTypes
<1>2. ASSUME NEW k, UNCHANGED <<events, batch>>
      PROVE  Count(k)' = InHand(k)' + Cardinality(OfKind(events, k))
                                    + Cardinality(OfKind(batch, k))
  BY <1>2 DEF Count, InHand, OfKind
<1>3. ASSUME UNCHANGED <<events, batch, peers_connected>>, hand[c] = "none",
             NEW new, hand' = [hand EXCEPT ![c] = new],
             NEW x, peers' = [peers EXCEPT ![p] = x],
             (IF new = "connected" THEN 1 ELSE 0) - (IF new = "disconnected" THEN 1 ELSE 0)
               = (IF x # NoConn THEN 1 ELSE 0) - (IF peers[p] # NoConn THEN 1 ELSE 0)
      PROVE  Drift' = Drift
  <2>1. MappedPeers' = MappedPeers + (IF x # NoConn THEN 1 ELSE 0)
                                   - (IF peers[p] # NoConn THEN 1 ELSE 0)
    <3> HIDE DEF TypeOK, ServiceTypeOK, p
    <3>1. p \in Peers /\ peers' = [peers EXCEPT ![p] = x]
      BY <1>0, <1>3
    <3> QED
      BY <3>1, MapCount
  <2>2. \A k : InHand(k)' = InHand(k) + (IF new = k THEN 1 ELSE 0)
                                      - (IF hand[c] = k THEN 1 ELSE 0)
    BY <1>3, HandCount
  <2>3. /\ InHand("connected")'
             = InHand("connected") + (IF new = "connected" THEN 1 ELSE 0)
        /\ InHand("disconnected")'
             = InHand("disconnected") + (IF new = "disconnected" THEN 1 ELSE 0)
    BY <1>1, <1>3, <2>2
  <2>4. /\ Count("connected")'
             = Count("connected") + (IF new = "connected" THEN 1 ELSE 0)
        /\ Count("disconnected")'
             = Count("disconnected") + (IF new = "disconnected" THEN 1 ELSE 0)
    BY <1>1, <1>2, <1>3, <2>3, CountParts
  <2> QED
    BY <1>0, <1>1, <1>3, <2>1, <2>4 DEF Drift
<1>4. CASE InsertConnection(c)
  <2>1. /\ UNCHANGED <<events, batch, peers_connected>> /\ hand[c] = "none"
        /\ hand' = [hand EXCEPT ![c] = IF peers[p] = NoConn THEN "connected"
                                                            ELSE "replaced"]
        /\ peers' = [peers EXCEPT ![p] = c]
    BY <1>4 DEF InsertConnection, HandMatchesStage, node_vars
  <2>2. CASE peers[p] = NoConn
    <3>1. hand' = [hand EXCEPT ![c] = "connected"]
      BY <2>1, <2>2
    <3> QED
      BY <1>0, <1>3, <2>1, <2>2, <3>1
  <2>3. CASE peers[p] # NoConn
    <3>1. hand' = [hand EXCEPT ![c] = "replaced"]
      BY <2>1, <2>3
    <3>2. (IF "replaced" = "connected" THEN 1 ELSE 0)
            - (IF "replaced" = "disconnected" THEN 1 ELSE 0)
            = (IF c # NoConn THEN 1 ELSE 0) - (IF peers[p] # NoConn THEN 1 ELSE 0)
      BY <1>0, <2>3
    <3> HIDE DEF TypeOK, ServiceTypeOK, p
    <3> QED
      BY <1>3, <2>1, <3>1, <3>2
  <2> QED
    BY <2>2, <2>3
<1>5. CASE RemoveConnection(c) /\ peers[p] # NoConn
  BY <1>3, <1>5 DEF RemoveConnection, HandMatchesStage, node_vars
<1>6. CASE AnnounceInserted(c) \/ AnnounceRemoved(c)
  <2>1. /\ hand[c] \in ConnectionEvents /\ Send(hand[c], RemoteId[c])
        /\ hand' = [hand EXCEPT ![c] = "none"]
        /\ UNCHANGED <<peers, batch, peers_connected>>
    BY <1>6 DEF AnnounceInserted, AnnounceRemoved, HandMatchesStage, node_vars
  <2>2. Count("connected")' = Count("connected")
    BY <2>1, AnnouncedIsCounted
  <2>3. Count("disconnected")' = Count("disconnected")
    BY <2>1, AnnouncedIsCounted
  <2> QED
    BY <2>1, <2>2, <2>3 DEF Drift, MappedPeers
<1>7. CASE ReadFails(c) \/ (RemoveConnection(c) /\ peers[p] = NoConn)
  <2>1. UNCHANGED <<hand, events, batch, peers, peers_connected>>
    BY <1>7 DEF ReadFails, RemoveConnection, node_vars
  <2> QED
    BY <2>1, SameCount DEF Drift, MappedPeers
<1> QED
  BY <1>4, <1>5, <1>6, <1>7 DEF Serve

\* The main thread counts what it takes from the batch.
LEMMA HandleDrift ==
  ASSUME TypeOK, FinitelyMany, HandleConnected \/ HandleDisconnected
  PROVE  Drift' = Drift
<1>1. /\ batch # << >> /\ batch' = Tail(batch) /\ UNCHANGED <<hand, events, peers>>
      /\ peers_connected \in Int
  BY DEF HandleConnected, HandleDisconnected, service_vars, TypeOK
<1>2. \A k : Count(k)' = Count(k) - (IF Head(batch).kind = k THEN 1 ELSE 0)
  BY <1>1, HandledIsCounted
<1>3. /\ Count("connected")'
           = Count("connected") - (IF Head(batch).kind = "connected" THEN 1 ELSE 0)
      /\ Count("disconnected")'
           = Count("disconnected") - (IF Head(batch).kind = "disconnected" THEN 1 ELSE 0)
  BY <1>2
<1>4. /\ Count("connected") \in Nat /\ Count("disconnected") \in Nat
      /\ MappedPeers \in Nat /\ MappedPeers' = MappedPeers
  BY <1>1, CountTypes DEF MappedPeers
<1>5. peers_connected'
        = peers_connected + (IF Head(batch).kind = "connected" THEN 1 ELSE 0)
                          - (IF Head(batch).kind = "disconnected" THEN 1 ELSE 0)
  BY <1>1 DEF HandleConnected, HandleDisconnected, Counted
<1> QED
  BY <1>1, <1>3, <1>4, <1>5 DEF Drift

\* As long as no event is lost and no service dropped, no step makes a difference.
LEMMA StepDrift ==
  ASSUME TypeOK, HandMatchesStage, KnownConnectionsAreEstablished, EventsHaveFlows,
         FinitelyMany, [Next]_vars, ~lost', NoneGone'
  PROVE  Drift' = Drift
<1>1. ASSUME NEW c \in Conns, ServeStep(c) PROVE Drift' = Drift
  BY <1>1, ServeDrift
<1>2. CASE HandleConnected \/ HandleDisconnected
  BY <1>2, HandleDrift
<1>3. ASSUME UNCHANGED <<peers, peers_connected>>,
             \/ UNCHANGED <<hand, events, batch>> \/ DrainEvents
             \/ \E c \in Conns : Read(c)
      PROVE  Drift' = Drift
  <2>1. Count("connected")' = Count("connected")
    BY <1>3, SameCount
  <2>2. Count("disconnected")' = Count("disconnected")
    BY <1>3, SameCount
  <2> QED
    BY <1>3, <2>1, <2>2 DEF Drift, MappedPeers
<1>4. CASE HandlePacket
  <2>1. /\ batch # << >> /\ batch' = Tail(batch) /\ UNCHANGED <<hand, events, peers>>
        /\ Head(batch).kind = "packet" /\ peers_connected' = peers_connected
    BY <1>4 DEF HandlePacket, service_vars
  <2>2. \A k : Count(k)' = Count(k) - (IF Head(batch).kind = k THEN 1 ELSE 0)
    BY <2>1, HandledIsCounted
  <2>3. Count("connected")' = Count("connected") - 0
    BY <2>1, <2>2
  <2>4. Count("disconnected")' = Count("disconnected") - 0
    BY <2>1, <2>2
  <2>5. Count("connected") \in Nat /\ Count("disconnected") \in Nat
    BY CountTypes
  <2>6. MappedPeers' = MappedPeers
    BY <2>1 DEF MappedPeers
  <2> QED
    BY <2>1, <2>3, <2>4, <2>5, <2>6 DEF Drift
<1>5. CASE ExitTree
  <2> USE DEF TypeOK, ServiceTypeOK
  <2>1. \A c \in Conns : stage[c] = "new"
    BY <1>5 DEF ExitTree, DropService, NoneGone, Gone
  <2>2. events = << >>
    BY <2>1 DEF EventsHaveFlows
  <2>3. \A c \in Conns : hand[c] = "none"
    BY <2>1 DEF HandMatchesStage
  <2>4. \A p \in Peers : peers[p] = NoConn
    BY <2>1 DEF KnownConnectionsAreEstablished, NeverNew
  <2>5. hand' = hand /\ peers' = peers /\ UNCHANGED <<events, batch, peers_connected>>
    BY <1>5, <2>2, <2>3, <2>4 DEF ExitTree, DropService
  <2> QED
    BY <1>3, <2>5
<1>6. ASSUME NEW c \in Conns, Read(c) PROVE Drift' = Drift
  <2>1. UNCHANGED <<peers, peers_connected>>
    BY <1>6 DEF Read, ReadDatagram, node_vars
  <2> QED
    BY <1>3, <1>6, <2>1
<1>7. CASE DrainEvents
  <2>1. UNCHANGED <<peers, peers_connected>>
    BY <1>7 DEF DrainEvents, ReceiveEvents
  <2> QED
    BY <1>3, <1>7, <2>1
<1>8. CASE UNCHANGED <<hand, events, batch, peers, peers_connected>>
  BY <1>3, <1>8
<1> QED
  BY <1>1, <1>2, <1>4, <1>5, <1>6, <1>7, <1>8
  DEF Next, MainStep, Accept, Handshake, Close, CloseConnection, ConnectToPeer,
      Bind, Subscribe, SubscribeEvents, InstallPacketRouter, SetPacketHandler,
      FetchConnection, StoreConnection, ChangeReceiveStreams, vars, service_vars,
      node_vars

\* The inductive invariant behind PeersConnectedIsAccounted.
AccountInv ==
  /\ TypeOK /\ HandMatchesStage
  /\ KnownConnectionsAreEstablished
  /\ EventsHaveFlows
  /\ (~lost /\ NoneGone) => Drift = 0

LEMMA InitAccount == ASSUME FinitelyMany, Init PROVE AccountInv
<1>1. TypeOK /\ HandMatchesStage /\ KnownConnectionsAreEstablished
  BY InitType, InitFollows DEF RouterFollowsMap
<1>2. EventsHaveFlows
  BY DEF Init, ServiceInit, EventsHaveFlows
<1>3. MappedPeers = 0
  <2>1. {p \in Peers : peers[p] # NoConn} = {}
    BY DEF Init, ServiceInit
  <2> QED
    BY <2>1, FS_EmptySet DEF MappedPeers
<1>4. ASSUME NEW k \in ConnectionEvents PROVE Count(k) = 0
  <2>1. /\ {c \in Conns : hand[c] = k} = {}
        /\ OfKind(events, k) = {} /\ OfKind(batch, k) = {}
    BY DEF Init, ServiceInit, OfKind
  <2>2. Count(k) = Cardinality({}) + Cardinality({}) + Cardinality({})
    BY <2>1, CountParts DEF InHand
  <2> QED
    BY <2>2, FS_EmptySet
<1>5. Drift = 0
  <2>1. Count("connected") = 0 /\ Count("disconnected") = 0 /\ peers_connected = 0
    BY <1>4 DEF Init
  <2> QED
    BY <1>3, <2>1 DEF Drift
<1> QED
  BY <1>1, <1>2, <1>5 DEF AccountInv

LEMMA StepAccount == ASSUME FinitelyMany, AccountInv, [Next]_vars PROVE AccountInv'
<1> USE DEF AccountInv
<1>1. TypeOK' /\ HandMatchesStage' /\ KnownConnectionsAreEstablished'
  BY StepType, StepHand, StepEstablished
<1>2. EventsHaveFlows'
  BY StepHaveFlows
<1>3. ASSUME ~lost', NoneGone' PROVE Drift' = 0
  <2>1. NoneGone
    BY <1>3, NeverNewAgain DEF NoneGone, Gone
  <2>2. ~lost
    BY <1>3
    DEF Next, MainStep, Accept, ServeStep, Serve, Handshake, InsertConnection,
        AnnounceInserted, ReadFails, RemoveConnection, AnnounceRemoved, Send, Close,
        CloseConnection, Read, ReadDatagram, ConnectToPeer, Bind, Subscribe,
        SubscribeEvents, InstallPacketRouter, SetPacketHandler, FetchConnection,
        StoreConnection, DrainEvents, ReceiveEvents, HandleConnected,
        HandleDisconnected, HandlePacket, ChangeReceiveStreams, ExitTree,
        DropService, vars, service_vars
  <2> QED
    BY <1>3, <2>1, <2>2, StepDrift
<1> QED
  BY <1>1, <1>2, <1>3

\* The peers_connected statistic never drifts: what it lacks against the peer map,
\* or has too much, is exactly the events on their way, in the hand of a flow, in
\* the channel or drained, whatever replaces and removes what, as long as the
\* channel lost no event and no service was dropped.
THEOREM StatisticNeverDrifts ==
  ASSUME FinitelyMany
  PROVE  Spec => []PeersConnectedIsAccounted
<1>1. AccountInv => PeersConnectedIsAccounted
  <2> SUFFICES ASSUME AccountInv, ~lost, NoneGone
               PROVE  peers_connected + Count("connected") - Count("disconnected")
                        = Cardinality({p \in Peers : peers[p] # NoConn})
    BY DEF PeersConnectedIsAccounted, NoneGone
  <2>1. /\ Count("connected") \in Nat /\ Count("disconnected") \in Nat
        /\ MappedPeers \in Nat /\ peers_connected \in Int
    BY CountTypes DEF AccountInv, TypeOK
  <2>2. peers_connected + Count("connected") - Count("disconnected") - MappedPeers = 0
    BY DEF AccountInv, Drift
  <2>3. peers_connected + Count("connected") - Count("disconnected") = MappedPeers
    BY <2>1, <2>2
  <2> QED
    BY <2>3 DEF MappedPeers
<1> QED
  BY InitAccount, StepAccount, <1>1, PTL DEF Spec
=============================================================================
