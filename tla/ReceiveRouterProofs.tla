------------------------- MODULE ReceiveRouterProofs -------------------------
(***************************************************************************)
(* Proofs about ReceiveRouter, for any number of peers, datagram tasks,    *)
(* packets and streams and any capacity of the backlog.                    *)
(***************************************************************************)
EXTENDS ReceiveRouter, FiniteSetTheorems, TLAPS

Ingresses == [sink : Streams \cup {None}, pending : Seq(PacketIds)]

\* A task that is inside route holds a packet of its own; one that has chosen a
\* sink has one to enqueue into.
HandInv ==
  \A t \in Tasks :
    /\ routing[t].at # "idle" => received[t] \in 1 .. PacketsOf[t]
    /\ routing[t].at = "enqueuing" => routing[t].sink # None
    /\ routing[t].at = "idle" => routing[t] = IdleTask

\* The main thread flushes into a stream.
FlushInv == flushing.rest # << >> => flushing.sink # None

RouterInv == TypeOK /\ HandInv /\ FlushInv /\ KnownStreamIsFed

LEMMA StreamsAreNumbers == Streams \subseteq Nat /\ None \notin Streams /\ OwnStream \in Streams
BY RouterAssumption DEF Streams, OwnStream

LEMMA HeldPacket ==
  ASSUME NEW t \in Tasks, received[t] \in 1 .. PacketsOf[t]
  PROVE  Current(t) \in PacketIds
BY DEF Current, PacketIds

\* What Queued leaves of a backlog within its capacity is within it again.
LEMMA QueuedType ==
  ASSUME NEW pending \in Seq(PacketIds), Len(pending) <= PendingCapacity,
         NEW id \in PacketIds
  PROVE  Queued(pending, id) \in Seq(PacketIds) /\ Len(Queued(pending, id)) <= PendingCapacity
<1>1. CASE Len(pending) = PendingCapacity
  <2>1. pending # << >>
    BY <1>1, RouterAssumption
  <2>2. Tail(pending) \in Seq(PacketIds) /\ Len(Tail(pending)) = Len(pending) - 1
    BY <2>1
  <2> QED
    BY <1>1, <2>2, RouterAssumption DEF Queued
<1>2. CASE Len(pending) # PendingCapacity
  BY <1>2, RouterAssumption DEF Queued
<1> QED
  BY <1>1, <1>2

LEMMA RouterInitInv == Init => RouterInv
<1> SUFFICES ASSUME Init PROVE RouterInv
  OBVIOUS
<1>1. NoIngress \in Ingresses /\ Len(NoIngress.pending) <= PendingCapacity
  BY RouterAssumption DEF NoIngress, Ingresses
<1>2. TypeOK
  BY <1>1, RouterAssumption DEF Init, TypeOK, IdleTask, Ingresses, NoIngress
<1> QED
  BY <1>2 DEF Init, RouterInv, HandInv, FlushInv, KnownStreamIsFed, IdleTask

\* The steps of route.
LEMMA RouteInv ==
  ASSUME RouterInv, NEW t \in Tasks, Route(t)
  PROVE  RouterInv'
<1> USE DEF RouterInv
<1>0. PeerOf[t] \in Peers /\ PacketsOf[t] \in Nat /\ received[t] \in Nat
  BY RouterAssumption DEF TypeOK
<1>1. CASE ReadDefaultSink(t)
  <2>1. routing' = [routing EXCEPT ![t] = [at |-> "looking", sink |-> default_sink]]
    BY <1>1 DEF ReadDefaultSink
  <2>2. received' = [received EXCEPT ![t] = @ + 1] /\ received[t] < PacketsOf[t]
    BY <1>1 DEF ReadDefaultSink
  <2>3. UNCHANGED <<ingress, inbox, waited, Unrouted>>
    BY <1>1 DEF ReadDefaultSink
  <2>4. default_sink \in Streams \cup {None}
    BY StreamsAreNumbers DEF TypeOK
  <2>5. TypeOK'
    BY <1>0, <2>1, <2>2, <2>3, <2>4 DEF TypeOK, Unrouted
  <2>6. HandInv'
    BY <1>0, <2>1, <2>2 DEF HandInv, TypeOK
  <2> QED
    BY <2>3, <2>5, <2>6 DEF Unrouted, FlushInv, KnownStreamIsFed
<1>2. CASE RouteToSink(t)
  <2>1. /\ routing' = [routing EXCEPT ![t] = [at |-> "enqueuing", sink |-> SinkFor(t)]]
        /\ SinkFor(t) # None /\ routing[t].at = "looking"
    BY <1>2 DEF RouteToSink
  <2>2. UNCHANGED <<ingress, received, inbox, waited, Unrouted>>
    BY <1>2 DEF RouteToSink
  <2>3. SinkFor(t) \in Streams \cup {None}
    BY <1>0 DEF SinkFor, TypeOK
  <2>4. TypeOK'
    BY <2>1, <2>2, <2>3 DEF TypeOK, Unrouted
  <2>5. HandInv'
    BY <2>1, <2>2 DEF HandInv, TypeOK
  <2> QED
    BY <2>2, <2>4, <2>5 DEF Unrouted, FlushInv, KnownStreamIsFed
<1>3. CASE RouteToPending(t)
  <2> DEFINE p == PeerOf[t]
  <2> DEFINE queued == Queued(ingress[p].pending, Current(t))
  <2>1. ingress' = [ingress EXCEPT ![p].pending = queued] /\ SinkFor(t) = None
    BY <1>3 DEF RouteToPending
  <2>2. routing' = [routing EXCEPT ![t] = IdleTask] /\ waited' = waited \cup {Current(t)}
    BY <1>3 DEF RouteToPending
  <2>3. UNCHANGED <<received, inbox, Unrouted>>
    BY <1>3 DEF RouteToPending
  <2>4. Current(t) \in PacketIds
    BY <1>3, HeldPacket DEF RouteToPending, HandInv
  <2>5. queued \in Seq(PacketIds) /\ Len(queued) <= PendingCapacity
    BY <1>0, <2>4, QueuedType DEF TypeOK
  <2>6. /\ ingress' \in [Peers -> Ingresses]
        /\ \A q \in Peers : Len(ingress'[q].pending) <= PendingCapacity
    <3> DEFINE entry == [sink |-> ingress[p].sink, pending |-> queued]
    <3>1. ingress[p] \in Ingresses
      BY <1>0 DEF TypeOK, Ingresses
    <3>2. entry \in Ingresses /\ entry = [ingress[p] EXCEPT !.pending = queued]
      BY <2>5, <3>1 DEF Ingresses
    <3>3. entry.pending = queued
      OBVIOUS
    <3>4. ingress' = [ingress EXCEPT ![p] = entry]
      BY <2>1, <3>2
    <3> HIDE DEF entry
    <3> QED
      BY <1>0, <2>5, <3>2, <3>3, <3>4 DEF TypeOK, Ingresses
  <2>7. TypeOK'
    BY <2>2, <2>3, <2>4, <2>6 DEF TypeOK, Unrouted, Ingresses, IdleTask
  <2>8. HandInv'
    BY <2>2, <2>3 DEF HandInv, TypeOK, IdleTask
  \* A peer with a stream has a sink, so it is not the one the packet waits for.
  <2>9. ingress[p].sink = None
    BY <2>1 DEF SinkFor
  <2>10. receive_streams[p] = None
    BY <1>0, <2>9, StreamsAreNumbers DEF KnownStreamIsFed, TypeOK
  <2>11. KnownStreamIsFed'
    BY <1>0, <2>1, <2>3, <2>10 DEF KnownStreamIsFed, Unrouted, TypeOK
  <2> QED
    BY <2>3, <2>7, <2>8, <2>11 DEF Unrouted, FlushInv
<1>4. CASE EnqueueRouted(t)
  <2> DEFINE s == routing[t].sink
  <2>1. routing' = [routing EXCEPT ![t] = IdleTask]
    BY <1>4 DEF EnqueueRouted
  <2>2. inbox' = [inbox EXCEPT ![s] = Append(@, Current(t))]
    BY <1>4 DEF EnqueueRouted
  <2>3. UNCHANGED <<ingress, received, waited, Unrouted>>
    BY <1>4 DEF EnqueueRouted
  <2>4. Current(t) \in PacketIds /\ s \in Streams
    BY <1>4, HeldPacket DEF EnqueueRouted, HandInv, TypeOK
  <2>5. inbox' \in [Streams -> Seq(PacketIds)]
    BY <2>2, <2>4 DEF TypeOK
  <2>6. TypeOK'
    BY <2>1, <2>3, <2>5 DEF TypeOK, Unrouted, IdleTask
  <2>7. HandInv'
    BY <2>1, <2>3 DEF HandInv, TypeOK, IdleTask
  <2> QED
    BY <2>3, <2>6, <2>7 DEF Unrouted, FlushInv, KnownStreamIsFed
<1> QED
  BY <1>1, <1>2, <1>3, <1>4 DEF Route

\* The calls of the main thread.
LEMMA MainInv ==
  ASSUME RouterInv, Main
  PROVE  RouterInv'
<1> USE DEF RouterInv, Unmoved
<1>1. ASSUME NEW p \in Peers, EnsureReceiveStream(p) PROVE RouterInv'
  <2> DEFINE s == made + 1
  <2>1. /\ made' = s /\ receive_streams' = [receive_streams EXCEPT ![p] = s]
        /\ ingress' = [ingress EXCEPT ![p] = [sink |-> s, pending |-> << >>]]
        /\ flushing' = [sink |-> s, rest |-> ingress[p].pending]
    BY <1>1 DEF EnsureReceiveStream, Registered, RegisteredSink
  <2>2. s \in 1 .. MaxStreams /\ s \in Streams /\ s # None
    BY <1>1, RouterAssumption DEF EnsureReceiveStream, TypeOK, Streams
  <2>3. calls' \in 0 .. MaxCalls
    BY <1>1, RouterAssumption DEF EnsureReceiveStream, Called, TypeOK
  <2>4. UNCHANGED <<default_sink, inbox, detached, received, routing, waited>>
    BY <1>1 DEF EnsureReceiveStream
  <2>5. /\ ingress' \in [Peers -> Ingresses]
        /\ \A q \in Peers : Len(ingress'[q].pending) <= PendingCapacity
    BY <1>1, <2>1, <2>2, RouterAssumption DEF TypeOK, Ingresses
  <2>6. TypeOK'
    BY <1>1, <2>1, <2>2, <2>3, <2>4, <2>5 DEF TypeOK, Ingresses
  <2>7. HandInv'
    BY <2>4 DEF HandInv
  <2>8. FlushInv'
    BY <2>1, <2>2 DEF FlushInv
  <2>9. KnownStreamIsFed'
    BY <1>1, <2>1 DEF KnownStreamIsFed, TypeOK
  <2> QED
    BY <2>6, <2>7, <2>8, <2>9
<1>2. ASSUME NEW p \in Peers, RemoveReceiveStream(p) PROVE RouterInv'
  <2>1. /\ ingress' = [ingress EXCEPT ![p] = [sink |-> None, pending |-> << >>]]
        /\ receive_streams' = [receive_streams EXCEPT ![p] = None]
        /\ UNCHANGED <<default_sink, flushing, made, inbox, received, routing, waited>>
    BY <1>2 DEF RemoveReceiveStream, Unregistered, NoIngress
  <2>2. calls' \in 0 .. MaxCalls
    BY <1>2, RouterAssumption DEF RemoveReceiveStream, Called, TypeOK
  <2>3. /\ ingress' \in [Peers -> Ingresses]
        /\ \A q \in Peers : Len(ingress'[q].pending) <= PendingCapacity
    BY <1>2, <2>1, RouterAssumption DEF TypeOK, Ingresses
  <2>4. detached' \in [Streams -> Nat \cup {None}]
    <3>1. \A s \in Streams : Len(inbox[s]) \in Nat
      BY DEF TypeOK
    <3> QED
      BY <1>2, <3>1 DEF RemoveReceiveStream, DetachedNow, TypeOK
  <2>5. TypeOK'
    BY <1>2, <2>1, <2>2, <2>3, <2>4 DEF TypeOK, Ingresses
  <2>6. KnownStreamIsFed'
    BY <1>2, <2>1 DEF KnownStreamIsFed, TypeOK
  <2> QED
    BY <2>1, <2>5, <2>6 DEF HandInv, FlushInv
<1>3. CASE FlushOne
  <2> DEFINE s == flushing.sink
  <2>1. /\ flushing.rest # << >> /\ flushing' = [flushing EXCEPT !.rest = Tail(@)]
        /\ inbox' = [inbox EXCEPT ![s] = Append(@, Head(flushing.rest))]
        /\ UNCHANGED <<default_sink, ingress, receive_streams, made, calls, detached,
                       received, routing, waited>>
    BY <1>3 DEF FlushOne
  <2>2. s \in Streams /\ s # None /\ flushing.rest \in Seq(PacketIds)
    BY <2>1 DEF FlushInv, TypeOK
  <2>3. Head(flushing.rest) \in PacketIds /\ Tail(flushing.rest) \in Seq(PacketIds)
    BY <2>1, <2>2
  <2>4. inbox' \in [Streams -> Seq(PacketIds)]
    BY <2>1, <2>2, <2>3 DEF TypeOK
  <2>5. flushing' \in [sink : Streams \cup {None}, rest : Seq(PacketIds)] /\ flushing'.sink = s
    BY <2>1, <2>3 DEF TypeOK
  <2>6. TypeOK'
    BY <2>1, <2>4, <2>5 DEF TypeOK
  <2> QED
    BY <2>1, <2>2, <2>5, <2>6 DEF HandInv, FlushInv, KnownStreamIsFed
<1>4. CASE SetReceiveStream \/ ClearReceiveStream
  <2>1. UNCHANGED <<ingress, receive_streams, flushing, made, inbox, received, routing, waited>>
    BY <1>4 DEF SetReceiveStream, ClearReceiveStream
  <2>2. calls' \in 0 .. MaxCalls
    BY <1>4, RouterAssumption DEF SetReceiveStream, ClearReceiveStream, Called, TypeOK
  <2>3. default_sink' \in {OwnStream, None}
    BY <1>4 DEF SetReceiveStream, ClearReceiveStream
  <2>4. detached' \in [Streams -> Nat \cup {None}]
    <3>1. Len(inbox[OwnStream]) \in Nat
      BY StreamsAreNumbers DEF TypeOK
    <3>2. \E d \in Nat \cup {None} : detached' = [detached EXCEPT ![OwnStream] = d]
      BY <1>4, <3>1 DEF SetReceiveStream, ClearReceiveStream, DetachedNow
    <3> QED
      BY <3>2 DEF TypeOK
  <2>5. TypeOK'
    BY <2>1, <2>2, <2>3, <2>4 DEF TypeOK
  <2> QED
    BY <2>1, <2>5 DEF HandInv, FlushInv, KnownStreamIsFed
<1>5. CASE ExitTree
  <2>1. /\ receive_streams' = [p \in Peers |-> None]
        /\ UNCHANGED <<default_sink, ingress, flushing, made, inbox, detached,
                       received, routing, waited>>
    BY <1>5 DEF ExitTree
  <2>2. calls' \in 0 .. MaxCalls
    BY <1>5, RouterAssumption DEF ExitTree, Called, TypeOK
  <2>3. TypeOK'
    BY <2>1, <2>2 DEF TypeOK
  <2> QED
    BY <2>1, <2>3 DEF HandInv, FlushInv, KnownStreamIsFed
<1> QED
  BY <1>1, <1>2, <1>3, <1>4, <1>5 DEF Main

LEMMA RouterStepInv == RouterInv /\ [Next]_vars => RouterInv'
<1> SUFFICES ASSUME RouterInv, [Next]_vars PROVE RouterInv'
  OBVIOUS
<1>1. ASSUME NEW t \in Tasks, Route(t) PROVE RouterInv'
  BY <1>1, RouteInv
<1>2. CASE Main
  BY <1>2, MainInv
<1>3. CASE UNCHANGED vars
  BY <1>3 DEF vars, RouterInv, TypeOK, HandInv, FlushInv, KnownStreamIsFed
<1> QED
  BY <1>1, <1>2, <1>3 DEF Next

\* A backlog never exceeds its capacity, a packet goes only where there is a
\* stream, and all else has its type.
THEOREM TypeCorrect == Spec => []TypeOK
<1>1. RouterInv => TypeOK
  BY DEF RouterInv
<1> QED
  BY RouterInitInv, RouterStepInv, <1>1, PTL DEF Spec

\* Whatever tasks route meanwhile, and however often streams are made, removed and
\* forgotten by exit_tree, the stream the node has for a peer is the one the router
\* feeds, and nothing waits in the backlog of such a peer.
THEOREM KnownStreamsAreFed == Spec => []KnownStreamIsFed
<1>1. RouterInv => KnownStreamIsFed
  BY DEF RouterInv
<1> QED
  BY RouterInitInv, RouterStepInv, <1>1, PTL DEF Spec

-----------------------------------------------------------------------------
\* Streams taken out of the router

\* Tasks that are about to enqueue into s, or have it as the default sink they read.
Holding(s) == {t \in Tasks : routing[t].sink = s}

\* Every peer's sink is a stream of its own, and the backlog is flushed into one that
\* has not been taken out.
SinksInv ==
  /\ \A p \in Peers : ingress[p].sink # None => ingress[p].sink \in 1 .. made
  /\ \A p, q \in Peers :
       ingress[p].sink # None /\ ingress[p].sink = ingress[q].sink => p = q
  /\ \A s \in Streams : s > made => detached[s] = None
  /\ flushing.rest # << >> => detached[flushing.sink] = None

\* No lookup leads to a detached stream any more, and what tasks hold for it is
\* within what the property allows.
DetachedInv ==
  \A s \in Streams : detached[s] # None =>
    /\ default_sink # s
    /\ \A p \in Peers : ingress[p].sink # s
    /\ Len(inbox[s]) + Cardinality(Holding(s)) <= detached[s] + Cardinality(Tasks)

StragglerInv == RouterInv /\ SinksInv /\ DetachedInv

LEMMA HoldingIsFinite ==
  ASSUME NEW S \in SUBSET Tasks
  PROVE  IsFiniteSet(S) /\ Cardinality(S) \in Nat /\ Cardinality(S) <= Cardinality(Tasks)
BY RouterAssumption, FS_Subset, FS_CardinalityType

LEMMA StragglerInitInv == Init => StragglerInv
<1> SUFFICES ASSUME Init PROVE StragglerInv
  OBVIOUS
<1>1. RouterInv
  BY RouterInitInv
<1>2. \A s \in Streams : detached[s] = None
  BY DEF Init
<1>3. SinksInv
  BY <1>2 DEF Init, SinksInv, NoIngress
<1>4. DetachedInv
  BY <1>2 DEF DetachedInv
<1> QED
  BY <1>1, <1>3, <1>4 DEF StragglerInv

\* route hands a stream that was taken out to no further task.
LEMMA RouteStragglers ==
  ASSUME StragglerInv, NEW t \in Tasks, Route(t)
  PROVE  SinksInv' /\ DetachedInv'
<1> USE DEF StragglerInv
<1>1. UNCHANGED <<default_sink, made, detached, flushing>>
  BY DEF Route, ReadDefaultSink, RouteToSink, RouteToPending, EnqueueRouted, Unrouted
<1>2. \A p \in Peers : ingress'[p].sink = ingress[p].sink
  <2>1. ingress \in [Peers -> Ingresses] /\ PeerOf[t] \in Peers
    BY RouterAssumption DEF RouterInv, TypeOK, Ingresses
  <2>2. CASE RouteToPending(t)
    <3> DEFINE q == PeerOf[t]
    <3> DEFINE entry == [ingress[q] EXCEPT !.pending = Queued(@, Current(t))]
    <3>1. ingress' = [ingress EXCEPT ![q] = entry]
      BY <2>2 DEF RouteToPending
    <3>2. entry.sink = ingress[q].sink
      BY <2>1 DEF Ingresses
    <3> HIDE DEF entry
    <3> QED
      BY <2>1, <3>1, <3>2
  <2>3. CASE ~RouteToPending(t)
    BY <2>3 DEF Route, ReadDefaultSink, RouteToSink, EnqueueRouted
  <2> QED
    BY <2>2, <2>3
<1>3. SinksInv'
  BY <1>1, <1>2 DEF SinksInv
<1>4. ASSUME NEW s \in Streams, detached[s] # None
      PROVE  Len(inbox'[s]) + Cardinality(Holding(s)') <= detached[s] + Cardinality(Tasks)
  <2>1. /\ Holding(s) \in SUBSET Tasks /\ Holding(s)' \in SUBSET Tasks
        /\ s # None /\ Len(inbox[s]) \in Nat /\ detached[s] \in Nat
    BY <1>4, StreamsAreNumbers DEF Holding, RouterInv, TypeOK
  <2>2. /\ default_sink # s /\ ingress[PeerOf[t]].sink # s
        /\ Len(inbox[s]) + Cardinality(Holding(s)) <= detached[s] + Cardinality(Tasks)
    BY <1>4, RouterAssumption DEF DetachedInv
  <2>3. ASSUME inbox'[s] = inbox[s], Holding(s)' \subseteq Holding(s)
        PROVE  Len(inbox'[s]) + Cardinality(Holding(s)') <= detached[s] + Cardinality(Tasks)
    <3>1. Cardinality(Holding(s)') <= Cardinality(Holding(s))
      BY <2>1, <2>3, HoldingIsFinite, FS_Subset
    <3> QED
      BY <2>1, <2>2, <2>3, <3>1, HoldingIsFinite, RouterAssumption, FS_CardinalityType
  <2>4. CASE ReadDefaultSink(t)
    <3>1. inbox'[s] = inbox[s] /\ Holding(s)' \subseteq Holding(s)
      BY <2>2, <2>4 DEF ReadDefaultSink, Holding, RouterInv, TypeOK
    <3> QED
      BY <2>3, <3>1
  <2>5. CASE RouteToSink(t)
    <3>1. inbox'[s] = inbox[s] /\ Holding(s)' \subseteq Holding(s)
      BY <2>2, <2>5 DEF RouteToSink, SinkFor, Holding, RouterInv, TypeOK
    <3> QED
      BY <2>3, <3>1
  <2>6. CASE RouteToPending(t)
    <3>1. inbox'[s] = inbox[s] /\ Holding(s)' \subseteq Holding(s)
      BY <2>1, <2>6 DEF RouteToPending, IdleTask, Holding, RouterInv, TypeOK
    <3> QED
      BY <2>3, <3>1
  <2>7. CASE EnqueueRouted(t)
    <3>1. /\ routing' = [routing EXCEPT ![t] = IdleTask]
          /\ inbox' = [inbox EXCEPT ![routing[t].sink] = Append(@, Current(t))]
      BY <2>7 DEF EnqueueRouted
    <3>2. CASE routing[t].sink = s
      <4>1. Holding(s)' = Holding(s) \ {t} /\ t \in Holding(s)
        BY <2>1, <3>1, <3>2 DEF Holding, IdleTask, RouterInv, TypeOK
      <4>2. Cardinality(Holding(s)') = Cardinality(Holding(s)) - 1
        BY <2>1, <4>1, HoldingIsFinite, FS_RemoveElement
      <4>3. inbox'[s] = Append(inbox[s], Current(t)) /\ inbox[s] \in Seq(PacketIds)
        BY <3>1, <3>2 DEF RouterInv, TypeOK
      <4>4. Current(t) \in PacketIds
        BY <2>7, HeldPacket DEF EnqueueRouted, RouterInv, HandInv
      <4>5. Len(inbox'[s]) = Len(inbox[s]) + 1
        BY <4>3, <4>4
      <4>6. Cardinality(Holding(s)) \in Nat /\ Cardinality(Tasks) \in Nat
        BY <2>1, HoldingIsFinite, RouterAssumption, FS_CardinalityType
      <4> QED
        BY <2>1, <2>2, <4>2, <4>5, <4>6
    <3>3. CASE routing[t].sink # s
      <4>1. inbox'[s] = inbox[s] /\ Holding(s)' \subseteq Holding(s)
        BY <2>1, <3>1, <3>3 DEF IdleTask, Holding, RouterInv, TypeOK
      <4> QED
        BY <2>3, <4>1
    <3> QED
      BY <3>2, <3>3
  <2> QED
    BY <2>4, <2>5, <2>6, <2>7 DEF Route
<1>5. DetachedInv'
  BY <1>1, <1>2, <1>4 DEF DetachedInv
<1> QED
  BY <1>3, <1>5

\* Streams are taken out with their sink, made with a number of their own, and the
\* backlog is flushed before any is taken out.
LEMMA MainStragglers ==
  ASSUME StragglerInv, Main
  PROVE  SinksInv' /\ DetachedInv'
<1> USE DEF StragglerInv, Unmoved
<1>0. \A s \in Streams :
        /\ Holding(s) \in SUBSET Tasks /\ Cardinality(Holding(s)) <= Cardinality(Tasks)
        /\ Cardinality(Holding(s)) \in Nat /\ Len(inbox[s]) \in Nat
  BY HoldingIsFinite DEF Holding, RouterInv, TypeOK
<1>t. Cardinality(Tasks) \in Nat
  BY RouterAssumption, FS_CardinalityType
<1>r. routing' = routing /\ \A s : Holding(s)' = Holding(s)
  BY DEF Main, EnsureReceiveStream, RemoveReceiveStream, FlushOne, SetReceiveStream,
         ClearReceiveStream, ExitTree, Holding
<1>1. ASSUME NEW p \in Peers, EnsureReceiveStream(p) PROVE SinksInv' /\ DetachedInv'
  <2> DEFINE new == made + 1
  <2>1. /\ made' = new /\ flushing' = [sink |-> new, rest |-> ingress[p].pending]
        /\ ingress' = [ingress EXCEPT ![p] = [sink |-> new, pending |-> << >>]]
        /\ UNCHANGED <<default_sink, inbox, detached>>
    BY <1>1 DEF EnsureReceiveStream, Registered, RegisteredSink
  <2>2. /\ made \in Nat /\ new \in Streams /\ new # OwnStream /\ new # None
        /\ new > made /\ detached[new] = None
    BY <1>1, RouterAssumption
    DEF EnsureReceiveStream, Streams, OwnStream, SinksInv, RouterInv, TypeOK
  <2>3. ingress \in [Peers -> Ingresses]
    BY DEF RouterInv, TypeOK, Ingresses
  <2>4. \A q \in Peers : ingress'[q].sink = IF q = p THEN new ELSE ingress[q].sink
    BY <1>1, <2>1, <2>3
  <2>5. \A q \in Peers : ingress'[q].sink # None => ingress'[q].sink \in 1 .. new
    BY <2>2, <2>4 DEF SinksInv
  <2>6. \A q, r \in Peers :
          ingress'[q].sink # None /\ ingress'[q].sink = ingress'[r].sink => q = r
    BY <2>2, <2>4 DEF SinksInv
  <2>7. ASSUME NEW s \in Streams, s > new PROVE detached[s] = None
    <3>1. s > made
      BY <2>2, <2>7, StreamsAreNumbers
    <3> QED
      BY <3>1 DEF SinksInv
  <2>8. SinksInv'
    BY <2>1, <2>2, <2>5, <2>6, <2>7 DEF SinksInv
  <2>9. DetachedInv'
    BY <1>r, <2>1, <2>2, <2>4 DEF DetachedInv
  <2> QED
    BY <2>8, <2>9
<1>2. ASSUME NEW p \in Peers, RemoveReceiveStream(p) PROVE SinksInv' /\ DetachedInv'
  <2> DEFINE s == receive_streams[p]
  <2>1. /\ flushing.rest = << >>
        /\ ingress' = [ingress EXCEPT ![p] = [sink |-> None, pending |-> << >>]]
        /\ UNCHANGED <<default_sink, flushing, made, inbox>>
        /\ detached' = IF s = None THEN detached ELSE [detached EXCEPT ![s] = Len(inbox[s])]
    BY <1>2 DEF RemoveReceiveStream, Called, DetachedNow, Unregistered, NoIngress
  <2>2. ingress \in [Peers -> Ingresses] /\ detached \in [Streams -> Nat \cup {None}]
    BY DEF RouterInv, TypeOK, Ingresses
  <2>3. \A q \in Peers : ingress'[q].sink = IF q = p THEN None ELSE ingress[q].sink
    BY <1>2, <2>1, <2>2
  <2>4. s # None => s \in Streams /\ ingress[p].sink = s /\ s \in 1 .. made
    BY <1>2, StreamsAreNumbers DEF SinksInv, RouterInv, KnownStreamIsFed, TypeOK
  <2>5. made \in Nat
    BY DEF RouterInv, TypeOK
  <2>6. \A r \in Streams : r > made => detached'[r] = None
    BY <2>1, <2>2, <2>4, <2>5, StreamsAreNumbers DEF SinksInv
  <2>7. SinksInv'
    BY <2>1, <2>3, <2>6 DEF SinksInv
  <2>8. ASSUME s # None
        PROVE  default_sink # s /\ \A q \in Peers : ingress'[q].sink # s
    <3>1. default_sink \in {OwnStream, None} /\ OwnStream \notin 1 .. made
      BY <2>5 DEF RouterInv, TypeOK, OwnStream
    <3> QED
      BY <1>2, <2>3, <2>4, <2>8, <3>1 DEF SinksInv
  <2>9. ASSUME NEW r \in Streams, detached'[r] # None
        PROVE  /\ default_sink # r /\ \A q \in Peers : ingress'[q].sink # r
               /\ Len(inbox[r]) + Cardinality(Holding(r)) <= detached'[r] + Cardinality(Tasks)
    <3>1. CASE r = s /\ s # None
      <4>1. detached'[r] = Len(inbox[r])
        BY <2>1, <2>2, <3>1
      <4> QED
        BY <1>0, <1>t, <2>8, <3>1, <4>1
    <3>2. CASE ~(r = s /\ s # None)
      <4>1. detached'[r] = detached[r] /\ r # None
        BY <2>1, <2>2, <3>2, StreamsAreNumbers
      <4> QED
        BY <2>3, <2>9, <4>1 DEF DetachedInv
    <3> QED
      BY <3>1, <3>2
  <2>10. DetachedInv'
    BY <1>r, <2>1, <2>9 DEF DetachedInv
  <2> QED
    BY <2>7, <2>10
<1>3. CASE FlushOne
  <2> DEFINE s == flushing.sink
  <2>1. /\ flushing.rest # << >> /\ flushing' = [flushing EXCEPT !.rest = Tail(@)]
        /\ inbox' = [inbox EXCEPT ![s] = Append(@, Head(flushing.rest))]
        /\ UNCHANGED <<default_sink, ingress, made, detached>>
    BY <1>3 DEF FlushOne
  <2>2. flushing'.sink = s /\ detached[s] = None /\ s \in Streams
    BY <2>1 DEF SinksInv, RouterInv, FlushInv, TypeOK
  <2>3. \A r \in Streams : r # s => inbox'[r] = inbox[r]
    BY <2>1, <2>2 DEF RouterInv, TypeOK
  <2> QED
    BY <1>r, <2>1, <2>2, <2>3 DEF SinksInv, DetachedInv
<1>4. CASE SetReceiveStream \/ ClearReceiveStream
  <2>1. UNCHANGED <<ingress, flushing, made, inbox>> /\ flushing.rest = << >>
    BY <1>4 DEF SetReceiveStream, ClearReceiveStream, Called
  <2>2. detached \in [Streams -> Nat \cup {None}] /\ OwnStream \in Streams
    BY StreamsAreNumbers DEF RouterInv, TypeOK
  <2>3. \E d \in Nat \cup {None} :
          /\ detached' = [detached EXCEPT ![OwnStream] = d]
          /\ d # None => d = Len(inbox[OwnStream]) /\ default_sink' = None
          /\ default_sink' \in {OwnStream, None}
    BY <1>0, <1>4, <2>2 DEF SetReceiveStream, ClearReceiveStream, DetachedNow
  <2>4. made \in Nat /\ \A p \in Peers : ingress[p].sink # OwnStream
    BY StreamsAreNumbers DEF SinksInv, OwnStream, RouterInv, TypeOK
  <2>5. \A r \in Streams : r > made => detached'[r] = None
    BY <2>2, <2>3, <2>4 DEF SinksInv, OwnStream
  <2>6. SinksInv'
    BY <2>1, <2>5 DEF SinksInv
  <2>7. ASSUME NEW r \in Streams, detached'[r] # None
        PROVE  /\ default_sink' # r /\ \A p \in Peers : ingress[p].sink # r
               /\ Len(inbox[r]) + Cardinality(Holding(r)) <= detached'[r] + Cardinality(Tasks)
    <3>1. CASE r = OwnStream
      <4>1. detached'[r] = Len(inbox[r]) /\ default_sink' = None
        BY <2>2, <2>3, <2>7, <3>1
      <4> QED
        BY <1>0, <1>t, <2>2, <2>4, <3>1, <4>1, StreamsAreNumbers
    <3>2. CASE r # OwnStream
      <4>1. detached'[r] = detached[r] /\ default_sink' # r
        BY <2>2, <2>3, <3>2, StreamsAreNumbers
      <4> QED
        BY <2>7, <4>1 DEF DetachedInv
    <3> QED
      BY <3>1, <3>2
  <2>8. DetachedInv'
    BY <1>r, <2>1, <2>7 DEF DetachedInv
  <2> QED
    BY <2>6, <2>8
<1>5. CASE ExitTree
  <2>1. UNCHANGED <<default_sink, ingress, flushing, made, inbox, detached>>
    BY <1>5 DEF ExitTree
  <2> QED
    BY <1>r, <2>1 DEF SinksInv, DetachedInv
<1> QED
  BY <1>1, <1>2, <1>3, <1>4, <1>5 DEF Main

LEMMA StragglerStepInv == StragglerInv /\ [Next]_vars => StragglerInv'
<1> SUFFICES ASSUME StragglerInv, [Next]_vars PROVE StragglerInv'
  OBVIOUS
<1>1. RouterInv'
  BY RouterStepInv DEF StragglerInv
<1>2. ASSUME NEW t \in Tasks, Route(t) PROVE SinksInv' /\ DetachedInv'
  BY <1>2, RouteStragglers
<1>3. CASE Main
  BY <1>1, <1>3, MainStragglers DEF StragglerInv
<1>4. CASE UNCHANGED vars
  <2>1. UNCHANGED <<default_sink, ingress, flushing, made, inbox, routing, detached>>
    BY <1>4 DEF vars
  <2>2. \A s : Holding(s)' = Holding(s)
    BY <2>1 DEF Holding
  <2> QED
    BY <1>1, <2>1, <2>2 DEF StragglerInv, SinksInv, DetachedInv
<1> QED
  BY <1>1, <1>2, <1>3, <1>4 DEF Next, StragglerInv

\* With any number of datagram tasks, and wherever each of them was inside route when
\* a stream was taken out of the router, the stream gets at most one packet more from
\* each of them.
THEOREM DetachedStreamsGetStragglers == Spec => []DetachedStreamGetsStragglersOnly
<1>1. StragglerInv => DetachedStreamGetsStragglersOnly
  <2> SUFFICES ASSUME StragglerInv, NEW s \in Streams, detached[s] # None
               PROVE  Len(inbox[s]) <= detached[s] + Cardinality(Tasks)
    BY DEF DetachedStreamGetsStragglersOnly
  <2>1. Len(inbox[s]) + Cardinality(Holding(s)) <= detached[s] + Cardinality(Tasks)
    BY DEF StragglerInv, DetachedInv
  <2>2. Cardinality(Holding(s)) \in Nat /\ Cardinality(Tasks) \in Nat
    BY HoldingIsFinite, RouterAssumption, FS_CardinalityType DEF Holding
  <2>3. Len(inbox[s]) \in Nat /\ detached[s] \in Nat
    BY DEF StragglerInv, RouterInv, TypeOK
  <2> QED
    BY <2>1, <2>2, <2>3
<1> QED
  BY StragglerInitInv, StragglerStepInv, <1>1, PTL DEF Spec
-----------------------------------------------------------------------------
\* The refinement of PacketDelivery.  Every packet is in one place: it waits for a stream,
\* is being flushed into one, is in a task's hand, or was given to a stream.
Waiting == UNION {Range(ingress[p].pending) : p \in Peers}
Flushed == Range(flushing.rest)
Given == UNION {Range(inbox[s]) : s \in Streams}
Hands == {Current(t) : t \in {u \in Tasks : routing[u] # IdleTask}}

Moving == Waiting \cup Flushed \cup Hands
Unsent == {id \in PacketIds : id[2] > received[id[1]]}

WaitInv ==
  /\ \A p \in Peers : /\ IsInjective(ingress[p].pending)
                      /\ \A id \in Range(ingress[p].pending) : PeerOf[id[1]] = p
  /\ IsInjective(flushing.rest)

GivenInv ==
  /\ \A s \in Streams : IsInjective(inbox[s])
  /\ \A r, s \in Streams : r # s => Range(inbox[r]) \cap Range(inbox[s]) = {}

ApartInv == Waiting \cap Flushed = {} /\ Given \cap (Waiting \cup Flushed) = {}

\* What is in a task's hand is the packet it received last, which is nowhere else.
KnownInv ==
  \A id \in Waiting \cup Flushed \cup Given :
    id[2] <= received[id[1]] /\ (routing[id[1]] # IdleTask => id[2] < received[id[1]])

PlaceInv == RouterInv /\ WaitInv /\ GivenInv /\ ApartInv /\ KnownInv

LEMMA EmptyRange == Range(<< >>) = {} /\ IsInjective(<< >>)
BY DEF Range, IsInjective

LEMMA AppendRange ==
  ASSUME NEW S, NEW s \in Seq(S), NEW x \in S
  PROVE  /\ Range(Append(s, x)) = Range(s) \cup {x}
         /\ IsInjective(s) /\ x \notin Range(s) => IsInjective(Append(s, x))
<1> DEFINE r == Append(s, x)
<1> DEFINE n == Len(s) + 1
<1>1. /\ DOMAIN r = DOMAIN s \cup {n} /\ r[n] = x
      /\ \A k \in DOMAIN s : r[k] = s[k]
  OBVIOUS
<1> HIDE DEF r, n
<1>2. Range(r) = Range(s) \cup {x}
  BY <1>1 DEF Range
<1>3. IsInjective(s) /\ x \notin Range(s) => IsInjective(r)
  BY <1>1 DEF Range, IsInjective
<1> QED
  BY <1>2, <1>3 DEF r

LEMMA TailRange ==
  ASSUME NEW S, NEW s \in Seq(S), s # << >>
  PROVE  /\ Head(s) \in S /\ Tail(s) \in Seq(S)
         /\ Range(s) = Range(Tail(s)) \cup {Head(s)}
         /\ IsInjective(s) => IsInjective(Tail(s)) /\ Head(s) \notin Range(Tail(s))
<1>1. /\ Head(s) \in S /\ Tail(s) \in Seq(S) /\ 1 \in DOMAIN s /\ Head(s) = s[1]
      /\ \A k \in DOMAIN Tail(s) : k \in Nat /\ 1 < k + 1 /\ k + 1 \in DOMAIN s
                                     /\ Tail(s)[k] = s[k + 1]
  OBVIOUS
<1>2. \A k \in DOMAIN s : k = 1 \/ (k - 1 \in DOMAIN Tail(s) /\ k = (k - 1) + 1)
  OBVIOUS
<1>3. Range(s) = Range(Tail(s)) \cup {Head(s)}
  BY <1>1, <1>2 DEF Range
<1>4. IsInjective(s) => IsInjective(Tail(s))
  <2> SUFFICES ASSUME IsInjective(s), NEW j \in DOMAIN Tail(s), NEW k \in DOMAIN Tail(s),
                      Tail(s)[j] = Tail(s)[k]
               PROVE  j = k
    BY DEF IsInjective
  <2>1. j + 1 = k + 1 /\ j \in Nat /\ k \in Nat
    BY <1>1 DEF IsInjective
  <2> QED
    BY <2>1
<1>5. IsInjective(s) => Head(s) \notin Range(Tail(s))
  BY <1>1 DEF IsInjective, Range
<1> QED
  BY <1>1, <1>3, <1>4, <1>5

LEMMA RangeType ==
  ASSUME NEW S, NEW s \in Seq(S)
  PROVE  Range(s) \subseteq S
BY DEF Range

LEMMA IdParts ==
  ASSUME NEW id \in PacketIds
  PROVE  id[1] \in Tasks /\ id[2] \in Nat \ {0} /\ id = <<id[1], id[2]>>
<1>1. PICK t \in Tasks : id \in {t} \X (1 .. PacketsOf[t])
  BY DEF PacketIds
<1>2. PacketsOf[t] \in Nat
  BY RouterAssumption
<1> QED
  BY <1>1, <1>2

\* The places, and that they are apart.
LEMMA PlacesApart ==
  ASSUME PlaceInv
  PROVE  /\ Waiting \subseteq PacketIds /\ Flushed \subseteq PacketIds
         /\ Given \subseteq PacketIds /\ Hands \subseteq PacketIds
         /\ \A t \in Tasks : received[t] \in Nat
         /\ Hands \cap (Waiting \cup Flushed \cup Given) = {}
         /\ Given \cap Moving = {} /\ Unsent \cap (Given \cup Moving) = {}
<1> USE DEF PlaceInv, RouterInv
<1>1. Waiting \subseteq PacketIds
  BY RangeType DEF TypeOK, Waiting
<1>2. Flushed \subseteq PacketIds
  BY RangeType DEF TypeOK, Flushed
<1>3. Given \subseteq PacketIds
  BY RangeType DEF TypeOK, Given
<1>4. \A t \in Tasks : received[t] \in Nat
  BY DEF TypeOK
<1>5. \A t \in Tasks : routing[t] # IdleTask => Current(t) \in PacketIds
  <2> TAKE t \in Tasks
  <2>1. routing[t] # IdleTask => received[t] \in 1 .. PacketsOf[t]
    BY DEF HandInv
  <2> QED
    BY <2>1, HeldPacket
<1>6. Hands \subseteq PacketIds
  BY <1>5 DEF Hands
<1>7. \A t \in Tasks : routing[t] # IdleTask => Current(t) \notin Waiting \cup Flushed \cup Given
  BY <1>4 DEF KnownInv, Current
<1>8. Hands \cap (Waiting \cup Flushed \cup Given) = {}
  BY <1>7 DEF Hands
<1>9. Unsent \cap (Waiting \cup Flushed \cup Given) = {}
  BY <1>1, <1>2, <1>3, <1>4, IdParts DEF KnownInv, Unsent
<1>10. Unsent \cap Hands = {}
  BY <1>4 DEF Unsent, Hands, Current
<1> QED
  BY <1>1, <1>2, <1>3, <1>4, <1>6, <1>8, <1>9, <1>10 DEF ApartInv, Moving

\* Where a packet is decides its status.
StatusTable ==
  \A id \in PacketIds :
    DeliveryStatus(id) = IF id \in Unsent THEN "unsent" ELSE IF id \in Given THEN "delivered"
                         ELSE IF id \in Moving THEN "inflight" ELSE "lost"

LEMMA StatusOf == PlaceInv => StatusTable
<1> SUFFICES ASSUME PlaceInv, NEW id \in PacketIds
             PROVE  DeliveryStatus(id) =
                      IF id \in Unsent THEN "unsent" ELSE IF id \in Given THEN "delivered"
                      ELSE IF id \in Moving THEN "inflight" ELSE "lost"
  BY DEF StatusTable
<1>1. InFlight(id) <=> id \in Moving
  <2>1. (\E q \in Queues : \E k \in DOMAIN q : q[k] = id) <=> id \in Waiting \cup Flushed
    BY DEF Queues, Waiting, Flushed, Range
  <2>2. (id = Current(id[1]) /\ routing[id[1]] # IdleTask) <=> id \in Hands
    BY IdParts DEF Hands, Current
  <2> QED
    BY <2>1, <2>2 DEF InFlight, Moving
<1>2. id \notin Given => Places(id) = {}
  BY DEF Given, Places, Range
<1>3. id \in Given => \E place : Places(id) = {place}
  <2> SUFFICES ASSUME id \in Given PROVE \E place : Places(id) = {place}
    OBVIOUS
  <2>1. PICK s \in Streams : id \in Range(inbox[s])
    BY DEF Given
  <2>2. PICK k \in DOMAIN inbox[s] : inbox[s][k] = id
    BY <2>1 DEF Range
  <2>3. \A r \in Streams \ {s} : \A j \in DOMAIN inbox[r] : inbox[r][j] # id
    BY <2>1 DEF PlaceInv, GivenInv, Range
  <2>4. \A j \in DOMAIN inbox[s] : inbox[s][j] = id => j = k
    BY <2>2 DEF PlaceInv, GivenInv, IsInjective
  <2>5. Places(id) = {<<s, k>>}
    BY <2>2, <2>3, <2>4 DEF Places
  <2> QED
    BY <2>5
<1>4. ~(Cardinality(Places(id)) > 1)
  <2>1. CASE id \in Given
    BY <1>3, <2>1, FS_Singleton
  <2>2. CASE id \notin Given
    BY <1>2, <2>2, FS_EmptySet
  <2> QED
    BY <2>1, <2>2
<1>5. Places(id) # {} <=> id \in Given
  BY <1>2, <1>3
<1>6. DeliveryStatus(id) =
        CASE id[2] > received[id[1]] -> "unsent"
          [] Cardinality(Places(id)) > 1 -> "duplicated"
          [] id \in Moving -> "inflight"
          [] id \in Given -> "delivered"
          [] OTHER -> "lost"
  BY <1>1, <1>5 DEF DeliveryStatus
<1>7. id[2] > received[id[1]] <=> id \in Unsent
  BY DEF Unsent
<1>8. ~(id \in Given /\ id \in Moving) /\ ~(id \in Unsent /\ id \in Given \cup Moving)
  BY PlacesApart
<1> QED
  BY <1>4, <1>6, <1>7, <1>8
-----------------------------------------------------------------------------
\* The changes of the places: a packet received, one given to a stream, and some
\* (possibly none) given up.
Received(x) ==
  x \in Unsent /\ Unsent' = Unsent \ {x} /\ Given' = Given /\ Moving' = Moving \cup {x}

GivenOne(x) ==
  x \in Moving /\ Unsent' = Unsent /\ Given' = Given \cup {x} /\ Moving' = Moving \ {x}

GivenUp(W) ==
  W \in SUBSET Moving /\ Unsent' = Unsent /\ Given' = Given /\ Moving' = Moving \ W

PlacesMove == \/ \E x : Received(x) \/ GivenOne(x)
              \/ \E W : GivenUp(W)

Mapped == [id \in PacketIds |-> DeliveryStatus(id)]

\* Each of them is a step of PacketDelivery.
LEMMA MovesAreDelivery ==
  ASSUME PlaceInv, PlaceInv', PlacesMove
  PROVE  Delivery!Next
<1>1. StatusTable /\ StatusTable'
  BY StatusOf, PTL
<1>2. Unsent \subseteq PacketIds /\ Moving \subseteq PacketIds
  BY PlacesApart DEF Unsent, Moving
<1>3. Given \cap Moving = {} /\ Unsent \cap (Given \cup Moving) = {}
  BY PlacesApart
<1>4. ASSUME NEW x, Received(x) PROVE Delivery!Next
  <2>1. x \in PacketIds /\ Mapped[x] = "unsent"
    BY <1>1, <1>2, <1>4 DEF Mapped, StatusTable, Received
  <2>2. Mapped' = [Mapped EXCEPT ![x] = "inflight"]
    <3>1. ASSUME NEW id \in PacketIds
          PROVE  DeliveryStatus(id)' = IF id = x THEN "inflight" ELSE DeliveryStatus(id)
      BY <1>1, <1>3, <1>4 DEF StatusTable, Received
    <3> QED
      BY <2>1, <3>1 DEF Mapped
  <2>3. Delivery!Send(x)
    BY <2>1, <2>2 DEF Mapped, Delivery!Send, Delivery!Move
  <2> QED
    BY <2>1, <2>3 DEF Delivery!Next
<1>5. ASSUME NEW x, GivenOne(x) PROVE Delivery!Next
  <2>1. x \in PacketIds /\ Mapped[x] = "inflight"
    BY <1>1, <1>2, <1>3, <1>5 DEF Mapped, StatusTable, GivenOne
  <2>2. Mapped' = [Mapped EXCEPT ![x] = "delivered"]
    <3>1. ASSUME NEW id \in PacketIds
          PROVE  DeliveryStatus(id)' = IF id = x THEN "delivered" ELSE DeliveryStatus(id)
      BY <1>1, <1>3, <1>5 DEF StatusTable, GivenOne
    <3> QED
      BY <2>1, <3>1 DEF Mapped
  <2>3. Delivery!Deliver(x)
    BY <2>1, <2>2 DEF Mapped, Delivery!Deliver, Delivery!Move
  <2> QED
    BY <2>1, <2>3 DEF Delivery!Next
<1>6. ASSUME NEW W, GivenUp(W) PROVE Delivery!Next
  <2>1. W \in SUBSET {i \in PacketIds : Mapped[i] = "inflight"}
    BY <1>1, <1>2, <1>3, <1>6 DEF Mapped, StatusTable, GivenUp
  <2>2. Mapped' = [i \in PacketIds |-> IF i \in W THEN "lost" ELSE Mapped[i]]
    <3>1. ASSUME NEW id \in PacketIds
          PROVE  DeliveryStatus(id)' = IF id \in W THEN "lost" ELSE DeliveryStatus(id)
      BY <1>1, <1>3, <1>6 DEF StatusTable, GivenUp
    <3> QED
      BY <3>1 DEF Mapped
  <2>3. Delivery!Lose(W)
    BY <2>2 DEF Mapped, Delivery!Lose
  <2> QED
    BY <2>1, <2>3 DEF Delivery!Next, Mapped
<1> QED
  BY <1>4, <1>5, <1>6 DEF PlacesMove

\* A task that stays in route keeps its packet in hand; one that is done has none.
LEMMA HandsStay ==
  ASSUME received' = received,
         \A t \in Tasks : routing'[t] = IdleTask <=> routing[t] = IdleTask
  PROVE  Hands' = Hands /\ Unsent' = Unsent
BY DEF Hands, Unsent, Current

LEMMA HandDone ==
  ASSUME PlaceInv, NEW t \in Tasks, routing[t].at # "idle", received' = received,
         routing' = [routing EXCEPT ![t] = IdleTask]
  PROVE  /\ Current(t) \in PacketIds /\ Current(t) \in Hands
         /\ Hands' = Hands \ {Current(t)} /\ Unsent' = Unsent
         /\ \A u \in Tasks : routing'[u] # IdleTask => routing[u] # IdleTask /\ u # t
<1>1. routing[t] # IdleTask
  BY DEF IdleTask
<1>2. routing'[t] = IdleTask /\ \A u \in Tasks \ {t} : routing'[u] = routing[u]
  BY DEF PlaceInv, RouterInv, TypeOK
<1>3. Current(t) \in Hands
  BY <1>1 DEF Hands
<1>4. \A u \in Tasks : Current(u) = Current(t) <=> u = t
  BY DEF Current
<1>5. \A u \in Tasks : Current(u)' = Current(u)
  BY DEF Current
<1>6. Hands' = Hands \ {Current(t)}
  BY <1>1, <1>2, <1>4, <1>5 DEF Hands
<1>7. Unsent' = Unsent
  BY DEF Unsent
<1> QED
  BY <1>2, <1>3, <1>6, <1>7, PlacesApart

\* A stream gets a packet that none had.
LEMMA GivenAppended ==
  ASSUME PlaceInv, NEW s \in Streams, NEW x \in PacketIds, x \notin Given,
         inbox' = [inbox EXCEPT ![s] = Append(@, x)]
  PROVE  Given' = Given \cup {x} /\ GivenInv'
<1>1. inbox \in [Streams -> Seq(PacketIds)] /\ inbox[s] \in Seq(PacketIds)
  BY DEF PlaceInv, RouterInv, TypeOK
<1>2. inbox'[s] = Append(inbox[s], x) /\ \A r \in Streams \ {s} : inbox'[r] = inbox[r]
  BY <1>1
<1>3. IsInjective(inbox[s]) /\ \A r \in Streams : x \notin Range(inbox[r])
  BY DEF PlaceInv, GivenInv, Given
<1>4. /\ Range(Append(inbox[s], x)) = Range(inbox[s]) \cup {x}
      /\ IsInjective(Append(inbox[s], x))
  BY <1>1, <1>3, AppendRange
<1>5. Given' = Given \cup {x}
  BY <1>2, <1>4 DEF Given
<1>6. GivenInv'
  <2>1. \A r \in Streams : IsInjective(inbox'[r])
    BY <1>2, <1>4 DEF PlaceInv, GivenInv
  <2>2. ASSUME NEW r \in Streams, NEW q \in Streams, r # q
        PROVE  Range(inbox'[r]) \cap Range(inbox'[q]) = {}
    <3>1. Range(inbox[r]) \cap Range(inbox[q]) = {}
      BY <2>2 DEF PlaceInv, GivenInv
    <3>2. x \notin Range(inbox[r]) /\ x \notin Range(inbox[q])
      BY <1>3
    <3>3. CASE r = s
      <4>1. inbox'[q] = inbox[q] /\ inbox'[r] = Append(inbox[s], x)
        BY <1>2, <2>2, <3>3
      <4> QED
        BY <1>4, <3>1, <3>2, <3>3, <4>1
    <3>4. CASE q = s
      <4>1. inbox'[r] = inbox[r] /\ inbox'[q] = Append(inbox[s], x)
        BY <1>2, <2>2, <3>4
      <4> QED
        BY <1>4, <3>1, <3>2, <3>4, <4>1
    <3>5. CASE r # s /\ q # s
      <4>1. inbox'[r] = inbox[r] /\ inbox'[q] = inbox[q]
        BY <1>2, <3>5
      <4> QED
        BY <3>1, <4>1
    <3> QED
      BY <3>3, <3>4, <3>5
  <2> QED
    BY <2>1, <2>2 DEF GivenInv
<1> QED
  BY <1>5, <1>6

\* The backlog of a peer is taken or dropped.
LEMMA BacklogTaken ==
  ASSUME PlaceInv, NEW p \in Peers, NEW s,
         ingress' = [ingress EXCEPT ![p] = [sink |-> s, pending |-> << >>]]
  PROVE  /\ Waiting' = Waiting \ Range(ingress[p].pending)
         /\ Range(ingress[p].pending) \subseteq Waiting
         /\ \A q \in Peers :
              /\ IsInjective(ingress'[q].pending)
              /\ \A id \in Range(ingress'[q].pending) : PeerOf[id[1]] = q
<1>1. ingress'[p].pending = << >> /\ \A q \in Peers \ {p} : ingress'[q] = ingress[q]
  BY DEF PlaceInv, RouterInv, TypeOK
<1>2. \A q \in Peers \ {p} : Range(ingress[q].pending) \cap Range(ingress[p].pending) = {}
  BY DEF PlaceInv, WaitInv
<1>3. Waiting' = Waiting \ Range(ingress[p].pending)
  BY <1>1, <1>2, EmptyRange DEF Waiting
<1> QED
  BY <1>1, <1>3, EmptyRange DEF PlaceInv, WaitInv, Waiting

\* What Queued leaves of a backlog: the packet is in it, and the oldest one may be gone.
LEMMA QueuedRange ==
  ASSUME NEW pending \in Seq(PacketIds), IsInjective(pending),
         NEW id \in PacketIds, id \notin Range(pending)
  PROVE  /\ IsInjective(Queued(pending, id))
         /\ \E W \in SUBSET Range(pending) :
              Range(Queued(pending, id)) = (Range(pending) \ W) \cup {id}
<1>1. CASE Len(pending) = PendingCapacity
  <2>1. pending # << >>
    BY <1>1, RouterAssumption
  <2> DEFINE tail == Tail(pending)
  <2>2. /\ tail \in Seq(PacketIds) /\ Range(pending) = Range(tail) \cup {Head(pending)}
        /\ IsInjective(tail) /\ Head(pending) \notin Range(tail)
    BY <2>1, TailRange
  <2>3. Queued(pending, id) = Append(tail, id)
    BY <1>1 DEF Queued
  <2> HIDE DEF tail
  <2>4. Range(Append(tail, id)) = Range(tail) \cup {id} /\ IsInjective(Append(tail, id))
    BY <2>2, AppendRange
  <2>5. {Head(pending)} \in SUBSET Range(pending) /\ Range(tail) = Range(pending) \ {Head(pending)}
    BY <2>2
  <2> QED
    BY <2>3, <2>4, <2>5
<1>2. CASE Len(pending) # PendingCapacity
  <2>1. Queued(pending, id) = Append(pending, id)
    BY <1>2 DEF Queued
  <2>2. /\ Range(Append(pending, id)) = (Range(pending) \ {}) \cup {id}
        /\ IsInjective(Append(pending, id))
    BY AppendRange
  <2> QED
    BY <2>1, <2>2
<1> QED
  BY <1>1, <1>2

\* route moves one packet.
LEMMA RoutePlaces ==
  ASSUME PlaceInv, RouterInv', NEW t \in Tasks, Route(t)
  PROVE  PlaceInv' /\ (PlacesMove \/ UNCHANGED <<Unsent, Given, Moving>>)
<1>0. /\ flushing' = flushing /\ Flushed' = Flushed
      /\ routing \in [Tasks -> [at : {"idle", "looking", "enqueuing"}, sink : Streams \cup {None}]]
      /\ received \in [Tasks -> Nat]
  BY DEF Route, ReadDefaultSink, RouteToSink, RouteToPending, EnqueueRouted, Unrouted,
     Flushed, PlaceInv, RouterInv, TypeOK
<1>1. CASE ReadDefaultSink(t)
  <2>1. /\ received' = [received EXCEPT ![t] = received[t] + 1] /\ received[t] < PacketsOf[t]
        /\ ingress' = ingress /\ inbox' = inbox /\ routing[t] = IdleTask
        /\ routing' = [routing EXCEPT ![t] = [at |-> "looking", sink |-> default_sink]]
    BY <1>0, <1>1 DEF ReadDefaultSink
  <2>2. Waiting' = Waiting /\ Given' = Given
    BY <2>1 DEF Waiting, Given
  <2>3. PICK n \in Nat : n = received[t] + 1
    BY <1>0
  <2>4. /\ received'[t] = n /\ received[t] < n /\ received[t] \in Nat
        /\ \A u \in Tasks \ {t} : received'[u] = received[u]
    BY <1>0, <2>1, <2>3
  <2>5. routing'[t] # IdleTask /\ \A u \in Tasks \ {t} : routing'[u] = routing[u]
    BY <1>0, <2>1 DEF IdleTask
  <2>6. PICK x \in PacketIds : x = <<t, n>> /\ x[1] = t /\ x[2] = n
    <3>1. n \in 1 .. PacketsOf[t]
      BY <2>1, <2>3, <2>4, RouterAssumption
    <3>2. <<t, n>> \in {t} \X (1 .. PacketsOf[t])
      BY <3>1
    <3>3. <<t, n>> \in PacketIds
      BY <3>2 DEF PacketIds
    <3> QED
      BY <3>3
  <2>7. Hands' = Hands \cup {x}
    <3>1. Current(t)' = x /\ \A u \in Tasks \ {t} : Current(u)' = Current(u)
      BY <2>4, <2>6 DEF Current
    <3> QED
      BY <2>1, <2>5, <3>1 DEF Hands
  <2>8. x \in Unsent
    BY <2>4, <2>6 DEF Unsent
  <2>9. Unsent' = Unsent \ {x}
    <3> SUFFICES ASSUME NEW id \in PacketIds
                 PROVE  id[2] > received'[id[1]] <=> id[2] > received[id[1]] /\ id # x
      BY DEF Unsent
    <3>1. id[1] \in Tasks /\ id[2] \in Nat /\ id = <<id[1], id[2]>>
      BY IdParts
    <3>2. CASE id[1] = t
      <4>1. id = x <=> id[2] = n
        BY <2>6, <3>1, <3>2
      <4> QED
        BY <2>3, <2>4, <3>1, <3>2, <4>1
    <3>3. CASE id[1] # t
      BY <2>4, <2>6, <3>1, <3>3
    <3> QED
      BY <3>2, <3>3
  <2>10. Received(x)
    BY <1>0, <2>2, <2>7, <2>8, <2>9 DEF Received, Moving
  <2>11. KnownInv'
    <3> SUFFICES ASSUME NEW id \in Waiting \cup Flushed \cup Given
                 PROVE  id[2] <= received'[id[1]]
                          /\ (routing'[id[1]] # IdleTask => id[2] < received'[id[1]])
      BY <1>0, <2>2 DEF KnownInv
    <3>1. /\ id[1] \in Tasks /\ id[2] \in Nat /\ id[2] <= received[id[1]]
          /\ (routing[id[1]] # IdleTask => id[2] < received[id[1]])
      BY PlacesApart, IdParts DEF PlaceInv, KnownInv
    <3> QED
      BY <2>4, <2>5, <3>1
  <2>12. WaitInv' /\ GivenInv' /\ ApartInv'
    BY <1>0, <2>1, <2>2 DEF PlaceInv, WaitInv, GivenInv, ApartInv
  <2> QED
    BY <2>10, <2>11, <2>12 DEF PlaceInv, PlacesMove
<1>2. CASE RouteToSink(t)
  <2>1. /\ received' = received /\ ingress' = ingress /\ inbox' = inbox
        /\ routing[t].at = "looking"
        /\ routing' = [routing EXCEPT ![t] = [at |-> "enqueuing", sink |-> SinkFor(t)]]
    BY <1>2 DEF RouteToSink
  <2>2. \A u \in Tasks : routing'[u] = IdleTask <=> routing[u] = IdleTask
    BY <1>0, <2>1 DEF IdleTask
  <2>3. Hands' = Hands /\ Unsent' = Unsent
    BY <2>1, <2>2, HandsStay
  <2>4. Waiting' = Waiting /\ Given' = Given
    BY <2>1 DEF Waiting, Given
  <2>5. \A id \in Waiting \cup Flushed \cup Given : id[1] \in Tasks
    BY PlacesApart, IdParts
  <2>6. KnownInv'
    BY <1>0, <2>1, <2>2, <2>4, <2>5 DEF PlaceInv, KnownInv
  <2>7. WaitInv' /\ GivenInv' /\ ApartInv'
    BY <1>0, <2>1, <2>4 DEF PlaceInv, WaitInv, GivenInv, ApartInv
  <2> QED
    BY <1>0, <2>3, <2>4, <2>6, <2>7 DEF PlaceInv, Moving
<1>3. CASE RouteToPending(t)
  <2> DEFINE p == PeerOf[t]
  <2> DEFINE queued == Queued(ingress[p].pending, Current(t))
  <2>1. /\ received' = received /\ inbox' = inbox /\ routing[t].at # "idle"
        /\ routing' = [routing EXCEPT ![t] = IdleTask]
        /\ ingress' = [ingress EXCEPT ![p].pending = queued]
    BY <1>3 DEF RouteToPending
  <2>2. PICK x \in PacketIds : x = Current(t) /\ x[1] = t /\ x[2] = received[t]
    BY <2>1, HandDone DEF Current
  <2>3. /\ x \in Hands /\ Hands' = Hands \ {x} /\ Unsent' = Unsent
        /\ \A u \in Tasks : routing'[u] # IdleTask => routing[u] # IdleTask /\ u # t
    BY <2>1, <2>2, HandDone
  <2>4. p \in Peers /\ ingress[p].pending \in Seq(PacketIds) /\ IsInjective(ingress[p].pending)
    BY RouterAssumption DEF PlaceInv, RouterInv, TypeOK, WaitInv
  <2>5. x \notin Waiting \cup Flushed \cup Given /\ x \notin Range(ingress[p].pending)
    BY <2>3, <2>4, PlacesApart DEF Waiting
  <2>6. PICK W \in SUBSET Range(ingress[p].pending) :
          Range(queued) = (Range(ingress[p].pending) \ W) \cup {x}
    BY <2>2, <2>4, <2>5, QueuedRange
  <2>7. IsInjective(queued)
    BY <2>2, <2>4, <2>5, QueuedRange
  <2>8. ingress'[p].pending = queued /\ \A q \in Peers \ {p} : ingress'[q] = ingress[q]
    BY <2>1, <2>4 DEF PlaceInv, RouterInv, TypeOK
  <2> HIDE DEF queued
  <2>9. \A q \in Peers \ {p} : Range(ingress[q].pending) \cap Range(ingress[p].pending) = {}
    BY <2>4 DEF PlaceInv, WaitInv
  <2>10. Waiting' = (Waiting \ W) \cup {x} /\ W \subseteq Waiting
    <3> DEFINE others == UNION {Range(ingress[q].pending) : q \in Peers \ {p}}
    <3>1. Waiting = others \cup Range(ingress[p].pending)
      BY <2>4 DEF Waiting
    <3>2. others = UNION {Range(ingress'[q].pending) : q \in Peers \ {p}}
      BY <2>8
    <3>3. Waiting' = others \cup Range(queued)
      BY <2>4, <2>8, <3>2 DEF Waiting
    <3>4. others \cap Range(ingress[p].pending) = {}
      BY <2>9
    <3> HIDE DEF others
    <3> QED
      BY <2>6, <3>1, <3>3, <3>4
  <2>11. Given' = Given
    BY <2>1 DEF Given
  <2>12. W \cap (Flushed \cup Hands) = {}
    BY <2>10, PlacesApart DEF PlaceInv, ApartInv
  <2>13. GivenUp(W)
    BY <1>0, <2>3, <2>10, <2>11, <2>12 DEF GivenUp, Moving
  <2>14. WaitInv'
    <3>1. \A id \in Range(queued) : PeerOf[id[1]] = p
      BY <2>2, <2>4, <2>6 DEF PlaceInv, WaitInv
    <3> QED
      BY <1>0, <2>7, <2>8, <3>1 DEF PlaceInv, WaitInv
  <2>15. GivenInv' /\ ApartInv'
    BY <1>0, <2>1, <2>5, <2>10, <2>11 DEF PlaceInv, GivenInv, ApartInv
  <2>16. KnownInv'
    <3>1. (Waiting \cup Flushed \cup Given)' \subseteq Waiting \cup Flushed \cup Given \cup {x}
      BY <1>0, <2>10, <2>11
    <3>2. \A id \in Waiting \cup Flushed \cup Given : id[1] \in Tasks
      BY PlacesApart, IdParts
    <3> QED
      BY <1>0, <2>1, <2>2, <2>3, <3>1, <3>2 DEF PlaceInv, KnownInv
  <2> QED
    BY <2>13, <2>14, <2>15, <2>16 DEF PlaceInv, PlacesMove
<1>4. CASE EnqueueRouted(t)
  <2> DEFINE s == routing[t].sink
  <2>1. /\ received' = received /\ ingress' = ingress /\ routing[t].at # "idle"
        /\ routing' = [routing EXCEPT ![t] = IdleTask]
        /\ inbox' = [inbox EXCEPT ![s] = Append(@, Current(t))]
    BY <1>4 DEF EnqueueRouted
  <2>2. PICK x \in PacketIds : x = Current(t) /\ x[1] = t /\ x[2] = received[t]
    BY <2>1, HandDone DEF Current
  <2>3. /\ x \in Hands /\ Hands' = Hands \ {x} /\ Unsent' = Unsent
        /\ \A u \in Tasks : routing'[u] # IdleTask => routing[u] # IdleTask /\ u # t
    BY <2>1, <2>2, HandDone
  <2>4. x \notin Waiting \cup Flushed \cup Given
    BY <2>3, PlacesApart
  <2>5. s \in Streams
    BY <1>0, <1>4 DEF EnqueueRouted, PlaceInv, RouterInv, HandInv
  <2>6. Given' = Given \cup {x} /\ GivenInv'
    BY <2>1, <2>2, <2>4, <2>5, GivenAppended
  <2>7. Waiting' = Waiting
    BY <2>1 DEF Waiting
  <2>8. GivenOne(x)
    BY <1>0, <2>3, <2>4, <2>6, <2>7 DEF GivenOne, Moving
  <2>9. WaitInv' /\ ApartInv'
    BY <1>0, <2>1, <2>4, <2>6, <2>7 DEF PlaceInv, WaitInv, ApartInv
  <2>10. KnownInv'
    <3>1. \A id \in Waiting \cup Flushed \cup Given : id[1] \in Tasks
      BY PlacesApart, IdParts
    <3> QED
      BY <1>0, <2>1, <2>2, <2>3, <2>6, <2>7, <3>1 DEF PlaceInv, KnownInv
  <2> QED
    BY <2>6, <2>8, <2>9, <2>10 DEF PlaceInv, PlacesMove
<1> QED
  BY <1>1, <1>2, <1>3, <1>4 DEF Route

\* So does the flush; the calls leave every packet where it is or drop a backlog.
LEMMA MainPlaces ==
  ASSUME PlaceInv, RouterInv', Main
  PROVE  PlaceInv' /\ (PlacesMove \/ UNCHANGED <<Unsent, Given, Moving>>)
<1>0. /\ received' = received /\ routing' = routing /\ Hands' = Hands /\ Unsent' = Unsent
      /\ flushing \in [sink : Streams \cup {None}, rest : Seq(PacketIds)]
  <2>1. received' = received /\ routing' = routing
    BY DEF Main, EnsureReceiveStream, RemoveReceiveStream, FlushOne, SetReceiveStream,
       ClearReceiveStream, ExitTree, Unmoved
  <2> QED
    BY <2>1, HandsStay DEF PlaceInv, RouterInv, TypeOK
<1>1. ASSUME (Waiting \cup Flushed \cup Given)' \subseteq Waiting \cup Flushed \cup Given
      PROVE  KnownInv'
  BY <1>0, <1>1 DEF PlaceInv, KnownInv
<1>2. ASSUME NEW p \in Peers, EnsureReceiveStream(p)
      PROVE  PlaceInv' /\ UNCHANGED <<Unsent, Given, Moving>>
  <2> DEFINE s == made + 1
  <2>1. /\ ingress' = [ingress EXCEPT ![p] = [sink |-> s, pending |-> << >>]]
        /\ flushing' = [sink |-> s, rest |-> ingress[p].pending]
        /\ inbox' = inbox /\ flushing.rest = << >>
    BY <1>2 DEF EnsureReceiveStream, Called, Registered, RegisteredSink
  <2> HIDE DEF s
  <2>2. /\ Waiting' = Waiting \ Range(ingress[p].pending)
        /\ Range(ingress[p].pending) \subseteq Waiting
        /\ \A q \in Peers :
             /\ IsInjective(ingress'[q].pending)
             /\ \A id \in Range(ingress'[q].pending) : PeerOf[id[1]] = q
    BY <2>1, BacklogTaken
  <2>3. Flushed = {} /\ Flushed' = Range(ingress[p].pending) /\ Given' = Given
    BY <2>1, EmptyRange DEF Flushed, Given
  <2>4. Moving' = Moving
    BY <1>0, <2>2, <2>3 DEF Moving
  <2>5. WaitInv'
    BY <2>1, <2>2 DEF PlaceInv, WaitInv
  <2>6. GivenInv' /\ ApartInv'
    BY <2>1, <2>2, <2>3 DEF PlaceInv, GivenInv, ApartInv
  <2>7. KnownInv'
    BY <1>1, <2>2, <2>3
  <2> QED
    BY <1>0, <2>3, <2>4, <2>5, <2>6, <2>7 DEF PlaceInv
<1>3. ASSUME NEW p \in Peers, RemoveReceiveStream(p) PROVE PlaceInv' /\ PlacesMove
  <2> DEFINE W == Range(ingress[p].pending)
  <2>1. /\ ingress' = [ingress EXCEPT ![p] = [sink |-> None, pending |-> << >>]]
        /\ flushing' = flushing /\ inbox' = inbox
    BY <1>3 DEF RemoveReceiveStream, Unregistered, NoIngress
  <2>2. /\ Waiting' = Waiting \ W /\ W \subseteq Waiting
        /\ \A q \in Peers :
             /\ IsInjective(ingress'[q].pending)
             /\ \A id \in Range(ingress'[q].pending) : PeerOf[id[1]] = q
    BY <2>1, BacklogTaken
  <2> HIDE DEF W
  <2>3. Flushed' = Flushed /\ Given' = Given
    BY <2>1 DEF Flushed, Given
  <2>4. W \cap (Flushed \cup Hands) = {}
    BY <2>2, PlacesApart DEF PlaceInv, ApartInv
  <2>5. GivenUp(W)
    BY <1>0, <2>2, <2>3, <2>4 DEF GivenUp, Moving
  <2>6. WaitInv'
    BY <2>1, <2>2 DEF PlaceInv, WaitInv
  <2>7. GivenInv' /\ ApartInv'
    BY <2>1, <2>2, <2>3 DEF PlaceInv, GivenInv, ApartInv
  <2>8. KnownInv'
    BY <1>1, <2>2, <2>3
  <2> QED
    BY <2>5, <2>6, <2>7, <2>8 DEF PlaceInv, PlacesMove
<1>4. ASSUME FlushOne PROVE PlaceInv' /\ PlacesMove
  <2> DEFINE rest == flushing.rest
  <2>1. /\ rest # << >> /\ flushing' = [flushing EXCEPT !.rest = Tail(rest)]
        /\ inbox' = [inbox EXCEPT ![flushing.sink] = Append(@, Head(rest))]
        /\ ingress' = ingress
    BY <1>4 DEF FlushOne
  <2>2. PICK x : x = Head(rest)
    OBVIOUS
  <2>3. rest \in Seq(PacketIds) /\ IsInjective(rest) /\ flushing'.rest = Tail(rest)
    BY <1>0, <2>1 DEF PlaceInv, WaitInv
  <2>4. /\ x \in PacketIds /\ Range(rest) = Range(Tail(rest)) \cup {x}
        /\ IsInjective(Tail(rest)) /\ x \notin Range(Tail(rest))
    BY <2>1, <2>2, <2>3, TailRange
  <2>5. x \in Flushed /\ Flushed' = Flushed \ {x}
    BY <2>3, <2>4 DEF Flushed
  <2>6. x \notin Given /\ x \notin Waiting /\ x \notin Hands
    BY <2>5, PlacesApart DEF PlaceInv, ApartInv
  <2>7. flushing.sink \in Streams
    BY <1>0, <2>1 DEF PlaceInv, RouterInv, FlushInv
  <2>8. Given' = Given \cup {x} /\ GivenInv'
    BY <2>1, <2>2, <2>4, <2>6, <2>7, GivenAppended
  <2>9. Waiting' = Waiting
    BY <2>1 DEF Waiting
  <2>10. GivenOne(x)
    BY <1>0, <2>5, <2>6, <2>8, <2>9 DEF GivenOne, Moving
  <2>11. WaitInv'
    BY <2>1, <2>3, <2>4 DEF PlaceInv, WaitInv
  <2>12. ApartInv'
    BY <2>5, <2>6, <2>8, <2>9 DEF PlaceInv, ApartInv
  <2>13. KnownInv'
    BY <1>1, <2>5, <2>8, <2>9
  <2> QED
    BY <2>8, <2>10, <2>11, <2>12, <2>13 DEF PlaceInv, PlacesMove
<1>5. ASSUME SetReceiveStream \/ ClearReceiveStream \/ ExitTree
      PROVE  PlaceInv' /\ UNCHANGED <<Unsent, Given, Moving>>
  <2>1. UNCHANGED <<ingress, flushing, inbox>>
    BY <1>5 DEF SetReceiveStream, ClearReceiveStream, ExitTree
  <2>2. Waiting' = Waiting /\ Flushed' = Flushed /\ Given' = Given
    BY <2>1 DEF Waiting, Flushed, Given
  <2>3. WaitInv' /\ GivenInv' /\ ApartInv'
    BY <2>1, <2>2 DEF PlaceInv, WaitInv, GivenInv, ApartInv
  <2> QED
    BY <1>0, <1>1, <2>2, <2>3 DEF PlaceInv, Moving
<1> QED
  BY <1>2, <1>3, <1>4, <1>5 DEF Main

LEMMA PlaceInit == Init => PlaceInv /\ Mapped = [id \in PacketIds |-> "unsent"]
<1> SUFFICES ASSUME Init PROVE PlaceInv /\ Mapped = [id \in PacketIds |-> "unsent"]
  OBVIOUS
<1>1. /\ \A p \in Peers : ingress[p].pending = << >>
      /\ flushing.rest = << >> /\ \A s \in Streams : inbox[s] = << >>
  BY DEF Init, NoIngress
<1>2. Waiting = {} /\ Flushed = {} /\ Given = {}
  BY <1>1, EmptyRange DEF Waiting, Flushed, Given
<1>3. PlaceInv
  BY <1>1, <1>2, EmptyRange, RouterInitInv DEF PlaceInv, WaitInv, GivenInv, ApartInv, KnownInv
<1>4. ASSUME NEW id \in PacketIds PROVE DeliveryStatus(id) = "unsent"
  <2>1. id[2] > received[id[1]]
    BY IdParts DEF Init
  <2> QED
    BY <2>1, <1>3, StatusOf DEF StatusTable, Unsent
<1> QED
  BY <1>3, <1>4 DEF Mapped

LEMMA UnmovedStatus ==
  ASSUME PlaceInv, PlaceInv', UNCHANGED <<Unsent, Given, Moving>>
  PROVE  Mapped' = Mapped
<1>1. StatusTable /\ StatusTable'
  BY StatusOf, PTL
<1>2. \A id \in PacketIds : DeliveryStatus(id)' = DeliveryStatus(id)
  BY <1>1 DEF StatusTable
<1> QED
  BY <1>2 DEF Mapped

LEMMA PlaceStepInv == PlaceInv /\ [Next]_vars => PlaceInv'
<1> SUFFICES ASSUME PlaceInv, [Next]_vars PROVE PlaceInv'
  OBVIOUS
<1>1. RouterInv'
  BY RouterStepInv DEF PlaceInv
<1>2. CASE UNCHANGED vars
  <2>1. UNCHANGED <<Waiting, Flushed, Given>>
    BY <1>2 DEF vars, Waiting, Flushed, Given
  <2> QED
    BY <1>1, <1>2, <2>1 DEF vars, PlaceInv, WaitInv, GivenInv, ApartInv, KnownInv
<1>3. CASE Next
  BY <1>1, <1>3, RoutePlaces, MainPlaces DEF Next
<1> QED
  BY <1>2, <1>3

\* The router implements PacketDelivery: however the default sink, the peers' sinks and
\* the backlogs change under the tasks that route, a packet goes into one stream once
\* or is given up (transport_iroh.rs:65-114).
THEOREM RouterDelivers == Spec => ImplementsDelivery
<1>1. Init => PlaceInv /\ Delivery!Init
  BY PlaceInit DEF Delivery!Init, Mapped
<1>2. PlaceInv /\ [Next]_vars => PlaceInv' /\ [Delivery!Next]_Mapped
  <2> SUFFICES ASSUME PlaceInv, [Next]_vars
               PROVE  PlaceInv' /\ (Delivery!Next \/ Mapped' = Mapped)
    OBVIOUS
  <2>1. RouterInv'
    BY RouterStepInv DEF PlaceInv
  <2>2. CASE UNCHANGED vars
    <3>1. UNCHANGED <<Waiting, Flushed, Given, Hands, Unsent>>
      BY <2>2 DEF vars, Waiting, Flushed, Given, Hands, Unsent, Current
    <3>2. PlaceInv'
      BY PlaceStepInv
    <3>3. UNCHANGED <<Unsent, Given, Moving>>
      BY <3>1 DEF Moving
    <3> QED
      BY <3>2, <3>3, UnmovedStatus
  <2>3. CASE Next
    <3>1. PlaceInv' /\ (PlacesMove \/ UNCHANGED <<Unsent, Given, Moving>>)
      BY <2>1, <2>3, RoutePlaces, MainPlaces DEF Next
    <3> QED
      BY <3>1, MovesAreDelivery, UnmovedStatus
  <2> QED
    BY <2>2, <2>3
<1> QED
  BY <1>1, <1>2, PTL DEF Spec, ImplementsDelivery, Delivery!Spec, Mapped

-----------------------------------------------------------------------------
\* The order of packets.  A backlog is in the order of the network, so a stream can
\* only get two packets of a task in the wrong order when one of them was in a
\* backlog and the other found the stream itself.
SameOrder(q) ==
  \A j, k \in DOMAIN q : (k < j /\ q[k][1] = q[j][1]) => q[k][2] <= q[j][2]

\* What OnlyBacklogIsOvertaken says of one stream, W being the packets that waited.
OvertakesBacklog(q, W) ==
  \A j \in DOMAIN q : \A k \in 1 .. j - 1 :
    (q[k][1] = q[j][1] /\ q[k][2] > q[j][2]) => (q[j] \in W /\ q[k] \notin W)

\* Streams not made yet were given nothing, and nobody holds one.
FreshInv ==
  \A s \in Streams : s > made =>
    inbox[s] = << >> /\ flushing.sink # s /\ (\A t \in Tasks : routing[t].sink # s)

\* What waited went out of its task's hand.
WaitedInv ==
  /\ Waiting \cup Flushed \subseteq waited
  /\ \A id \in waited :
       id[2] <= received[id[1]] /\ (routing[id[1]] # IdleTask => id[2] < received[id[1]])

\* What is still to be flushed comes after what of it was.
BacklogInv ==
  /\ \A p \in Peers : SameOrder(ingress[p].pending)
  /\ SameOrder(flushing.rest)
  /\ flushing.rest # << >> =>
       \A x \in Range(inbox[flushing.sink]) \cap waited : \A y \in Flushed :
         x[1] = y[1] => x[2] <= y[2]

\* The inductive invariant behind OnlyBacklogIsOvertaken.
OrderInv == FreshInv /\ WaitedInv /\ BacklogInv /\ OnlyBacklogIsOvertaken

LEMMA AppendOrder ==
  ASSUME NEW q \in Seq(PacketIds), NEW x \in PacketIds
  PROVE  /\ (SameOrder(q) /\ \A y \in Range(q) : y[1] = x[1] => y[2] <= x[2])
              => SameOrder(Append(q, x))
         /\ \A W : ( /\ OvertakesBacklog(q, W)
                     /\ \A y \in Range(q) : (y[1] = x[1] /\ y[2] > x[2])
                          => (x \in W /\ y \notin W) )
                   => OvertakesBacklog(Append(q, x), W)
<1> DEFINE r == Append(q, x)
           n == Len(q) + 1
<1>1. /\ DOMAIN r = DOMAIN q \cup {n} /\ r[n] = x /\ n \in Nat
      /\ \A k \in DOMAIN q : k \in Nat /\ k < n /\ r[k] = q[k]
      /\ \A k \in 1 .. n - 1 : k \in DOMAIN q
      /\ \A j \in DOMAIN q : \A k \in 1 .. j - 1 : k \in DOMAIN q
  OBVIOUS
<1>2. \A k \in DOMAIN q : q[k] \in Range(q)
  BY DEF Range
<1> HIDE DEF r, n
<1>3. ASSUME SameOrder(q), \A y \in Range(q) : y[1] = x[1] => y[2] <= x[2]
      PROVE  SameOrder(r)
  <2> SUFFICES ASSUME NEW j \in DOMAIN r, NEW k \in DOMAIN r, k < j, r[k][1] = r[j][1]
               PROVE  r[k][2] <= r[j][2]
    BY DEF SameOrder
  <2>1. k # n
    BY <1>1
  <2>2. k \in DOMAIN q /\ r[k] = q[k]
    BY <1>1, <2>1
  <2>3. CASE j = n
    BY <1>1, <1>2, <1>3, <2>2, <2>3
  <2>4. CASE j # n
    <3>1. j \in DOMAIN q /\ r[j] = q[j]
      BY <1>1, <2>4
    <3> QED
      BY <1>3, <2>2, <3>1 DEF SameOrder
  <2> QED
    BY <2>3, <2>4
<1>4. ASSUME NEW W, OvertakesBacklog(q, W),
             \A y \in Range(q) : (y[1] = x[1] /\ y[2] > x[2]) => (x \in W /\ y \notin W)
      PROVE  OvertakesBacklog(r, W)
  <2> SUFFICES ASSUME NEW j \in DOMAIN r, NEW k \in 1 .. j - 1,
                      r[k][1] = r[j][1], r[k][2] > r[j][2]
               PROVE  r[j] \in W /\ r[k] \notin W
    BY DEF OvertakesBacklog
  <2>1. CASE j = n
    <3>1. k \in DOMAIN q /\ r[k] = q[k] /\ r[j] = x
      BY <1>1, <2>1
    <3> QED
      BY <1>2, <1>4, <3>1
  <2>2. CASE j # n
    <3>1. j \in DOMAIN q /\ k \in DOMAIN q /\ r[j] = q[j] /\ r[k] = q[k]
      BY <1>1, <2>2
    <3> QED
      BY <1>4, <3>1 DEF OvertakesBacklog
  <2> QED
    BY <2>1, <2>2
<1> QED
  BY <1>3, <1>4 DEF r

LEMMA TailOrder ==
  ASSUME NEW q \in Seq(PacketIds), q # << >>, SameOrder(q)
  PROVE  /\ SameOrder(Tail(q))
         /\ \A y \in Range(Tail(q)) : y[1] = Head(q)[1] => Head(q)[2] <= y[2]
<1>1. /\ 1 \in DOMAIN q /\ Head(q) = q[1]
      /\ \A k \in DOMAIN Tail(q) : /\ k \in Nat /\ 1 < k + 1 /\ k + 1 \in DOMAIN q
                                   /\ Tail(q)[k] = q[k + 1]
      /\ \A j, k \in DOMAIN Tail(q) : k < j => k + 1 < j + 1
  OBVIOUS
<1>2. SameOrder(Tail(q))
  BY <1>1 DEF SameOrder
<1>3. \A y \in Range(Tail(q)) : y[1] = Head(q)[1] => Head(q)[2] <= y[2]
  <2> SUFFICES ASSUME NEW k \in DOMAIN Tail(q), Tail(q)[k][1] = q[1][1]
               PROVE  q[1][2] <= Tail(q)[k][2]
    BY <1>1 DEF Range
  <2> QED
    BY <1>1 DEF SameOrder
<1> QED
  BY <1>2, <1>3

LEMMA QueuedOrder ==
  ASSUME NEW pending \in Seq(PacketIds), SameOrder(pending), NEW x \in PacketIds,
         \A y \in Range(pending) : y[1] = x[1] => y[2] <= x[2]
  PROVE  SameOrder(Queued(pending, x))
<1>1. CASE Len(pending) = PendingCapacity
  <2>1. pending # << >>
    BY <1>1, RouterAssumption
  <2>2. /\ Tail(pending) \in Seq(PacketIds) /\ SameOrder(Tail(pending))
        /\ \A y \in Range(Tail(pending)) : y[1] = x[1] => y[2] <= x[2]
    BY <2>1, TailOrder, TailRange
  <2>3. SameOrder(Append(Tail(pending), x))
    BY <2>2, AppendOrder
  <2> QED
    BY <1>1, <2>3 DEF Queued
<1>2. CASE Len(pending) # PendingCapacity
  <2>1. SameOrder(Append(pending, x))
    BY AppendOrder
  <2> QED
    BY <1>2, <2>1 DEF Queued
<1> QED
  BY <1>1, <1>2

LEMMA OvertakenOf ==
  OnlyBacklogIsOvertaken <=> \A s \in Streams : OvertakesBacklog(inbox[s], waited)
BY DEF OnlyBacklogIsOvertaken, OvertakesBacklog

\* What the router and the main thread hold leads to streams that were made.
LEMMA MadeSinks ==
  ASSUME PlaceInv, SinksInv, NEW t \in Tasks
  PROVE  /\ default_sink # None => default_sink <= made
         /\ SinkFor(t) # None => (routing[t].sink # None \/ SinkFor(t) <= made)
BY RouterAssumption DEF PlaceInv, RouterInv, TypeOK, SinksInv, SinkFor, OwnStream

\* route: the packet in hand is the newest of its task, and has not waited.
LEMMA RouteOrder ==
  ASSUME PlaceInv, PlaceInv', SinksInv, OrderInv, NEW t \in Tasks, Route(t)
  PROVE  OrderInv'
<1> USE DEF OrderInv
<1> DEFINE x == <<t, received[t]>>
<1>0. /\ UNCHANGED Unrouted /\ flushing' = flushing /\ made' = made
      /\ Flushed' = Flushed
      /\ routing \in [Tasks -> [at : {"idle", "looking", "enqueuing"}, sink : Streams \cup {None}]]
      /\ received \in [Tasks -> Nat] /\ PeerOf[t] \in Peers
      /\ \A s \in Streams : s \in Nat /\ inbox[s] \in Seq(PacketIds)
      /\ made \in Nat
  <2>1. UNCHANGED Unrouted
    BY DEF Route, ReadDefaultSink, RouteToSink, RouteToPending, EnqueueRouted
  <2>2. flushing' = flushing /\ made' = made /\ Flushed' = Flushed
    BY <2>1 DEF Unrouted, Flushed
  <2>3. /\ routing \in [Tasks -> [at : {"idle", "looking", "enqueuing"}, sink : Streams \cup {None}]]
        /\ received \in [Tasks -> Nat] /\ PeerOf[t] \in Peers
        /\ inbox \in [Streams -> Seq(PacketIds)] /\ made \in 0 .. MaxStreams
    BY RouterAssumption DEF PlaceInv, RouterInv, TypeOK
  <2> QED
    BY <2>1, <2>2, <2>3, StreamsAreNumbers
<1>1. CASE ReadDefaultSink(t)
  <2>1. /\ routing' = [routing EXCEPT ![t] = [at |-> "looking", sink |-> default_sink]]
        /\ received' = [received EXCEPT ![t] = @ + 1]
        /\ UNCHANGED <<ingress, inbox, waited>>
    BY <1>1 DEF ReadDefaultSink
  <2>2. Waiting' = Waiting
    BY <2>1 DEF Waiting
  <2>3. FreshInv'
    <3>1. \A s \in Streams : s > made => default_sink # s
      BY <1>0, MadeSinks, StreamsAreNumbers
    <3>2. \A s \in Streams : s > made => \A u \in Tasks : routing'[u].sink # s
      BY <1>0, <2>1, <3>1 DEF FreshInv
    <3> QED
      BY <1>0, <2>1, <3>2 DEF FreshInv
  <2>4. WaitedInv'
    <3>1. \A id \in waited :
            /\ id[2] <= received[id[1]]
            /\ id[1] = t => received'[id[1]] = received[t] + 1
            /\ id[1] # t => /\ received'[id[1]] = received[id[1]]
                            /\ routing'[id[1]] = routing[id[1]]
      <4> SUFFICES ASSUME NEW id \in waited
                   PROVE  /\ id[1] \in Tasks /\ id[2] <= received[id[1]]
        BY <1>0, <2>1
      <4> QED
        BY IdParts DEF WaitedInv, PlaceInv, RouterInv, TypeOK
    <3>2. \A id \in waited : id[1] \in Tasks /\ id[2] \in Nat
      BY IdParts DEF PlaceInv, RouterInv, TypeOK
    <3>3. \A id \in waited : /\ id[2] <= received'[id[1]]
                             /\ routing'[id[1]] # IdleTask => id[2] < received'[id[1]]
      BY <1>0, <3>1, <3>2 DEF WaitedInv
    <3> QED
      BY <1>0, <2>1, <2>2, <3>3 DEF WaitedInv
  <2>5. BacklogInv'
    BY <1>0, <2>1 DEF BacklogInv
  <2> QED
    BY <2>1, <2>3, <2>4, <2>5 DEF OnlyBacklogIsOvertaken
<1>2. CASE RouteToSink(t)
  <2>1. /\ routing' = [routing EXCEPT ![t] = [at |-> "enqueuing", sink |-> SinkFor(t)]]
        /\ SinkFor(t) # None /\ routing[t].at = "looking"
        /\ UNCHANGED <<ingress, inbox, received, waited>>
    BY <1>2 DEF RouteToSink
  <2>2. Waiting' = Waiting
    BY <2>1 DEF Waiting
  <2>3. FreshInv'
    <3>1. \A s \in Streams : s > made => SinkFor(t) # s
      BY <1>0, <2>1, MadeSinks DEF FreshInv, SinkFor
    <3>2. \A s \in Streams : s > made => \A u \in Tasks : routing'[u].sink # s
      BY <1>0, <2>1, <3>1 DEF FreshInv
    <3> QED
      BY <1>0, <2>1, <3>2 DEF FreshInv
  <2>4. WaitedInv'
    <3>1. \A u \in Tasks : routing'[u] # IdleTask => routing[u] # IdleTask
      BY <1>0, <2>1 DEF IdleTask
    <3>2. \A id \in waited : id[1] \in Tasks
      BY IdParts DEF PlaceInv, RouterInv, TypeOK
    <3> QED
      BY <1>0, <2>1, <2>2, <3>1, <3>2 DEF WaitedInv
  <2>5. BacklogInv'
    BY <1>0, <2>1 DEF BacklogInv
  <2> QED
    BY <2>1, <2>3, <2>4, <2>5 DEF OnlyBacklogIsOvertaken
<1>3. ASSUME routing[t].at # "idle", received' = received,
             routing' = [routing EXCEPT ![t] = IdleTask]
      PROVE  /\ x \in PacketIds /\ x \notin Given /\ x \notin waited
             /\ \A id \in Given \cup waited : id[1] = t => id[2] <= received[t]
             /\ \A u \in Tasks : routing'[u] # IdleTask => routing[u] # IdleTask /\ u # t
             /\ \A s \in Streams : s > made => \A u \in Tasks : routing'[u].sink # s
  <2>1. x \in PacketIds /\ x \notin Given /\ routing[t] # IdleTask
    <3>1. routing[t] # IdleTask
      BY <1>3 DEF IdleTask
    <3>2. Current(t) \in PacketIds /\ Current(t) \in Hands
      BY <1>3, HandDone
    <3>3. Current(t) \notin Given
      BY <3>2, PlacesApart
    <3> QED
      BY <3>1, <3>2, <3>3 DEF Current
  <2>2. x \notin waited
    BY <1>0, <2>1 DEF WaitedInv
  <2>3. \A id \in Given \cup waited : id[1] = t => id[2] <= received[t]
    BY DEF PlaceInv, KnownInv, WaitedInv
  <2>4. \A s \in Streams : s > made => \A u \in Tasks : routing'[u].sink # s
    BY <1>0, <1>3, StreamsAreNumbers DEF FreshInv, IdleTask
  <2> QED
    BY <1>3, <2>1, <2>2, <2>3, <2>4, HandDone
<1>4. CASE RouteToPending(t)
  <2> DEFINE p == PeerOf[t]
             queued == Queued(ingress[p].pending, x)
  <2>1. /\ routing[t].at # "idle" /\ received' = received /\ inbox' = inbox
        /\ routing' = [routing EXCEPT ![t] = IdleTask]
        /\ ingress' = [ingress EXCEPT ![p].pending = queued]
        /\ waited' = waited \cup {x}
    BY <1>4 DEF RouteToPending, Current
  <2>2. /\ x \in PacketIds /\ x \notin Given /\ x \notin waited
        /\ \A id \in Given \cup waited : id[1] = t => id[2] <= received[t]
        /\ \A u \in Tasks : routing'[u] # IdleTask => routing[u] # IdleTask /\ u # t
        /\ \A s \in Streams : s > made => \A u \in Tasks : routing'[u].sink # s
    BY <1>3, <2>1
  <2>3. /\ ingress[p].pending \in Seq(PacketIds) /\ IsInjective(ingress[p].pending)
        /\ Range(ingress[p].pending) \subseteq waited
        /\ SameOrder(ingress[p].pending)
        /\ ingress'[p].pending = queued
        /\ \A q \in Peers \ {p} : ingress'[q] = ingress[q]
    BY <1>0, <2>1
    DEF PlaceInv, RouterInv, TypeOK, WaitInv, WaitedInv, Waiting, BacklogInv
  <2>4. x \notin Range(ingress[p].pending)
    BY <2>2, <2>3
  <2> HIDE DEF p
  <2>5. SameOrder(queued)
    BY <2>2, <2>3, QueuedOrder
  <2>6. Range(queued) \subseteq waited'
    BY <2>1, <2>2, <2>3, <2>4, QueuedRange
  <2> HIDE DEF queued
  <2>7. FreshInv'
    BY <1>0, <2>1, <2>2 DEF FreshInv
  <2>8. WaitedInv'
    <3>1. \A q \in Peers : Range(ingress'[q].pending) \subseteq waited'
      BY <2>1, <2>3, <2>6 DEF WaitedInv, Waiting
    <3>2. (Waiting \cup Flushed)' \subseteq waited'
      BY <1>0, <2>1, <3>1 DEF WaitedInv, Waiting
    <3>3. \A id \in waited : id[1] \in Tasks /\ id[2] \in Nat
      BY IdParts DEF PlaceInv, RouterInv, TypeOK
    <3>4. \A id \in waited' : /\ id[2] <= received[id[1]]
                              /\ routing'[id[1]] # IdleTask => id[2] < received[id[1]]
      BY <1>0, <2>1, <2>2, <3>3 DEF WaitedInv
    <3> QED
      BY <2>1, <3>2, <3>4 DEF WaitedInv
  <2>9. BacklogInv'
    <3>1. \A q \in Peers : SameOrder(ingress'[q].pending)
      BY <2>3, <2>5 DEF BacklogInv
    <3>2. flushing.rest # << >> => x \notin Range(inbox[flushing.sink])
      BY <1>0, <2>2 DEF Given, PlaceInv, RouterInv, TypeOK, FlushInv
    <3> QED
      BY <1>0, <2>1, <3>1, <3>2 DEF BacklogInv
  <2>10. OnlyBacklogIsOvertaken'
    <3>1. \A s \in Streams : \A j \in DOMAIN inbox[s] :
            /\ inbox[s][j] # x
            /\ \A k \in 1 .. j - 1 : k \in DOMAIN inbox[s]
      BY <1>0, <2>2 DEF Given, Range
    <3> QED
      BY <2>1, <3>1 DEF OnlyBacklogIsOvertaken
  <2> QED
    BY <2>7, <2>8, <2>9, <2>10
<1>5. CASE EnqueueRouted(t)
  <2> DEFINE s == routing[t].sink
  <2>1. /\ routing[t].at # "idle" /\ received' = received
        /\ routing' = [routing EXCEPT ![t] = IdleTask]
        /\ inbox' = [inbox EXCEPT ![s] = Append(@, x)]
        /\ UNCHANGED <<ingress, waited>>
    BY <1>5 DEF EnqueueRouted, Current
  <2>2. /\ x \in PacketIds /\ x \notin Given /\ x \notin waited
        /\ \A id \in Given \cup waited : id[1] = t => id[2] <= received[t]
        /\ \A u \in Tasks : routing'[u] # IdleTask => routing[u] # IdleTask /\ u # t
        /\ \A r \in Streams : r > made => \A u \in Tasks : routing'[u].sink # r
    BY <1>3, <2>1
  <2>3. PICK r \in Streams : r = s
    BY <1>0, <1>5 DEF EnqueueRouted, PlaceInv, RouterInv, HandInv
  <2> HIDE DEF s
  <2>4. /\ inbox'[r] = Append(inbox[r], x)
        /\ \A q \in Streams \ {r} : inbox'[q] = inbox[q]
        /\ ~(r > made)
    BY <1>0, <2>1, <2>3 DEF FreshInv, PlaceInv, RouterInv, TypeOK, s
  <2>5. FreshInv'
    BY <1>0, <2>2, <2>4 DEF FreshInv
  <2>6. WaitedInv'
    <3>1. Waiting' = Waiting
      BY <2>1 DEF Waiting
    <3>2. \A id \in waited : id[1] \in Tasks
      BY IdParts DEF PlaceInv, RouterInv, TypeOK
    <3> QED
      BY <1>0, <2>1, <2>2, <3>1, <3>2 DEF WaitedInv
  <2>7. \A q \in Streams : Range(inbox'[q]) \cap waited = Range(inbox[q]) \cap waited
    <3>1. Range(inbox'[r]) = Range(inbox[r]) \cup {x}
      <4> HIDE DEF x
      <4>1. inbox[r] \in Seq(PacketIds) /\ x \in PacketIds
        BY <1>0, <2>2
      <4>2. Range(Append(inbox[r], x)) = Range(inbox[r]) \cup {x}
        BY <4>1, AppendRange
      <4> QED
        BY <2>4, <4>2
    <3> QED
      BY <2>2, <2>4, <3>1
  <2>8. BacklogInv'
    <3>1. flushing.rest # << >> => flushing.sink \in Streams
      BY DEF PlaceInv, RouterInv, TypeOK, FlushInv
    <3> QED
      BY <1>0, <2>1, <2>7, <3>1 DEF BacklogInv
  <2>9. OnlyBacklogIsOvertaken'
    <3>1. \A y \in Range(inbox[r]) : y[1] = t => (y[2] <= received[t] /\ y[2] \in Nat)
      BY <2>2, PlacesApart, IdParts DEF Given
    <3>2. x[1] = t /\ x[2] = received[t] /\ received[t] \in Nat
      BY <1>0
    <3>3. \A y \in Range(inbox[r]) : ~(y[1] = x[1] /\ y[2] > x[2])
      BY <3>1, <3>2
    <3>4. OvertakesBacklog(inbox[r], waited)
      BY OvertakenOf
    <3>5. OvertakesBacklog(Append(inbox[r], x), waited)
      BY <1>0, <2>2, <3>3, <3>4, AppendOrder
    <3>6. \A q \in Streams : OvertakesBacklog(inbox'[q], waited')
      BY <2>1, <2>4, <3>5, OvertakenOf
    <3> QED
      BY <3>6 DEF OnlyBacklogIsOvertaken, OvertakesBacklog
  <2> QED
    BY <2>5, <2>6, <2>8, <2>9
<1> QED
  BY <1>1, <1>2, <1>4, <1>5 DEF Route

\* The main thread: a new stream was given nothing before its backlog, and a packet
\* that is flushed comes after what of the backlog the stream has.
LEMMA MainOrder ==
  ASSUME PlaceInv, PlaceInv', SinksInv, OrderInv, Main
  PROVE  OrderInv'
<1> USE DEF OrderInv
<1>0. /\ UNCHANGED <<received, routing, waited>>
      /\ \A s \in Streams : s \in Nat /\ inbox[s] \in Seq(PacketIds)
      /\ made \in Nat /\ flushing.rest \in Seq(PacketIds)
      /\ flushing.rest # << >> => flushing.sink \in Streams
      /\ \A p \in Peers : ingress[p].pending \in Seq(PacketIds)
  BY StreamsAreNumbers
  DEF Main, EnsureReceiveStream, RemoveReceiveStream, FlushOne, SetReceiveStream,
      ClearReceiveStream, ExitTree, Unmoved, PlaceInv, RouterInv, TypeOK, FlushInv
<1>1. ASSUME (Waiting \cup Flushed)' \subseteq Waiting \cup Flushed PROVE WaitedInv'
  BY <1>0, <1>1 DEF WaitedInv
<1>2. ASSUME NEW p \in Peers, EnsureReceiveStream(p) PROVE OrderInv'
  <2> DEFINE s == made + 1
  <2>1. /\ ingress' = [ingress EXCEPT ![p] = [sink |-> s, pending |-> << >>]]
        /\ flushing' = [sink |-> s, rest |-> ingress[p].pending]
        /\ inbox' = inbox /\ flushing.rest = << >> /\ made' = s /\ made < MaxStreams
    BY <1>2 DEF EnsureReceiveStream, Called, Registered, RegisteredSink
  <2>2. s \in Streams /\ s > made /\ s \in Nat
    BY <1>0, <2>1, RouterAssumption DEF Streams
  <2> HIDE DEF s
  <2>3. inbox[s] = << >>
    BY <2>2 DEF FreshInv
  <2>4. Waiting' \subseteq Waiting /\ Range(ingress[p].pending) \subseteq Waiting
    BY <2>1, BacklogTaken
  <2>5. Flushed' = Range(ingress[p].pending)
    BY <2>1 DEF Flushed
  <2>6. WaitedInv'
    BY <1>1, <2>4, <2>5
  <2>7. FreshInv'
    <3>1. \A r \in Streams : r > s => r > made
      BY <1>0, <2>2
    <3> QED
      BY <1>0, <2>1, <3>1 DEF FreshInv
  <2>8. BacklogInv'
    <3>1. ingress'[p].pending = << >> /\ \A q \in Peers \ {p} : ingress'[q] = ingress[q]
      BY <2>1 DEF PlaceInv, RouterInv, TypeOK
    <3>2. SameOrder(<< >>)
      BY DEF SameOrder
    <3>3. \A q \in Peers : SameOrder(ingress'[q].pending)
      BY <3>1, <3>2 DEF BacklogInv
    <3>4. SameOrder(flushing'.rest)
      BY <2>1 DEF BacklogInv
    <3>5. Range(inbox'[flushing'.sink]) = {}
      BY <2>1, <2>3, EmptyRange
    <3> QED
      BY <3>3, <3>4, <3>5 DEF BacklogInv
  <2> QED
    BY <1>0, <2>1, <2>6, <2>7, <2>8 DEF OnlyBacklogIsOvertaken
<1>3. ASSUME NEW p \in Peers, RemoveReceiveStream(p) PROVE OrderInv'
  <2>1. /\ ingress' = [ingress EXCEPT ![p] = [sink |-> None, pending |-> << >>]]
        /\ UNCHANGED <<flushing, inbox, made>>
    BY <1>3 DEF RemoveReceiveStream, Unregistered, NoIngress
  <2>2. Waiting' \subseteq Waiting /\ Flushed' = Flushed
    BY <2>1, BacklogTaken DEF Flushed
  <2>3. WaitedInv' /\ FreshInv'
    BY <1>0, <1>1, <2>1, <2>2 DEF FreshInv
  <2>4. ingress'[p].pending = << >> /\ \A q \in Peers \ {p} : ingress'[q] = ingress[q]
    BY <2>1 DEF PlaceInv, RouterInv, TypeOK
  <2>5. SameOrder(<< >>)
    BY DEF SameOrder
  <2>6. BacklogInv'
    BY <1>0, <2>1, <2>2, <2>4, <2>5 DEF BacklogInv
  <2> QED
    BY <1>0, <2>1, <2>3, <2>6 DEF OnlyBacklogIsOvertaken
<1>4. ASSUME FlushOne PROVE OrderInv'
  <2> DEFINE rest == flushing.rest
             s == flushing.sink
  <2>1. /\ rest # << >> /\ flushing' = [flushing EXCEPT !.rest = Tail(rest)]
        /\ inbox' = [inbox EXCEPT ![s] = Append(@, Head(rest))]
        /\ UNCHANGED <<ingress, made>>
    BY <1>4 DEF FlushOne
  <2>2. PICK x : x = Head(rest)
    OBVIOUS
  <2>3. PICK r \in Streams : r = s
    BY <1>0, <2>1
  <2>4. /\ x \in PacketIds /\ Range(rest) = Range(Tail(rest)) \cup {x}
        /\ Tail(rest) \in Seq(PacketIds)
    BY <1>0, <2>1, <2>2, TailRange
  <2>5. /\ flushing'.rest = Tail(rest) /\ flushing'.sink = r
        /\ inbox'[r] = Append(inbox[r], x)
        /\ \A q \in Streams \ {r} : inbox'[q] = inbox[q]
    BY <2>1, <2>2, <2>3 DEF PlaceInv, RouterInv, TypeOK
  <2>6. /\ Flushed = Range(rest) /\ Flushed' = Range(Tail(rest)) /\ Waiting' = Waiting
        /\ x \in waited
    BY <2>1, <2>4, <2>5 DEF Flushed, Waiting, WaitedInv
  <2>7. /\ SameOrder(Tail(rest))
        /\ \A y \in Range(Tail(rest)) : y[1] = x[1] => x[2] <= y[2]
    BY <1>0, <2>1, <2>2, TailOrder DEF BacklogInv
  <2>8. \A y \in Range(inbox[r]) \cap waited : \A z \in Range(rest) :
          y[1] = z[1] => y[2] <= z[2]
    BY <2>1, <2>3, <2>6 DEF BacklogInv
  <2>9. Range(Append(inbox[r], x)) = Range(inbox[r]) \cup {x}
    BY <1>0, <2>4, AppendRange
  <2>10. ~(r > made)
    BY <2>3 DEF FreshInv
  <2> HIDE DEF rest, s
  <2>11. FreshInv'
    BY <1>0, <2>1, <2>5, <2>10 DEF FreshInv
  <2>12. WaitedInv'
    BY <1>1, <2>4, <2>6
  <2>13. BacklogInv'
    <3>1. \A y \in Range(inbox'[r]) \cap waited : \A z \in Range(Tail(rest)) :
            y[1] = z[1] => y[2] <= z[2]
      BY <2>4, <2>5, <2>7, <2>8, <2>9
    <3> QED
      BY <1>0, <2>1, <2>5, <2>6, <2>7, <3>1 DEF BacklogInv
  <2>14. OnlyBacklogIsOvertaken'
    <3>1. \A y \in Range(inbox[r]) : (y[1] = x[1] /\ y[2] > x[2]) => y \notin waited
      <4> SUFFICES ASSUME NEW y \in Range(inbox[r]), y[1] = x[1], y[2] > x[2], y \in waited
                   PROVE  FALSE
        OBVIOUS
      <4>1. y[2] <= x[2]
        BY <2>4, <2>8
      <4>2. y[2] \in Nat /\ x[2] \in Nat
        BY <2>4, IdParts DEF PlaceInv, RouterInv, TypeOK
      <4> QED
        BY <4>1, <4>2
    <3>2. OvertakesBacklog(inbox[r], waited)
      BY OvertakenOf
    <3>3. OvertakesBacklog(Append(inbox[r], x), waited)
      BY <1>0, <2>4, <2>6, <3>1, <3>2, AppendOrder
    <3>4. \A q \in Streams : OvertakesBacklog(inbox'[q], waited')
      BY <1>0, <2>5, <3>3, OvertakenOf
    <3> QED
      BY <3>4 DEF OnlyBacklogIsOvertaken, OvertakesBacklog
  <2> QED
    BY <2>11, <2>12, <2>13, <2>14
<1>5. ASSUME SetReceiveStream \/ ClearReceiveStream \/ ExitTree PROVE OrderInv'
  <2>1. UNCHANGED <<ingress, flushing, inbox, made>>
    BY <1>5 DEF SetReceiveStream, ClearReceiveStream, ExitTree
  <2>2. Waiting' = Waiting /\ Flushed' = Flushed
    BY <2>1 DEF Waiting, Flushed
  <2> QED
    BY <1>0, <1>1, <2>1, <2>2 DEF FreshInv, BacklogInv, OnlyBacklogIsOvertaken
<1> QED
  BY <1>2, <1>3, <1>4, <1>5 DEF Main

LEMMA OrderInitInv == Init => OrderInv
<1> SUFFICES ASSUME Init PROVE OrderInv
  OBVIOUS
<1>1. /\ \A p \in Peers : ingress[p].pending = << >>
      /\ flushing.rest = << >> /\ flushing.sink = None /\ \A s \in Streams : inbox[s] = << >>
      /\ \A t \in Tasks : routing[t].sink = None
      /\ waited = {}
  BY DEF Init, NoIngress, IdleTask
<1>2. Waiting = {} /\ Flushed = {}
  BY <1>1, EmptyRange DEF Waiting, Flushed
<1>3. FreshInv
  BY <1>1, StreamsAreNumbers DEF FreshInv
<1> QED
  BY <1>1, <1>2, <1>3
  DEF OrderInv, WaitedInv, BacklogInv, SameOrder, OnlyBacklogIsOvertaken

\* Whatever is routed while the main thread makes, removes and flushes streams, two
\* packets of a task are in the wrong order in a stream only when the older one was
\* in the backlog and the newer one found the stream.
THEOREM BacklogOnlyIsOvertaken == Spec => []OnlyBacklogIsOvertaken
<1> DEFINE Inv == StragglerInv /\ PlaceInv /\ OrderInv
<1>1. Init => Inv
  BY StragglerInitInv, PlaceInit, OrderInitInv
<1>2. Inv /\ [Next]_vars => Inv'
  <2> SUFFICES ASSUME Inv, [Next]_vars PROVE Inv'
    OBVIOUS
  <2>1. StragglerInv'
    BY StragglerStepInv
  <2>2. PlaceInv'
    BY PlaceStepInv
  <2>3. OrderInv'
    <3>1. CASE UNCHANGED vars
      <4>1. Waiting' = Waiting /\ Flushed' = Flushed
        BY <3>1 DEF vars, Waiting, Flushed
      <4> QED
        BY <3>1, <4>1
        DEF vars, OrderInv, FreshInv, WaitedInv, BacklogInv, OnlyBacklogIsOvertaken
    <3>2. CASE Next
      BY <2>2, <3>2, RouteOrder, MainOrder DEF StragglerInv, Next
    <3> QED
      BY <3>1, <3>2
  <2> QED
    BY <2>1, <2>2, <2>3
<1>3. Inv => OnlyBacklogIsOvertaken
  BY DEF OrderInv
<1> QED
  BY <1>1, <1>2, <1>3, PTL DEF Spec
=============================================================================
