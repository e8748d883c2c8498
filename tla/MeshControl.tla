----------------------------- MODULE MeshControl -----------------------------
(***************************************************************************)
(* The multi-process layout of voice-mesh-bench/src/main.rs: a coordinator *)
(* spawns one worker process per participant (and one for the SFU in a     *)
(* star), configures them over TCP, has them connect to one another pair   *)
(* by pair, starts the media on all of them and collects their results.    *)
(*                                                                         *)
(* The coordinator is one thread, a straight line of sends and blocking    *)
(* reads; any error ends it, and its sockets close.  A worker executes one *)
(* command at a time; any error ends its process.  Both ends of a control  *)
(* connection are queues.  What the media phase does is MeshMedia.         *)
(***************************************************************************)
EXTENDS Naturals, Sequences

CONSTANTS
  Participants,  \* their number
  MayTimeOut,    \* a read of the coordinator may exceed its 30 s
  MaxCrashes     \* bound: worker processes that die of themselves

ASSUME ControlAssumption ==
  Participants \in Nat /\ Participants > 1 /\ MayTimeOut \in BOOLEAN /\ MaxCrashes \in Nat

Topologies == {"direct", "star"}
Sfu == Participants
Ids == 0 .. Participants
NoPeer == Participants + 1

VARIABLES
  topology,
  coordinator,   \* "greeting", "commanding", "done" or "failed"
  registered,    \* workers whose hello was read
  place,         \* the command or the wait the coordinator is at
  worker,        \* what each worker is doing, and with which peer
  greeted,       \* workers that connected and sent their hello
  commands,      \* per worker, commands not read
  responses,     \* per worker, responses not read
  incoming,      \* per endpoint, connection attempts nobody has accepted
  connections,   \* per worker and slot, the worker at the other end
  crashes        \* for the bound

vars == <<topology, coordinator, registered, place, worker, greeted, commands,
          responses, incoming, connections, crashes>>

WorkersOf(t) == IF t = "star" THEN Ids ELSE Ids \ {Sfu}
Workers == WorkersOf(topology)

At(doing) == [at |-> doing, peer |-> NoPeer]
With(doing, p) == [at |-> doing, peer |-> p]

Init ==
  /\ topology \in Topologies
  /\ coordinator = "greeting"
  /\ registered = {}
  /\ place = [part |-> "configure", who |-> 0, other |-> NoPeer]
  /\ worker = [w \in Ids |-> At("starting")]
  /\ greeted = {}
  /\ commands = [w \in Ids |-> << >>]
  /\ responses = [w \in Ids |-> << >>]
  /\ incoming = [w \in Ids |-> << >>]
  /\ connections = [w \in Ids |-> [p \in Ids |-> NoPeer]]
  /\ crashes = 0

Parts ==
  {"configure", "configured", "accept", "connect", "connected", "accepted", "start", "result",
   "exit", "over"}

Commands ==
  [name : {"configure", "start", "connect", "accept"}, peer : Ids \cup {NoPeer}]

TypeOK ==
  /\ topology \in Topologies
  /\ coordinator \in {"greeting", "commanding", "done", "failed"}
  /\ place \in [part : Parts, who : Workers, other : Ids \cup {NoPeer}]
  /\ registered \subseteq greeted /\ greeted \subseteq Workers
  /\ worker \in [Ids -> [at : {"starting", "greeted", "ready", "connecting", "accepting",
                               "running", "finished", "dead"},
                         peer : Ids \cup {NoPeer}]]
  /\ \A w \in Ids : commands[w] \in Seq(Commands)
  /\ \A w \in Ids : responses[w] \in Seq({"ack", "result"}) /\ Len(responses[w]) <= 1
  /\ \A w \in Ids : incoming[w] \in Seq(Ids)
  /\ connections \in [Ids -> [Ids -> Ids \cup {NoPeer}]]
  /\ crashes \in 0 .. MaxCrashes

-----------------------------------------------------------------------------
\* The coordinator's place in run_multiprocess

Pairs(t) ==
  IF t = "star" THEN (0 .. Participants - 1) \X {Sfu}
  ELSE {pair \in (0 .. Participants - 1) \X (0 .. Participants - 1) : pair[1] < pair[2]}

LastWorker == IF topology = "star" THEN Sfu ELSE Sfu - 1

\* What it does next, and with which worker or pair, the connector first.
ForWorker(part, w) == [part |-> part, who |-> w, other |-> NoPeer]
ForPair(part, pair) == [part |-> part, who |-> pair[1], other |-> pair[2]]

Over == ForWorker("over", LastWorker)

NextWorker(here, after) ==
  IF here.who = LastWorker THEN after ELSE ForWorker(here.part, here.who + 1)

FirstPair(part) == ForPair(part, <<0, IF topology = "star" THEN Sfu ELSE 1>>)

\* The next iteration of the loops over connectors and acceptors.
NextPair(part, here, after) ==
  IF here.other < LastWorker THEN ForPair(part, <<here.who, here.other + 1>>)
  ELSE IF here.who + 1 = LastWorker THEN after
  ELSE ForPair(part, <<here.who + 1, IF topology = "star" THEN Sfu ELSE here.who + 2>>)

\* Mutant of Pairing: the connector is not waited for.
PairingUnawaited(here) ==
  CASE here.part = "accept" -> [here EXCEPT !.part = "connect"]
    [] here.part = "connect" -> [here EXCEPT !.part = "accepted"]
    [] here.part = "accepted" -> NextPair("accept", here, ForWorker("start", 0))

\* Mutant of Pairing: all pairs connect at once.
PairingAtOnce(here) ==
  CASE here.part = "accept" -> [here EXCEPT !.part = "connect"]
    [] here.part = "connect" -> NextPair("accept", here, FirstPair("connected"))
    [] here.part = "connected" -> [here EXCEPT !.part = "accepted"]
    [] here.part = "accepted" -> NextPair("connected", here, ForWorker("start", 0))

\* connect_worker_pair for one pair after the other.
Pairing(here) ==
  CASE here.part = "accept" -> [here EXCEPT !.part = "connect"]
    [] here.part = "connect" -> [here EXCEPT !.part = "connected"]
    [] here.part = "connected" -> [here EXCEPT !.part = "accepted"]
    [] here.part = "accepted" -> NextPair("accept", here, ForWorker("start", 0))

Following(here) ==
  CASE here.part = "configure" -> [here EXCEPT !.part = "configured"]
    [] here.part = "configured" -> NextWorker([here EXCEPT !.part = "configure"], FirstPair("accept"))
    [] here.part = "start" -> NextWorker(here, ForWorker("result", 0))
    [] here.part = "result" -> NextWorker(here, ForWorker("exit", 0))
    [] here.part = "exit" -> NextWorker(here, Over)
    [] OTHER -> Pairing(here)

\* The worker that is sent to or waited for, and what.
Who == IF place.part \in {"accept", "accepted"} THEN place.other ELSE place.who

Command(name, p) == [name |-> name, peer |-> p]

Told ==
  Command(place.part, IF place.part = "accept" THEN place.who ELSE place.other)

Awaited == IF place.part \in {"result", "exit"} THEN place.part ELSE "ack"

Alive(w) == worker[w].at # "dead"

Unworked == <<topology, worker, greeted, incoming, connections, crashes>>

Fail == coordinator' = "failed" /\ UNCHANGED place

\* A hello is read from a control connection, in the order they come in.
Register(w) ==
  /\ coordinator = "greeting"
  /\ w \in greeted \ registered
  /\ registered' = registered \cup {w}
  /\ coordinator' = IF registered' = Workers THEN "commanding" ELSE coordinator
  /\ UNCHANGED <<place, commands, responses, Unworked>>

\* No hello comes over a control connection: its worker died after it connected, or is late.
MissHello ==
  /\ coordinator = "greeting"
  /\ \E w \in Workers \ greeted : MayTimeOut \/ ~Alive(w)
  /\ Fail
  /\ UNCHANGED <<registered, commands, responses, Unworked>>

Doing(parts) == coordinator = "commanding" /\ place.part \in parts

Advance ==
  /\ place' = Following(place)
  /\ coordinator' = IF place' = Over THEN "done" ELSE coordinator

\* ControlWorker::send; towards a dead worker it may fail.
SendCommand ==
  /\ Doing({"configure", "accept", "connect", "start"})
  /\ \/ /\ Advance
        /\ commands' = [commands EXCEPT ![Who] = Append(@, Told)]
     \/ ~Alive(Who) /\ Fail /\ UNCHANGED commands
  /\ UNCHANGED <<registered, responses, Unworked>>

\* ControlWorker::receive; the wait for the exit status reads nothing.
AwaitResponse ==
  /\ Doing({"configured", "connected", "accepted", "result", "exit"})
  /\ \/ /\ place.part # "exit" /\ responses[Who] # << >>
        /\ IF Head(responses[Who]) = Awaited THEN Advance ELSE Fail
        /\ responses' = [responses EXCEPT ![Who] = Tail(@)]
     \/ /\ place.part = "exit" /\ worker[Who].at = "finished"
        /\ Advance /\ UNCHANGED responses
     \/ /\ ~Alive(Who) /\ responses[Who] = << >>
        /\ Fail /\ UNCHANGED responses
  /\ UNCHANGED <<registered, commands, Unworked>>

\* A read timeout ends the run as well.
TimeOut ==
  /\ MayTimeOut
  /\ Doing({"configured", "connected", "accepted", "result"})
  /\ responses[Who] = << >>
  /\ Fail
  /\ UNCHANGED <<registered, commands, responses, Unworked>>

CoordinatorStep == (\E w \in Ids : Register(w)) \/ SendCommand \/ AwaitResponse

-----------------------------------------------------------------------------
\* A worker

Uncoordinated == <<topology, coordinator, registered, place>>

Become(w, state) == worker' = [worker EXCEPT ![w] = state]

Respond(w, response) == responses' = [responses EXCEPT ![w] = Append(@, response)]

\* The next command is taken in a state that reads commands.
Takes(w, doing, name) ==
  /\ worker[w].at = doing
  /\ commands[w] # << >> /\ Head(commands[w]).name = name
  /\ commands' = [commands EXCEPT ![w] = Tail(@)]

\* Once the coordinator has gone the worker cannot connect, or reads the end at once.
Greet(w) ==
  /\ w \in Workers /\ worker[w].at = "starting"
  /\ IF coordinator = "failed"
     THEN Become(w, At("dead")) /\ UNCHANGED greeted
     ELSE Become(w, At("greeted")) /\ greeted' = greeted \cup {w}
  /\ UNCHANGED <<commands, responses, incoming, connections, crashes, Uncoordinated>>

Configure(w) ==
  /\ Takes(w, "greeted", "configure")
  /\ Become(w, At("ready"))
  /\ Respond(w, "ack")
  /\ UNCHANGED <<greeted, incoming, connections, crashes, Uncoordinated>>

\* Connect: the attempt reaches the other endpoint whatever that is doing.
Connect(w) ==
  /\ Takes(w, "ready", "connect")
  /\ LET p == Head(commands[w]).peer
     IN  /\ Become(w, With("connecting", p))
         /\ incoming' = [incoming EXCEPT ![p] = Append(@, w)]
  /\ UNCHANGED <<greeted, responses, connections, crashes, Uncoordinated>>

Accept(w) ==
  /\ Takes(w, "ready", "accept")
  /\ Become(w, With("accepting", Head(commands[w]).peer))
  /\ UNCHANGED <<greeted, responses, incoming, connections, crashes, Uncoordinated>>

\* Endpoint::accept takes whichever attempt came first and files it under the peer
\* the command named; the attempt of a process that died fails.
AcceptIncoming(w) ==
  /\ worker[w].at = "accepting" /\ incoming[w] # << >>
  /\ incoming' = [incoming EXCEPT ![w] = Tail(@)]
  /\ LET c == Head(incoming[w])
     IN  IF Alive(c)
         THEN /\ connections' = [connections EXCEPT ![w][worker[w].peer] = c]
              /\ Become(w, At("ready"))
              /\ Respond(w, "ack")
         ELSE Become(w, At("dead")) /\ UNCHANGED <<connections, responses>>
  /\ UNCHANGED <<greeted, commands, crashes, Uncoordinated>>

AcceptedBy(w, p) == \E slot \in Ids : connections[p][slot] = w

FinishConnect(w) ==
  /\ worker[w].at = "connecting" /\ AcceptedBy(w, worker[w].peer)
  /\ connections' = [connections EXCEPT ![w][worker[w].peer] = worker[w].peer]
  /\ Become(w, At("ready"))
  /\ Respond(w, "ack")
  /\ UNCHANGED <<greeted, commands, incoming, crashes, Uncoordinated>>

\* The other process died before it accepted.
FailConnect(w) ==
  /\ worker[w].at = "connecting"
  /\ ~Alive(worker[w].peer) /\ ~AcceptedBy(w, worker[w].peer)
  /\ Become(w, At("dead"))
  /\ UNCHANGED <<greeted, commands, responses, incoming, connections, crashes, Uncoordinated>>

\* The slots a worker of this topology reads at its start.
Needed(w) ==
  IF topology = "direct" \/ w = Sfu THEN (0 .. Participants - 1) \ {w} ELSE {Sfu}

\* A missing connection ends the worker.
Start(w) ==
  /\ Takes(w, "ready", "start")
  /\ Become(w, IF \A p \in Needed(w) : connections[w][p] # NoPeer
               THEN At("running") ELSE At("dead"))
  /\ UNCHANGED <<greeted, responses, incoming, connections, crashes, Uncoordinated>>

\* The media is over; the result can be sent only to a coordinator that still listens.
Finish(w) ==
  /\ worker[w].at = "running"
  /\ IF coordinator = "failed" THEN Become(w, At("dead")) /\ UNCHANGED responses
     ELSE Become(w, At("finished")) /\ Respond(w, "result")
  /\ UNCHANGED <<greeted, commands, incoming, connections, crashes, Uncoordinated>>

\* Mutant of ReadEnd: a worker that waits for its configuration misses it.
ReadEndWhenReady(w) ==
  /\ worker[w].at = "ready" /\ commands[w] = << >>
  /\ coordinator = "failed"
  /\ Become(w, At("dead"))
  /\ UNCHANGED <<greeted, commands, responses, incoming, connections, crashes, Uncoordinated>>

\* The coordinator has gone and its last command was read.
ReadEnd(w) ==
  /\ worker[w].at \in {"greeted", "ready"} /\ commands[w] = << >>
  /\ coordinator = "failed"
  /\ Become(w, At("dead"))
  /\ UNCHANGED <<greeted, commands, responses, incoming, connections, crashes, Uncoordinated>>

\* A process dies: endpoint, encoder or receiver could not be made, or it was killed.
Crash(w) ==
  /\ w \in Workers /\ worker[w].at \notin {"finished", "dead"}
  /\ crashes < MaxCrashes
  /\ crashes' = crashes + 1
  /\ Become(w, At("dead"))
  /\ UNCHANGED <<greeted, commands, responses, incoming, connections, Uncoordinated>>

WorkerStep(w) ==
  \/ Greet(w) \/ Configure(w) \/ Connect(w) \/ Accept(w) \/ AcceptIncoming(w)
  \/ FinishConnect(w) \/ FailConnect(w) \/ Start(w) \/ Finish(w) \/ ReadEnd(w)

Next ==
  \/ CoordinatorStep \/ MissHello \/ TimeOut
  \/ \E w \in Ids : WorkerStep(w) \/ Crash(w)

Spec == Init /\ [][Next]_vars

\* Processes are scheduled; nothing has to crash or to time out.
FairSpec ==
  Spec /\ WF_vars(CoordinatorStep) /\ \A w \in Ids : WF_vars(WorkerStep(w))

-----------------------------------------------------------------------------
\* Properties

\* No worker runs media before every connection of the topology is in place at
\* both of its ends, so what is measured is the whole mesh (main.rs:1374-1392).  A
\* worker accepts whichever connection comes first and takes it for the peer it
\* was told of (main.rs:1586-1596): the slots are right only because the coordinator
\* lets no two connections be made at a time.
MediaStartsOnWholeMesh ==
  (\E w \in Ids : worker[w].at = "running") =>
    \A pair \in Pairs(topology) :
      connections[pair[1]][pair[2]] = pair[2] /\ connections[pair[2]][pair[1]] = pair[1]

\* Once all workers have said hello, or the coordinator has given up on one, the run ends,
\* and with it every worker, however workers die and reads time out; the exception is a
\* worker told to accept whose connector never comes: nothing ends that wait
\* (main.rs:1245-1248, 1587-1590).  A coordinator that still waits for a worker to connect,
\* in turn, may wait for ever (main.rs:1336).
RegisteredRunEnds ==
  (coordinator # "greeting") ~>
     /\ coordinator \in {"done", "failed"}
     /\ \A w \in Workers : worker[w].at \in {"finished", "dead", "accepting"}
=============================================================================
