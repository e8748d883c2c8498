--------------------------- MODULE MeshControlProofs ---------------------------
(***************************************************************************)
(* Proofs about MeshControl, for any number of participants, any crashes   *)
(* and time-outs: the coordinator is one thread, and a worker has at most  *)
(* one command or response on its way.                                     *)
(***************************************************************************)
EXTENDS MeshControl, TLAPS

-----------------------------------------------------------------------------
\* The inductive invariant

PairParts == {"accept", "connect", "connected", "accepted"}

Here == <<place.who, place.other>>

\* A pair is named exactly while it is connected, and commands go out only after all hellos.
PlaceInv ==
  /\ topology \in Topologies
  /\ coordinator \in {"greeting", "commanding", "done", "failed"}
  /\ place \in [part : Parts, who : Workers, other : Ids \cup {NoPeer}]
  /\ IF place.part \in PairParts THEN Here \in Pairs(topology) ELSE place.other = NoPeer
  /\ registered \subseteq greeted /\ greeted \subseteq Workers
  /\ coordinator \in {"commanding", "done"} => registered = Workers
  /\ coordinator = "greeting" => place = ForWorker("configure", 0)

\* What the coordinator makes a worker do, from the command it sent to the response it read.
Duty(w, here) ==
  CASE w \notin Workers -> "new"
    [] w \in Workers /\ here.part = "configure" -> IF w < here.who THEN "ready" ELSE "new"
    [] w \in Workers /\ here.part = "configured" ->
         IF w < here.who THEN "ready" ELSE IF w = here.who THEN "configuring" ELSE "new"
    [] w \in Workers /\ here.part = "accept" -> "ready"
    [] w \in Workers /\ here.part = "connect" -> IF w = here.other THEN "accepting" ELSE "ready"
    [] w \in Workers /\ here.part = "connected" ->
         IF w = here.other THEN "accepting" ELSE IF w = here.who THEN "connecting" ELSE "ready"
    [] w \in Workers /\ here.part = "accepted" -> IF w = here.other THEN "accepting" ELSE "ready"
    [] w \in Workers /\ here.part = "start" -> IF w < here.who THEN "running" ELSE "ready"
    [] w \in Workers /\ here.part = "result" -> IF w < here.who THEN "ended" ELSE "running"
    [] w \in Workers /\ here.part \in {"exit", "over"} -> "ended"

\* A worker without a command is at rest; one with a command has it in the queue, is at it,
\* or has answered.  Wherever it was, it may have died.
Rests(w, states) ==
  commands[w] = << >> /\ responses[w] = << >> /\ worker[w] \in states \cup {At("dead")}

Serves(w, command, before, doing, after, answer) ==
  \/ commands[w] = <<command>> /\ responses[w] = << >> /\ worker[w] \in {before, At("dead")}
  \/ commands[w] = << >> /\ responses[w] = << >> /\ worker[w] \in {doing, At("dead")}
  \/ commands[w] = << >> /\ responses[w] = <<answer>> /\ worker[w] \in {after, At("dead")}

Does(w, duty) ==
  /\ duty = "new" => Rests(w, {At("starting"), At("greeted")})
  /\ duty = "configuring" =>
       Serves(w, Command("configure", NoPeer), At("greeted"), At("dead"), At("ready"), "ack")
  /\ duty = "ready" => Rests(w, {At("ready")})
  /\ duty = "accepting" =>
       Serves(w, Command("accept", place.who), At("ready"), With("accepting", place.who),
              At("ready"), "ack")
  /\ duty = "connecting" =>
       Serves(w, Command("connect", place.other), At("ready"), With("connecting", place.other),
              At("ready"), "ack")
  /\ duty = "running" =>
       Serves(w, Command("start", NoPeer), At("ready"), At("running"), At("finished"), "result")
  /\ duty = "ended" => Rests(w, {At("finished")})

DutyInv ==
  /\ \A w \in Ids : Does(w, Duty(w, place))
  /\ \A w \in Ids : worker[w].at = "starting" => w \notin greeted

\* The pairs the coordinator is done with.
Before(pair, here) == pair[1] < here[1] \/ (pair[1] = here[1] /\ pair[2] < here[2])

Done(here) ==
  CASE here.part \in {"configure", "configured"} -> {}
    [] here.part \in PairParts ->
         {pair \in Pairs(topology) : Before(pair, <<here.who, here.other>>)}
    [] OTHER -> Pairs(topology)

Joined(pair) ==
  connections[pair[1]][pair[2]] = pair[2] /\ connections[pair[2]][pair[1]] = pair[1]

\* The connection of the pair in hand is under way.
Begun == place.part \in {"connected", "accepted"} /\ commands[place.who] = << >>

ConnectionsInv ==
  /\ incoming \in [Ids -> Seq(Ids)]
  /\ connections \in [Ids -> [Ids -> Ids \cup {NoPeer}]]
  /\ \A w, s \in Ids : connections[w][s] \in {s, NoPeer}
  /\ \A pair \in Done(place) : Joined(pair)
  /\ \A pair \in Pairs(topology) \ Done(place) :
       (pair # Here \/ ~Begun) => connections[pair[2]][pair[1]] = NoPeer

\* A connection attempt is one of the pair in hand; an acknowledged one is in place.
AttemptInv ==
  /\ \A w \in Ids : incoming[w] # << >> =>
       /\ Begun /\ w = place.other /\ incoming[w] = <<place.who>>
       /\ connections[w][place.who] = NoPeer
  /\ place.part = "accepted" \/ (place.part = "connected" /\ responses[place.who] # << >>) =>
       Joined(Here)

ShapeInv ==
  /\ worker \in [Ids -> [at : {"starting", "greeted", "ready", "connecting", "accepting",
                               "running", "finished", "dead"},
                         peer : Ids \cup {NoPeer}]]
  /\ commands \in [Ids -> Seq(Commands)]
  /\ responses \in [Ids -> Seq({"ack", "result"})]
  /\ crashes \in 0 .. MaxCrashes

ControlInv == PlaceInv /\ ShapeInv /\ DutyInv /\ ConnectionsInv /\ AttemptInv

-----------------------------------------------------------------------------
\* The coordinator's next place

LEMMA WorkerIds ==
  ASSUME topology \in Topologies
  PROVE  /\ Participants \in Nat /\ Participants > 1 /\ Sfu = Participants
         /\ NoPeer \notin Ids /\ Ids \subseteq Nat
         /\ LastWorker \in Nat /\ LastWorker > 0 /\ LastWorker <= Sfu
         /\ Workers = 0 .. LastWorker /\ Workers \subseteq Ids
<1>1. Participants \in Nat /\ Participants > 1
  BY ControlAssumption
<1>2. CASE topology = "star"
  BY <1>1, <1>2 DEF Sfu, NoPeer, Ids, LastWorker, Workers, WorkersOf
<1>3. CASE topology = "direct"
  BY <1>1, <1>3 DEF Sfu, NoPeer, Ids, LastWorker, Workers, WorkersOf
<1> QED
  BY <1>2, <1>3 DEF Topologies

LEMMA PairIds ==
  ASSUME topology \in Topologies
  PROVE  /\ \A a, b \in Ids : <<a, b>> \in Pairs(topology) <=>
              a < b /\ b <= LastWorker /\ (topology = "star" => b = LastWorker)
         /\ \A pair \in Pairs(topology) :
              /\ pair = <<pair[1], pair[2]>> /\ pair[1] \in Workers /\ pair[2] \in Workers
              /\ pair[1] < pair[2]
<1>1. Participants \in Nat /\ Participants > 1
  BY ControlAssumption
<1>2. CASE topology = "star"
  BY <1>1, <1>2 DEF Sfu, Ids, LastWorker, Workers, WorkersOf, Pairs
<1>3. CASE topology = "direct"
  BY <1>1, <1>3 DEF Sfu, Ids, LastWorker, Workers, WorkersOf, Pairs
<1> QED
  BY <1>2, <1>3 DEF Topologies

\* The loops go from pair to pair in order, and the first comes before all.
LEMMA PairsInOrder ==
  ASSUME PlaceInv, place.part \in PairParts
  PROVE  LET next == NextPair("accept", place, ForWorker("start", 0)) IN
         \/ /\ next = ForWorker("start", 0)
            /\ \A pair \in Pairs(topology) : Before(pair, Here) \/ pair = Here
         \/ /\ next \in [part : {"accept"}, who : Workers, other : Workers]
            /\ <<next.who, next.other>> \in Pairs(topology)
            /\ \A pair \in Pairs(topology) :
                 Before(pair, <<next.who, next.other>>) <=> Before(pair, Here) \/ pair = Here
<1> DEFINE next == NextPair("accept", place, ForWorker("start", 0))
<1> DEFINE a == place.who
<1> DEFINE b == place.other
<1>1. topology \in Topologies /\ Here \in Pairs(topology) /\ Here = <<a, b>>
  BY DEF PlaceInv, Here
<1>2. /\ a \in Workers /\ b \in Workers /\ a < b /\ b <= LastWorker
      /\ topology = "star" => b = LastWorker
  BY <1>1, PairIds, WorkerIds
<1>3. \A pair \in Pairs(topology) :
        /\ pair = <<pair[1], pair[2]>> /\ pair[1] \in Nat /\ pair[2] \in Nat
        /\ pair[1] < pair[2] /\ pair[2] <= LastWorker
        /\ topology = "star" => pair[2] = LastWorker
  BY <1>1, PairIds, WorkerIds
<1>4. /\ LastWorker \in Nat /\ Workers = 0 .. LastWorker /\ Workers \subseteq Ids
      /\ topology = "star" => LastWorker = Sfu
  BY <1>1, WorkerIds DEF LastWorker
<1>5. CASE b < LastWorker
  <2>1. next = [part |-> "accept", who |-> a, other |-> b + 1] /\ topology # "star"
    BY <1>2, <1>4, <1>5 DEF NextPair, ForPair
  <2>2. b + 1 \in Workers /\ <<a, b + 1>> \in Pairs(topology)
    BY <1>1, <1>2, <1>4, <1>5, <2>1, PairIds
  <2>3. \A pair \in Pairs(topology) :
          Before(pair, <<a, b + 1>>) <=> Before(pair, <<a, b>>) \/ pair = <<a, b>>
    BY <1>2, <1>3, <1>4 DEF Before
  <2> QED
    BY <1>1, <1>2, <2>1, <2>2, <2>3
<1>6. CASE b = LastWorker /\ a + 1 = LastWorker
  <2>1. next = ForWorker("start", 0)
    BY <1>2, <1>4, <1>6 DEF NextPair
  <2>2. \A pair \in Pairs(topology) : Before(pair, <<a, b>>) \/ pair = <<a, b>>
    BY <1>2, <1>3, <1>4, <1>6 DEF Before
  <2> QED
    BY <1>1, <2>1, <2>2
<1>7. CASE b = LastWorker /\ a + 1 < LastWorker /\ topology = "star"
  <2>1. next = [part |-> "accept", who |-> a + 1, other |-> LastWorker]
    BY <1>2, <1>4, <1>7 DEF NextPair, ForPair
  <2>2. a + 1 \in Workers /\ <<a + 1, LastWorker>> \in Pairs(topology)
    BY <1>1, <1>2, <1>4, <1>7, PairIds
  <2>3. \A pair \in Pairs(topology) :
          Before(pair, <<a + 1, LastWorker>>) <=> Before(pair, <<a, b>>) \/ pair = <<a, b>>
    BY <1>2, <1>3, <1>4, <1>7 DEF Before
  <2> QED
    BY <1>1, <1>2, <1>7, <2>1, <2>2, <2>3
<1>8. CASE b = LastWorker /\ a + 1 < LastWorker /\ topology # "star"
  <2>1. next = [part |-> "accept", who |-> a + 1, other |-> a + 2]
    BY <1>2, <1>4, <1>8 DEF NextPair, ForPair
  <2>2. a + 1 \in Workers /\ a + 2 \in Workers /\ <<a + 1, a + 2>> \in Pairs(topology)
    BY <1>1, <1>2, <1>4, <1>8, PairIds
  <2>3. \A pair \in Pairs(topology) :
          Before(pair, <<a + 1, a + 2>>) <=> Before(pair, <<a, b>>) \/ pair = <<a, b>>
    BY <1>2, <1>3, <1>4, <1>8 DEF Before
  <2> QED
    BY <1>1, <2>1, <2>2, <2>3
<1> QED
  BY <1>2, <1>4, <1>5, <1>6, <1>7, <1>8

\* The first pair comes before every other.
LEMMA FirstPairOfAll ==
  ASSUME topology \in Topologies, NEW part \in Parts
  PROVE  /\ FirstPair(part) \in [part : {part}, who : Workers, other : Workers]
         /\ <<FirstPair(part).who, FirstPair(part).other>> \in Pairs(topology)
         /\ \A pair \in Pairs(topology) :
              ~Before(pair, <<FirstPair(part).who, FirstPair(part).other>>)
<1>1. /\ LastWorker \in Nat /\ LastWorker > 0 /\ Workers = 0 .. LastWorker /\ Workers \subseteq Ids
      /\ topology = "star" => LastWorker = Sfu
  BY WorkerIds DEF LastWorker
<1>2. PICK b \in Workers : /\ FirstPair(part) = [part |-> part, who |-> 0, other |-> b]
                           /\ IF topology = "star" THEN b = LastWorker ELSE b = 1
  BY <1>1 DEF FirstPair, ForPair
<1>3. 0 \in Workers /\ 0 \in Ids /\ b \in Ids /\ b > 0 /\ b <= LastWorker
  BY <1>1, <1>2
<1>4. <<0, b>> \in Pairs(topology)
  BY <1>2, <1>3, PairIds
<1>5. \A pair \in Pairs(topology) :
        /\ pair[1] \in Nat /\ pair[2] \in Nat /\ pair[1] < pair[2] /\ pair[2] <= LastWorker
        /\ topology = "star" => pair[2] = LastWorker
  BY <1>1, PairIds
<1>6. \A pair \in Pairs(topology) : ~Before(pair, <<0, b>>)
  BY <1>1, <1>2, <1>5 DEF Before
<1> QED
  BY <1>2, <1>3, <1>4, <1>6

\* next is a place at which the worker at hand has another duty, and no other worker has.
Proceeds(next, duty, after) ==
  /\ next \in [part : Parts, who : Workers, other : Ids \cup {NoPeer}]
  /\ IF next.part \in PairParts THEN <<next.who, next.other>> \in Pairs(topology)
     ELSE next.other = NoPeer
  /\ Duty(Who, place) = duty /\ Duty(Who, next) = after
  /\ \A w \in Ids \ {Who} : Duty(w, next) = Duty(w, place)

LEMMA ConfigureFollows ==
  ASSUME PlaceInv, place.part = "configure"
  PROVE  /\ Following(place) = [place EXCEPT !.part = "configured"]
         /\ Proceeds(Following(place), "new", "configuring")
<1>1. Following(place) = [place EXCEPT !.part = "configured"] /\ Who = place.who
  BY DEF Following, Who
<1>2. Following(place) = [part |-> "configured", who |-> place.who, other |-> NoPeer]
  BY <1>1 DEF PlaceInv, PairParts
<1>3. place.who \in Workers /\ Workers \subseteq Nat /\ Workers \subseteq Ids
  BY WorkerIds DEF PlaceInv
<1>4. \A w \in Ids : Duty(w, Following(place)) =
                       IF w \in Workers /\ w = place.who THEN "configuring" ELSE Duty(w, place)
  BY <1>2, <1>3 DEF Duty
<1>5. Duty(place.who, place) = "new"
  BY <1>3 DEF Duty
<1>6. /\ Following(place) \in [part : Parts, who : Workers, other : Ids \cup {NoPeer}]
      /\ Following(place).part \notin PairParts /\ Following(place).other = NoPeer
  BY <1>2, <1>3 DEF Parts, PairParts
<1>7. /\ Duty(Who, place) = "new" /\ Duty(Who, Following(place)) = "configuring"
      /\ \A w \in Ids \ {Who} : Duty(w, Following(place)) = Duty(w, place)
  <2>1. Who = place.who /\ place.who \in Ids /\ place.who \in Workers
    BY <1>1, <1>3
  <2> QED
    BY <2>1, <1>4, <1>5
<1> QED
  BY <1>1, <1>6, <1>7, Zenon DEF Proceeds

LEMMA ConfiguredFollows ==
  ASSUME PlaceInv, place.part = "configured"
  PROVE  /\ Proceeds(Following(place), "configuring", "ready")
         /\ Following(place).part \in {"configure", "accept"}
         /\ Following(place).part = "accept" => Following(place) = FirstPair("accept")
<1>1. /\ place.who \in Workers /\ Workers = 0 .. LastWorker /\ LastWorker \in Nat
      /\ Workers \subseteq Ids /\ topology \in Topologies
  BY WorkerIds DEF PlaceInv
<1>2. Who = place.who
  BY DEF Who
<1>3. CASE place.who = LastWorker
  <2>1. Following(place) = FirstPair("accept")
    BY <1>3 DEF Following, NextWorker
  <2>2. /\ FirstPair("accept") \in [part : {"accept"}, who : Workers, other : Workers]
        /\ <<FirstPair("accept").who, FirstPair("accept").other>> \in Pairs(topology)
    BY <1>1, FirstPairOfAll DEF Parts
  <2>3. \A w \in Ids : /\ w \in Workers => Duty(w, FirstPair("accept")) = "ready"
                       /\ w \notin Workers => Duty(w, FirstPair("accept")) = Duty(w, place)
    BY <2>2 DEF Duty
  <2>4. \A w \in Workers : Duty(w, place) = IF w = place.who THEN "configuring" ELSE "ready"
    BY <1>1, <1>3 DEF Duty
  <2> HIDE DEF FirstPair
  <2> QED
    BY <1>1, <1>2, <2>1, <2>2, <2>3, <2>4 DEF Proceeds, Parts, PairParts
<1>4. CASE place.who # LastWorker
  <2>1. Following(place) = [part |-> "configure", who |-> place.who + 1, other |-> NoPeer]
    BY <1>4 DEF Following, NextWorker, ForWorker
  <2>2. place.who + 1 \in Workers
    BY <1>1, <1>4
  <2>3. \A w \in Ids : Duty(w, Following(place)) =
                         IF w \in Workers /\ w = place.who THEN "ready" ELSE Duty(w, place)
    BY <1>1, <2>1 DEF Duty
  <2>4. Duty(place.who, place) = "configuring"
    BY <1>1 DEF Duty
  <2> QED
    BY <1>1, <1>2, <2>1, <2>2, <2>3, <2>4 DEF Proceeds, Parts, PairParts
<1> QED
  BY <1>3, <1>4

\* The three parts of a pair that lead on to the next of the same pair.
LEMMA PairFollows ==
  ASSUME PlaceInv
  PROVE  /\ place.part = "accept" =>
              /\ Following(place) = [place EXCEPT !.part = "connect"]
              /\ Who = place.other /\ Proceeds(Following(place), "ready", "accepting")
         /\ place.part = "connect" =>
              /\ Following(place) = [place EXCEPT !.part = "connected"]
              /\ Who = place.who /\ Proceeds(Following(place), "ready", "connecting")
         /\ place.part = "connected" =>
              /\ Following(place) = [place EXCEPT !.part = "accepted"]
              /\ Who = place.who /\ Proceeds(Following(place), "connecting", "ready")
<1> SUFFICES ASSUME place.part \in {"accept", "connect", "connected"}
             PROVE  /\ place.part = "accept" =>
                         /\ Following(place) = [place EXCEPT !.part = "connect"]
                         /\ Who = place.other /\ Proceeds(Following(place), "ready", "accepting")
                    /\ place.part = "connect" =>
                         /\ Following(place) = [place EXCEPT !.part = "connected"]
                         /\ Who = place.who /\ Proceeds(Following(place), "ready", "connecting")
                    /\ place.part = "connected" =>
                         /\ Following(place) = [place EXCEPT !.part = "accepted"]
                         /\ Who = place.who /\ Proceeds(Following(place), "connecting", "ready")
  OBVIOUS
<1>1. Here \in Pairs(topology) /\ topology \in Topologies
  BY DEF PlaceInv, PairParts
<1>2. /\ place.who \in Workers /\ place.other \in Workers /\ place.who # place.other
      /\ Workers \subseteq Ids
  <2>1. Here[1] = place.who /\ Here[2] = place.other
    BY DEF Here
  <2>2. Here[1] \in Workers /\ Here[2] \in Workers /\ Here[1] < Here[2] /\ Workers \subseteq Nat
          /\ Workers \subseteq Ids
    BY <1>1, PairIds, WorkerIds
  <2>3. \A m, n \in Nat : m < n => m # n
    OBVIOUS
  <2> HIDE DEF Here
  <2>4. Here[1] \in Nat /\ Here[2] \in Nat /\ Here[1] # Here[2]
    BY <2>2, <2>3, Zenon
  <2> QED
    BY <2>1, <2>2, <2>4
<1>3. place = [part |-> place.part, who |-> place.who, other |-> place.other]
  BY DEF PlaceInv
<1>4. CASE place.part = "accept"
  <2>1. /\ Following(place) = [place EXCEPT !.part = "connect"] /\ Who = place.other
        /\ Following(place) = [part |-> "connect", who |-> place.who, other |-> place.other]
    BY <1>3, <1>4 DEF Following, Pairing, Who
  <2>2. \A w \in Ids : Duty(w, Following(place)) =
                         IF w = place.other THEN "accepting" ELSE Duty(w, place)
    BY <1>2, <1>4, <2>1 DEF Duty
  <2>3. Duty(place.other, place) = "ready"
    BY <1>2, <1>4 DEF Duty
  <2> QED
    BY <1>1, <1>2, <1>4, <2>1, <2>2, <2>3 DEF Proceeds, Parts, PairParts, Here
<1>5. CASE place.part = "connect"
  <2>1. /\ Following(place) = [place EXCEPT !.part = "connected"] /\ Who = place.who
        /\ Following(place) = [part |-> "connected", who |-> place.who, other |-> place.other]
    BY <1>3, <1>5 DEF Following, Pairing, Who
  <2>2. \A w \in Ids : Duty(w, Following(place)) =
                         IF w = place.who THEN "connecting" ELSE Duty(w, place)
    BY <1>2, <1>5, <2>1 DEF Duty
  <2>3. Duty(place.who, place) = "ready"
    BY <1>2, <1>5 DEF Duty
  <2> QED
    BY <1>1, <1>2, <1>5, <2>1, <2>2, <2>3 DEF Proceeds, Parts, PairParts, Here
<1>6. CASE place.part = "connected"
  <2>1. /\ Following(place) = [place EXCEPT !.part = "accepted"] /\ Who = place.who
        /\ Following(place) = [part |-> "accepted", who |-> place.who, other |-> place.other]
    BY <1>3, <1>6 DEF Following, Pairing, Who
  <2>2. \A w \in Ids : Duty(w, Following(place)) =
                         IF w = place.who THEN "ready" ELSE Duty(w, place)
    BY <1>2, <1>6, <2>1 DEF Duty
  <2>3. Duty(place.who, place) = "connecting"
    BY <1>2, <1>6 DEF Duty
  <2> QED
    BY <1>1, <1>2, <1>6, <2>1, <2>2, <2>3 DEF Proceeds, Parts, PairParts, Here
<1> QED
  BY <1>4, <1>5, <1>6

LEMMA AcceptedFollows ==
  ASSUME PlaceInv, place.part = "accepted"
  PROVE  /\ Who = place.other /\ Proceeds(Following(place), "accepting", "ready")
         /\ Following(place) = NextPair("accept", place, ForWorker("start", 0))
<1> DEFINE next == NextPair("accept", place, ForWorker("start", 0))
<1>1. Following(place) = next /\ Who = place.other
  BY DEF Following, Pairing, Who
<1>2. Here \in Pairs(topology) /\ topology \in Topologies /\ Here[2] = place.other
  BY DEF PlaceInv, PairParts, Here
<1>3. place.other \in Workers /\ Workers = 0 .. LastWorker /\ Workers \subseteq Ids /\ LastWorker \in Nat
  BY <1>2, PairIds, WorkerIds
<1>4. \A w \in Workers : Duty(w, place) = IF w = place.other THEN "accepting" ELSE "ready"
  BY DEF Duty
<1>5. \A w \in Ids \ Workers : Duty(w, place) = Duty(w, next)
  BY DEF Duty
<1> HIDE DEF next
<1>6. ASSUME \A w \in Workers : Duty(w, next) = "ready"
      PROVE  /\ Duty(Who, place) = "accepting" /\ Duty(Who, next) = "ready"
             /\ \A w \in Ids \ {Who} : Duty(w, next) = Duty(w, place)
  BY <1>1, <1>3, <1>4, <1>5, <1>6
<1>7. CASE next = ForWorker("start", 0)
  <2>1. next = [part |-> "start", who |-> 0, other |-> NoPeer]
    BY <1>7 DEF ForWorker
  <2>2. \A w \in Workers : Duty(w, next) = "ready"
    BY <1>3, <2>1 DEF Duty
  <2>3. 0 \in Workers
    BY <1>3
  <2> QED
    <3>1. /\ next \in [part : Parts, who : Workers, other : Ids \cup {NoPeer}]
          /\ next.part \notin PairParts /\ next.other = NoPeer
      BY <2>1, <2>3 DEF Parts, PairParts
    <3> QED
      BY <1>1, <1>6, <2>2, <3>1, Zenon DEF Proceeds, next
<1>8. CASE /\ next \in [part : {"accept"}, who : Workers, other : Workers]
           /\ <<next.who, next.other>> \in Pairs(topology)
  <2>2. \A w \in Workers : Duty(w, next) = "ready"
    BY <1>8 DEF Duty
  <2> QED
    <3>1. /\ next \in [part : Parts, who : Workers, other : Ids \cup {NoPeer}]
          /\ next.part \in PairParts
      BY <1>3, <1>8 DEF Parts, PairParts
    <3> QED
      BY <1>1, <1>6, <1>8, <2>2, <3>1, Zenon DEF Proceeds, next
<1> QED
  BY <1>1, <1>7, <1>8, PairsInOrder DEF PairParts, next

\* The loops over all workers after the pairs.
LEMMA LoopFollows ==
  ASSUME PlaceInv
  PROVE  /\ place.part = "start" => Proceeds(Following(place), "ready", "running")
         /\ place.part = "result" => Proceeds(Following(place), "running", "ended")
         /\ place.part = "exit" => Proceeds(Following(place), "ended", "ended")
         /\ place.part \in {"start", "result", "exit"} =>
              Who = place.who /\ Following(place).part \in {"start", "result", "exit", "over"}
<1>1. /\ place.who \in Workers /\ Workers = 0 .. LastWorker /\ LastWorker \in Nat
      /\ Workers \subseteq Ids
  BY WorkerIds DEF PlaceInv
<1>2. 0 \in Workers /\ LastWorker \in Workers
  BY <1>1
<1> DEFINE loops == {"start", "result", "exit"}
<1>3. place.part \in loops => Who = place.who /\ place.other = NoPeer
  BY DEF Who, PlaceInv, PairParts
<1>4. ASSUME place.part \in loops, place.who # LastWorker
      PROVE  /\ Following(place) = [part |-> place.part, who |-> place.who + 1, other |-> NoPeer]
             /\ place.who + 1 \in Workers
  BY <1>1, <1>4 DEF Following, NextWorker, ForWorker
<1>5. CASE place.part = "start"
  <2>1. CASE place.who = LastWorker
    <3>1. Following(place) = [part |-> "result", who |-> 0, other |-> NoPeer]
      BY <1>5, <2>1 DEF Following, NextWorker, ForWorker
    <3>2. \A w \in Ids : Duty(w, Following(place)) =
                           IF w = place.who THEN "running" ELSE Duty(w, place)
      BY <1>1, <1>5, <2>1, <3>1 DEF Duty
    <3>3. Duty(place.who, place) = "ready"
      BY <1>1, <1>5 DEF Duty
    <3> QED
      BY <1>1, <1>2, <1>3, <1>5, <3>1, <3>2, <3>3 DEF Proceeds, Parts, PairParts
  <2>2. CASE place.who # LastWorker
    <3>1. Following(place) = [part |-> "start", who |-> place.who + 1, other |-> NoPeer]
            /\ place.who + 1 \in Workers
      BY <1>4, <1>5, <2>2
    <3>2. \A w \in Ids : Duty(w, Following(place)) =
                           IF w = place.who THEN "running" ELSE Duty(w, place)
      BY <1>1, <1>5, <3>1 DEF Duty
    <3>3. Duty(place.who, place) = "ready"
      BY <1>1, <1>5 DEF Duty
    <3> QED
      BY <1>1, <1>3, <1>5, <3>1, <3>2, <3>3 DEF Proceeds, Parts, PairParts
  <2> QED
    BY <1>3, <1>5, <2>1, <2>2 DEF Following, NextWorker, ForWorker
<1>6. CASE place.part = "result"
  <2>1. CASE place.who = LastWorker
    <3>1. Following(place) = [part |-> "exit", who |-> 0, other |-> NoPeer]
      BY <1>6, <2>1 DEF Following, NextWorker, ForWorker
    <3>2. \A w \in Ids : Duty(w, Following(place)) =
                           IF w = place.who THEN "ended" ELSE Duty(w, place)
      BY <1>1, <1>6, <2>1, <3>1 DEF Duty
    <3>3. Duty(place.who, place) = "running"
      BY <1>1, <1>6 DEF Duty
    <3> QED
      BY <1>1, <1>2, <1>3, <1>6, <3>1, <3>2, <3>3 DEF Proceeds, Parts, PairParts
  <2>2. CASE place.who # LastWorker
    <3>1. Following(place) = [part |-> "result", who |-> place.who + 1, other |-> NoPeer]
            /\ place.who + 1 \in Workers
      BY <1>4, <1>6, <2>2
    <3>2. \A w \in Ids : Duty(w, Following(place)) =
                           IF w = place.who THEN "ended" ELSE Duty(w, place)
      BY <1>1, <1>6, <3>1 DEF Duty
    <3>3. Duty(place.who, place) = "running"
      BY <1>1, <1>6 DEF Duty
    <3> QED
      BY <1>1, <1>3, <1>6, <3>1, <3>2, <3>3 DEF Proceeds, Parts, PairParts
  <2> QED
    BY <1>3, <1>6, <2>1, <2>2 DEF Following, NextWorker, ForWorker
<1>7. CASE place.part = "exit"
  <2>1. /\ Following(place) \in [part : {"exit", "over"}, who : Workers, other : {NoPeer}]
    BY <1>1, <1>2, <1>4, <1>7 DEF Following, NextWorker, ForWorker, Over
  <2>2. \A w \in Ids : Duty(w, Following(place)) = Duty(w, place)
    BY <1>7, <2>1 DEF Duty
  <2>3. Duty(place.who, place) = "ended" /\ place.who \in Ids
    BY <1>1, <1>7 DEF Duty
  <2> QED
    BY <1>3, <1>7, <2>1, <2>2, <2>3 DEF Proceeds, Parts, PairParts
<1> QED
  BY <1>5, <1>6, <1>7

\* A pair is done when its acceptor has answered too.
LEMMA DoneFollows ==
  ASSUME PlaceInv, place.part # "over"
  PROVE  Done(Following(place)) =
           IF place.part = "accepted" THEN Done(place) \cup {Here} ELSE Done(place)
<1>1. topology \in Topologies /\ place.part \in Parts /\ "accept" \in Parts
  BY DEF PlaceInv, Parts
<1>0. ASSUME NEW here, here.part \in {"configure", "configured"}
      PROVE  Done(here) = {}
  <2>1. here.part \notin PairParts
    BY <1>0 DEF PairParts
  <2>2. \A x : x \notin Done(here)
    BY <1>0, <2>1 DEF Done
  <2> QED
    BY <2>2
<1>2. CASE place.part = "configure"
  <2>1. Following(place).part = "configured"
    BY <1>2, ConfigureFollows DEF PlaceInv
  <2>2. Done(place) = {} /\ Done(Following(place)) = {}
    BY <1>0, <1>2, <2>1
  <2> QED
    BY <1>2, <2>2
<1>3. CASE place.part = "configured"
  <2>1. CASE Following(place).part = "configure"
    <3>1. Done(place) = {} /\ Done(Following(place)) = {}
      BY <1>0, <1>3, <2>1
    <3> QED
      BY <1>3, <3>1
  <2>2. CASE Following(place) = FirstPair("accept") /\ Following(place).part = "accept"
    <3>1. \A pair \in Pairs(topology) :
            ~Before(pair, <<Following(place).who, Following(place).other>>)
      BY <1>1, <2>2, FirstPairOfAll
    <3>2. Done(Following(place)) = {}
      BY <2>2, <3>1 DEF Done, PairParts
    <3>3. Done(place) = {}
      BY <1>0, <1>3
    <3> QED
      BY <1>3, <3>2, <3>3
  <2> QED
    BY <1>3, <2>1, <2>2, ConfiguredFollows
<1>4. CASE place.part \in {"accept", "connect", "connected"}
  <2>1. /\ Following(place).part \in {"connect", "connected", "accepted"}
        /\ Following(place).who = place.who /\ Following(place).other = place.other
    BY <1>4, PairFollows DEF PlaceInv
  <2> QED
    BY <1>4, <2>1 DEF Done, PairParts
<1>5. CASE place.part = "accepted"
  <2> DEFINE next == NextPair("accept", place, ForWorker("start", 0))
  <2>1. Following(place) = next
    BY <1>5, AcceptedFollows
  <2>2. Done(place) = {pair \in Pairs(topology) : Before(pair, Here)}
    BY <1>5 DEF Done, PairParts, Here
  <2>3. Here \in Pairs(topology)
    BY <1>5 DEF PlaceInv, PairParts
  <2>4. \/ /\ next.part = "start"
           /\ \A pair \in Pairs(topology) : Before(pair, Here) \/ pair = Here
        \/ /\ next.part = "accept"
           /\ \A pair \in Pairs(topology) :
                Before(pair, <<next.who, next.other>>) <=> Before(pair, Here) \/ pair = Here
    BY <1>5, PairsInOrder DEF PairParts, ForWorker
  <2> HIDE DEF next
  <2>5. CASE next.part = "start" /\ \A pair \in Pairs(topology) : Before(pair, Here) \/ pair = Here
    <3>1. Done(next) = Pairs(topology)
      BY <2>5 DEF Done, PairParts
    <3> QED
      BY <1>5, <2>1, <2>2, <2>3, <2>5, <3>1
  <2>6. CASE /\ next.part = "accept"
             /\ \A pair \in Pairs(topology) :
                  Before(pair, <<next.who, next.other>>) <=> Before(pair, Here) \/ pair = Here
    <3>1. Done(next) = {pair \in Pairs(topology) : Before(pair, <<next.who, next.other>>)}
      BY <2>6 DEF Done, PairParts
    <3> QED
      BY <1>5, <2>1, <2>2, <2>3, <2>6, <3>1
  <2> QED
    BY <2>4, <2>5, <2>6
<1>6. CASE place.part \in {"start", "result", "exit"}
  <2>1. Following(place).part \in {"start", "result", "exit", "over"}
    BY <1>6, LoopFollows
  <2> QED
    BY <1>6, <2>1 DEF Done, PairParts
<1> QED
  BY <1>1, <1>2, <1>3, <1>4, <1>5, <1>6 DEF Parts

-----------------------------------------------------------------------------
\* What a worker is doing

LEMMA DutyNames ==
  ASSUME PlaceInv, NEW w \in Ids
  PROVE  /\ Duty(w, place) \in {"new", "configuring", "ready", "accepting", "connecting",
                                "running", "ended"}
         /\ Duty(w, place) = "accepting" =>
              place.part \in {"connect", "connected", "accepted"} /\ w = place.other
         /\ Duty(w, place) = "connecting" => place.part = "connected" /\ w = place.who
         /\ Duty(w, place) = "running" => place.part \in {"start", "result"}
<1>1. place.part \in Parts
  BY DEF PlaceInv
<1> QED
  BY <1>1 DEF Duty, Parts

\* What a worker is at tells its command.
LEMMA Engaged ==
  ASSUME PlaceInv, DutyInv, NEW w \in Ids
  PROVE  /\ worker[w].at = "accepting" =>
              /\ Duty(w, place) = "accepting" /\ worker[w] = With("accepting", place.who)
              /\ commands[w] = << >> /\ responses[w] = << >>
         /\ worker[w].at = "connecting" =>
              /\ Duty(w, place) = "connecting" /\ worker[w] = With("connecting", place.other)
              /\ commands[w] = << >> /\ responses[w] = << >>
         /\ worker[w].at = "running" =>
              Duty(w, place) = "running" /\ commands[w] = << >> /\ responses[w] = << >>
         /\ worker[w].at = "starting" => Duty(w, place) = "new"
<1>1. Does(w, Duty(w, place))
  BY DEF DutyInv
<1> QED
  BY <1>1, DutyNames DEF Does, Rests, Serves, At, With

\* So does the command it takes up.
LEMMA Commanded ==
  ASSUME PlaceInv, DutyInv, NEW w \in Ids, commands[w] # << >>
  PROVE  /\ responses[w] = << >> /\ Tail(commands[w]) = << >>
         /\ Head(commands[w]).name = "configure" => Duty(w, place) = "configuring"
         /\ Head(commands[w]).name = "accept" =>
              Duty(w, place) = "accepting" /\ Head(commands[w]).peer = place.who
         /\ Head(commands[w]).name = "connect" =>
              Duty(w, place) = "connecting" /\ Head(commands[w]).peer = place.other
         /\ Head(commands[w]).name = "start" => Duty(w, place) = "running"
<1>1. Does(w, Duty(w, place))
  BY DEF DutyInv
<1>2. PICK command : /\ commands[w] = <<command>> /\ responses[w] = << >>
                     /\ \/ Duty(w, place) = "configuring" /\ command = Command("configure", NoPeer)
                        \/ Duty(w, place) = "accepting" /\ command = Command("accept", place.who)
                        \/ Duty(w, place) = "connecting"
                             /\ command = Command("connect", place.other)
                        \/ Duty(w, place) = "running" /\ command = Command("start", NoPeer)
  BY <1>1, DutyNames DEF Does, Rests, Serves
<1>3. Head(commands[w]) = command /\ Tail(commands[w]) = << >>
  BY <1>2
<1> QED
  BY <1>2, <1>3 DEF Command

LEMMA DutyPrimed ==
  ASSUME topology' = topology
  PROVE  (\A w : Duty(w, place)' = Duty(w, place')) /\ Done(place)' = Done(place')
<1>1. Workers' = Workers
  BY DEF Workers, WorkersOf
<1> QED
  BY <1>1 DEF Duty, Done

-----------------------------------------------------------------------------
\* A worker's step

States == {"starting", "greeted", "ready", "connecting", "accepting", "running", "finished",
           "dead"}

LEMMA WorkerShape ==
  ASSUME PlaceInv, ShapeInv, incoming \in [Ids -> Seq(Ids)], NEW x \in Ids,
         WorkerStep(x) \/ Crash(x)
  PROVE  PlaceInv' /\ ShapeInv'
<1>1. UNCHANGED <<topology, coordinator, registered, place>>
  BY DEF WorkerStep, Greet, Configure, Connect, Accept, AcceptIncoming, FinishConnect,
     FailConnect, Start, Finish, ReadEnd, Crash, Uncoordinated
<1>2. greeted \subseteq greeted' /\ greeted' \subseteq Workers
  BY DEF PlaceInv, WorkerStep, Greet, Configure, Connect, Accept, AcceptIncoming, FinishConnect,
     FailConnect, Start, Finish, ReadEnd, Crash
<1>3. PlaceInv'
  BY <1>1, <1>2 DEF PlaceInv, Workers, WorkersOf, Here
<1>4. \A command \in Commands : command.peer \in Ids \cup {NoPeer}
  BY DEF Commands
<1>5. \/ UNCHANGED commands
      \/ commands[x] # << >> /\ commands' = [commands EXCEPT ![x] = Tail(@)]
  BY DEF WorkerStep, Greet, Configure, Connect, Accept, AcceptIncoming, FinishConnect,
     FailConnect, Start, Finish, ReadEnd, Crash, Takes
<1>6. commands' \in [Ids -> Seq(Commands)]
  <2>1. commands[x] # << >> => Tail(commands[x]) \in Seq(Commands)
    BY DEF ShapeInv
  <2> QED
    BY <1>5, <2>1 DEF ShapeInv
<1>7. \/ UNCHANGED responses
      \/ \E answer \in {"ack", "result"} :
           responses' = [responses EXCEPT ![x] = Append(@, answer)]
  BY DEF WorkerStep, Greet, Configure, Connect, Accept, AcceptIncoming, FinishConnect,
     FailConnect, Start, Finish, ReadEnd, Crash, Respond
<1>8. responses' \in [Ids -> Seq({"ack", "result"})]
  <2>1. \A answer \in {"ack", "result"} : Append(responses[x], answer) \in Seq({"ack", "result"})
    BY DEF ShapeInv
  <2> QED
    BY <1>7, <2>1 DEF ShapeInv
<1>9. \E state \in [at : States, peer : Ids \cup {NoPeer}] : Become(x, state)
  <2>1. \A doing \in States : At(doing) \in [at : States, peer : Ids \cup {NoPeer}]
    BY DEF At
  <2>2. ASSUME commands[x] # << >>
        PROVE  \A doing \in States :
                 With(doing, Head(commands[x]).peer) \in [at : States, peer : Ids \cup {NoPeer}]
    <3>1. Head(commands[x]) \in Commands
      BY <2>2 DEF ShapeInv
    <3> QED
      BY <1>4, <3>1 DEF With
  <2>3. {"greeted", "ready", "connecting", "accepting", "running", "finished", "dead"} \subseteq States
    BY DEF States
  <2>4. CASE Connect(x)
    BY <2>2, <2>3, <2>4 DEF Connect, Takes
  <2>5. CASE Accept(x)
    BY <2>2, <2>3, <2>5 DEF Accept, Takes
  <2>6. CASE ~Connect(x) /\ ~Accept(x)
    BY <2>1, <2>3, <2>6 DEF WorkerStep, Greet, Configure, AcceptIncoming, FinishConnect,
       FailConnect, Start, Finish, ReadEnd, Crash
  <2> QED
    BY <2>4, <2>5, <2>6
<1>10. worker' \in [Ids -> [at : States, peer : Ids \cup {NoPeer}]]
  BY <1>9 DEF Become, ShapeInv, States
<1>11. crashes' \in 0 .. MaxCrashes
  BY ControlAssumption
  DEF ShapeInv, WorkerStep, Greet, Configure, Connect, Accept, AcceptIncoming, FinishConnect,
     FailConnect, Start, Finish, ReadEnd, Crash
<1> QED
  BY <1>3, <1>6, <1>8, <1>10, <1>11 DEF ShapeInv, States

\* What a worker does to its own queues and state is all that a worker's step does to them.
LEMMA WorkerDuty ==
  ASSUME PlaceInv, ShapeInv, DutyInv, NEW x \in Ids, WorkerStep(x) \/ Crash(x)
  PROVE  DutyInv'
<1>1. UNCHANGED <<topology, place>>
  BY DEF WorkerStep, Greet, Configure, Connect, Accept, AcceptIncoming, FinishConnect,
     FailConnect, Start, Finish, ReadEnd, Crash, Uncoordinated
<1>2. \A w \in Ids : Duty(w, place)' = Duty(w, place)
  BY <1>1, DutyPrimed
<1>3. \A w \in Ids \ {x} : /\ commands'[w] = commands[w] /\ responses'[w] = responses[w]
                           /\ worker'[w] = worker[w] /\ (w \in greeted' <=> w \in greeted)
  BY DEF ShapeInv, WorkerStep, Greet, Configure, Connect, Accept, AcceptIncoming, FinishConnect,
     FailConnect, Start, Finish, ReadEnd, Crash, Become, Respond, Takes
<1>4. \A w \in Ids \ {x} : Does(w, Duty(w, place))'
  <2> SUFFICES ASSUME NEW w \in Ids \ {x} PROVE Does(w, Duty(w, place))'
    OBVIOUS
  <2>1. Does(w, Duty(w, place))
    BY DEF DutyInv
  <2> QED
    BY <1>1, <1>2, <1>3, <2>1 DEF Does, Rests, Serves
<1>5. x \in DOMAIN commands /\ x \in DOMAIN responses /\ x \in DOMAIN worker
  BY DEF ShapeInv
<1>6. Does(x, Duty(x, place))
  BY DEF DutyInv
<1>7. CASE /\ worker' = [worker EXCEPT ![x] = At("dead")]
           /\ UNCHANGED <<commands, responses, greeted>>
  <2>1. worker'[x] = At("dead")
    BY <1>5, <1>7
  <2>2. Does(x, Duty(x, place))'
    BY <1>1, <1>2, <1>6, <1>7, <2>1, DutyNames DEF Does, Rests, Serves
  <2> QED
    BY <1>3, <1>4, <2>1, <2>2 DEF DutyInv, At
<1>8. CASE Greet(x)
  <2>1. worker'[x] \in {At("greeted"), At("dead")} /\ UNCHANGED <<commands, responses>>
    BY <1>5, <1>8 DEF Greet, Become
  <2>2. Duty(x, place) = "new"
    BY <1>8, Engaged DEF Greet
  <2>3. Does(x, Duty(x, place))'
    BY <1>2, <1>6, <2>1, <2>2 DEF Does, Rests
  <2> QED
    BY <1>3, <1>4, <2>1, <2>3 DEF DutyInv, At
<1>9. CASE Configure(x)
  <2>1. /\ worker'[x] = At("ready") /\ UNCHANGED greeted
        /\ commands'[x] = Tail(commands[x]) /\ responses'[x] = Append(responses[x], "ack")
        /\ commands[x] # << >> /\ Head(commands[x]).name = "configure"
    BY <1>5, <1>9 DEF Configure, Become, Respond, Takes
  <2>2. Duty(x, place) = "configuring" /\ commands'[x] = << >> /\ responses'[x] = <<"ack">>
    <3>1. Duty(x, place) = "configuring" /\ Tail(commands[x]) = << >> /\ responses[x] = << >>
      BY <2>1, Commanded
    <3> QED
      BY <2>1, <3>1
  <2>3. Does(x, Duty(x, place))'
    BY <1>2, <2>1, <2>2 DEF Does, Serves
  <2> QED
    BY <1>3, <1>4, <2>1, <2>3 DEF DutyInv, At
<1>10. CASE Connect(x)
  <2>1. /\ worker'[x] = With("connecting", Head(commands[x]).peer) /\ UNCHANGED <<greeted, responses>>
        /\ commands'[x] = Tail(commands[x])
        /\ commands[x] # << >> /\ Head(commands[x]).name = "connect"
    BY <1>5, <1>10 DEF Connect, Become, Takes
  <2>2. /\ Duty(x, place) = "connecting" /\ commands'[x] = << >> /\ responses'[x] = << >>
        /\ worker'[x] = With("connecting", place.other)
    BY <2>1, Commanded
  <2>3. Does(x, Duty(x, place))'
    BY <1>1, <1>2, <2>2 DEF Does, Serves
  <2> QED
    BY <1>3, <1>4, <2>1, <2>3 DEF DutyInv, With
<1>11. CASE Accept(x)
  <2>1. /\ worker'[x] = With("accepting", Head(commands[x]).peer) /\ UNCHANGED <<greeted, responses>>
        /\ commands'[x] = Tail(commands[x])
        /\ commands[x] # << >> /\ Head(commands[x]).name = "accept"
    BY <1>5, <1>11 DEF Accept, Become, Takes
  <2>2. /\ Duty(x, place) = "accepting" /\ commands'[x] = << >> /\ responses'[x] = << >>
        /\ worker'[x] = With("accepting", place.who)
    BY <2>1, Commanded
  <2>3. Does(x, Duty(x, place))'
    BY <1>1, <1>2, <2>2 DEF Does, Serves
  <2> QED
    BY <1>3, <1>4, <2>1, <2>3 DEF DutyInv, With
<1>12. CASE /\ worker[x].at \in {"accepting", "connecting"}
            /\ worker' = [worker EXCEPT ![x] = At("ready")]
            /\ responses' = [responses EXCEPT ![x] = Append(@, "ack")]
            /\ UNCHANGED <<commands, greeted>>
  <2>1. /\ Duty(x, place) \in {"accepting", "connecting"} /\ commands[x] = << >>
        /\ responses[x] = << >>
    BY <1>12, Engaged
  <2>2. worker'[x] = At("ready") /\ commands'[x] = << >> /\ responses'[x] = <<"ack">>
    BY <1>5, <1>12, <2>1
  <2>3. Does(x, Duty(x, place))'
    BY <1>2, <2>1, <2>2 DEF Does, Serves
  <2> QED
    BY <1>3, <1>4, <2>2, <2>3 DEF DutyInv, At
<1>13. CASE Start(x)
  <2>1. /\ worker'[x] \in {At("running"), At("dead")} /\ UNCHANGED <<greeted, responses>>
        /\ commands'[x] = Tail(commands[x])
        /\ commands[x] # << >> /\ Head(commands[x]).name = "start"
    BY <1>5, <1>13 DEF Start, Become, Takes
  <2>2. Duty(x, place) = "running" /\ commands'[x] = << >> /\ responses'[x] = << >>
    BY <2>1, Commanded
  <2>3. Does(x, Duty(x, place))'
    BY <1>2, <2>1, <2>2 DEF Does, Serves
  <2> QED
    BY <1>3, <1>4, <2>1, <2>3 DEF DutyInv, At
<1>14. CASE /\ worker[x].at = "running" /\ worker' = [worker EXCEPT ![x] = At("finished")]
            /\ responses' = [responses EXCEPT ![x] = Append(@, "result")]
            /\ UNCHANGED <<commands, greeted>>
  <2>1. Duty(x, place) = "running" /\ commands[x] = << >> /\ responses[x] = << >>
    BY <1>14, Engaged
  <2>2. worker'[x] = At("finished") /\ commands'[x] = << >> /\ responses'[x] = <<"result">>
    BY <1>5, <1>14, <2>1
  <2>3. Does(x, Duty(x, place))'
    BY <1>2, <2>1, <2>2 DEF Does, Serves
  <2> QED
    BY <1>3, <1>4, <2>2, <2>3 DEF DutyInv, At
<1>15. CASE AcceptIncoming(x) \/ FinishConnect(x) \/ FailConnect(x)
  BY <1>7, <1>12, <1>15 DEF AcceptIncoming, FinishConnect, FailConnect, Become, Respond
<1>16. CASE Finish(x) \/ ReadEnd(x) \/ Crash(x)
  BY <1>7, <1>14, <1>16 DEF Finish, ReadEnd, Crash, Become, Respond
<1> QED
  BY <1>8, <1>9, <1>10, <1>11, <1>13, <1>15, <1>16 DEF WorkerStep

-----------------------------------------------------------------------------
\* A worker's step and the connections

LEMMA HereIds ==
  ASSUME PlaceInv, place.part \in PairParts
  PROVE  /\ place.who \in Ids /\ place.other \in Ids /\ place.who \in Workers
         /\ place.who # place.other /\ place.who # NoPeer /\ place.other # NoPeer
         /\ Here \in Pairs(topology) /\ Here \notin Done(place)
         /\ <<place.other, place.who>> \notin Pairs(topology)
<1>1. Here \in Pairs(topology) /\ topology \in Topologies
  BY DEF PlaceInv
<1>2. Here[1] = place.who /\ Here[2] = place.other
  BY DEF Here
<1>3. /\ Here[1] \in Nat /\ Here[2] \in Nat /\ Here[1] < Here[2] /\ Here[1] \in Ids /\ Here[2] \in Ids
      /\ NoPeer \notin Ids /\ Here[1] \in Workers
  BY <1>1, PairIds, WorkerIds
<1> HIDE DEF Here
<1>4. place.who \in Nat /\ place.other \in Nat /\ place.who < place.other
  BY <1>2, <1>3
<1>5. place.who # place.other
  BY <1>4
<1>6. <<place.other, place.who>> \notin Pairs(topology)
  <2>1. <<place.other, place.who>>[1] = place.other /\ <<place.other, place.who>>[2] = place.who
    OBVIOUS
  <2> QED
    BY <1>1, <1>4, <2>1, PairIds
<1>7. ~Before(Here, <<place.who, place.other>>)
  BY <1>2, <1>4 DEF Before
<1>8. Here \notin Done(place)
  BY <1>7 DEF Done, PairParts
<1> QED
  BY <1>1, <1>2, <1>3, <1>5, <1>6, <1>8

LEMMA JoinedStays ==
  ASSUME ConnectionsInv, NEW w \in Ids, NEW s \in Ids,
         connections' = [connections EXCEPT ![w][s] = s],
         NEW pair \in Ids \X Ids, Joined(pair)
  PROVE  Joined(pair)'
<1>1. PICK a \in Ids, b \in Ids : pair = <<a, b>>
  OBVIOUS
<1>2. \A v, t \in Ids : connections'[v][t] = IF v = w /\ t = s THEN s ELSE connections[v][t]
  BY DEF ConnectionsInv
<1> QED
  BY <1>1, <1>2 DEF Joined

\* A slot is filled for the pair in hand.
LEMMA FilledSlot ==
  ASSUME PlaceInv, ConnectionsInv, UNCHANGED <<topology, place>>, incoming' \in [Ids -> Seq(Ids)],
         place.part \in PairParts, Begun, Begun',
         NEW w \in Ids, NEW s \in Ids,
         <<w, s>> \in {<<place.who, place.other>>, <<place.other, place.who>>},
         connections' = [connections EXCEPT ![w][s] = s]
  PROVE  ConnectionsInv'
<1>1. \A v, t \in Ids : connections'[v][t] = IF v = w /\ t = s THEN s ELSE connections[v][t]
  BY DEF ConnectionsInv
<1>2. connections' \in [Ids -> [Ids -> Ids \cup {NoPeer}]]
  BY DEF ConnectionsInv
<1>3. \A v, t \in Ids : connections'[v][t] \in {t, NoPeer}
  BY <1>1 DEF ConnectionsInv
<1>4. Done(place)' = Done(place) /\ Pairs(topology)' = Pairs(topology) /\ Here' = Here
  BY DutyPrimed DEF Here
<1>5. \A pair \in Pairs(topology) : pair \in Ids \X Ids /\ pair = <<pair[1], pair[2]>>
                                      /\ pair[1] \in Ids /\ pair[2] \in Ids
  <2>1. \A pair \in Pairs(topology) : pair = <<pair[1], pair[2]>> /\ pair[1] \in Ids /\ pair[2] \in Ids
    BY PairIds, WorkerIds DEF PlaceInv
  <2> QED
    BY <2>1
<1>6. Done(place) \subseteq Pairs(topology)
  BY DEF Done
<1>7. \A pair \in Done(place) : Joined(pair)'
  BY <1>5, <1>6, JoinedStays DEF ConnectionsInv
<1>8. ASSUME NEW pair \in Pairs(topology) \ Done(place), pair # Here
      PROVE  connections'[pair[2]][pair[1]] = NoPeer
  <2>1. connections[pair[2]][pair[1]] = NoPeer
    BY <1>8 DEF ConnectionsInv
  <2>2. pair # <<place.who, place.other>> /\ pair # <<place.other, place.who>>
    BY <1>8, HereIds DEF Here
  <2>3. ~(pair[2] = w /\ pair[1] = s)
    BY <1>5, <2>2
  <2> QED
    BY <1>1, <1>5, <2>1, <2>3
<1> QED
  BY <1>2, <1>3, <1>4, <1>7, <1>8 DEF ConnectionsInv, Joined

LEMMA WorkerConnections ==
  ASSUME ControlInv, NEW x \in Ids, WorkerStep(x) \/ Crash(x)
  PROVE  ConnectionsInv' /\ AttemptInv'
<1> USE DEF ControlInv
<1>1. UNCHANGED <<topology, place>>
  BY DEF WorkerStep, Greet, Configure, Connect, Accept, AcceptIncoming, FinishConnect,
     FailConnect, Start, Finish, ReadEnd, Crash, Uncoordinated
<1>2. Done(place)' = Done(place) /\ Pairs(topology)' = Pairs(topology) /\ Here' = Here
  BY <1>1, DutyPrimed DEF Here
<1>3. commands \in [Ids -> Seq(Commands)] /\ responses \in [Ids -> Seq({"ack", "result"})]
  BY DEF ShapeInv
<1>4. place.part \in {"connected", "accepted"} => place.who \in Ids /\ place.other \in Ids
  BY HereIds DEF PairParts
<1>5. CASE /\ UNCHANGED <<incoming, connections>> /\ Begun' = Begun
           /\ place.part = "connected" => responses'[place.who] = responses[place.who]
  <2>1. ConnectionsInv'
    BY <1>1, <1>2, <1>5 DEF ConnectionsInv, Joined
  <2>2. AttemptInv'
    BY <1>1, <1>2, <1>5 DEF AttemptInv, Joined
  <2> QED
    BY <2>1, <2>2
<1>6. CASE Greet(x) \/ FailConnect(x) \/ ReadEnd(x) \/ Crash(x)
  <2>1. UNCHANGED <<incoming, connections, commands, responses>>
    BY <1>6 DEF Greet, FailConnect, ReadEnd, Crash
  <2> QED
    BY <1>1, <1>5, <2>1 DEF Begun
<1>7. CASE Configure(x) \/ Start(x)
  <2>1. Duty(x, place) \in {"configuring", "running"} /\ UNCHANGED <<incoming, connections>>
    BY <1>7, Commanded DEF Configure, Start, Takes
  <2>2. place.part \notin {"connected", "accepted"}
    BY <2>1 DEF Duty
  <2> QED
    BY <1>1, <1>5, <2>1, <2>2 DEF Begun
<1>8. CASE Finish(x)
  <2>1. place.part \in {"start", "result"} /\ UNCHANGED <<incoming, connections>>
    BY <1>8, Engaged, DutyNames DEF Finish
  <2> QED
    BY <1>1, <1>5, <2>1 DEF Begun
<1>9. CASE Accept(x)
  <2>1. Duty(x, place) = "accepting"
    BY <1>9, Commanded DEF Accept, Takes
  <2>2. place.part \in PairParts /\ x = place.other
    BY <2>1, DutyNames DEF PairParts
  <2>3. x # place.who /\ place.who \in Ids
    BY <2>2, HereIds
  <2>4. /\ UNCHANGED <<incoming, connections, responses>>
        /\ commands' = [commands EXCEPT ![x] = Tail(@)]
    BY <1>9 DEF Accept, Takes
  <2>5. commands'[place.who] = commands[place.who]
    BY <1>3, <2>3, <2>4
  <2> QED
    BY <1>1, <1>5, <2>4, <2>5 DEF Begun
<1>10. CASE Connect(x)
  <2>1. Duty(x, place) = "connecting" /\ Head(commands[x]).peer = place.other /\ commands[x] # << >>
          /\ Tail(commands[x]) = << >> /\ responses[x] = << >>
    BY <1>10, Commanded DEF Connect, Takes
  <2>2. place.part = "connected" /\ x = place.who
    BY <2>1, DutyNames
  <2>3. /\ incoming' = [incoming EXCEPT ![place.other] = Append(@, x)]
        /\ UNCHANGED <<connections, responses>> /\ commands' = [commands EXCEPT ![x] = Tail(@)]
    BY <1>10, <2>1 DEF Connect, Takes
  <2>4. ~Begun /\ Begun'
    BY <1>1, <1>3, <2>1, <2>2, <2>3 DEF Begun
  <2>5. \A w \in Ids : incoming[w] = << >>
    BY <2>4 DEF AttemptInv
  <2>6. \A w \in Ids : incoming'[w] = IF w = place.other THEN <<x>> ELSE << >>
    <3>1. Append(incoming[place.other], x) = <<x>>
      <4>1. incoming[place.other] = << >>
        BY <1>4, <2>2, <2>5
      <4> QED
        BY <4>1
    <3> QED
      BY <2>3, <2>5, <3>1 DEF ConnectionsInv
  <2>7. incoming' \in [Ids -> Seq(Ids)]
    <3>1. Append(incoming[place.other], x) \in Seq(Ids)
      BY <1>4, <2>2 DEF ConnectionsInv
    <3> QED
      BY <2>3, <3>1 DEF ConnectionsInv
  <2>8. connections[place.other][x] = NoPeer
    <3>1. Here \in Pairs(topology) \ Done(place) /\ Here[1] = x /\ Here[2] = place.other
      BY <2>2, HereIds DEF PairParts, Here
    <3> QED
      BY <2>4, <3>1 DEF ConnectionsInv
  <2>9. ConnectionsInv'
    BY <1>1, <1>2, <2>3, <2>4, <2>7 DEF ConnectionsInv, Joined
  <2>10. AttemptInv'
    BY <1>1, <2>1, <2>2, <2>3, <2>4, <2>6, <2>8 DEF AttemptInv
  <2> QED
    BY <2>9, <2>10
<1>11. CASE AcceptIncoming(x)
  <2>1. Duty(x, place) = "accepting" /\ worker[x] = With("accepting", place.who)
    BY <1>11, Engaged DEF AcceptIncoming
  <2>2. place.part \in PairParts /\ x = place.other
    BY <2>1, DutyNames DEF PairParts
  <2>3. x # place.who /\ place.who \in Ids /\ place.who # NoPeer
    BY <2>2, HereIds
  <2>4. /\ Begun /\ incoming[x] = <<place.who>> /\ connections[x][place.who] = NoPeer
        /\ \A w \in Ids \ {x} : incoming[w] = << >>
    BY <1>11, <2>2 DEF AcceptIncoming, AttemptInv
  <2>5. ~Joined(Here)
    BY <2>2, <2>3, <2>4 DEF Joined, Here
  <2>6. place.part = "connected" /\ responses[place.who] = << >>
    BY <2>4, <2>5 DEF AttemptInv, Begun
  <2>7. /\ incoming' = [incoming EXCEPT ![x] = Tail(@)] /\ UNCHANGED commands
        /\ responses' \in {responses, [responses EXCEPT ![x] = Append(@, "ack")]}
        /\ \/ connections' = [connections EXCEPT ![x][place.who] = place.who]
           \/ UNCHANGED connections
    BY <1>11, <2>1, <2>4 DEF AcceptIncoming, Respond, With
  <2>8. incoming' \in [Ids -> Seq(Ids)] /\ \A w \in Ids : incoming'[w] = << >>
    <3>1. Tail(incoming[x]) = << >>
      BY <2>4
    <3>2. \A w \in Ids : incoming'[w] = << >>
      BY <2>4, <2>7, <3>1 DEF ConnectionsInv
    <3>3. incoming \in [Ids -> Seq(Ids)] /\ Tail(incoming[x]) \in Seq(Ids)
      <4>1. << >> \in Seq(Ids)
        OBVIOUS
      <4> QED
        BY <3>1, <4>1 DEF ConnectionsInv
    <3>4. incoming' \in [Ids -> Seq(Ids)]
      BY <2>7, <3>3
    <3> QED
      BY <3>2, <3>4
  <2>9. Begun' /\ responses'[place.who] = << >>
    BY <1>1, <1>3, <2>3, <2>4, <2>6, <2>7 DEF Begun
  <2>10. ConnectionsInv'
    <3>1. CASE connections' = [connections EXCEPT ![x][place.who] = place.who]
      BY <1>1, <2>2, <2>3, <2>4, <2>8, <2>9, <3>1, FilledSlot
    <3>2. CASE UNCHANGED connections
      BY <1>1, <1>2, <2>4, <2>8, <2>9, <3>2 DEF ConnectionsInv, Joined
    <3> QED
      BY <2>7, <3>1, <3>2
  <2>11. AttemptInv'
    BY <1>1, <2>6, <2>8, <2>9 DEF AttemptInv
  <2> QED
    BY <2>10, <2>11
<1>12. CASE FinishConnect(x)
  <2>1. Duty(x, place) = "connecting" /\ worker[x] = With("connecting", place.other)
          /\ commands[x] = << >>
    BY <1>12, Engaged DEF FinishConnect
  <2>2. place.part = "connected" /\ x = place.who /\ place.part \in PairParts
    BY <2>1, DutyNames DEF PairParts
  <2>3. place.other \in Ids /\ x # NoPeer /\ x # place.other
    BY <2>2, HereIds
  <2>4. PICK slot \in Ids : connections[place.other][slot] = x
    BY <1>12, <2>1 DEF FinishConnect, AcceptedBy, With
  <2>5. connections[place.other][x] = x
    <3>1. slot = x
      BY <2>3, <2>4 DEF ConnectionsInv
    <3> QED
      BY <2>4, <3>1
  <2>6. /\ connections' = [connections EXCEPT ![x][place.other] = place.other]
        /\ UNCHANGED <<commands, incoming>>
    BY <1>12, <2>1 DEF FinishConnect, With
  <2>7. Begun /\ Begun'
    BY <1>1, <2>1, <2>2, <2>6 DEF Begun
  <2>8. \A w \in Ids : incoming'[w] = << >>
    BY <2>2, <2>3, <2>5, <2>6 DEF AttemptInv
  <2>9. Joined(Here)'
    <3>1. connections'[x][place.other] = place.other /\ connections'[place.other][x] = x
      BY <2>3, <2>5, <2>6 DEF ConnectionsInv
    <3> QED
      BY <1>1, <2>2, <3>1 DEF Joined, Here
  <2>10. ConnectionsInv'
    <3>1. incoming' \in [Ids -> Seq(Ids)]
      BY <2>6 DEF ConnectionsInv
    <3> QED
      BY <1>1, <2>2, <2>3, <2>6, <2>7, <3>1, FilledSlot
  <2>11. AttemptInv'
    BY <2>8, <2>9 DEF AttemptInv
  <2> QED
    BY <2>10, <2>11
<1> QED
  BY <1>6, <1>7, <1>8, <1>9, <1>10, <1>11, <1>12 DEF WorkerStep

-----------------------------------------------------------------------------
\* The coordinator's step

\* A hello, a time-out or a command that does not get through changes no place and no queue.
LEMMA Stays ==
  ASSUME ControlInv, UNCHANGED <<place, commands, responses, Unworked>>,
         coordinator' \in {"greeting", "commanding", "done", "failed"},
         coordinator' = "greeting" => coordinator = "greeting",
         registered' \subseteq greeted,
         coordinator' \in {"commanding", "done"} => registered' = Workers
  PROVE  ControlInv'
<1> USE DEF ControlInv
<1>1. /\ UNCHANGED <<topology, place, worker, greeted, commands, responses, incoming, connections,
                     crashes>>
      /\ Done(place)' = Done(place) /\ Begun' = Begun /\ Here' = Here
      /\ Pairs(topology)' = Pairs(topology) /\ Workers' = Workers
      /\ \A w : Duty(w, place)' = Duty(w, place)
  BY DutyPrimed DEF Unworked, Begun, Here, Workers, WorkersOf
<1>2. PlaceInv'
  BY <1>1 DEF PlaceInv
<1>3. ShapeInv'
  BY <1>1 DEF ShapeInv
<1>4. DutyInv'
  <2>1. \A w \in Ids : Does(w, Duty(w, place))' = Does(w, Duty(w, place))
    BY <1>1 DEF Does, Rests, Serves
  <2> QED
    BY <1>1, <2>1 DEF DutyInv
<1>5. ConnectionsInv'
  BY <1>1 DEF ConnectionsInv, Joined
<1>6. AttemptInv'
  BY <1>1 DEF AttemptInv, Joined
<1> QED
  BY <1>2, <1>3, <1>4, <1>5, <1>6

\* The coordinator goes on, and the worker at hand has its next duty.
LEMMA Moves ==
  ASSUME ControlInv, coordinator = "commanding", Advance, UNCHANGED <<registered, Unworked>>,
         NEW who \in Ids, who = Who, NEW duty, NEW after, Proceeds(Following(place), duty, after),
         commands' \in [Ids -> Seq(Commands)], responses' \in [Ids -> Seq({"ack", "result"})],
         \A w \in Ids \ {who} : commands'[w] = commands[w] /\ responses'[w] = responses[w],
         Does(who, after)'
  PROVE  PlaceInv' /\ ShapeInv' /\ DutyInv'
<1> USE DEF ControlInv
<1>1. /\ UNCHANGED <<topology, worker, greeted, crashes>> /\ place' = Following(place)
      /\ Workers' = Workers /\ Pairs(topology)' = Pairs(topology)
      /\ \A w : Duty(w, place)' = Duty(w, Following(place))
  BY DutyPrimed DEF Unworked, Advance, Workers, WorkersOf
<1>2. PlaceInv'
  <2>1. coordinator' \in {"commanding", "done"}
    BY DEF Advance
  <2>2. IF place'.part \in PairParts THEN Here' \in Pairs(topology) ELSE place'.other = NoPeer
    BY <1>1 DEF Proceeds, Here
  <2>3. place' \in [part : Parts, who : Workers, other : Ids \cup {NoPeer}]
    BY <1>1, Zenon DEF Proceeds
  <2> QED
    BY <1>1, <2>1, <2>2, <2>3 DEF PlaceInv
<1>3. ShapeInv'
  BY <1>1 DEF ShapeInv
<1>4. ASSUME NEW w \in Ids, w # who
      PROVE  Does(w, Duty(w, place))'
  <2>1. Does(w, Duty(w, place)) /\ Duty(w, place)' = Duty(w, place)
    BY <1>1, <1>4 DEF DutyInv, Proceeds
  <2>2. Duty(w, place) = "accepting" => place'.who = place.who
    <3> SUFFICES ASSUME Duty(w, place) = "accepting" PROVE place'.who = place.who
      OBVIOUS
    <3>1. place.part \in {"connect", "connected", "accepted"} /\ w = place.other
      BY DutyNames
    <3>2. place.part # "accepted"
      BY <1>4, <3>1 DEF Who
    <3> QED
      BY <1>1, <3>1, <3>2, PairFollows DEF PlaceInv
  <2>3. Duty(w, place) # "connecting"
    BY <1>4, DutyNames DEF Who
  <2>4. commands'[w] = commands[w] /\ responses'[w] = responses[w] /\ worker' = worker
    BY <1>1, <1>4
  <2> QED
    BY <2>1, <2>2, <2>3, <2>4 DEF Does, Rests, Serves
<1>5. DutyInv'
  <2>1. Does(who, Duty(who, place))'
    <3>1. Duty(who, place)' = after
      BY <1>1 DEF Proceeds
    <3> QED
      BY <3>1
  <2>2. \A w \in Ids : Does(w, Duty(w, place))'
    BY <1>1, <1>4, <2>1
  <2> QED
    BY <1>1, <2>2 DEF DutyInv
<1> QED
  BY <1>2, <1>3, <1>5

\* Nobody is connecting when the coordinator goes on, but for the pair it has in hand.
LEMMA MovesConnections ==
  ASSUME ControlInv, place.part # "over", place' = Following(place), UNCHANGED Unworked,
         place.part = "connect" => responses'[place.who] = << >>,
         place.part = "connected" => responses[place.who] # << >> /\ commands'[place.who] = << >>
  PROVE  ConnectionsInv' /\ AttemptInv'
<1> USE DEF ControlInv
<1>1. /\ UNCHANGED <<topology, incoming, connections>> /\ Pairs(topology)' = Pairs(topology)
      /\ Done(place)' = Done(Following(place))
  BY DutyPrimed DEF Unworked
<1>2. place.part \in {"connected", "accepted"} => Joined(Here)
  BY DEF AttemptInv
<1>3. \A w \in Ids : incoming[w] = << >>
  <2> SUFFICES ASSUME NEW w \in Ids, incoming[w] # << >> PROVE FALSE
    OBVIOUS
  <2>1. /\ place.part \in {"connected", "accepted"} /\ w = place.other
        /\ connections[w][place.who] = NoPeer
    BY DEF AttemptInv, Begun
  <2>2. place.who # NoPeer
    BY <2>1, HereIds DEF PairParts
  <2> QED
    BY <1>2, <2>1, <2>2 DEF Joined, Here
<1>4. Done(place)' = IF place.part = "accepted" THEN Done(place) \cup {Here} ELSE Done(place)
  BY <1>1, DoneFollows
<1>5. \A pair \in Done(place)' : Joined(pair)'
  BY <1>1, <1>2, <1>4 DEF ConnectionsInv, Joined
<1>6. ASSUME NEW pair \in Pairs(topology), pair \notin Done(place)', pair # Here' \/ ~Begun'
      PROVE  connections[pair[2]][pair[1]] = NoPeer
  <2>1. pair \notin Done(place) /\ (place.part = "accepted" => pair # Here)
    BY <1>4, <1>6
  <2>2. CASE pair # Here \/ ~Begun
    BY <2>1, <2>2 DEF ConnectionsInv
  <2>3. CASE pair = Here /\ Begun
    <3>1. place.part = "connected"
      BY <2>1, <2>3 DEF Begun
    <3>2. place'.part = "accepted" /\ place'.who = place.who /\ place'.other = place.other
      BY <3>1, PairFollows DEF PlaceInv
    <3>3. Here' = Here /\ Begun'
      BY <3>1, <3>2 DEF Here, Begun
    <3> QED
      BY <1>6, <2>3, <3>3
  <2> QED
    BY <2>2, <2>3
<1>7. ConnectionsInv'
  BY <1>1, <1>5, <1>6 DEF ConnectionsInv
<1>8. place'.part \in {"connected", "accepted"} =>
        /\ place.part = IF place'.part = "connected" THEN "connect" ELSE "connected"
        /\ place'.who = place.who /\ place'.other = place.other
  <2>1. CASE place.part \in {"accept", "connect", "connected"}
    BY <2>1, PairFollows DEF PlaceInv
  <2>2. CASE place.part = "configure"
    BY <2>2, ConfigureFollows DEF PlaceInv
  <2>3. CASE place.part = "configured"
    BY <2>3, ConfiguredFollows
  <2>4. CASE place.part = "accepted"
    BY <2>4, AcceptedFollows, PairsInOrder DEF PairParts, ForWorker
  <2>5. CASE place.part \in {"start", "result", "exit"}
    BY <2>5, LoopFollows
  <2> QED
    BY <2>1, <2>2, <2>3, <2>4, <2>5 DEF PlaceInv, Parts
<1>9. AttemptInv'
  <2>1. place'.part = "accepted" \/ (place'.part = "connected" /\ responses'[place'.who] # << >>) =>
          Joined(Here)'
    BY <1>1, <1>2, <1>8 DEF Joined, Here
  <2> QED
    BY <1>1, <1>3, <2>1 DEF AttemptInv
<1> QED
  BY <1>7, <1>9

\* What the worker at hand is at when the coordinator sends it a command, and what it is then.
LEMMA Sent ==
  ASSUME ControlInv, coordinator = "commanding", UNCHANGED <<worker, responses>>,
         place.part \in {"configure", "accept", "connect", "start"}, place' = Following(place),
         NEW who \in Ids, who = Who, commands' = [commands EXCEPT ![who] = Append(@, Told)]
  PROVE  /\ commands' \in [Ids -> Seq(Commands)]
         /\ \E duty, after : Proceeds(Following(place), duty, after) /\ Does(who, after)'
<1> USE DEF ControlInv
<1>1. Does(who, Duty(who, place)) /\ commands \in [Ids -> Seq(Commands)]
  BY DEF DutyInv, ShapeInv
<1>2. ASSUME NEW states, Rests(who, states), NEW command \in Commands, Told = command
      PROVE  /\ commands' \in [Ids -> Seq(Commands)]
             /\ commands'[who] = <<command>> /\ responses'[who] = << >>
             /\ worker'[who] \in states \cup {At("dead")}
  <2>1. commands[who] = << >> /\ responses[who] = << >> /\ worker[who] \in states \cup {At("dead")}
    BY <1>2 DEF Rests
  <2>2. Append(commands[who], Told) = <<command>> /\ <<command>> \in Seq(Commands)
    BY <1>2, <2>1
  <2> QED
    BY <1>1, <2>1, <2>2
<1>3. \A name \in {"configure", "start", "connect", "accept"} : \A p \in Ids \cup {NoPeer} :
        Command(name, p) \in Commands
  BY DEF Command, Commands
<1>4. CASE place.part = "configure"
  <2>1. Proceeds(Following(place), "new", "configuring")
    BY <1>4, ConfigureFollows
  <2>2. Rests(who, {At("starting"), At("greeted")})
    BY <1>1, <2>1 DEF Proceeds, Does
  <2>3. Told = Command("configure", NoPeer)
    BY <1>4 DEF Told, PlaceInv, PairParts
  <2>4. /\ commands' \in [Ids -> Seq(Commands)]
        /\ commands'[who] = <<Command("configure", NoPeer)>> /\ responses'[who] = << >>
        /\ worker'[who] \in {At("starting"), At("greeted")} \cup {At("dead")}
    BY <1>2, <1>3, <2>2, <2>3
  <2>5. worker[who].at # "starting"
    <3>1. who \in Workers
      BY <1>4, WorkerIds DEF Who, PlaceInv
    <3> QED
      BY <3>1 DEF PlaceInv, DutyInv
  <2>6. Does(who, "configuring")'
    BY <2>4, <2>5 DEF Does, Serves, At
  <2> QED
    BY <2>1, <2>4, <2>6
<1>5. CASE place.part = "accept"
  <2>1. Proceeds(Following(place), "ready", "accepting") /\ place'.who = place.who
    BY <1>5, PairFollows DEF PlaceInv
  <2>2. Rests(who, {At("ready")})
    BY <1>1, <2>1 DEF Proceeds, Does
  <2>3. Told = Command("accept", place.who) /\ place.who \in Ids
    BY <1>5, HereIds DEF Told, PairParts
  <2>4. /\ commands' \in [Ids -> Seq(Commands)]
        /\ commands'[who] = <<Command("accept", place.who)>> /\ responses'[who] = << >>
        /\ worker'[who] \in {At("ready")} \cup {At("dead")}
    BY <1>2, <1>3, <2>2, <2>3
  <2>5. Does(who, "accepting")'
    BY <2>1, <2>4 DEF Does, Serves
  <2> QED
    BY <2>1, <2>4, <2>5
<1>6. CASE place.part = "connect"
  <2>1. Proceeds(Following(place), "ready", "connecting") /\ place'.other = place.other
    BY <1>6, PairFollows DEF PlaceInv
  <2>2. Rests(who, {At("ready")})
    BY <1>1, <2>1 DEF Proceeds, Does
  <2>3. Told = Command("connect", place.other) /\ place.other \in Ids
    BY <1>6, HereIds DEF Told, PairParts
  <2>4. /\ commands' \in [Ids -> Seq(Commands)]
        /\ commands'[who] = <<Command("connect", place.other)>> /\ responses'[who] = << >>
        /\ worker'[who] \in {At("ready")} \cup {At("dead")}
    BY <1>2, <1>3, <2>2, <2>3
  <2>5. Does(who, "connecting")'
    BY <2>1, <2>4 DEF Does, Serves
  <2> QED
    BY <2>1, <2>4, <2>5
<1>7. CASE place.part = "start"
  <2>1. Proceeds(Following(place), "ready", "running")
    BY <1>7, LoopFollows
  <2>2. Rests(who, {At("ready")})
    BY <1>1, <2>1 DEF Proceeds, Does
  <2>3. Told = Command("start", NoPeer)
    BY <1>7 DEF Told, PlaceInv, PairParts
  <2>4. /\ commands' \in [Ids -> Seq(Commands)]
        /\ commands'[who] = <<Command("start", NoPeer)>> /\ responses'[who] = << >>
        /\ worker'[who] \in {At("ready")} \cup {At("dead")}
    BY <1>2, <1>3, <2>2, <2>3
  <2>5. Does(who, "running")'
    BY <2>4 DEF Does, Serves
  <2> QED
    BY <2>1, <2>4, <2>5
<1> QED
  BY <1>4, <1>5, <1>6, <1>7

LEMMA WhoIds ==
  ASSUME PlaceInv
  PROVE  Who \in Ids /\ Who \in Workers
<1>1. place.who \in Workers /\ Workers \subseteq Ids
  BY WorkerIds DEF PlaceInv
<1>2. place.part \in PairParts => place.other \in Workers
  <2>1. Here[2] = place.other
    BY DEF Here
  <2> QED
    BY <2>1, PairIds DEF PlaceInv
<1> QED
  BY <1>1, <1>2 DEF Who, PairParts

LEMMA SendKeeps ==
  ASSUME ControlInv, SendCommand
  PROVE  ControlInv'
<1>1. PICK who \in Ids : who = Who
  BY WhoIds DEF ControlInv
<1>2. coordinator = "commanding" /\ place.part \in {"configure", "accept", "connect", "start"}
  BY DEF SendCommand, Doing
<1>3. UNCHANGED <<registered, responses, worker, Unworked>>
  BY DEF SendCommand, Unworked
<1>4. CASE Fail /\ UNCHANGED commands
  <2>1. registered = Workers /\ registered \subseteq greeted
    BY <1>2 DEF ControlInv, PlaceInv
  <2>2. registered' = Workers'
    BY <1>3, <2>1 DEF Unworked, Workers, WorkersOf
  <2> QED
    BY <1>2, <1>3, <1>4, <2>1, <2>2, Stays DEF Fail
<1>5. CASE Advance /\ commands' = [commands EXCEPT ![who] = Append(@, Told)]
  <2>1. place' = Following(place)
    BY <1>5 DEF Advance
  <2>2. commands' \in [Ids -> Seq(Commands)]
    BY <1>1, <1>2, <1>3, <1>5, <2>1, Sent
  <2>3. PICK duty, after : Proceeds(Following(place), duty, after) /\ Does(who, after)'
    BY <1>1, <1>2, <1>3, <1>5, <2>1, Sent
  <2>4. responses' \in [Ids -> Seq({"ack", "result"})]
    BY <1>3 DEF ControlInv, ShapeInv
  <2>5. \A w \in Ids \ {who} : commands'[w] = commands[w] /\ responses'[w] = responses[w]
    BY <1>3, <1>5 DEF ControlInv, ShapeInv
  <2>6. PlaceInv' /\ ShapeInv' /\ DutyInv'
    BY <1>1, <1>2, <1>3, <1>5, <2>2, <2>3, <2>4, <2>5, Moves
  <2>7. place.part = "connect" => responses'[place.who] = << >>
    <3> SUFFICES ASSUME place.part = "connect" PROVE responses[place.who] = << >>
      BY <1>3
    <3>1. Duty(Who, place) = "ready" /\ Who = place.who
      BY PairFollows DEF ControlInv, Proceeds
    <3> QED
      BY <1>1, <3>1 DEF ControlInv, DutyInv, Does, Rests
  <2>8. ConnectionsInv' /\ AttemptInv'
    BY <1>2, <1>3, <2>1, <2>7, MovesConnections
  <2> QED
    BY <2>6, <2>8 DEF ControlInv
<1> QED
  BY <1>1, <1>4, <1>5 DEF SendCommand

\* The response read is the one awaited, and the worker is at rest after it.
LEMMA Answered ==
  ASSUME ControlInv, UNCHANGED <<worker, commands>>,
         place.part \in {"configured", "connected", "accepted", "result"},
         NEW who \in Ids, who = Who, responses[who] # << >>,
         responses' = [responses EXCEPT ![who] = Tail(@)]
  PROVE  /\ Head(responses[who]) = Awaited /\ commands[who] = << >>
         /\ responses' \in [Ids -> Seq({"ack", "result"})]
         /\ \E duty, after : Proceeds(Following(place), duty, after) /\ Does(who, after)'
<1> USE DEF ControlInv
<1>1. Does(who, Duty(who, place)) /\ responses \in [Ids -> Seq({"ack", "result"})]
  BY DEF DutyInv, ShapeInv
<1>2. ASSUME NEW command, NEW before, NEW doing, NEW after, NEW answer,
             Serves(who, command, before, doing, after, answer)
      PROVE  /\ Head(responses[who]) = answer /\ commands[who] = << >>
             /\ responses' \in [Ids -> Seq({"ack", "result"})]
             /\ Rests(who, {after})'
  <2>1. commands[who] = << >> /\ responses[who] = <<answer>> /\ worker[who] \in {after, At("dead")}
    BY <1>2 DEF Serves
  <2>2. Head(responses[who]) = answer /\ Tail(responses[who]) = << >>
    BY <2>1
  <2>3. << >> \in Seq({"ack", "result"})
    OBVIOUS
  <2> QED
    BY <1>1, <2>1, <2>2, <2>3 DEF Rests
<1>3. CASE place.part = "configured"
  <2>1. Proceeds(Following(place), "configuring", "ready")
    BY <1>3, ConfiguredFollows
  <2>2. Serves(who, Command("configure", NoPeer), At("greeted"), At("dead"), At("ready"), "ack")
    BY <1>1, <2>1 DEF Proceeds, Does
  <2>3. Does(who, "ready")'
    BY <1>2, <2>2 DEF Does
  <2> QED
    BY <1>2, <1>3, <2>1, <2>2, <2>3 DEF Awaited
<1>4. CASE place.part = "connected"
  <2>1. Proceeds(Following(place), "connecting", "ready")
    BY <1>4, PairFollows
  <2>2. Serves(who, Command("connect", place.other), At("ready"), With("connecting", place.other),
               At("ready"), "ack")
    BY <1>1, <2>1 DEF Proceeds, Does
  <2>3. Does(who, "ready")'
    BY <1>2, <2>2 DEF Does
  <2> QED
    BY <1>2, <1>4, <2>1, <2>2, <2>3 DEF Awaited
<1>5. CASE place.part = "accepted"
  <2>1. Proceeds(Following(place), "accepting", "ready")
    BY <1>5, AcceptedFollows
  <2>2. Serves(who, Command("accept", place.who), At("ready"), With("accepting", place.who),
               At("ready"), "ack")
    BY <1>1, <2>1 DEF Proceeds, Does
  <2>3. Does(who, "ready")'
    BY <1>2, <2>2 DEF Does
  <2> QED
    BY <1>2, <1>5, <2>1, <2>2, <2>3 DEF Awaited
<1>6. CASE place.part = "result"
  <2>1. Proceeds(Following(place), "running", "ended")
    BY <1>6, LoopFollows
  <2>2. Serves(who, Command("start", NoPeer), At("ready"), At("running"), At("finished"), "result")
    BY <1>1, <2>1 DEF Proceeds, Does
  <2>3. Does(who, "ended")'
    BY <1>2, <2>2 DEF Does
  <2>4. Awaited = "result"
    BY <1>6 DEF Awaited
  <2> QED
    BY <1>2, <2>1, <2>2, <2>3, <2>4
<1> QED
  BY <1>3, <1>4, <1>5, <1>6

LEMMA AwaitKeeps ==
  ASSUME ControlInv, AwaitResponse
  PROVE  ControlInv'
<1>1. PICK who \in Ids : who = Who
  BY WhoIds DEF ControlInv
<1>2. coordinator = "commanding"
        /\ place.part \in {"configured", "connected", "accepted", "result", "exit"}
  BY DEF AwaitResponse, Doing
<1>3. UNCHANGED <<registered, commands, worker, Unworked>>
  BY DEF AwaitResponse, Unworked
<1>4. /\ commands' \in [Ids -> Seq(Commands)] /\ responses \in [Ids -> Seq({"ack", "result"})]
      /\ \A w \in Ids : commands'[w] = commands[w]
  BY <1>3 DEF ControlInv, ShapeInv
<1>5. CASE Fail /\ UNCHANGED responses
  <2>1. registered = Workers /\ registered \subseteq greeted
    BY <1>2 DEF ControlInv, PlaceInv
  <2>2. registered' = Workers'
    BY <1>3, <2>1 DEF Unworked, Workers, WorkersOf
  <2> QED
    BY <1>2, <1>3, <1>5, <2>1, <2>2, Stays DEF Fail
<1>6. CASE /\ place.part # "exit" /\ responses[who] # << >>
           /\ IF Head(responses[who]) = Awaited THEN Advance ELSE Fail
           /\ responses' = [responses EXCEPT ![who] = Tail(@)]
  <2>1. Head(responses[who]) = Awaited /\ commands[who] = << >>
          /\ responses' \in [Ids -> Seq({"ack", "result"})]
    BY <1>1, <1>2, <1>3, <1>6, Answered
  <2>2. Advance /\ place' = Following(place)
    BY <1>6, <2>1 DEF Advance
  <2>3. PICK duty, after : Proceeds(Following(place), duty, after) /\ Does(who, after)'
    BY <1>1, <1>2, <1>3, <1>6, Answered
  <2>4. \A w \in Ids \ {who} : commands'[w] = commands[w] /\ responses'[w] = responses[w]
    BY <1>4, <1>6
  <2>5. PlaceInv' /\ ShapeInv' /\ DutyInv'
    BY <1>1, <1>2, <1>3, <1>4, <2>1, <2>2, <2>3, <2>4, Moves
  <2>6. place.part = "connected" => responses[place.who] # << >> /\ commands'[place.who] = << >>
    BY <1>1, <1>4, <1>6, <2>1 DEF Who
  <2>7. ConnectionsInv' /\ AttemptInv'
    BY <1>2, <1>3, <2>2, <2>6, MovesConnections
  <2> QED
    BY <2>5, <2>7 DEF ControlInv
<1>7. CASE place.part = "exit" /\ Advance /\ UNCHANGED responses
  <2>1. Proceeds(Following(place), "ended", "ended") /\ place' = Following(place)
    BY <1>7, LoopFollows DEF ControlInv, Advance
  <2>2. Does(who, "ended")
    BY <1>1, <2>1 DEF ControlInv, DutyInv, Proceeds
  <2>3. Does(who, "ended")'
    BY <1>3, <1>7, <2>2 DEF Does, Rests
  <2>4. responses' \in [Ids -> Seq({"ack", "result"})]
          /\ \A w \in Ids \ {who} : commands'[w] = commands[w] /\ responses'[w] = responses[w]
    BY <1>4, <1>7
  <2>5. PlaceInv' /\ ShapeInv' /\ DutyInv'
    BY <1>1, <1>2, <1>3, <1>4, <1>7, <2>1, <2>3, <2>4, Moves
  <2>6. ConnectionsInv' /\ AttemptInv'
    BY <1>3, <1>7, <2>1, MovesConnections
  <2> QED
    BY <2>5, <2>6 DEF ControlInv
<1> QED
  BY <1>1, <1>5, <1>6, <1>7 DEF AwaitResponse

-----------------------------------------------------------------------------
\* The theorems

LEMMA ControlInit ==
  ASSUME Init
  PROVE  ControlInv
<1>1. topology \in Topologies /\ Workers = 0 .. LastWorker /\ LastWorker \in Nat /\ NoPeer \notin Ids
      /\ Participants \in Nat
  BY WorkerIds DEF Init
<1>2. PlaceInv
  BY <1>1 DEF Init, PlaceInv, ForWorker, Parts, PairParts
<1>3. ShapeInv
  <2>1. MaxCrashes \in Nat
    BY ControlAssumption
  <2>2. << >> \in Seq(Commands) /\ << >> \in Seq({"ack", "result"})
    OBVIOUS
  <2> QED
    BY <2>1, <2>2 DEF Init, ShapeInv, At
<1>4. DutyInv
  <2>1. \A w \in Ids : Duty(w, place) = "new"
    BY <1>1 DEF Init, Duty
  <2>2. \A w \in Ids : Rests(w, {At("starting"), At("greeted")})
    BY DEF Init, Rests
  <2>3. \A w \in Ids : Does(w, Duty(w, place))
    BY <2>1, <2>2 DEF Does
  <2> QED
    BY <2>3 DEF Init, DutyInv
<1>5. Done(place) = {}
  <2>1. \A pair : pair \notin Done(place)
    BY DEF Init, Done, PairParts
  <2> QED
    BY <2>1
<1>6. ConnectionsInv
  <2>1. << >> \in Seq(Ids)
    OBVIOUS
  <2>2. \A pair \in Pairs(topology) : connections[pair[2]][pair[1]] = NoPeer
    BY <1>1, PairIds, WorkerIds DEF Init
  <2> QED
    BY <1>5, <2>1, <2>2 DEF Init, ConnectionsInv
<1>7. AttemptInv
  BY DEF Init, AttemptInv
<1> QED
  BY <1>2, <1>3, <1>4, <1>6, <1>7 DEF ControlInv

LEMMA ControlNext ==
  ASSUME ControlInv, [Next]_vars
  PROVE  ControlInv'
<1>1. coordinator \in {"greeting", "commanding", "done", "failed"} /\ registered \subseteq greeted
      /\ (coordinator \in {"commanding", "done"} => registered = Workers)
  BY DEF ControlInv, PlaceInv
<1>2. CASE UNCHANGED vars
  <2>1. registered' = registered /\ coordinator' = coordinator
          /\ UNCHANGED <<place, commands, responses, Unworked>>
    BY <1>2 DEF vars, Unworked
  <2>2. Workers' = Workers
    BY <2>1 DEF Unworked, Workers, WorkersOf
  <2> QED
    BY <1>1, <2>1, <2>2, Stays
<1>3. CASE \E w \in Ids : Register(w)
  <2>1. PICK w \in greeted : /\ coordinator = "greeting" /\ registered' = registered \cup {w}
                             /\ coordinator' = IF registered' = Workers THEN "commanding"
                                               ELSE coordinator
                             /\ UNCHANGED <<place, commands, responses, Unworked>>
    BY <1>3 DEF Register
  <2>2. Workers' = Workers
    BY <2>1 DEF Unworked, Workers, WorkersOf
  <2> QED
    BY <1>1, <2>1, <2>2, Stays
<1>4. CASE TimeOut \/ MissHello
  <2>1. /\ coordinator' = "failed"
        /\ UNCHANGED <<registered, place, commands, responses, Unworked>>
    BY <1>4 DEF TimeOut, MissHello, Fail
  <2>2. Workers' = Workers
    BY <2>1 DEF Unworked, Workers, WorkersOf
  <2> QED
    BY <1>1, <2>1, <2>2, Stays
<1>5. CASE SendCommand \/ AwaitResponse
  BY <1>5, SendKeeps, AwaitKeeps
<1>6. ASSUME NEW w \in Ids, WorkerStep(w) \/ Crash(w)
      PROVE  ControlInv'
  BY <1>6, WorkerShape, WorkerDuty, WorkerConnections DEF ControlInv, ConnectionsInv
<1> QED
  BY <1>2, <1>3, <1>4, <1>5, <1>6 DEF Next, CoordinatorStep

LEMMA ControlInvariant == Spec => []ControlInv
<1>1. Init => ControlInv
  BY ControlInit
<1>2. ControlInv /\ [Next]_vars => ControlInv'
  BY ControlNext
<1> QED
  BY <1>1, <1>2, PTL DEF Spec

\* Whatever crashes and times out, a worker has no more than one response unread, and the
\* coordinator names only workers of the topology (main.rs:1215-1249, 1313-1420).
THEOREM ControlTypeCorrect == Spec => []TypeOK
<1>1. ControlInv => TypeOK
  <2> SUFFICES ASSUME ControlInv PROVE TypeOK
    OBVIOUS
  <2> USE DEF ControlInv
  <2>1. ASSUME NEW w \in Ids
        PROVE  Len(responses[w]) <= 1
    <3>1. responses[w] \in {<< >>, <<"ack">>, <<"result">>}
      BY DutyNames DEF DutyInv, Does, Rests, Serves
    <3>2. Len(<< >>) <= 1 /\ Len(<<"ack">>) <= 1 /\ Len(<<"result">>) <= 1
      OBVIOUS
    <3> QED
      BY <3>1, <3>2
  <2> QED
    BY <2>1 DEF TypeOK, PlaceInv, ShapeInv, ConnectionsInv
<1> QED
  BY <1>1, ControlInvariant, PTL

\* For any number of participants, in both topologies and whatever crashes: when a worker
\* runs media, every connection of the topology is in place at both of its ends and
\* filed under the right peer, though an acceptor takes whichever connection comes
\* first (main.rs:1374-1392, 1586-1596).
THEOREM WholeMeshStarts == Spec => []MediaStartsOnWholeMesh
<1>1. ControlInv => MediaStartsOnWholeMesh
  <2> SUFFICES ASSUME ControlInv, NEW w \in Ids, worker[w].at = "running"
               PROVE  \A pair \in Pairs(topology) : Joined(pair)
    BY DEF MediaStartsOnWholeMesh, Joined
  <2> USE DEF ControlInv
  <2>1. place.part \in {"start", "result"}
    BY Engaged, DutyNames
  <2>2. Done(place) = Pairs(topology)
    BY <2>1 DEF Done, PairParts
  <2> QED
    BY <2>2 DEF ConnectionsInv
<1> QED
  BY <1>1, ControlInvariant, PTL
=============================================================================
