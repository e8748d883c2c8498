------------------------------ MODULE MeshMedia ------------------------------
(***************************************************************************)
(* The media phase of voice-mesh-bench/src/main.rs in its single-process   *)
(* layout, seen from one listener: the sender task of every speaker, the   *)
(* connections and their readers (in a star, the SFU's in between), the    *)
(* churn task that closes and remakes connections under way, and the       *)
(* listener task with its receivers and their pool.  Tasks interleave at   *)
(* their awaits and locks.  Senders loop over all listeners, every one of  *)
(* which has a column of its own; this is the column of one.               *)
(*                                                                         *)
(* Time is counted in media frames.  A receiver is what its metrics and    *)
(* its identity need: the speakers it has heard since it was made or       *)
(* reset, what it has concealed and what of that was reported.             *)
(***************************************************************************)
EXTENDS Integers, SequencesExt, FiniteSetsExt

CONSTANTS
  Participants,       \* participants are 0 .. Participants - 1
  Listener,
  InterestListeners,  \* interest_listeners
  Rotation,           \* per speaker and frame, the rotation hashed from them
  Stress,             \* the frames of the stress window
  MediaEnd,           \* first frame after the media
  Horizon,            \* last frame of the delivery grace
  Settings,           \* configurations to run
  MaxConcealed,       \* bound: frames a receiver conceals
  None                \* no receiver

Members == 0 .. Participants - 1
Speakers == Members \ {Listener}
Frames == 0 .. Horizon

Configurations ==
  [topology : {"direct", "star"},
   scenario : {"baseline", "rotating", "oscillation", "group-merge"},
   talkers : 1 .. Participants,  \* who has an encoder in the baseline scenario
   filtered : BOOLEAN,   \* Delivery::SenderFiltered
   pooled : BOOLEAN,     \* ReceiverPolicy::Pool
   churn : {"none", "join", "leave", "reconnect", "replace"},
   churner : Members]

\* What Config::parse admits.
Admitted(c) ==
  /\ c.churn # "none" => c.topology = "direct"
  /\ c.scenario = "oscillation" => 2 * InterestListeners <= Participants - 1

ASSUME MediaAssumption ==
  /\ Participants \in Nat /\ Participants > 1 /\ Listener \in Members
  /\ InterestListeners \in 1 .. Participants - 1
  /\ Rotation \in [Speakers -> [Frames -> 0 .. Participants - 2]]
  /\ Stress \subseteq Frames /\ Stress # {}
  /\ Horizon \in Nat /\ MediaEnd \in Frames /\ MaxConcealed \in Nat
  /\ Settings \subseteq Configurations
  /\ \A c \in Settings : Admitted(c)

VARIABLES
  setting, clock,
  due,              \* per speaker, the frame of its next tick, or Over
  sending,          \* per speaker, the packet at hand and the connection it cloned
  uplink,           \* star: datagrams on their way to the SFU
  wire,             \* datagrams on their way to the listener
  outbound,         \* connections[speaker][Listener]; 0 is None
  inbound,          \* connections[Listener][speaker]
  open,             \* connections that are not closed
  readers,          \* connections with a reader task at the listener
  churn,            \* the churn task: place, pairs left, connection in hand
  unreconnected,    \* pairs in reconnect_errors
  endpoint,         \* the churner's endpoint: its generation, or 0
  inbox,            \* the listener's channel
  listener,         \* place of the listener task and the frame of its callback
  interest_active,
  slots,            \* receivers
  pool,             \* receiver_pool
  totals,           \* receiver_totals.concealed_samples, in frames
  counts,           \* receiver_creations, _reuses and _retirements
  concealed         \* history: all that receivers ever concealed

sender_vars == <<due, sending, uplink>>
net_vars == <<outbound, inbound, open, readers>>
churn_vars == <<churn, unreconnected, endpoint>>
receiver_vars == <<interest_active, slots, pool, totals, counts, concealed>>
vars == <<setting, clock, sender_vars, wire, net_vars, churn_vars, inbox,
          listener, receiver_vars>>

NewReceiver == [heard |-> {}, concealed |-> 0, reported |-> 0]
Receivers ==
  [heard : SUBSET Members, concealed : 0 .. MaxConcealed, reported : 0 .. MaxConcealed]

ASSUME NoneAssumption == None \notin Receivers

Over == Horizon + 2
Idle == [conn |-> 0, frame |-> Over]

\* Speakers that have an encoder, and a receiver at the listener.
Encoding(c) == IF c.scenario = "baseline" THEN {s \in Speakers : s < c.talkers} ELSE Speakers

\* Pairs of the listener the churn task touches.
ChurnPairs(c) == IF c.churner = Listener THEN Speakers ELSE {c.churner}
Absent(c) == IF c.churn = "join" THEN ChurnPairs(c) ELSE {}

Init ==
  /\ setting \in Settings
  /\ clock = 0
  /\ due = [s \in Speakers |-> IF s \in Encoding(setting) THEN 0 ELSE Over]
  /\ sending = [s \in Speakers |-> Idle]
  /\ uplink = {} /\ wire = {} /\ inbox = << >>
  /\ outbound = [s \in Speakers |-> IF s \in Absent(setting) THEN 0 ELSE 1]
  /\ inbound = outbound
  /\ open = (Speakers \ Absent(setting)) \X {1}
  /\ readers = open
  /\ churn = [at |-> IF setting.churn = "none" THEN "done" ELSE "waiting",
              left |-> ChurnPairs(setting), conn |-> 0]
  /\ unreconnected = {}
  /\ endpoint = IF setting.churn = "join" THEN 0 ELSE 1
  /\ listener = [at |-> "waiting", frame |-> 0]
  /\ interest_active = [s \in Speakers |-> FALSE]
  /\ slots = [s \in Speakers |->
                IF setting.scenario = "baseline" /\ s \in Encoding(setting)
                THEN NewReceiver ELSE None]
  /\ pool = << >>
  /\ totals = 0 /\ concealed = 0
  /\ counts = [made |-> Cardinality({s \in Speakers : slots[s] # None}),
               reused |-> 0, retired |-> 0]

Live == {s \in Speakers : slots[s] # None}

TypeOK ==
  /\ setting \in Settings /\ clock \in Frames
  /\ due \in [Speakers -> Frames \cup {Horizon + 1, Over}]
  /\ sending \in [Speakers -> [conn : 0 .. 2, frame : Frames \cup {Over}]]
  /\ uplink \subseteq Speakers \X Frames
  /\ wire \subseteq [conn : Speakers \X (1 .. 2), frame : Frames]
  /\ outbound \in [Speakers -> 0 .. 2] /\ inbound \in [Speakers -> 0 .. 2]
  /\ open \subseteq Speakers \X (1 .. 2) /\ readers \subseteq Speakers \X (1 .. 2)
  /\ churn \in [at : {"waiting", "taking", "taking-remote", "closing", "endpoint",
                      "connecting", "installing", "installing-remote", "spawning", "done",
                      "failed"},
                left : SUBSET Speakers, conn : 0 .. 2]
  /\ unreconnected \subseteq Speakers /\ endpoint \in 0 .. 2
  /\ inbox \in Seq([from : Speakers, frame : Frames])
  /\ listener \in [at : {"waiting", "draining", "final", "finished"}, frame : Frames]
  /\ interest_active \in [Speakers -> BOOLEAN]
  /\ slots \in [Speakers -> Receivers \cup {None}]
  /\ pool \in Seq(Receivers)
  /\ totals \in Nat /\ concealed \in Nat
  /\ counts \in [made : Nat, reused : Nat, retired : Nat]
  /\ Len(pool) + Cardinality(Live) <= counts.made

-----------------------------------------------------------------------------
\* Who hears whom: listener_interested

Available == Participants - 1

\* The speaker is heard by the InterestListeners members after it, counted from
\* a rotation.
OnRing(s, rotation) ==
  \E rank \in 0 .. InterestListeners - 1 :
    (s + 1 + ((rotation + rank) % Available)) % Participants = Listener

GroupOf(p) == p \div (InterestListeners + 1)

StressPhase(f) == IF f \in Stress THEN (f - Min(Stress)) % 2 ELSE 0

Interested(s, f) ==
  CASE setting.scenario = "baseline" -> s < setting.talkers
    [] setting.scenario = "rotating" -> OnRing(s, Rotation[s][f])
    [] setting.scenario = "oscillation" ->
         OnRing(s, Rotation[s][0] + (StressPhase(f) * InterestListeners))
    [] setting.scenario = "group-merge" ->
         IF f \in Stress THEN GroupOf(s) \div 2 = GroupOf(Listener) \div 2
         ELSE GroupOf(s) = GroupOf(Listener)

\* Sender-side (in a star, SFU-side) interest filtering.
Addressed(s, f) ==
  setting.scenario # "baseline" /\ setting.filtered => Interested(s, f)

-----------------------------------------------------------------------------
\* Senders and the network

Tick ==
  /\ clock < Horizon
  /\ clock' = clock + 1
  /\ UNCHANGED <<setting, sender_vars, wire, net_vars, churn_vars, inbox, listener,
                 receiver_vars>>

\* The next tick of an interval that skips what it missed.
NextDue == IF clock < MediaEnd THEN clock + 1 ELSE Over

Sent(s) ==
  /\ sending' = [sending EXCEPT ![s] = Idle]
  /\ due' = [due EXCEPT ![s] = NextDue]

\* A frame is encoded; with a packet for the listener its connection is cloned out
\* of the slot.  There may be no packet, no interest or no connection.
EncodeAndSend(s) ==
  /\ due[s] <= clock /\ sending[s] = Idle
  /\ \/ /\ setting.topology = "star" \/ Addressed(s, due[s])
        /\ outbound[s] # 0
        /\ sending' = [sending EXCEPT ![s] = [conn |-> outbound[s], frame |-> due[s]]]
        /\ UNCHANGED due
     \/ Sent(s)
  /\ UNCHANGED <<setting, clock, uplink, wire, net_vars, churn_vars, inbox, listener,
                 receiver_vars>>

\* send_datagram on the clone: an error if the connection was closed; it may be lost.
Transmit(s) ==
  /\ sending[s] # Idle
  /\ Sent(s)
  /\ LET conn == <<s, sending[s].conn>>
         f == sending[s].frame
     IN  \/ /\ conn \in open
            /\ IF setting.topology = "star"
               THEN uplink' = uplink \cup {<<s, f>>} /\ UNCHANGED wire
               ELSE wire' = wire \cup {[conn |-> conn, frame |-> f]} /\ UNCHANGED uplink
         \/ UNCHANGED <<uplink, wire>>
  /\ UNCHANGED <<setting, clock, net_vars, churn_vars, inbox, listener, receiver_vars>>

\* The SFU's reader of a speaker passes its datagrams on.
SfuForward(s, f) ==
  /\ <<s, f>> \in uplink
  /\ uplink' = uplink \ {<<s, f>>}
  /\ wire' = IF Addressed(s, f) THEN wire \cup {[conn |-> <<s, 1>>, frame |-> f]} ELSE wire
  /\ UNCHANGED <<setting, clock, due, sending, net_vars, churn_vars, inbox, listener,
                 receiver_vars>>

\* A reader task reads a datagram of its connection, in any order.
Read(d) ==
  /\ d \in wire /\ d.conn \in readers
  /\ wire' = wire \ {d}
  /\ inbox' = IF listener.at = "finished" THEN inbox
              ELSE Append(inbox, [from |-> d.conn[1], frame |-> d.frame])
  /\ UNCHANGED <<setting, clock, sender_vars, net_vars, churn_vars, listener, receiver_vars>>

-----------------------------------------------------------------------------
\* run_churn

Pair == Min(churn.left)
Elsewhere == <<setting, clock, sender_vars, wire, inbox, listener, receiver_vars>>

\* A pair's slots: the churner's own, then the peer's.
LocalIsInbound == setting.churner = Listener

TakeSlot(local, next) ==
  LET slot == IF local = LocalIsInbound THEN inbound ELSE outbound
      emptied == [slot EXCEPT ![Pair] = 0]
  IN  /\ churn' = [churn EXCEPT !.at = next, !.conn = IF @ # 0 THEN @ ELSE slot[Pair]]
      /\ IF local = LocalIsInbound THEN inbound' = emptied /\ UNCHANGED outbound
         ELSE outbound' = emptied /\ UNCHANGED inbound
      /\ UNCHANGED <<open, readers, unreconnected, endpoint, Elsewhere>>

\* Mutant of StartChurn: the connection is closed before it leaves the slots.
StartChurnClosing ==
  /\ churn.at = "waiting"
  /\ churn' = [churn EXCEPT !.at = IF setting.churn = "join" THEN "endpoint" ELSE "taking"]
  /\ open' = IF setting.churn = "join" THEN open ELSE open \ {<<Pair, 1>>}
  /\ UNCHANGED <<outbound, inbound, readers, unreconnected, endpoint, Elsewhere>>

StartChurn ==
  /\ churn.at = "waiting"
  /\ churn' = [churn EXCEPT !.at = IF setting.churn = "join" THEN "endpoint" ELSE "taking"]
  /\ UNCHANGED <<net_vars, unreconnected, endpoint, Elsewhere>>

TakeLocal == churn.at = "taking" /\ TakeSlot(TRUE, "taking-remote")
TakeRemote == churn.at = "taking-remote" /\ TakeSlot(FALSE, "closing")

\* Once all pairs are closed the churner's endpoint is, unless it only reconnects.
CloseConnection ==
  /\ churn.at = "closing"
  /\ open' = open \ {<<Pair, churn.conn>>}
  /\ LET left == churn.left \ {Pair}
     IN  churn' =
           IF left # {} THEN [at |-> "taking", left |-> left, conn |-> 0]
           ELSE [at |-> CASE setting.churn = "leave" -> "done"
                          [] setting.churn = "replace" -> "endpoint"
                          [] setting.churn = "reconnect" -> "connecting",
                 left |-> ChurnPairs(setting), conn |-> 0]
  /\ endpoint' = IF churn'.at \in {"done", "endpoint"} THEN 0 ELSE endpoint
  /\ UNCHANGED <<outbound, inbound, readers, unreconnected, Elsewhere>>

\* An endpoint that cannot be made ends the churn task, which leaves the pairs torn down.
NewEndpoint ==
  /\ churn.at = "endpoint"
  /\ \/ endpoint' = 2 /\ churn' = [churn EXCEPT !.at = "connecting"]
     \/ churn' = [churn EXCEPT !.at = "failed"] /\ UNCHANGED endpoint
  /\ UNCHANGED <<net_vars, unreconnected, Elsewhere>>

\* To the next pair.
Advance ==
  LET left == churn.left \ {Pair}
  IN  churn' = [at |-> IF left = {} THEN "done" ELSE "connecting", left |-> left, conn |-> 0]

\* The connection is made, or refused or timed out.
Reconnect ==
  /\ churn.at = "connecting" /\ endpoint # 0
  /\ \/ /\ open' = open \cup {<<Pair, 2>>}
        /\ churn' = [churn EXCEPT !.at = "installing", !.conn = 2]
        /\ UNCHANGED unreconnected
     \/ /\ unreconnected' = unreconnected \cup {Pair}
        /\ Advance
        /\ UNCHANGED open
  /\ UNCHANGED <<outbound, inbound, readers, endpoint, Elsewhere>>

Install(local, next) ==
  /\ churn' = [churn EXCEPT !.at = next]
  /\ IF local = LocalIsInbound
     THEN inbound' = [inbound EXCEPT ![Pair] = churn.conn] /\ UNCHANGED outbound
     ELSE outbound' = [outbound EXCEPT ![Pair] = churn.conn] /\ UNCHANGED inbound
  /\ UNCHANGED <<open, readers, unreconnected, endpoint, Elsewhere>>

InstallLocal == churn.at = "installing" /\ Install(TRUE, "installing-remote")
InstallRemote == churn.at = "installing-remote" /\ Install(FALSE, "spawning")

SpawnReader ==
  /\ churn.at = "spawning"
  /\ readers' = readers \cup {<<Pair, churn.conn>>}
  /\ Advance
  /\ UNCHANGED <<outbound, inbound, open, unreconnected, endpoint, Elsewhere>>

ChurnStep ==
  \/ StartChurn \/ TakeLocal \/ TakeRemote \/ CloseConnection
  \/ NewEndpoint \/ Reconnect \/ InstallLocal \/ InstallRemote \/ SpawnReader

-----------------------------------------------------------------------------
\* The listener task

Abroad == <<setting, clock, sender_vars, wire, net_vars, churn_vars>>

\* The frames that the receivers at S concealed and have not reported.
UnreportedFrames(receivers, S) ==
  {frame \in S \X (1 .. MaxConcealed) :
     receivers[frame[1]].reported < frame[2] /\ frame[2] <= receivers[frame[1]].concealed}

Unreported(receivers, S) == Cardinality(UnreportedFrames(receivers, S))

\* Mutant of Collected: what was reported is not noted.
CollectedAgain(r) == r

\* collect_receiver_totals, its effect on the receiver.
Collected(r) == [r EXCEPT !.reported = r.concealed]

\* Mutant of Recycled: reset_stream is left out.
RecycledAsIs(r) == Collected(r)

Recycled(r) == [Collected(r) EXCEPT !.heard = {}]

\* The speakers of S one after another, as the loop over all of them meets them.
InOrder(S) ==
  {rank \in [1 .. Cardinality(S) -> S] : \A j, k \in DOMAIN rank : j < k => rank[j] < rank[k]}

\* A callback: interest is compared with the last callback's, and the receivers
\* of speakers that went out of interest are retired.
Wake ==
  /\ listener.at = "waiting"
  /\ listener' = [at |-> "draining", frame |-> clock]
  /\ interest_active' = [s \in Speakers |-> Interested(s, clock)]
  /\ LET retired == {s \in Live : interest_active[s] /\ ~Interested(s, clock)}
     IN  /\ slots' = [s \in Speakers |-> IF s \in retired THEN None ELSE slots[s]]
         /\ totals' = totals + Unreported(slots, retired)
         /\ \E rank \in InOrder(retired) :
              pool' = IF setting.pooled
                      THEN pool \o [k \in DOMAIN rank |-> Recycled(slots[rank[k]])]
                      ELSE pool
         /\ counts' = [counts EXCEPT !.retired = @ + Cardinality(retired)]
  /\ UNCHANGED <<inbox, concealed, Abroad>>

\* Mutant of Wanted: only the interest at the time of sending counts.
WantedWhenSent(d) == Interested(d.from, d.frame)

\* Interest at the time of sending and at the callback.
Wanted(d) == Interested(d.from, d.frame) /\ Interested(d.from, listener.frame)

Reuses(s) == slots[s] = None /\ setting.pooled /\ pool # << >>

ReceiverFor(s) ==
  IF slots[s] # None THEN slots[s]
  ELSE IF Reuses(s) THEN Last(pool) ELSE NewReceiver

\* Mutant of Accept: a reused receiver stays in the pool.
AcceptShared(s) ==
  /\ slots' = [slots EXCEPT ![s] = [ReceiverFor(s) EXCEPT !.heard = @ \cup {s}]]
  /\ counts' = [counts EXCEPT
       !.reused = IF Reuses(s) THEN @ + 1 ELSE @,
       !.made = IF slots[s] = None /\ ~Reuses(s) THEN @ + 1 ELSE @]
  /\ UNCHANGED pool

Accept(s) ==
  /\ slots' = [slots EXCEPT ![s] = [ReceiverFor(s) EXCEPT !.heard = @ \cup {s}]]
  /\ pool' = IF Reuses(s) THEN Front(pool) ELSE pool
  /\ counts' = [counts EXCEPT
       !.reused = IF Reuses(s) THEN @ + 1 ELSE @,
       !.made = IF slots[s] = None /\ ~Reuses(s) THEN @ + 1 ELSE @]

\* drain_received, one datagram; the simulated impairment may drop it.
Drain ==
  /\ listener.at \in {"draining", "final"} /\ inbox # << >>
  /\ inbox' = Tail(inbox)
  /\ \/ Wanted(Head(inbox)) /\ Accept(Head(inbox).from)
     \/ UNCHANGED <<slots, pool, counts>>
  /\ UNCHANGED <<listener, interest_active, totals, concealed, Abroad>>

\* pull_receivers; receivers conceal when they run dry.  The media over, the
\* channel is drained once more, with the frame of that moment.
Pull ==
  /\ listener.at = "draining" /\ inbox = << >>
  /\ \E dry \in SUBSET {s \in Live : /\ Interested(s, listener.frame)
                                      /\ slots[s].concealed < MaxConcealed} :
       /\ slots' = [s \in Speakers |->
            IF s \in dry THEN [slots[s] EXCEPT !.concealed = @ + 1] ELSE slots[s]]
       /\ concealed' = concealed + Cardinality(dry)
  /\ listener' = IF clock < MediaEnd THEN [listener EXCEPT !.at = "waiting"]
                 ELSE [at |-> "final", frame |-> clock]
  /\ UNCHANGED <<inbox, interest_active, pool, totals, counts, Abroad>>

\* The next drain of the delivery grace.
DrainAgain ==
  /\ listener.at = "final" /\ inbox = << >> /\ listener.frame < clock
  /\ listener' = [listener EXCEPT !.frame = clock]
  /\ UNCHANGED <<inbox, receiver_vars, Abroad>>

Finish ==
  /\ listener.at = "final" /\ inbox = << >> /\ clock = Horizon
  /\ listener' = [listener EXCEPT !.at = "finished"]
  /\ totals' = totals + Unreported(slots, Live) + Unreported(pool, DOMAIN pool)
  /\ slots' = [s \in Speakers |-> IF s \in Live THEN Collected(slots[s]) ELSE None]
  /\ pool' = [k \in DOMAIN pool |-> Collected(pool[k])]
  /\ UNCHANGED <<inbox, interest_active, counts, concealed, Abroad>>

Next ==
  \/ Tick
  \/ \E s \in Speakers : EncodeAndSend(s) \/ Transmit(s)
  \/ \E s \in Speakers, f \in Frames : SfuForward(s, f)
  \/ \E d \in wire : Read(d)
  \/ ChurnStep
  \/ Wake \/ Drain \/ Pull \/ DrainAgain \/ Finish

Spec == Init /\ [][Next]_vars

-----------------------------------------------------------------------------
\* Properties

\* A receiver plays one speaker: what one speaker left in a decoder never colours
\* the voice of the next the receiver is given to (main.rs:3384-3390,
\* receiver.rs:248-262).
OneVoicePerReceiver ==
  /\ \A s \in Live : slots[s].heard \subseteq {s}
  /\ \A k \in DOMAIN pool : pool[k].heard = {}

\* During the media only speakers in interest hold a receiver, though packets sent
\* in interest are drained after it ended and nobody retires a receiver that
\* was made between two callbacks (main.rs:3217-3222, 3375-3394).
ReceiverOnlyWhileInterested ==
  setting.scenario # "baseline" /\ listener.at \in {"waiting", "draining"} =>
    \A s \in Live : interest_active[s]

\* The concealment a listener reports, at any moment of its timeline and in its result,
\* is all that its receivers concealed and nothing twice, whichever of them were
\* retired, pooled or reused meanwhile; and the receivers it reports to
\* have taken up and given back are the ones it holds (main.rs:2703-2752, 3332-3360).
ReportIsTrue ==
  /\ concealed = totals + Unreported(slots, Live) + Unreported(pool, DOMAIN pool)
  /\ counts.made + counts.reused = Cardinality(Live) + counts.retired
  /\ listener.at = "finished" => totals = concealed

\* No slot leads to a closed connection, so only a sender that cloned one before it was
\* taken can fail on it; and after a churn that reconnects every pair but those it
\* reports as errors is connected both ways and read (main.rs:2551-2568, 2645-2666).
SlotsLeadToOpenConnections ==
  /\ \A s \in Speakers : \A conn \in {outbound[s], inbound[s]} \ {0} : <<s, conn>> \in open
  /\ churn.at = "done" /\ setting.churn \in {"join", "reconnect", "replace"} =>
       \A s \in ChurnPairs(setting) \ unreconnected :
         outbound[s] # 0 /\ outbound[s] = inbound[s] /\ <<s, outbound[s]>> \in readers
=============================================================================
