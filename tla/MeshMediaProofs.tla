---------------------------- MODULE MeshMediaProofs ----------------------------
(***************************************************************************)
(* Proofs about MeshMedia, for any number of participants, any rotation,   *)
(* any timing of the run and all configurations Config::parse admits.      *)
(***************************************************************************)
EXTENDS MeshMedia, FiniteSetTheorems, TLAPS

-----------------------------------------------------------------------------
\* The participants

LEMMA FinitelyMany ==
  /\ Members \subseteq Nat /\ IsFiniteSet(Members)
  /\ Speakers \subseteq Members /\ Listener \notin Speakers
  /\ \A S \in SUBSET Speakers : IsFiniteSet(S) /\ Cardinality(S) \in Nat
<1>1. Members \subseteq Nat /\ IsFiniteSet(Members)
  BY FS_Interval, MediaAssumption DEF Members
<1>2. Speakers \subseteq Members /\ Listener \notin Speakers
  BY DEF Speakers
<1>3. ASSUME NEW S \in SUBSET Speakers PROVE IsFiniteSet(S) /\ Cardinality(S) \in Nat
  BY <1>1, <1>2, FS_Subset, FS_CardinalityType
<1> QED
  BY <1>1, <1>2, <1>3

\* The churn task has a smallest pair to go on with for as long as pairs are left: of the
\* sets of pairs up to one of them some contains no other.
LEMMA SmallestIsThere ==
  ASSUME NEW S \in SUBSET Speakers, S # {}
  PROVE  Min(S) \in S
<1> DEFINE UpTo(x) == {y \in S : y <= x}
<1> DEFINE T == {UpTo(x) : x \in S}
<1>1. S \subseteq Nat /\ IsFiniteSet(S)
  BY FinitelyMany
<1>2. T \subseteq FiniteSubsetsOf(S) /\ T # {}
  <2>1. T \subseteq SUBSET S /\ T # {}
    OBVIOUS
  <2>2. FiniteSubsetsOf(S) = SUBSET S
    BY <1>1, FS_FiniteSubsetsOfFinite
  <2> HIDE DEF T
  <2> QED
    BY <2>1, <2>2
<1>3. PICK U \in T : \A V \in T : <<V, U>> \notin StrictSubsetOrdering(S)
  BY <1>2, FS_StrictSubsetOrderingWellFounded, WFMin
<1>4. PICK x \in S : U = UpTo(x)
  OBVIOUS
<1>5. ASSUME NEW y \in S PROVE x <= y
  <2> SUFFICES ASSUME y < x PROVE FALSE
    BY <1>1
  <2>1. \A z \in S : z <= y => z <= x
    BY <1>1
  <2>2. x \in UpTo(x) /\ x \notin UpTo(y)
    BY <1>1
  <2>3. <<UpTo(y), UpTo(x)>> \in StrictSubsetOrdering(S)
    BY <2>1, <2>2, Zenon DEF StrictSubsetOrdering
  <2> QED
    BY <1>3, <1>4, <2>3
<1> QED
  BY <1>5 DEF Min

-----------------------------------------------------------------------------
\* Types

\* A speaker that is inside encode_and_send has a frame and a clone of a connection.
SendersInv ==
  /\ clock \in Frames
  /\ due \in [Speakers -> Frames \cup {Horizon + 1, Over}]
  /\ sending \in [Speakers -> [conn : 0 .. 2, frame : Frames \cup {Over}]]
  /\ \A s \in Speakers :
       sending[s] # Idle => sending[s].conn \in 1 .. 2 /\ sending[s].frame \in Frames
  /\ uplink \subseteq Speakers \X Frames
  /\ wire \subseteq [conn : Speakers \X (1 .. 2), frame : Frames]
  /\ inbox \in Seq([from : Speakers, frame : Frames])
  /\ listener \in [at : {"waiting", "draining", "final", "finished"}, frame : Frames]

ChurnPlaces ==
  {"waiting", "taking", "taking-remote", "closing", "endpoint", "connecting",
   "installing", "installing-remote", "spawning", "done", "failed"}

\* Pairs are left until the churn is over; who takes connections does not join.
ChurnInv ==
  /\ outbound \in [Speakers -> 0 .. 2] /\ inbound \in [Speakers -> 0 .. 2]
  /\ open \subseteq Speakers \X (1 .. 2) /\ readers \subseteq Speakers \X (1 .. 2)
  /\ churn \in [at : ChurnPlaces, left : SUBSET ChurnPairs(setting), conn : 0 .. 2]
  /\ unreconnected \subseteq Speakers /\ endpoint \in 0 .. 2
  /\ churn.at # "done" => churn.left # {}
  /\ churn.at = "waiting" => setting.churn # "none"
  /\ churn.at \in {"taking", "taking-remote", "closing"} =>
       setting.churn \in {"leave", "reconnect", "replace"}
  /\ churn.at \in {"installing", "installing-remote", "spawning"} => churn.conn = 2

ReceiversInv ==
  /\ interest_active \in [Speakers -> BOOLEAN]
  /\ slots \in [Speakers -> Receivers \cup {None}]
  /\ pool \in Seq(Receivers)
  /\ totals \in Nat /\ concealed \in Nat
  /\ counts \in [made : Nat, reused : Nat, retired : Nat]

\* Every receiver that was made is in a slot, in the pool or gone.
MadeInv == Len(pool) + Cardinality(Live) <= counts.made

TypeInv == setting \in Settings /\ SendersInv /\ ChurnInv /\ ReceiversInv /\ MadeInv

LEMMA SettingType ==
  ASSUME NEW c \in Settings
  PROVE  /\ c \in Configurations /\ Admitted(c)
         /\ ChurnPairs(c) \subseteq Speakers /\ ChurnPairs(c) # {}
         /\ Encoding(c) \subseteq Speakers /\ Absent(c) \subseteq Speakers
<1>1. c \in Configurations /\ Admitted(c)
  BY MediaAssumption
<1>2. Speakers # {}
  <2>1. 0 \in Members /\ 1 \in Members
    BY MediaAssumption DEF Members
  <2> QED
    BY <2>1 DEF Speakers
<1>3. c.churner \in Members
  BY <1>1 DEF Configurations
<1> QED
  BY <1>1, <1>2, <1>3 DEF ChurnPairs, Speakers, Encoding, Absent

LEMMA TypeInvTypes == TypeInv => TypeOK
<1> SUFFICES ASSUME TypeInv PROVE TypeOK
  OBVIOUS
<1>1. ChurnPairs(setting) \subseteq Speakers
  BY SettingType DEF TypeInv
<1>2. churn \in [at : ChurnPlaces, left : SUBSET Speakers, conn : 0 .. 2]
  BY <1>1 DEF TypeInv, ChurnInv
<1> QED
  BY <1>2 DEF TypeInv, SendersInv, ChurnInv, ReceiversInv, MadeInv, ChurnPlaces, TypeOK

LEMMA PairIsLeft ==
  ASSUME TypeInv, churn.at # "done"
  PROVE  Pair \in churn.left /\ Pair \in ChurnPairs(setting) /\ Pair \in Speakers
<1>1. churn.left \in SUBSET ChurnPairs(setting) /\ churn.left # {}
  BY DEF TypeInv, ChurnInv
<1>2. churn.left \subseteq Speakers
  BY <1>1, SettingType DEF TypeInv
<1> QED
  BY <1>1, <1>2, SmallestIsThere DEF Pair

LEMMA FrameNumbers ==
  /\ Horizon \in Nat /\ MediaEnd \in 0 .. Horizon /\ Frames = 0 .. Horizon
  /\ Over = Horizon + 2 /\ Over \notin Frames /\ MaxConcealed \in Nat
BY MediaAssumption DEF Frames, Over

LEMMA NoneIsNoReceiver == NewReceiver \in Receivers /\ NewReceiver # None
<1>1. 0 \in 0 .. MaxConcealed
  BY FrameNumbers
<1>2. NewReceiver \in Receivers
  BY <1>1 DEF NewReceiver, Receivers
<1> QED
  BY <1>2, NoneAssumption

LEMMA InitType == Init => TypeInv
<1> SUFFICES ASSUME Init PROVE TypeInv
  OBVIOUS
<1>1. setting \in Settings /\ ChurnPairs(setting) \subseteq Speakers /\ ChurnPairs(setting) # {}
        /\ Encoding(setting) \subseteq Speakers
  BY SettingType DEF Init
<1>2. SendersInv
  BY FrameNumbers DEF Init, SendersInv, Idle
<1>3. ChurnInv
  <2>1. outbound \in [Speakers -> 0 .. 2] /\ inbound \in [Speakers -> 0 .. 2]
    BY DEF Init
  <2>2. open \subseteq Speakers \X (1 .. 2) /\ readers \subseteq Speakers \X (1 .. 2)
    BY DEF Init
  <2>3. churn.at \in {"waiting", "done"} /\ (churn.at = "waiting" => setting.churn # "none")
          /\ churn.left = ChurnPairs(setting)
          /\ churn \in [at : ChurnPlaces, left : SUBSET ChurnPairs(setting), conn : 0 .. 2]
    BY DEF Init, ChurnPlaces
  <2>4. unreconnected \subseteq Speakers /\ endpoint \in 0 .. 2
    BY DEF Init
  <2> QED
    BY <1>1, <2>1, <2>2, <2>3, <2>4 DEF ChurnInv
<1>4. Cardinality(Live) \in Nat
  BY FinitelyMany DEF Live
<1>5. ReceiversInv
  BY <1>4, NoneIsNoReceiver DEF Init, ReceiversInv, Live
<1>6. MadeInv
  BY <1>4 DEF Init, MadeInv, Live
<1> QED
  BY <1>1, <1>2, <1>3, <1>5, <1>6 DEF TypeInv

LEMMA ReceiversStay ==
  ASSUME UNCHANGED receiver_vars
  PROVE  /\ Live' = Live
         /\ ReceiversInv => ReceiversInv'
         /\ MadeInv => MadeInv'
BY DEF receiver_vars, Live, ReceiversInv, MadeInv

LEMMA ChurnStays ==
  ASSUME ChurnInv, UNCHANGED <<setting, net_vars, churn_vars>>
  PROVE  ChurnInv'
BY DEF ChurnInv, net_vars, churn_vars

LEMMA SendersStay ==
  ASSUME SendersInv, UNCHANGED <<clock, sender_vars, wire, inbox, listener>>
  PROVE  SendersInv'
BY DEF SendersInv, sender_vars

LEMMA JoinType ==
  ASSUME NEW S, NEW s \in Seq(S), NEW t \in Seq(S)
  PROVE  s \o t \in Seq(S) /\ Len(s \o t) = Len(s) + Len(t)
OBVIOUS

LEMMA TailType ==
  ASSUME NEW S, NEW s \in Seq(S), s # << >>
  PROVE  Head(s) \in S /\ Tail(s) \in Seq(S)
OBVIOUS

LEMMA AppendType ==
  ASSUME NEW S, NEW s \in Seq(S), NEW x \in S
  PROVE  Append(s, x) \in Seq(S)
OBVIOUS

Network ==
  \/ Tick
  \/ \E s \in Speakers : EncodeAndSend(s) \/ Transmit(s)
  \/ \E s \in Speakers, f \in Frames : SfuForward(s, f)
  \/ \E d \in wire : Read(d)

LEMMA NetworkLeaves ==
  ASSUME Network
  PROVE  UNCHANGED <<setting, net_vars, churn_vars, listener, receiver_vars>>
BY DEF Network, Tick, EncodeAndSend, Transmit, SfuForward, Read

LEMMA SentType ==
  ASSUME SendersInv, NEW s \in Speakers, Sent(s)
  PROVE  /\ due' \in [Speakers -> Frames \cup {Horizon + 1, Over}]
         /\ sending' \in [Speakers -> [conn : 0 .. 2, frame : Frames \cup {Over}]]
         /\ \A t \in Speakers :
              sending'[t] # Idle => sending'[t].conn \in 1 .. 2 /\ sending'[t].frame \in Frames
<1>1. NextDue \in Frames \cup {Over}
  BY FrameNumbers DEF NextDue, SendersInv
<1>2. Idle \in [conn : 0 .. 2, frame : Frames \cup {Over}]
  BY DEF Idle
<1> QED
  BY <1>1, <1>2 DEF Sent, SendersInv

LEMMA NetworkType ==
  ASSUME TypeInv, Network
  PROVE  TypeInv'
<1>1. UNCHANGED <<setting, net_vars, churn_vars, listener, receiver_vars>>
  BY NetworkLeaves
<1>2. ChurnInv' /\ ReceiversInv' /\ MadeInv' /\ setting' \in Settings
  BY <1>1, ChurnStays, ReceiversStay DEF TypeInv
<1>3. SendersInv
  BY DEF TypeInv
<1>4. ASSUME Tick PROVE SendersInv'
  BY <1>1, <1>3, <1>4, FrameNumbers DEF Tick, SendersInv, sender_vars
<1>5. ASSUME NEW s \in Speakers, EncodeAndSend(s) PROVE SendersInv'
  <2>1. UNCHANGED <<clock, uplink, wire, inbox, listener>>
    BY <1>5 DEF EncodeAndSend
  <2>2. CASE Sent(s)
    BY <1>3, <2>1, <2>2, SentType DEF SendersInv
  <2>3. CASE sending' = [sending EXCEPT ![s] = [conn |-> outbound[s], frame |-> due[s]]]
             /\ UNCHANGED due /\ outbound[s] # 0
    <3>1. due[s] \in Frames
      BY <1>3, <1>5, FrameNumbers DEF EncodeAndSend, SendersInv
    <3>2. outbound[s] \in 1 .. 2
      BY <2>3 DEF TypeInv, ChurnInv
    <3>3. [conn |-> outbound[s], frame |-> due[s]] \in [conn : 1 .. 2, frame : Frames]
      BY <3>1, <3>2
    <3>4. sending' \in [Speakers -> [conn : 0 .. 2, frame : Frames \cup {Over}]]
      BY <1>3, <2>3, <3>3 DEF SendersInv
    <3>5. \A t \in Speakers :
            sending'[t] # Idle => sending'[t].conn \in 1 .. 2 /\ sending'[t].frame \in Frames
      BY <1>3, <2>3, <3>1, <3>2 DEF SendersInv
    <3> QED
      BY <1>3, <2>1, <2>3, <3>4, <3>5 DEF SendersInv
  <2> QED
    BY <1>5, <2>2, <2>3 DEF EncodeAndSend
<1>6. ASSUME NEW s \in Speakers, Transmit(s) PROVE SendersInv'
  <2>1. Sent(s) /\ UNCHANGED <<clock, inbox, listener>>
    BY <1>6 DEF Transmit
  <2>2. sending[s].frame \in Frames /\ sending[s].conn \in 1 .. 2
    BY <1>3, <1>6 DEF Transmit, SendersInv
  <2>3. uplink' \subseteq uplink \cup {<<s, sending[s].frame>>}
          /\ wire' \subseteq wire \cup {[conn |-> <<s, sending[s].conn>>, frame |-> sending[s].frame]}
    BY <1>6 DEF Transmit
  <2>4. uplink' \subseteq Speakers \X Frames /\ wire' \subseteq [conn : Speakers \X (1 .. 2), frame : Frames]
    BY <1>3, <2>2, <2>3 DEF SendersInv
  <2> QED
    BY <1>3, <2>1, <2>4, SentType DEF SendersInv
<1>7. ASSUME NEW s \in Speakers, NEW f \in Frames, SfuForward(s, f) PROVE SendersInv'
  <2>1. UNCHANGED <<clock, due, sending, inbox, listener>> /\ uplink' \subseteq uplink
          /\ wire' \subseteq wire \cup {[conn |-> <<s, 1>>, frame |-> f]}
    BY <1>7 DEF SfuForward
  <2>2. wire' \subseteq [conn : Speakers \X (1 .. 2), frame : Frames]
    BY <1>3, <2>1 DEF SendersInv
  <2> QED
    BY <1>3, <2>1, <2>2 DEF SendersInv
<1>8. ASSUME NEW d \in wire, Read(d) PROVE SendersInv'
  <2>1. d.conn[1] \in Speakers /\ d.frame \in Frames
    BY <1>3 DEF SendersInv
  <2>2. inbox' = inbox \/ inbox' = Append(inbox, [from |-> d.conn[1], frame |-> d.frame])
    BY <1>8 DEF Read
  <2>3. inbox' \in Seq([from : Speakers, frame : Frames])
    <3>1. [from |-> d.conn[1], frame |-> d.frame] \in [from : Speakers, frame : Frames]
      BY <2>1
    <3>2. inbox \in Seq([from : Speakers, frame : Frames])
      BY <1>3 DEF SendersInv
    <3> QED
      BY <2>2, <3>1, <3>2, AppendType
  <2>4. wire' \subseteq wire /\ UNCHANGED <<clock, sender_vars, listener>>
    BY <1>1, <1>8 DEF Read
  <2> QED
    BY <1>3, <2>3, <2>4 DEF SendersInv, sender_vars
<1> QED
  BY <1>2, <1>4, <1>5, <1>6, <1>7, <1>8 DEF Network, TypeInv

\* What TakeSlot and Install do to the pair's two slots.
Slot(local) == IF local = LocalIsInbound THEN inbound ELSE outbound

LEMMA ChurnLeaves ==
  ASSUME ChurnStep
  PROVE  UNCHANGED Elsewhere
BY DEF ChurnStep, StartChurn, TakeLocal, TakeRemote, TakeSlot, CloseConnection, NewEndpoint,
       Reconnect, InstallLocal, InstallRemote, Install, SpawnReader

LEMMA AdvanceType ==
  ASSUME TypeInv, churn.at # "done", Advance
  PROVE  /\ churn' \in [at : ChurnPlaces, left : SUBSET ChurnPairs(setting), conn : 0 .. 2]
         /\ churn'.at \in {"done", "connecting"}
         /\ churn'.at # "done" => churn'.left # {}
BY DEF TypeInv, ChurnInv, Advance, ChurnPlaces

LEMMA ChurnType ==
  ASSUME TypeInv, ChurnStep
  PROVE  TypeInv'
<1>1. UNCHANGED <<setting, clock, sender_vars, wire, inbox, listener, receiver_vars>>
  BY ChurnLeaves DEF Elsewhere
<1>2. SendersInv' /\ ReceiversInv' /\ MadeInv' /\ setting' \in Settings
  BY <1>1, SendersStay, ReceiversStay DEF TypeInv
<1>3. ChurnInv /\ setting' = setting /\ ChurnPairs(setting)' = ChurnPairs(setting)
  BY <1>1 DEF TypeInv
<1>4. ChurnPairs(setting) \subseteq Speakers /\ ChurnPairs(setting) # {}
        /\ setting.churn \in {"none", "join", "leave", "reconnect", "replace"}
  BY SettingType DEF TypeInv, Configurations
<1>5. churn.at # "done" => Pair \in Speakers
  BY PairIsLeft
<1>6. ASSUME StartChurn PROVE ChurnInv'
  BY <1>3, <1>4, <1>6 DEF StartChurn, ChurnInv, ChurnPlaces, net_vars
<1>7. ASSUME NEW local \in BOOLEAN, NEW next \in {"taking-remote", "closing"},
             churn.at \in {"taking", "taking-remote"}, TakeSlot(local, next)
      PROVE  ChurnInv'
  <2>1. Slot(local) \in [Speakers -> 0 .. 2] /\ Pair \in Speakers
    BY <1>3, <1>5, <1>7 DEF ChurnInv, Slot
  <2>2. churn' = [churn EXCEPT !.at = next, !.conn = IF @ # 0 THEN @ ELSE Slot(local)[Pair]]
          /\ UNCHANGED <<open, readers, unreconnected, endpoint>>
    BY <1>7 DEF TakeSlot, Slot
  <2>3. outbound' \in {outbound, [outbound EXCEPT ![Pair] = 0]}
          /\ inbound' \in {inbound, [inbound EXCEPT ![Pair] = 0]}
    BY <1>7 DEF TakeSlot
  <2>4. outbound' \in [Speakers -> 0 .. 2] /\ inbound' \in [Speakers -> 0 .. 2]
    BY <1>3, <2>3 DEF ChurnInv
  <2>5. churn' \in [at : ChurnPlaces, left : SUBSET ChurnPairs(setting), conn : 0 .. 2]
          /\ churn'.at = next /\ churn'.left = churn.left
    BY <1>3, <2>1, <2>2 DEF ChurnInv, ChurnPlaces
  <2> QED
    BY <1>3, <1>7, <2>2, <2>4, <2>5 DEF ChurnInv
<1>8. ASSUME CloseConnection PROVE ChurnInv'
  <2>1. setting.churn \in {"leave", "reconnect", "replace"}
    BY <1>3, <1>8 DEF ChurnInv, CloseConnection
  <2>2. churn' = IF churn.left \ {Pair} # {}
                 THEN [at |-> "taking", left |-> churn.left \ {Pair}, conn |-> 0]
                 ELSE [at |-> CASE setting.churn = "leave" -> "done"
                                [] setting.churn = "replace" -> "endpoint"
                                [] setting.churn = "reconnect" -> "connecting",
                       left |-> ChurnPairs(setting), conn |-> 0]
    BY <1>8 DEF CloseConnection
  <2>3. churn' \in [at : ChurnPlaces, left : SUBSET ChurnPairs(setting), conn : 0 .. 2]
          /\ churn'.left # {} /\ churn'.at \in {"taking", "done", "endpoint", "connecting"}
    BY <1>3, <1>4, <2>1, <2>2 DEF ChurnInv, ChurnPlaces
  <2>4. UNCHANGED <<outbound, inbound, readers, unreconnected>> /\ open' \subseteq open
          /\ endpoint' \in {0, endpoint}
    BY <1>8 DEF CloseConnection
  <2> QED
    BY <1>3, <2>1, <2>3, <2>4 DEF ChurnInv
<1>9. ASSUME NewEndpoint PROVE ChurnInv'
  BY <1>3, <1>9 DEF NewEndpoint, ChurnInv, ChurnPlaces, net_vars
<1>10. ASSUME Reconnect PROVE ChurnInv'
  <2>1. Pair \in Speakers /\ UNCHANGED <<outbound, inbound, readers, endpoint>>
    BY <1>5, <1>10 DEF Reconnect
  <2>2. CASE open' = open \cup {<<Pair, 2>>} /\ UNCHANGED unreconnected
             /\ churn' = [churn EXCEPT !.at = "installing", !.conn = 2]
    <3>1. open' \subseteq Speakers \X (1 .. 2)
      <4>1. <<Pair, 2>> \in Speakers \X (1 .. 2)
        BY <2>1
      <4>2. open \subseteq Speakers \X (1 .. 2)
        BY <1>3 DEF ChurnInv
      <4> QED
        BY <2>2, <4>1, <4>2
    <3>2. churn' \in [at : ChurnPlaces, left : SUBSET ChurnPairs(setting), conn : 0 .. 2]
            /\ churn'.at = "installing" /\ churn'.conn = 2 /\ churn'.left = churn.left
      <4>1. churn \in [at : ChurnPlaces, left : SUBSET ChurnPairs(setting), conn : 0 .. 2]
              /\ churn' = [churn EXCEPT !.at = "installing", !.conn = 2]
        BY <1>3, <2>2 DEF ChurnInv
      <4>2. "installing" \in ChurnPlaces /\ 2 \in 0 .. 2
        BY DEF ChurnPlaces
      <4> QED
        BY <4>1, <4>2
    <3> QED
      BY <1>3, <1>10, <2>1, <2>2, <3>1, <3>2 DEF ChurnInv, Reconnect
  <2>3. CASE unreconnected' = unreconnected \cup {Pair} /\ Advance /\ UNCHANGED open
    BY <1>3, <1>10, <2>1, <2>3, AdvanceType DEF ChurnInv, Reconnect
  <2> QED
    BY <1>10, <2>2, <2>3 DEF Reconnect
<1>11. ASSUME NEW local \in BOOLEAN, NEW next \in {"installing-remote", "spawning"},
              churn.at \in {"installing", "installing-remote"}, Install(local, next)
       PROVE  ChurnInv'
  <2>1. Pair \in Speakers /\ churn.conn = 2
    BY <1>3, <1>5, <1>11 DEF ChurnInv
  <2>2. outbound' \in {outbound, [outbound EXCEPT ![Pair] = 2]}
          /\ inbound' \in {inbound, [inbound EXCEPT ![Pair] = 2]}
    BY <1>11, <2>1 DEF Install
  <2>3. outbound' \in [Speakers -> 0 .. 2] /\ inbound' \in [Speakers -> 0 .. 2]
    BY <1>3, <2>2 DEF ChurnInv
  <2>4. churn' = [churn EXCEPT !.at = next] /\ UNCHANGED <<open, readers, unreconnected, endpoint>>
    BY <1>11 DEF Install
  <2> QED
    BY <1>3, <1>11, <2>1, <2>3, <2>4 DEF ChurnInv, ChurnPlaces
<1>12. ASSUME SpawnReader PROVE ChurnInv'
  <2>1. Pair \in Speakers /\ churn.conn = 2 /\ Advance
          /\ UNCHANGED <<outbound, inbound, open, unreconnected, endpoint>>
          /\ readers' = readers \cup {<<Pair, churn.conn>>}
    BY <1>3, <1>5, <1>12 DEF SpawnReader, ChurnInv
  <2> QED
    BY <1>3, <1>12, <2>1, AdvanceType DEF ChurnInv, SpawnReader
<1>13. ChurnInv'
  BY <1>6, <1>7, <1>8, <1>9, <1>10, <1>11, <1>12
     DEF ChurnStep, TakeLocal, TakeRemote, InstallLocal, InstallRemote
<1> QED
  BY <1>2, <1>13 DEF TypeInv

-----------------------------------------------------------------------------
\* The listener task

Listening == Wake \/ Drain \/ Pull \/ DrainAgain \/ Finish

LEMMA ListenerLeaves ==
  ASSUME Listening
  PROVE  UNCHANGED <<setting, clock, sender_vars, wire, net_vars, churn_vars>>
BY DEF Listening, Wake, Drain, Pull, DrainAgain, Finish, Abroad

LEMMA LiveType ==
  ASSUME ReceiversInv
  PROVE  /\ Live \in SUBSET Speakers /\ IsFiniteSet(Live) /\ Cardinality(Live) \in Nat
         /\ \A s \in Live : slots[s] \in Receivers
<1>1. Live \in SUBSET Speakers
  BY DEF Live
<1> QED
  BY <1>1, FinitelyMany DEF Live, ReceiversInv

LEMMA UnreportedType ==
  ASSUME NEW receivers, NEW S, IsFiniteSet(S)
  PROVE  /\ IsFiniteSet(UnreportedFrames(receivers, S))
         /\ Unreported(receivers, S) \in Nat
<1>1. IsFiniteSet(1 .. MaxConcealed)
  BY FS_Interval, FrameNumbers
<1>2. IsFiniteSet(S \X (1 .. MaxConcealed))
  BY <1>1, FS_Product
<1>3. UnreportedFrames(receivers, S) \in SUBSET (S \X (1 .. MaxConcealed))
  BY DEF UnreportedFrames
<1>4. IsFiniteSet(UnreportedFrames(receivers, S))
  BY <1>2, <1>3, FS_Subset
<1> QED
  BY <1>4, FS_CardinalityType DEF Unreported

LEMMA ReceiverOperations ==
  ASSUME NEW r \in Receivers
  PROVE  /\ Collected(r) \in Receivers /\ Recycled(r) \in Receivers
         /\ Collected(r).reported = r.concealed /\ Collected(r).concealed = r.concealed
         /\ Collected(r).heard = r.heard
         /\ Recycled(r).reported = Recycled(r).concealed /\ Recycled(r).heard = {}
BY DEF Receivers, Collected, Recycled

LEMMA InterestType ==
  ASSUME setting \in Settings, NEW s, NEW f
  PROVE  Interested(s, f) \in BOOLEAN
<1>1. setting.scenario \in {"baseline", "rotating", "oscillation", "group-merge"}
  BY SettingType DEF Configurations
<1>2. \A rotation : OnRing(s, rotation) \in BOOLEAN
  BY DEF OnRing
<1>3. CASE setting.scenario = "baseline"
  BY <1>3 DEF Interested
<1>4. CASE setting.scenario = "rotating"
  BY <1>2, <1>4 DEF Interested
<1>5. CASE setting.scenario = "oscillation"
  BY <1>2, <1>5 DEF Interested
<1>6. CASE setting.scenario = "group-merge"
  BY <1>6 DEF Interested
<1> QED
  BY <1>1, <1>3, <1>4, <1>5, <1>6

\* The speakers whose receivers a callback retires.
Retired == {s \in Live : interest_active[s] /\ ~Interested(s, clock)}

\* A receiver that waits in the pool has been reset and has reported everything.
Resting == {r \in Receivers : r.heard = {} /\ r.reported = r.concealed}

LEMMA WakeRetires ==
  ASSUME TypeInv, Wake
  PROVE  /\ Retired \in SUBSET Live /\ Live' = Live \ Retired
         /\ \A s \in Live' : slots'[s] = slots[s]
         /\ slots' \in [Speakers -> Receivers \cup {None}]
         /\ totals' = totals + Unreported(slots, Retired)
         /\ counts' = [counts EXCEPT !.retired = @ + Cardinality(Retired)]
         /\ \/ pool' = pool
            \/ \E back \in Seq(Resting) : pool' = pool \o back /\ Len(back) = Cardinality(Retired)
<1>1. ReceiversInv
  BY DEF TypeInv
<1>2. Retired \in SUBSET Live
  BY DEF Retired
<1>3. slots' = [s \in Speakers |-> IF s \in Retired THEN None ELSE slots[s]]
  BY DEF Wake, Retired
<1>4. Live' = Live \ Retired /\ (\A s \in Live' : slots'[s] = slots[s])
        /\ slots' \in [Speakers -> Receivers \cup {None}]
  BY <1>1, <1>3 DEF Live, ReceiversInv
<1>5. totals' = totals + Unreported(slots, Retired)
        /\ counts' = [counts EXCEPT !.retired = @ + Cardinality(Retired)]
  BY DEF Wake, Retired
<1>6. PICK rank \in InOrder(Retired) :
        pool' = IF setting.pooled
                THEN pool \o [k \in DOMAIN rank |-> Recycled(slots[rank[k]])]
                ELSE pool
  BY DEF Wake, Retired
<1>7. Cardinality(Retired) \in Nat
  BY <1>1, <1>2, LiveType, FinitelyMany
<1>8. rank \in [1 .. Cardinality(Retired) -> Retired]
  BY DEF InOrder
<1> DEFINE back == [k \in DOMAIN rank |-> Recycled(slots[rank[k]])]
<1>9. \A k \in 1 .. Cardinality(Retired) : Recycled(slots[rank[k]]) \in Resting
  BY <1>1, <1>2, <1>8, LiveType, ReceiverOperations DEF Resting
<1>10. back \in [1 .. Cardinality(Retired) -> Resting]
  BY <1>8, <1>9
<1>11. back \in Seq(Resting) /\ Len(back) = Cardinality(Retired)
  BY <1>7, <1>10
<1>12. pool' = pool \/ pool' = pool \o back
  BY <1>6
<1> HIDE DEF back
<1> QED
  BY <1>2, <1>4, <1>5, <1>11, <1>12

LEMMA WakeType ==
  ASSUME TypeInv, Wake
  PROVE  TypeInv'
<1>1. UNCHANGED <<setting, clock, sender_vars, wire, net_vars, churn_vars, inbox, concealed>>
        /\ listener' = [at |-> "draining", frame |-> clock]
  BY DEF Wake, Abroad
<1>2. SendersInv'
  BY <1>1 DEF TypeInv, SendersInv, sender_vars
<1>3. ChurnInv' /\ setting' \in Settings
  BY <1>1, ChurnStays DEF TypeInv
<1>4. ReceiversInv
  BY DEF TypeInv
<1>5. Retired \in SUBSET Live /\ Live' = Live \ Retired
        /\ slots' \in [Speakers -> Receivers \cup {None}]
        /\ totals' = totals + Unreported(slots, Retired)
        /\ counts' = [counts EXCEPT !.retired = @ + Cardinality(Retired)]
  BY WakeRetires
<1>6. IsFiniteSet(Retired) /\ Cardinality(Retired) \in Nat /\ Unreported(slots, Retired) \in Nat
  BY <1>4, <1>5, LiveType, FinitelyMany, UnreportedType
<1>7. Resting \subseteq Receivers
  BY DEF Resting
<1>8. /\ pool' \in Seq(Receivers)
      /\ Len(pool') \in {Len(pool), Len(pool) + Cardinality(Retired)}
  <2>1. CASE pool' = pool
    BY <1>4, <2>1 DEF ReceiversInv
  <2>2. CASE pool' # pool
    <3>1. PICK back \in Seq(Resting) : pool' = pool \o back /\ Len(back) = Cardinality(Retired)
      BY <2>2, WakeRetires
    <3>2. back \in Seq(Receivers) /\ pool \in Seq(Receivers)
      BY <1>4, <1>7 DEF ReceiversInv
    <3> QED
      BY <3>1, <3>2, JoinType
  <2> QED
    BY <2>1, <2>2
<1>9. interest_active' \in [Speakers -> BOOLEAN]
  BY InterestType DEF Wake, TypeInv
<1>10. ReceiversInv'
  <2>1. totals' \in Nat /\ concealed' \in Nat
    BY <1>1, <1>4, <1>5, <1>6 DEF ReceiversInv
  <2>2. counts' \in [made : Nat, reused : Nat, retired : Nat]
    BY <1>4, <1>5, <1>6 DEF ReceiversInv
  <2> QED
    BY <1>5, <1>8, <1>9, <2>1, <2>2 DEF ReceiversInv
<1>11. MadeInv'
  <2>1. Cardinality(Live') = Cardinality(Live) - Cardinality(Retired)
    <3>1. Live \cap Retired = Retired
      BY <1>5
    <3> QED
      BY <1>4, <1>5, <3>1, LiveType, FS_Difference
  <2>2. Len(pool) \in Nat /\ counts.made \in Nat /\ counts'.made = counts.made
          /\ Cardinality(Live) \in Nat
    BY <1>4, <1>5, LiveType DEF ReceiversInv
  <2>3. Len(pool) + Cardinality(Live) <= counts.made
    BY DEF TypeInv, MadeInv
  <2>4. Len(pool') + Cardinality(Live') <= counts'.made
    BY <1>6, <1>8, <2>1, <2>2, <2>3
  <2> QED
    BY <2>4 DEF MadeInv
<1> QED
  BY <1>2, <1>3, <1>10, <1>11 DEF TypeInv

LEMMA LastAndFront ==
  ASSUME NEW S, NEW q \in Seq(S), q # << >>
  PROVE  /\ Front(q) \in Seq(S) /\ Len(Front(q)) = Len(q) - 1
         /\ \A k \in 1 .. Len(q) - 1 : Front(q)[k] = q[k]
         /\ Len(q) \in 1 .. Len(q) /\ Last(q) = q[Len(q)] /\ Last(q) \in S
<1>1. PICK n \in Nat : n = Len(q) - 1 /\ Len(q) = n + 1 /\ Len(q) \in 1 .. Len(q)
  OBVIOUS
<1>2. \A k \in 1 .. Len(q) : q[k] \in S
  OBVIOUS
<1>3. Front(q) = [k \in 1 .. n |-> q[k]]
  BY <1>1 DEF Front
<1>4. Front(q) \in Seq(S) /\ Len(Front(q)) = n /\ \A k \in 1 .. n : Front(q)[k] = q[k]
  BY <1>1, <1>2, <1>3
<1> QED
  BY <1>1, <1>2, <1>4 DEF Last

\* The receiver a datagram of s is given to: the one of its slot, one out of the pool, or
\* a new one.
LEMMA AcceptTakes ==
  ASSUME TypeInv, NEW s \in Speakers, Accept(s)
  PROVE  \E r \in Receivers :
           /\ slots' = [slots EXCEPT ![s] = [r EXCEPT !.heard = @ \cup {s}]]
           /\ \/ /\ s \in Live /\ r = slots[s]
                 /\ pool' = pool /\ counts' = counts
              \/ /\ s \notin Live /\ pool # << >> /\ r = Last(pool)
                 /\ pool' = Front(pool) /\ counts' = [counts EXCEPT !.reused = @ + 1]
              \/ /\ s \notin Live /\ r = NewReceiver
                 /\ pool' = pool /\ counts' = [counts EXCEPT !.made = @ + 1]
<1>1. ReceiversInv
  BY DEF TypeInv
<1>2. slots' = [slots EXCEPT ![s] = [ReceiverFor(s) EXCEPT !.heard = @ \cup {s}]]
        /\ pool' = (IF Reuses(s) THEN Front(pool) ELSE pool)
        /\ counts' = [counts EXCEPT !.reused = IF Reuses(s) THEN @ + 1 ELSE @,
                                    !.made = IF slots[s] = None /\ ~Reuses(s) THEN @ + 1 ELSE @]
  BY DEF Accept
<1>3. CASE s \in Live
  <2>1. slots[s] # None /\ slots[s] \in Receivers /\ ReceiverFor(s) = slots[s] /\ ~Reuses(s)
    BY <1>1, <1>3, LiveType DEF Live, ReceiverFor, Reuses
  <2>2. counts' = counts
    BY <1>1, <1>2, <2>1 DEF ReceiversInv
  <2> QED
    BY <1>2, <1>3, <2>1, <2>2
<1>4. CASE s \notin Live /\ Reuses(s)
  <2>1. slots[s] = None /\ pool # << >> /\ ReceiverFor(s) = Last(pool)
    BY <1>4 DEF Live, Reuses, ReceiverFor
  <2>2. Last(pool) \in Receivers
    BY <1>1, <2>1, LastAndFront DEF ReceiversInv
  <2>3. counts' = [counts EXCEPT !.reused = @ + 1]
    BY <1>1, <1>2, <1>4 DEF ReceiversInv
  <2> QED
    BY <1>2, <1>4, <2>1, <2>2, <2>3
<1>5. CASE s \notin Live /\ ~Reuses(s)
  <2>1. slots[s] = None /\ ReceiverFor(s) = NewReceiver
    BY <1>5 DEF Live, ReceiverFor
  <2>2. counts' = [counts EXCEPT !.made = @ + 1]
    BY <1>1, <1>2, <1>5, <2>1 DEF ReceiversInv
  <2> QED
    BY <1>2, <1>5, <2>1, <2>2, NoneIsNoReceiver
<1> QED
  BY <1>3, <1>4, <1>5

LEMMA HearsType ==
  ASSUME ReceiversInv, NEW s \in Speakers, NEW r \in Receivers,
         slots' = [slots EXCEPT ![s] = [r EXCEPT !.heard = @ \cup {s}]]
  PROVE  /\ slots' \in [Speakers -> Receivers \cup {None}]
         /\ Live' = Live \cup {s}
         /\ \A t \in Live' \ {s} : slots'[t] = slots[t]
         /\ slots'[s].heard = r.heard \cup {s} /\ slots'[s].concealed = r.concealed
         /\ slots'[s].reported = r.reported
<1>1. s \in Members
  BY FinitelyMany
<1>2. [r EXCEPT !.heard = @ \cup {s}] \in Receivers
  BY <1>1 DEF Receivers
<1>3. [r EXCEPT !.heard = @ \cup {s}] # None
  BY <1>2, NoneAssumption
<1>4. /\ slots'[s] = [r EXCEPT !.heard = @ \cup {s}]
      /\ \A t \in Speakers \ {s} : slots'[t] = slots[t]
      /\ slots' \in [Speakers -> Receivers \cup {None}]
  BY <1>2 DEF ReceiversInv
<1>5. Live' = Live \cup {s}
  BY <1>3, <1>4 DEF Live
<1>6. \A t \in Live' \ {s} : slots'[t] = slots[t]
  BY <1>4 DEF Live
<1> QED
  BY <1>4, <1>5, <1>6 DEF Receivers

LEMMA DrainType ==
  ASSUME TypeInv, Drain
  PROVE  TypeInv'
<1>1. UNCHANGED <<setting, clock, sender_vars, wire, net_vars, churn_vars, listener,
                  interest_active, totals, concealed>>
  BY DEF Drain, Abroad
<1>2. inbox \in Seq([from : Speakers, frame : Frames]) /\ inbox # << >> /\ inbox' = Tail(inbox)
  BY DEF Drain, TypeInv, SendersInv
<1>3. Head(inbox).from \in Speakers /\ inbox' \in Seq([from : Speakers, frame : Frames])
  <2>1. Head(inbox) \in [from : Speakers, frame : Frames]
          /\ inbox' \in Seq([from : Speakers, frame : Frames])
    BY <1>2, TailType
  <2> QED
    BY <2>1
<1>4. SendersInv'
  BY <1>1, <1>3 DEF TypeInv, SendersInv, sender_vars
<1>5. ChurnInv' /\ setting' \in Settings
  BY <1>1, ChurnStays DEF TypeInv
<1>6. ReceiversInv /\ MadeInv
  BY DEF TypeInv
<1>7. CASE UNCHANGED <<slots, pool, counts>>
  BY <1>1, <1>4, <1>5, <1>6, <1>7, ReceiversStay DEF TypeInv, receiver_vars
<1>8. CASE Accept(Head(inbox).from)
  <2>1. PICK s \in Speakers : s = Head(inbox).from
    BY <1>3
  <2>2. PICK r \in Receivers :
           /\ slots' = [slots EXCEPT ![s] = [r EXCEPT !.heard = @ \cup {s}]]
           /\ \/ /\ s \in Live /\ r = slots[s]
                 /\ pool' = pool /\ counts' = counts
              \/ /\ s \notin Live /\ pool # << >> /\ r = Last(pool)
                 /\ pool' = Front(pool) /\ counts' = [counts EXCEPT !.reused = @ + 1]
              \/ /\ s \notin Live /\ r = NewReceiver
                 /\ pool' = pool /\ counts' = [counts EXCEPT !.made = @ + 1]
    BY <1>8, <2>1, AcceptTakes
  <2>3. Live' = Live \cup {s} /\ slots' \in [Speakers -> Receivers \cup {None}]
    BY <1>6, <2>2, HearsType
  <2>4. pool \in Seq(Receivers) /\ Len(pool) \in Nat
          /\ counts \in [made : Nat, reused : Nat, retired : Nat]
    BY <1>6 DEF ReceiversInv
  <2>5. pool # << >> => Front(pool) \in Seq(Receivers) /\ Len(Front(pool)) = Len(pool) - 1
    BY <2>4, LastAndFront
  <2>6. ReceiversInv'
    <3>1. counts' \in [made : Nat, reused : Nat, retired : Nat]
      BY <2>2, <2>4
    <3>2. pool' \in Seq(Receivers)
      BY <2>2, <2>4, <2>5
    <3> QED
      BY <1>1, <1>6, <2>3, <3>1, <3>2 DEF ReceiversInv
  <2>7. Cardinality(Live') = IF s \in Live THEN Cardinality(Live) ELSE Cardinality(Live) + 1
    BY <1>6, <2>3, LiveType, FS_AddElement
  <2>8. Cardinality(Live) \in Nat /\ Len(pool) + Cardinality(Live) <= counts.made
    BY <1>6, LiveType DEF MadeInv
  <2>9. Len(pool') + Cardinality(Live') <= counts'.made
    BY <2>2, <2>4, <2>5, <2>7, <2>8
  <2> QED
    BY <1>4, <1>5, <2>6, <2>9 DEF TypeInv, MadeInv
<1> QED
  BY <1>7, <1>8 DEF Drain

\* The receivers that ran dry in a pull.
Dries(dry) ==
  /\ dry \in SUBSET {s \in Live : slots[s].concealed < MaxConcealed}
  /\ slots' = [s \in Speakers |->
       IF s \in dry THEN [slots[s] EXCEPT !.concealed = @ + 1] ELSE slots[s]]
  /\ concealed' = concealed + Cardinality(dry)

LEMMA PullDries ==
  ASSUME ReceiversInv, NEW dry, Dries(dry)
  PROVE  /\ slots' \in [Speakers -> Receivers \cup {None}] /\ Live' = Live
         /\ IsFiniteSet(dry) /\ Cardinality(dry) \in Nat /\ concealed' \in Nat
         /\ \A s \in dry : /\ slots'[s].heard = slots[s].heard
                           /\ slots'[s].reported = slots[s].reported
                           /\ slots'[s].concealed = slots[s].concealed + 1
         /\ \A s \in Live \ dry : slots'[s] = slots[s]
<1>1. dry \in SUBSET Live /\ dry \in SUBSET Speakers
  BY DEF Dries, Live
<1>2. IsFiniteSet(dry) /\ Cardinality(dry) \in Nat
  BY <1>1, FinitelyMany
<1>3. \A s \in dry : slots[s] \in Receivers /\ slots[s].concealed < MaxConcealed
  BY <1>1, LiveType DEF Dries
<1>4. \A s \in dry : [slots[s] EXCEPT !.concealed = @ + 1] \in Receivers
  BY <1>3, FrameNumbers DEF Receivers
<1>5. /\ \A s \in dry : slots'[s] = [slots[s] EXCEPT !.concealed = @ + 1]
      /\ \A s \in Speakers \ dry : slots'[s] = slots[s]
  BY <1>1 DEF Dries
<1>6. slots' \in [Speakers -> Receivers \cup {None}]
  <2>1. \A s \in Speakers : slots'[s] \in Receivers \cup {None}
    BY <1>4, <1>5 DEF ReceiversInv
  <2>2. slots' = [s \in Speakers |-> slots'[s]]
    BY DEF Dries
  <2> QED
    BY <2>1, <2>2
<1>7. Live' = Live
  <2>1. \A s \in dry : slots'[s] # None
    BY <1>4, <1>5, NoneAssumption
  <2> QED
    BY <1>1, <1>5, <2>1 DEF Live
<1>8. concealed' \in Nat
  BY <1>2 DEF Dries, ReceiversInv
<1>9. \A s \in dry : /\ slots'[s].heard = slots[s].heard
                     /\ slots'[s].reported = slots[s].reported
                     /\ slots'[s].concealed = slots[s].concealed + 1
  BY <1>3, <1>5 DEF Receivers
<1>10. \A s \in Live \ dry : slots'[s] = slots[s]
  BY <1>5 DEF Live
<1> QED
  BY <1>2, <1>6, <1>7, <1>8, <1>9, <1>10

LEMMA PullType ==
  ASSUME TypeInv, Pull
  PROVE  TypeInv'
<1>1. UNCHANGED <<setting, clock, sender_vars, wire, net_vars, churn_vars, inbox,
                  interest_active, pool, totals, counts>>
  BY DEF Pull, Abroad
<1>2. listener' \in [at : {"waiting", "draining", "final", "finished"}, frame : Frames]
  BY DEF Pull, TypeInv, SendersInv
<1>3. SendersInv'
  BY <1>1, <1>2 DEF TypeInv, SendersInv, sender_vars
<1>4. ChurnInv' /\ setting' \in Settings
  BY <1>1, ChurnStays DEF TypeInv
<1>5. PICK dry : Dries(dry)
  BY DEF Pull, Dries
<1>6. slots' \in [Speakers -> Receivers \cup {None}] /\ Live' = Live /\ concealed' \in Nat
  BY <1>5, PullDries DEF TypeInv
<1>7. ReceiversInv'
  BY <1>1, <1>6 DEF TypeInv, ReceiversInv
<1>8. MadeInv'
  BY <1>1, <1>6 DEF TypeInv, MadeInv
<1> QED
  BY <1>3, <1>4, <1>7, <1>8 DEF TypeInv

LEMMA FinishCollects ==
  ASSUME ReceiversInv, Finish
  PROVE  /\ slots' \in [Speakers -> Receivers \cup {None}] /\ Live' = Live
         /\ pool' \in Seq(Receivers) /\ Len(pool') = Len(pool)
         /\ \A s \in Live : /\ slots'[s].heard = slots[s].heard
                            /\ slots'[s].concealed = slots[s].concealed
                            /\ slots'[s].reported = slots[s].concealed
         /\ \A k \in 1 .. Len(pool) : pool[k] \in Receivers /\ pool'[k] = Collected(pool[k])
         /\ totals' \in Nat
         /\ totals' = totals + Unreported(slots, Live) + Unreported(pool, DOMAIN pool)
<1>1. \A s \in Live : slots[s] \in Receivers /\ slots[s] # None
  BY LiveType DEF Live
<1>2. slots' = [s \in Speakers |-> IF s \in Live THEN Collected(slots[s]) ELSE None]
  BY DEF Finish
<1>3. \A s \in Live : /\ slots'[s] = Collected(slots[s]) /\ slots'[s] \in Receivers
                      /\ slots'[s] # None
  BY <1>1, <1>2, ReceiverOperations, NoneAssumption DEF Live
<1>4. slots' \in [Speakers -> Receivers \cup {None}]
  BY <1>1, <1>2, ReceiverOperations
<1>5. Live' = Live
  BY <1>2, <1>3 DEF Live
<1>6. pool \in Seq(Receivers) /\ DOMAIN pool = 1 .. Len(pool) /\ Len(pool) \in Nat
  BY DEF ReceiversInv
<1>7. pool' = [k \in 1 .. Len(pool) |-> Collected(pool[k])]
  BY <1>6 DEF Finish
<1>8. \A k \in 1 .. Len(pool) : pool[k] \in Receivers /\ Collected(pool[k]) \in Receivers
  BY <1>6, ReceiverOperations
<1>9. pool' \in Seq(Receivers) /\ Len(pool') = Len(pool)
        /\ \A k \in 1 .. Len(pool) : pool'[k] = Collected(pool[k])
  BY <1>6, <1>7, <1>8
<1>10. totals' = totals + Unreported(slots, Live) + Unreported(pool, DOMAIN pool)
  BY DEF Finish
<1>11. Unreported(slots, Live) \in Nat /\ Unreported(pool, DOMAIN pool) \in Nat
  <2>1. IsFiniteSet(DOMAIN pool)
    BY <1>6, FS_Interval
  <2> QED
    BY <2>1, LiveType, UnreportedType
<1>12. totals' \in Nat
  BY <1>10, <1>11 DEF ReceiversInv
<1> QED
  BY <1>1, <1>3, <1>4, <1>5, <1>8, <1>9, <1>10, <1>12, ReceiverOperations

LEMMA FinishType ==
  ASSUME TypeInv, Finish
  PROVE  TypeInv'
<1>1. UNCHANGED <<setting, clock, sender_vars, wire, net_vars, churn_vars, inbox,
                  interest_active, concealed, counts>>
        /\ listener' = [listener EXCEPT !.at = "finished"]
  BY DEF Finish, Abroad
<1>2. SendersInv'
  BY <1>1 DEF TypeInv, SendersInv, sender_vars
<1>3. ChurnInv' /\ setting' \in Settings
  BY <1>1, ChurnStays DEF TypeInv
<1>4. ReceiversInv' /\ MadeInv'
  BY <1>1, FinishCollects DEF TypeInv, ReceiversInv, MadeInv
<1> QED
  BY <1>2, <1>3, <1>4 DEF TypeInv

LEMMA DrainAgainType ==
  ASSUME TypeInv, DrainAgain
  PROVE  TypeInv'
<1>1. UNCHANGED <<setting, clock, sender_vars, wire, net_vars, churn_vars, inbox, receiver_vars>>
        /\ listener' = [listener EXCEPT !.frame = clock]
  BY DEF DrainAgain, Abroad
<1>2. SendersInv'
  BY <1>1 DEF TypeInv, SendersInv, sender_vars
<1> QED
  BY <1>1, <1>2, ChurnStays, ReceiversStay DEF TypeInv

LEMMA MediaStepType == TypeInv /\ [Next]_vars => TypeInv'
<1> SUFFICES ASSUME TypeInv, [Next]_vars PROVE TypeInv'
  OBVIOUS
<1>1. CASE UNCHANGED vars
  BY <1>1, SendersStay, ChurnStays, ReceiversStay DEF vars, TypeInv
<1>2. CASE Network
  BY <1>2, NetworkType
<1>3. CASE ChurnStep
  BY <1>3, ChurnType
<1>4. CASE Listening
  BY <1>4, WakeType, DrainType, PullType, DrainAgainType, FinishType DEF Listening
<1> QED
  BY <1>1, <1>2, <1>3, <1>4 DEF Next, Network, Listening

\* The types, and that the listener holds no more receivers, in slots and pool together,
\* than it made (main.rs:3217-3243, 3375-3394).
THEOREM MediaTypeCorrect == Spec => []TypeOK
BY InitType, MediaStepType, TypeInvTypes, PTL DEF Spec

-----------------------------------------------------------------------------
\* Slots lead to open connections

SlotsAreOpen ==
  \A s \in Speakers : \A conn \in {outbound[s], inbound[s]} \ {0} : <<s, conn>> \in open

Connected(s) == outbound[s] # 0 /\ outbound[s] = inbound[s] /\ <<s, outbound[s]>> \in readers

Reconnecting == setting.churn \in {"join", "reconnect", "replace"}

\* The churn task is past what it tears down.
Remaking ==
  churn.at \in {"connecting", "installing", "installing-remote", "spawning", "done"}

\* How far the churn task is with the pair in hand: its slots are emptied one after the
\* other before the connection is closed, and filled with the new one, which is open,
\* one after the other.
PairInHand ==
  /\ churn.at = "taking-remote" => Slot(TRUE)[Pair] = 0
  /\ churn.at = "closing" => Slot(TRUE)[Pair] = 0 /\ Slot(FALSE)[Pair] = 0
  /\ churn.at \in {"installing", "installing-remote", "spawning"} => <<Pair, 2>> \in open
  /\ churn.at \in {"installing-remote", "spawning"} => Slot(TRUE)[Pair] = 2
  /\ churn.at = "spawning" => Slot(FALSE)[Pair] = 2

\* The pairs it is done with are connected, or reported as errors.
PairsDone ==
  /\ churn.at \in {"waiting", "endpoint"} => churn.left = ChurnPairs(setting)
  /\ Remaking /\ Reconnecting =>
    /\ churn.at = "done" => churn.left = {}
    /\ \A s \in (ChurnPairs(setting) \ churn.left) \ unreconnected : Connected(s)

LinkInv == TypeInv /\ SlotsAreOpen /\ PairInHand /\ PairsDone

LEMMA SlotsOfPair ==
  \/ Slot(TRUE) = inbound /\ Slot(FALSE) = outbound
  \/ Slot(TRUE) = outbound /\ Slot(FALSE) = inbound
<1>1. LocalIsInbound \in BOOLEAN
  BY DEF LocalIsInbound
<1>2. CASE LocalIsInbound
  <2>1. (TRUE = LocalIsInbound) /\ ~(FALSE = LocalIsInbound)
    BY <1>1, <1>2, Zenon
  <2> QED
    BY <2>1 DEF Slot
<1>3. CASE ~LocalIsInbound
  <2>1. ~(TRUE = LocalIsInbound) /\ (FALSE = LocalIsInbound)
    BY <1>1, <1>3, Zenon
  <2> QED
    BY <2>1 DEF Slot
<1> QED
  BY <1>2, <1>3

\* A step of TakeSlot or Install changes one slot of the pair.
LEMMA OneSlotChanges ==
  ASSUME TypeInv, setting' = setting, NEW local \in BOOLEAN, NEW other \in BOOLEAN, other # local,
         NEW v,
         IF local = LocalIsInbound
         THEN inbound' = [inbound EXCEPT ![Pair] = v] /\ UNCHANGED outbound
         ELSE outbound' = [outbound EXCEPT ![Pair] = v] /\ UNCHANGED inbound,
         churn.at # "done"
  PROVE  /\ Slot(local)'[Pair] = v /\ Slot(other)' = Slot(other)
         /\ \A s \in Speakers \ {Pair} : outbound'[s] = outbound[s] /\ inbound'[s] = inbound[s]
         /\ \A s \in Speakers :
              {outbound'[s], inbound'[s]} \subseteq {outbound[s], inbound[s]} \cup
                                                    (IF s = Pair THEN {v} ELSE {})
<1>1. outbound \in [Speakers -> 0 .. 2] /\ inbound \in [Speakers -> 0 .. 2]
  BY DEF TypeInv, ChurnInv
<1>2. Pair \in Speakers
  BY PairIsLeft
<1>3. LocalIsInbound' = LocalIsInbound /\ LocalIsInbound \in BOOLEAN
  BY DEF LocalIsInbound
<1>4. CASE local = LocalIsInbound
  BY <1>1, <1>2, <1>3, <1>4 DEF Slot
<1>5. CASE local # LocalIsInbound
  BY <1>1, <1>2, <1>3, <1>5 DEF Slot
<1> QED
  BY <1>4, <1>5

LEMMA LinkInit == Init => LinkInv
<1> SUFFICES ASSUME Init PROVE LinkInv
  OBVIOUS
<1>1. TypeInv
  BY InitType
<1>2. churn.at = (IF setting.churn = "none" THEN "done" ELSE "waiting")
        /\ churn.left = ChurnPairs(setting)
  BY DEF Init
<1>3. SlotsAreOpen
  BY DEF Init, SlotsAreOpen
<1>4. PairInHand
  BY <1>2 DEF PairInHand
<1>5. PairsDone
  BY <1>2 DEF PairsDone, Remaking, Reconnecting
<1> QED
  BY <1>1, <1>3, <1>4, <1>5 DEF LinkInv

LEMMA LinksStay ==
  ASSUME LinkInv, UNCHANGED <<setting, net_vars, churn_vars>>
  PROVE  SlotsAreOpen' /\ PairInHand' /\ PairsDone'
<1>1. Pair' = Pair /\ Slot(TRUE)' = Slot(TRUE) /\ Slot(FALSE)' = Slot(FALSE)
        /\ ChurnPairs(setting)' = ChurnPairs(setting)
  BY DEF Pair, Slot, LocalIsInbound, churn_vars, net_vars
<1>2. UNCHANGED <<outbound, inbound, open, readers, churn, unreconnected, setting>>
  BY DEF churn_vars, net_vars
<1>3. SlotsAreOpen' /\ PairInHand'
  BY <1>1, <1>2 DEF LinkInv, SlotsAreOpen, PairInHand
<1>4. PairsDone'
  BY <1>1, <1>2 DEF LinkInv, PairsDone, Remaking, Reconnecting, Connected
<1> QED
  BY <1>3, <1>4

LEMMA ChurnLinks ==
  ASSUME LinkInv, ChurnStep
  PROVE  SlotsAreOpen' /\ PairInHand' /\ PairsDone'
<1>1. TypeInv /\ ChurnInv /\ SlotsAreOpen /\ PairInHand /\ PairsDone
  BY DEF LinkInv, TypeInv
<1>2. setting' = setting /\ ChurnPairs(setting)' = ChurnPairs(setting)
        /\ (Reconnecting' <=> Reconnecting)
  BY ChurnLeaves DEF Elsewhere, Reconnecting
<1>3. churn.at # "done" => Pair \in Speakers /\ Pair \in churn.left
  BY <1>1, PairIsLeft
<1>4. ChurnPairs(setting) \subseteq Speakers
  BY <1>1, SettingType DEF TypeInv
<1>5. churn \in [at : ChurnPlaces, left : SUBSET ChurnPairs(setting), conn : 0 .. 2]
        /\ outbound \in [Speakers -> 0 .. 2] /\ inbound \in [Speakers -> 0 .. 2]
  BY <1>1 DEF ChurnInv
<1>6. ASSUME UNCHANGED <<net_vars, unreconnected>>, churn'.left = ChurnPairs(setting),
             churn'.at \in {"endpoint", "connecting", "taking", "failed"}
      PROVE  SlotsAreOpen' /\ PairInHand' /\ PairsDone'
  <2>1. SlotsAreOpen' /\ PairInHand'
    BY <1>1, <1>6 DEF SlotsAreOpen, PairInHand, net_vars
  <2>2. PairsDone'
    BY <1>2, <1>6 DEF PairsDone
  <2> QED
    BY <2>1, <2>2
<1>7. CASE StartChurn
  <2>1. UNCHANGED <<net_vars, unreconnected>> /\ churn'.at \in {"endpoint", "taking"}
          /\ churn'.left = churn.left /\ churn.at = "waiting"
    BY <1>5, <1>7 DEF StartChurn
  <2> QED
    BY <1>1, <1>6, <2>1 DEF PairsDone
<1>8. CASE NewEndpoint
  <2>1. UNCHANGED <<net_vars, unreconnected>> /\ churn'.at \in {"connecting", "failed"}
          /\ churn'.left = churn.left /\ churn.at = "endpoint"
    BY <1>5, <1>8 DEF NewEndpoint
  <2> QED
    BY <1>1, <1>6, <2>1 DEF PairsDone
<1>9. CASE TakeLocal
  <2>1. churn.at = "taking" /\ churn'.at = "taking-remote" /\ churn'.left = churn.left
          /\ UNCHANGED <<open, readers, unreconnected>>
    BY <1>5, <1>9 DEF TakeLocal, TakeSlot
  <2>2. Slot(TRUE)'[Pair] = 0 /\ \A s \in Speakers :
          {outbound'[s], inbound'[s]} \subseteq {outbound[s], inbound[s]} \cup {0}
    <3>1. IF TRUE = LocalIsInbound
          THEN inbound' = [inbound EXCEPT ![Pair] = 0] /\ UNCHANGED outbound
          ELSE outbound' = [outbound EXCEPT ![Pair] = 0] /\ UNCHANGED inbound
      BY <1>9 DEF TakeLocal, TakeSlot
    <3> QED
      BY <1>1, <1>2, <2>1, <3>1, OneSlotChanges
  <2>3. Pair' = Pair
    BY <2>1 DEF Pair
  <2>4. SlotsAreOpen' /\ PairInHand'
    BY <1>1, <2>1, <2>2, <2>3 DEF SlotsAreOpen, PairInHand
  <2> QED
    BY <2>1, <2>4 DEF PairsDone, Remaking
<1>10. CASE TakeRemote
  <2>1. churn.at = "taking-remote" /\ churn'.at = "closing" /\ churn'.left = churn.left
          /\ UNCHANGED <<open, readers, unreconnected>>
    BY <1>5, <1>10 DEF TakeRemote, TakeSlot
  <2>2. Slot(FALSE)'[Pair] = 0 /\ Slot(TRUE)' = Slot(TRUE) /\ \A s \in Speakers :
          {outbound'[s], inbound'[s]} \subseteq {outbound[s], inbound[s]} \cup {0}
    <3>1. IF FALSE = LocalIsInbound
          THEN inbound' = [inbound EXCEPT ![Pair] = 0] /\ UNCHANGED outbound
          ELSE outbound' = [outbound EXCEPT ![Pair] = 0] /\ UNCHANGED inbound
      BY <1>10 DEF TakeRemote, TakeSlot
    <3> QED
      BY <1>1, <1>2, <2>1, <3>1, OneSlotChanges
  <2>3. Pair' = Pair
    BY <2>1 DEF Pair
  <2>4. SlotsAreOpen' /\ PairInHand'
    BY <1>1, <2>1, <2>2, <2>3 DEF SlotsAreOpen, PairInHand
  <2> QED
    BY <2>1, <2>4 DEF PairsDone, Remaking
<1>11. CASE CloseConnection
  <2>1. churn.at = "closing" /\ UNCHANGED <<outbound, inbound, readers, unreconnected>>
          /\ open' = open \ {<<Pair, churn.conn>>}
    BY <1>11 DEF CloseConnection
  <2>2. setting.churn \in {"leave", "reconnect", "replace"}
    BY <1>1, <2>1 DEF ChurnInv
  <2>3. \/ churn'.at = "taking"
        \/ churn'.at = "done" /\ setting.churn = "leave"
        \/ churn'.at \in {"endpoint", "connecting"} /\ churn'.left = ChurnPairs(setting)
    BY <1>11, <2>2 DEF CloseConnection
  <2>4. outbound[Pair] = 0 /\ inbound[Pair] = 0
    BY <1>1, <2>1, SlotsOfPair DEF PairInHand
  <2>5. SlotsAreOpen'
    BY <1>1, <2>1, <2>4 DEF SlotsAreOpen
  <2>6. PairInHand'
    BY <2>3 DEF PairInHand
  <2>7. PairsDone'
    BY <1>2, <2>3 DEF PairsDone, Remaking, Reconnecting
  <2> QED
    BY <2>5, <2>6, <2>7
<1>12. ASSUME Advance, churn.at \in {"connecting", "spawning"},
              UNCHANGED <<outbound, inbound>>, open \subseteq open', readers \subseteq readers',
              unreconnected \subseteq unreconnected', \A x : x = Pair => x \in unreconnected' \/ Connected(x)'
       PROVE  SlotsAreOpen' /\ PairInHand' /\ PairsDone'
  <2>1. churn' = [at |-> IF churn.left \ {Pair} = {} THEN "done" ELSE "connecting",
                  left |-> churn.left \ {Pair}, conn |-> 0]
    BY <1>12 DEF Advance
  <2>2. SlotsAreOpen' /\ PairInHand'
    BY <1>1, <1>12, <2>1 DEF SlotsAreOpen, PairInHand
  <2>3. ASSUME Reconnecting, NEW s \in (ChurnPairs(setting) \ churn'.left) \ unreconnected'
        PROVE  Connected(s)'
    <3>1. CASE s = Pair
      BY <1>12, <3>1 DEF Connected
    <3>2. CASE s # Pair
      <4>1. s \in (ChurnPairs(setting) \ churn.left) \ unreconnected
        BY <1>12, <2>1, <2>3, <3>2
      <4>2. Connected(s)
        BY <1>1, <1>12, <2>3, <4>1 DEF PairsDone, Remaking
      <4> QED
        BY <1>12, <4>2 DEF Connected
    <3> QED
      BY <3>1, <3>2
  <2>4. PairsDone'
    BY <1>2, <2>1, <2>3 DEF PairsDone
  <2> QED
    BY <2>2, <2>4
<1>13. CASE Reconnect
  <2>1. churn.at = "connecting" /\ UNCHANGED <<outbound, inbound, readers>>
    BY <1>13 DEF Reconnect
  <2>2. CASE unreconnected' = unreconnected \cup {Pair} /\ Advance /\ UNCHANGED open
    BY <1>12, <2>1, <2>2
  <2>3. CASE open' = open \cup {<<Pair, 2>>} /\ UNCHANGED unreconnected
             /\ churn' = [churn EXCEPT !.at = "installing", !.conn = 2]
    <3>1. churn'.at = "installing" /\ churn'.left = churn.left
      BY <1>5, <2>3
    <3>2. Pair' = Pair
      BY <3>1 DEF Pair
    <3>3. SlotsAreOpen' /\ PairInHand'
      BY <1>1, <2>1, <2>3, <3>1, <3>2 DEF SlotsAreOpen, PairInHand
    <3>4. PairsDone'
      BY <1>1, <1>2, <2>1, <2>3, <3>1 DEF PairsDone, Remaking, Connected
    <3> QED
      BY <3>3, <3>4
  <2> QED
    BY <1>13, <2>2, <2>3 DEF Reconnect
<1>14. ASSUME NEW local \in BOOLEAN, NEW next \in {"installing-remote", "spawning"},
              churn.at \in {"installing", "installing-remote"}, Install(local, next),
              NEW other \in BOOLEAN, other # local
       PROVE  /\ Slot(local)'[Pair] = 2 /\ Slot(other)' = Slot(other) /\ Pair' = Pair
              /\ churn'.at = next /\ <<Pair, 2>> \in open'
              /\ SlotsAreOpen' /\ PairsDone'
  <2>1. churn.conn = 2 /\ churn' = [churn EXCEPT !.at = next]
          /\ UNCHANGED <<open, readers, unreconnected>> /\ <<Pair, 2>> \in open
    BY <1>1, <1>14 DEF Install, ChurnInv, PairInHand
  <2>2. churn'.at = next /\ churn'.left = churn.left
    BY <1>5, <2>1
  <2>3. Pair' = Pair
    BY <2>2 DEF Pair
  <2>4. /\ Slot(local)'[Pair] = 2 /\ Slot(other)' = Slot(other)
        /\ \A s \in Speakers \ {Pair} : outbound'[s] = outbound[s] /\ inbound'[s] = inbound[s]
        /\ \A s \in Speakers :
             {outbound'[s], inbound'[s]} \subseteq {outbound[s], inbound[s]} \cup
                                                   (IF s = Pair THEN {2} ELSE {})
    <3>1. IF local = LocalIsInbound
          THEN inbound' = [inbound EXCEPT ![Pair] = 2] /\ UNCHANGED outbound
          ELSE outbound' = [outbound EXCEPT ![Pair] = 2] /\ UNCHANGED inbound
      BY <1>14, <2>1 DEF Install
    <3> QED
      BY <1>1, <1>2, <1>14, <3>1, OneSlotChanges
  <2>5. SlotsAreOpen'
    BY <1>1, <2>1, <2>4 DEF SlotsAreOpen
  <2>6. ASSUME Reconnecting, NEW s \in (ChurnPairs(setting) \ churn'.left) \ unreconnected'
        PROVE  Connected(s)'
    <3>1. s # Pair /\ s \in Speakers /\ s \in (ChurnPairs(setting) \ churn.left) \ unreconnected
      BY <1>3, <1>4, <1>14, <2>1, <2>2, <2>6
    <3>2. Connected(s)
      BY <1>1, <1>14, <2>6, <3>1 DEF PairsDone, Remaking
    <3> QED
      BY <2>1, <2>4, <3>1, <3>2 DEF Connected
  <2>7. PairsDone'
    BY <1>2, <2>2, <2>6 DEF PairsDone
  <2> QED
    BY <2>1, <2>2, <2>3, <2>4, <2>5, <2>7
<1>15. CASE InstallLocal
  <2>1. churn.at = "installing" /\ Install(TRUE, "installing-remote")
    BY <1>15 DEF InstallLocal
  <2>2. Slot(TRUE)'[Pair] = 2 /\ Pair' = Pair /\ churn'.at = "installing-remote"
          /\ <<Pair, 2>> \in open' /\ SlotsAreOpen' /\ PairsDone'
    BY <1>14, <2>1
  <2> QED
    BY <2>2 DEF PairInHand
<1>16. CASE InstallRemote
  <2>1. churn.at = "installing-remote" /\ Install(FALSE, "spawning") /\ Slot(TRUE)[Pair] = 2
    BY <1>1, <1>16 DEF InstallRemote, PairInHand
  <2>2. Slot(FALSE)'[Pair] = 2 /\ Slot(TRUE)' = Slot(TRUE) /\ Pair' = Pair
          /\ churn'.at = "spawning" /\ <<Pair, 2>> \in open' /\ SlotsAreOpen' /\ PairsDone'
    BY <1>14, <2>1
  <2> QED
    BY <2>1, <2>2 DEF PairInHand
<1>17. CASE SpawnReader
  <2>1. churn.at = "spawning" /\ Advance /\ UNCHANGED <<outbound, inbound, open, unreconnected>>
          /\ readers' = readers \cup {<<Pair, churn.conn>>} /\ churn.conn = 2
    BY <1>1, <1>17 DEF SpawnReader, ChurnInv
  <2>2. outbound[Pair] = 2 /\ inbound[Pair] = 2
    BY <1>1, <2>1, SlotsOfPair DEF PairInHand
  <2>3. outbound'[Pair] # 0 /\ outbound'[Pair] = inbound'[Pair]
          /\ <<Pair, outbound'[Pair]>> \in readers'
    BY <2>1, <2>2
  <2>4. \A x : x = Pair => Connected(x)'
    BY <2>3 DEF Connected
  <2> QED
    BY <1>12, <2>1, <2>4
<1> QED
  BY <1>7, <1>8, <1>9, <1>10, <1>11, <1>13, <1>15, <1>16, <1>17 DEF ChurnStep

\* Whatever senders, readers and the churn task do meanwhile, no slot of a pair leads to a
\* closed connection, and after a churn that reconnects every pair but those it reports
\* is connected both ways and read (main.rs:2551-2568, 2645-2666).
THEOREM SlotsLead == Spec => []SlotsLeadToOpenConnections
<1>1. LinkInv /\ [Next]_vars => LinkInv'
  <2> SUFFICES ASSUME LinkInv, [Next]_vars PROVE LinkInv'
    OBVIOUS
  <2>1. TypeInv'
    BY MediaStepType DEF LinkInv
  <2>2. CASE UNCHANGED <<setting, net_vars, churn_vars>>
    BY <2>1, <2>2, LinksStay DEF LinkInv
  <2>3. CASE UNCHANGED vars
    BY <2>2, <2>3 DEF vars
  <2>4. CASE Network
    BY <2>2, <2>4, NetworkLeaves
  <2>5. CASE Listening
    BY <2>2, <2>5, ListenerLeaves
  <2>6. CASE ChurnStep
    BY <2>1, <2>6, ChurnLinks DEF LinkInv
  <2> QED
    BY <2>3, <2>4, <2>5, <2>6 DEF Next, Network, Listening
<1>2. LinkInv => SlotsLeadToOpenConnections
  <2> SUFFICES ASSUME LinkInv, churn.at = "done", Reconnecting,
                      NEW s \in ChurnPairs(setting) \ unreconnected
               PROVE  Connected(s)
    BY DEF LinkInv, SlotsAreOpen, SlotsLeadToOpenConnections, Reconnecting, Connected
  <2> QED
    BY DEF LinkInv, PairsDone, Remaking
<1> QED
  BY LinkInit, <1>1, <1>2, PTL DEF Spec

-----------------------------------------------------------------------------
\* A receiver plays one speaker

VoiceInv ==
  /\ TypeInv
  /\ \A s \in Live : slots[s].heard \subseteq {s}
  /\ pool \in Seq(Resting)

LEMMA VoiceInit == Init => VoiceInv
<1> SUFFICES ASSUME Init PROVE VoiceInv
  OBVIOUS
<1>1. \A s \in Live : slots[s] = NewReceiver
  BY DEF Init, Live
<1>2. pool \in Seq(Resting)
  BY DEF Init
<1> QED
  BY <1>1, <1>2, InitType DEF VoiceInv, NewReceiver

LEMMA VoicesStay ==
  ASSUME VoiceInv, UNCHANGED receiver_vars, TypeInv'
  PROVE  VoiceInv'
BY DEF VoiceInv, receiver_vars, Live

LEMMA ListeningVoice ==
  ASSUME VoiceInv, Listening, TypeInv'
  PROVE  VoiceInv'
<1>1. TypeInv /\ ReceiversInv
  BY DEF VoiceInv, TypeInv
<1>2. CASE Wake
  <2>1. \A s \in Live' : s \in Live /\ slots'[s] = slots[s]
    BY <1>1, <1>2, WakeRetires
  <2>2. pool' \in Seq(Resting)
    <3>1. pool' = pool \/ \E back \in Seq(Resting) : pool' = pool \o back
      BY <1>1, <1>2, WakeRetires
    <3>2. pool \in Seq(Resting)
      BY DEF VoiceInv
    <3> QED
      BY <3>1, <3>2, JoinType
  <2> QED
    BY <2>1, <2>2 DEF VoiceInv
<1>3. CASE Drain /\ UNCHANGED <<slots, pool, counts>>
  BY <1>3 DEF VoiceInv, Live
<1>4. CASE Drain /\ Accept(Head(inbox).from)
  <2>1. PICK s \in Speakers : s = Head(inbox).from
    <3>1. inbox \in Seq([from : Speakers, frame : Frames]) /\ inbox # << >>
      BY <1>1, <1>4 DEF Drain, TypeInv, SendersInv
    <3>2. Head(inbox) \in [from : Speakers, frame : Frames]
      BY <3>1, TailType
    <3> QED
      BY <3>2
  <2>2. PICK r \in Receivers :
           /\ slots' = [slots EXCEPT ![s] = [r EXCEPT !.heard = @ \cup {s}]]
           /\ \/ /\ s \in Live /\ r = slots[s]
                 /\ pool' = pool /\ counts' = counts
              \/ /\ s \notin Live /\ pool # << >> /\ r = Last(pool)
                 /\ pool' = Front(pool) /\ counts' = [counts EXCEPT !.reused = @ + 1]
              \/ /\ s \notin Live /\ r = NewReceiver
                 /\ pool' = pool /\ counts' = [counts EXCEPT !.made = @ + 1]
    BY <1>1, <1>4, <2>1, AcceptTakes
  <2>3. Live' = Live \cup {s} /\ (\A t \in Live' \ {s} : slots'[t] = slots[t])
          /\ slots'[s].heard = r.heard \cup {s}
    BY <1>1, <2>2, HearsType
  <2>4. pool # << >> => Front(pool) \in Seq(Resting) /\ Last(pool) \in Resting
    BY LastAndFront DEF VoiceInv
  <2>5. r.heard \subseteq {s}
    BY <2>2, <2>4 DEF VoiceInv, NewReceiver, Resting
  <2>6. pool' \in Seq(Resting)
    BY <2>2, <2>4 DEF VoiceInv
  <2> QED
    BY <2>3, <2>5, <2>6 DEF VoiceInv
<1>5. CASE Pull
  <2>1. PICK dry : Dries(dry) /\ pool' = pool
    BY <1>5 DEF Pull, Dries
  <2>2. Live' = Live /\ \A s \in Live : slots'[s].heard = slots[s].heard
    BY <1>1, <2>1, PullDries
  <2> QED
    BY <2>1, <2>2 DEF VoiceInv
<1>6. CASE DrainAgain
  BY <1>6, VoicesStay DEF DrainAgain
<1>7. CASE Finish
  <2>1. Live' = Live /\ (\A s \in Live : slots'[s].heard = slots[s].heard)
          /\ pool' \in Seq(Receivers) /\ Len(pool') = Len(pool)
          /\ \A k \in 1 .. Len(pool) : pool'[k] = Collected(pool[k])
    BY <1>1, <1>7, FinishCollects
  <2>2. \A k \in 1 .. Len(pool) : pool[k] \in Resting
    BY DEF VoiceInv
  <2>3. \A r \in Resting : Collected(r) \in Resting
    BY ReceiverOperations DEF Resting
  <2>4. pool' \in Seq(Resting)
    <3>1. \A k \in 1 .. Len(pool') : pool'[k] \in Resting
      BY <2>1, <2>2, <2>3
    <3> QED
      BY <2>1, <3>1
  <2> QED
    BY <2>1, <2>4 DEF VoiceInv
<1> QED
  BY <1>2, <1>3, <1>4, <1>5, <1>6, <1>7 DEF Listening, Drain

LEMMA VoiceStep == VoiceInv /\ [Next]_vars => VoiceInv'
<1> SUFFICES ASSUME VoiceInv, [Next]_vars PROVE VoiceInv'
  OBVIOUS
<1>1. TypeInv'
  BY MediaStepType DEF VoiceInv
<1>2. CASE UNCHANGED vars
  BY <1>1, <1>2, VoicesStay DEF vars
<1>3. CASE Network
  BY <1>1, <1>3, NetworkLeaves, VoicesStay
<1>4. CASE ChurnStep
  BY <1>1, <1>4, ChurnLeaves, VoicesStay DEF Elsewhere
<1>5. CASE Listening
  BY <1>1, <1>5, ListeningVoice
<1> QED
  BY <1>2, <1>3, <1>4, <1>5 DEF Next, Network, Listening

\* Through any retirements and reuses a receiver plays one speaker at a time: what one
\* speaker left in a decoder never colours the voice of the next (main.rs:3384-3390,
\* receiver.rs:248-262).
THEOREM ReceiversPlayOneVoice == Spec => []OneVoicePerReceiver
<1>1. VoiceInv => OneVoicePerReceiver
  <2> SUFFICES ASSUME VoiceInv PROVE OneVoicePerReceiver
    OBVIOUS
  <2>1. \A k \in DOMAIN pool : pool[k] \in Resting
    BY DEF VoiceInv
  <2> QED
    BY <2>1 DEF VoiceInv, Resting, OneVoicePerReceiver
<1> QED
  BY VoiceInit, VoiceStep, <1>1, PTL DEF Spec

-----------------------------------------------------------------------------
\* Only speakers in interest hold a receiver

\* Between two callbacks interest_active is what the last one found; a receiver made in a
\* drain is that of a speaker the callback found in interest.
InterestInv ==
  /\ listener.at = "draining" =>
       \A f \in Frames : f = listener.frame =>
         \A s \in Speakers : interest_active[s] = Interested(s, f)
  /\ setting.scenario # "baseline" /\ listener.at \in {"waiting", "draining"} =>
       \A s \in Live : interest_active[s]

LEMMA SameInterest ==
  ASSUME setting' = setting
  PROVE  \A s, f : Interested(s, f)' = Interested(s, f)
BY DEF Interested

LEMMA InterestStays ==
  ASSUME InterestInv, UNCHANGED <<setting, listener, receiver_vars>>
  PROVE  InterestInv'
BY SameInterest DEF InterestInv, receiver_vars, Live

LEMMA ListeningInterest ==
  ASSUME TypeInv, InterestInv, Listening
  PROVE  InterestInv'
<1>1. setting' = setting /\ \A s, f : Interested(s, f)' = Interested(s, f)
  BY ListenerLeaves, SameInterest
<1>2. ReceiversInv /\ listener \in [at : {"waiting", "draining", "final", "finished"}, frame : Frames]
  BY DEF TypeInv, SendersInv
<1>3. CASE Wake
  <2>1. listener' = [at |-> "draining", frame |-> clock]
          /\ interest_active' = [s \in Speakers |-> Interested(s, clock)]
          /\ listener.at = "waiting"
    BY <1>3 DEF Wake
  <2>2. Live' = Live \ Retired /\ Live \in SUBSET Speakers
    BY <1>2, <1>3, WakeRetires, LiveType
  <2>3. setting.scenario # "baseline" => \A s \in Live' : Interested(s, clock)
    BY <2>1, <2>2 DEF InterestInv, Retired
  <2> QED
    BY <1>1, <2>1, <2>2, <2>3 DEF InterestInv
<1>4. CASE Drain
  <2>1. UNCHANGED <<listener, interest_active>>
    BY <1>4 DEF Drain
  <2>2. CASE UNCHANGED <<slots, pool, counts>>
    BY <1>1, <2>1, <2>2 DEF InterestInv, Live
  <2>3. CASE Wanted(Head(inbox)) /\ Accept(Head(inbox).from)
    <3>1. PICK s \in Speakers : s = Head(inbox).from
      <4>1. inbox \in Seq([from : Speakers, frame : Frames]) /\ inbox # << >>
        BY <1>4 DEF Drain, TypeInv, SendersInv
      <4>2. Head(inbox) \in [from : Speakers, frame : Frames]
        BY <4>1, TailType
      <4> QED
        BY <4>2
    <3>2. PICK r \in Receivers : slots' = [slots EXCEPT ![s] = [r EXCEPT !.heard = @ \cup {s}]]
      BY <2>3, <3>1, AcceptTakes
    <3>3. Live' = Live \cup {s}
      BY <1>2, <3>2, HearsType
    <3>4. Interested(s, listener.frame)
      BY <2>3, <3>1 DEF Wanted
    <3>5. listener.at = "draining" => interest_active[s]
      BY <1>2, <3>4 DEF InterestInv
    <3>6. listener.at # "waiting"
      BY <1>4 DEF Drain
    <3> QED
      BY <1>1, <2>1, <3>3, <3>5, <3>6 DEF InterestInv
  <2> QED
    BY <1>4, <2>2, <2>3 DEF Drain
<1>5. CASE Pull
  <2>1. PICK dry : Dries(dry)
    BY <1>5 DEF Pull, Dries
  <2>2. Live' = Live
    BY <1>2, <2>1, PullDries
  <2>3. listener.at = "draining" /\ listener'.at \in {"waiting", "final"}
          /\ interest_active' = interest_active
    BY <1>2, <1>5 DEF Pull
  <2> QED
    BY <1>1, <2>2, <2>3 DEF InterestInv
<1>6. CASE DrainAgain \/ Finish
  <2>1. listener'.at \in {"final", "finished"}
    BY <1>2, <1>6 DEF DrainAgain, Finish
  <2> QED
    BY <2>1 DEF InterestInv
<1> QED
  BY <1>3, <1>4, <1>5, <1>6 DEF Listening

\* During the media only speakers in interest hold a receiver, though packets sent in
\* interest are drained after it ended and nobody retires a receiver that was made
\* between two callbacks (main.rs:3217-3222, 3375-3394).
THEOREM OnlyInterestHoldsReceivers == Spec => []ReceiverOnlyWhileInterested
<1>1. Init => InterestInv
  BY DEF Init, InterestInv, Live
<1>2. TypeInv /\ InterestInv /\ [Next]_vars => InterestInv'
  <2> SUFFICES ASSUME TypeInv, InterestInv, [Next]_vars PROVE InterestInv'
    OBVIOUS
  <2>1. CASE UNCHANGED vars
    BY <2>1, InterestStays DEF vars
  <2>2. CASE Network
    BY <2>2, NetworkLeaves, InterestStays
  <2>3. CASE ChurnStep
    BY <2>3, ChurnLeaves, InterestStays DEF Elsewhere
  <2>4. CASE Listening
    BY <2>4, ListeningInterest
  <2> QED
    BY <2>1, <2>2, <2>3, <2>4 DEF Next, Network, Listening
<1>3. InterestInv => ReceiverOnlyWhileInterested
  BY DEF InterestInv, ReceiverOnlyWhileInterested
<1> QED
  BY InitType, MediaStepType, <1>1, <1>2, <1>3, PTL DEF Spec

-----------------------------------------------------------------------------
\* The report

LEMMA SameUnreported ==
  ASSUME NEW old, NEW new, NEW S,
         \A x \in S : new[x].reported = old[x].reported /\ new[x].concealed = old[x].concealed
  PROVE  Unreported(new, S) = Unreported(old, S)
<1>1. UnreportedFrames(new, S) = UnreportedFrames(old, S)
  BY DEF UnreportedFrames
<1> QED
  BY <1>1 DEF Unreported

LEMMA NothingUnreported ==
  ASSUME NEW receivers, NEW S,
         \A x \in S : receivers[x].reported = receivers[x].concealed /\ receivers[x].concealed \in Nat
  PROVE  Unreported(receivers, S) = 0
<1>1. UnreportedFrames(receivers, S) = {}
  BY FrameNumbers DEF UnreportedFrames
<1> QED
  BY <1>1, FS_EmptySet DEF Unreported

\* Two sets apart have together as many elements as the one and the other.
LEMMA ApartUnion ==
  ASSUME NEW A, NEW B, IsFiniteSet(A), IsFiniteSet(B), A \cap B = {}
  PROVE  Cardinality(A \cup B) = Cardinality(A) + Cardinality(B)
<1>1. Cardinality(A \cup B) = Cardinality(A) + Cardinality(B) - Cardinality(A \cap B)
  BY FS_Union
<1>2. Cardinality(A \cap B) = 0
  BY FS_EmptySet
<1>3. Cardinality(A) \in Nat /\ Cardinality(B) \in Nat
  BY FS_CardinalityType
<1> QED
  BY <1>1, <1>2, <1>3

LEMMA UnreportedApart ==
  ASSUME NEW receivers, NEW S, IsFiniteSet(S), NEW T \in SUBSET S
  PROVE  Unreported(receivers, S) = Unreported(receivers, T) + Unreported(receivers, S \ T)
<1> DEFINE F == UnreportedFrames(receivers, T)
<1> DEFINE G == UnreportedFrames(receivers, S \ T)
<1>1. IsFiniteSet(T) /\ IsFiniteSet(S \ T)
  BY FS_Subset
<1>2. IsFiniteSet(F) /\ IsFiniteSet(G)
  BY <1>1, UnreportedType
<1>3. F \cup G = UnreportedFrames(receivers, S) /\ F \cap G = {}
  BY DEF UnreportedFrames
<1> HIDE DEF F, G
<1>4. Cardinality(F \cup G) = Cardinality(F) + Cardinality(G)
  BY <1>2, <1>3, ApartUnion
<1> QED
  BY <1>3, <1>4 DEF Unreported, F, G

\* Every receiver that ran dry has concealed one frame more.
LEMMA DryIsUnreported ==
  ASSUME ReceiversInv, NEW dry, Dries(dry), \A s \in Live : slots[s].reported <= slots[s].concealed
  PROVE  Unreported(slots', Live) = Unreported(slots, Live) + Cardinality(dry)
<1> DEFINE frame == [s \in dry |-> <<s, slots[s].concealed + 1>>]
<1> DEFINE N == {frame[s] : s \in dry}
<1> DEFINE F == UnreportedFrames(slots, Live)
<1>1. IsFiniteSet(dry) /\ Cardinality(dry) \in Nat /\ dry \subseteq Live
  BY PullDries DEF Dries
<1>2. IsFiniteSet(F) /\ Cardinality(F) \in Nat
  BY LiveType, UnreportedType, FS_CardinalityType
<1>3. \A s \in Live : slots[s].concealed \in Nat /\ slots[s].reported \in Nat
  BY LiveType, FrameNumbers DEF Receivers
<1>4. /\ \A s \in dry : /\ slots'[s].reported = slots[s].reported
                        /\ slots'[s].concealed = slots[s].concealed + 1
                        /\ slots[s].concealed < MaxConcealed
      /\ \A s \in Live \ dry : slots'[s] = slots[s]
  BY PullDries DEF Dries
<1>5. IsFiniteSet(N) /\ Cardinality(N) = Cardinality(dry)
  <2>1. frame \in Surjection(dry, N) /\ frame \in Injection(dry, N)
    <3>1. frame \in [dry -> N]
      OBVIOUS
    <3>2. \A a, b \in dry : frame[a] = frame[b] => a = b
      OBVIOUS
    <3>3. \A n \in N : \E s \in dry : frame[s] = n
      OBVIOUS
    <3> HIDE DEF frame, N
    <3> QED
      BY <3>1, <3>2, <3>3 DEF Surjection, Injection, IsInjective
  <2> HIDE DEF frame, N
  <2> QED
    BY <1>1, <2>1, FS_Surjection
<1>6. UnreportedFrames(slots', Live) = F \cup N
  <2>1. ASSUME NEW s \in Live, NEW k \in 1 .. MaxConcealed
        PROVE  (slots'[s].reported < k /\ k <= slots'[s].concealed)
                 <=> \/ slots[s].reported < k /\ k <= slots[s].concealed
                     \/ s \in dry /\ k = slots[s].concealed + 1
    BY <1>3, <1>4, FrameNumbers
  <2>2. N \subseteq Live \X (1 .. MaxConcealed)
    BY <1>1, <1>3, <1>4, FrameNumbers
  <2>3. \A x \in Live \X (1 .. MaxConcealed) :
          x \in N <=> x[1] \in dry /\ x[2] = slots[x[1]].concealed + 1
    OBVIOUS
  <2>4. \A x \in Live \X (1 .. MaxConcealed) :
          x \in UnreportedFrames(slots', Live) <=> x \in F \/ x \in N
    BY <2>1, <2>3 DEF UnreportedFrames
  <2>5. UnreportedFrames(slots', Live) \subseteq Live \X (1 .. MaxConcealed)
          /\ F \subseteq Live \X (1 .. MaxConcealed)
    BY DEF UnreportedFrames
  <2> HIDE DEF N, F
  <2> QED
    BY <2>2, <2>4, <2>5
<1>7. F \cap N = {}
  <2>1. \A s \in dry : ~(slots[s].concealed + 1 <= slots[s].concealed)
    BY <1>1, <1>3
  <2> QED
    BY <2>1 DEF UnreportedFrames
<1> HIDE DEF F, N, frame
<1>8. Cardinality(F \cup N) = Cardinality(F) + Cardinality(dry)
  <2>1. Cardinality(F \cup N) = Cardinality(F) + Cardinality(N)
    BY <1>2, <1>5, <1>7, ApartUnion
  <2> QED
    BY <1>5, <2>1
<1> QED
  BY <1>6, <1>8 DEF Unreported, F

\* What the pool holds is reported; what the slots conceal beyond their reports is what the
\* totals lack.
ReportInv ==
  /\ \A s \in Live : slots[s].reported <= slots[s].concealed
  /\ concealed = totals + Unreported(slots, Live)
  /\ counts.made + counts.reused = Cardinality(Live) + counts.retired
  /\ listener.at = "finished" => totals = concealed

LEMMA PoolIsReported ==
  ASSUME VoiceInv
  PROVE  Unreported(pool, DOMAIN pool) = 0
<1>1. \A k \in DOMAIN pool : pool[k] \in Resting
  BY DEF VoiceInv
<1>2. \A r \in Resting : r.reported = r.concealed /\ r.concealed \in Nat
  BY FrameNumbers DEF Resting, Receivers
<1> QED
  BY <1>1, <1>2, NothingUnreported

LEMMA ReportInit == Init => ReportInv
<1> SUFFICES ASSUME Init PROVE ReportInv
  OBVIOUS
<1>1. \A s \in Live : slots[s].reported = 0 /\ slots[s].concealed = 0
  BY DEF Init, Live, NewReceiver
<1>2. Unreported(slots, Live) = 0
  BY <1>1, NothingUnreported
<1>3. Cardinality(Live) \in Nat
  BY FinitelyMany DEF Live
<1>4. counts.made = Cardinality(Live) /\ counts.reused = 0 /\ counts.retired = 0
        /\ totals = 0 /\ concealed = 0
  BY DEF Init, Live
<1> QED
  BY <1>1, <1>2, <1>3, <1>4 DEF ReportInv

LEMMA ReportStays ==
  ASSUME ReportInv, UNCHANGED <<listener, receiver_vars>>
  PROVE  ReportInv'
BY DEF ReportInv, receiver_vars, Live, Unreported, UnreportedFrames

LEMMA ListeningReport ==
  ASSUME VoiceInv, ReportInv, Listening
  PROVE  ReportInv'
<1>1. TypeInv /\ ReceiversInv
  BY DEF VoiceInv, TypeInv
<1>2. listener \in [at : {"waiting", "draining", "final", "finished"}, frame : Frames]
  BY <1>1 DEF TypeInv, SendersInv
<1>3. Live \in SUBSET Speakers /\ IsFiniteSet(Live) /\ Cardinality(Live) \in Nat
        /\ Unreported(slots, Live) \in Nat
  BY <1>1, LiveType, UnreportedType
<1>4. totals \in Nat /\ concealed \in Nat /\ counts \in [made : Nat, reused : Nat, retired : Nat]
  BY <1>1 DEF ReceiversInv
<1>5. CASE Wake
  <2>1. Retired \in SUBSET Live /\ Live' = Live \ Retired
          /\ (\A s \in Live' : slots'[s] = slots[s])
          /\ totals' = totals + Unreported(slots, Retired)
          /\ counts' = [counts EXCEPT !.retired = @ + Cardinality(Retired)]
    BY <1>1, <1>5, WakeRetires
  <2>2. concealed' = concealed /\ listener'.at # "finished"
    BY <1>5 DEF Wake
  <2>3. IsFiniteSet(Retired) /\ Cardinality(Retired) \in Nat
          /\ Unreported(slots, Retired) \in Nat /\ Unreported(slots, Live \ Retired) \in Nat
    BY <1>3, <2>1, FinitelyMany, UnreportedType, FS_Subset
  <2>4. Unreported(slots, Live) = Unreported(slots, Retired) + Unreported(slots, Live \ Retired)
    BY <1>3, <2>1, UnreportedApart
  <2>5. Unreported(slots', Live') = Unreported(slots, Live \ Retired)
    <3>1. \A s \in Live \ Retired : slots'[s].reported = slots[s].reported
                                     /\ slots'[s].concealed = slots[s].concealed
      BY <2>1
    <3> QED
      BY <2>1, <3>1, SameUnreported
  <2>6. Cardinality(Live') = Cardinality(Live) - Cardinality(Retired)
    <3>1. Live \cap Retired = Retired
      BY <2>1
    <3>2. Cardinality(Live \ Retired) = Cardinality(Live) - Cardinality(Live \cap Retired)
      BY <1>3, FS_Difference
    <3> QED
      BY <2>1, <3>1, <3>2
  <2>7. concealed' = totals' + Unreported(slots', Live')
    BY <1>4, <2>1, <2>2, <2>3, <2>4, <2>5 DEF ReportInv
  <2>8. counts'.made + counts'.reused = Cardinality(Live') + counts'.retired
    BY <1>3, <1>4, <2>1, <2>3, <2>6 DEF ReportInv
  <2>9. Unreported(slots, Live)' = Unreported(slots', Live')
    BY DEF Unreported, UnreportedFrames
  <2> QED
    BY <2>1, <2>2, <2>7, <2>8, <2>9 DEF ReportInv
<1>6. CASE Drain /\ UNCHANGED <<slots, pool, counts>>
  <2>1. UNCHANGED <<listener, receiver_vars>>
    BY <1>6 DEF Drain, receiver_vars
  <2> QED
    BY <2>1, ReportStays
<1>7. CASE Drain /\ Accept(Head(inbox).from)
  <2>1. PICK s \in Speakers : s = Head(inbox).from
    <3>1. inbox \in Seq([from : Speakers, frame : Frames]) /\ inbox # << >>
      BY <1>1, <1>7 DEF Drain, TypeInv, SendersInv
    <3>2. Head(inbox) \in [from : Speakers, frame : Frames]
      BY <3>1, TailType
    <3> QED
      BY <3>2
  <2>2. PICK r \in Receivers :
           /\ slots' = [slots EXCEPT ![s] = [r EXCEPT !.heard = @ \cup {s}]]
           /\ \/ /\ s \in Live /\ r = slots[s]
                 /\ pool' = pool /\ counts' = counts
              \/ /\ s \notin Live /\ pool # << >> /\ r = Last(pool)
                 /\ pool' = Front(pool) /\ counts' = [counts EXCEPT !.reused = @ + 1]
              \/ /\ s \notin Live /\ r = NewReceiver
                 /\ pool' = pool /\ counts' = [counts EXCEPT !.made = @ + 1]
    BY <1>1, <1>7, <2>1, AcceptTakes
  <2>3. Live' = Live \cup {s} /\ (\A t \in Live' \ {s} : slots'[t] = slots[t])
          /\ slots'[s].concealed = r.concealed /\ slots'[s].reported = r.reported
    BY <1>1, <2>2, HearsType
  <2>4. UNCHANGED <<totals, concealed, listener>> /\ listener.at # "finished"
    BY <1>7 DEF Drain
  <2>5. s \notin Live => r.reported = r.concealed /\ r.concealed \in Nat
    <3>1. pool # << >> => Last(pool) \in Resting
      BY LastAndFront DEF VoiceInv
    <3> QED
      BY <2>2, <3>1, FrameNumbers DEF Resting, Receivers, NewReceiver
  <2>6. s \in Live => r = slots[s]
    BY <2>2
  <2>7. \A t \in Live' : slots'[t].reported <= slots'[t].concealed
    BY <2>3, <2>5, <2>6 DEF ReportInv
  <2>8. Unreported(slots', Live') = Unreported(slots, Live)
    <3>1. \A t \in Live : slots'[t].reported = slots[t].reported
                           /\ slots'[t].concealed = slots[t].concealed
      BY <2>3, <2>6
    <3>2. Unreported(slots', Live) = Unreported(slots, Live)
      BY <3>1, SameUnreported
    <3>3. CASE s \in Live
      <4>1. Live' = Live
        BY <2>3, <3>3
      <4> QED
        BY <3>2, <4>1
    <3>4. CASE s \notin Live
      <4>1. Live' \ Live = {s} /\ Live \in SUBSET Live' /\ IsFiniteSet(Live')
        BY <1>3, <2>3, <3>4, FS_AddElement
      <4>2. Unreported(slots', {s}) = 0
        BY <2>3, <2>5, <3>4, NothingUnreported
      <4>3. Unreported(slots', Live') = Unreported(slots', Live) + Unreported(slots', {s})
        BY <4>1, UnreportedApart
      <4> QED
        BY <1>3, <3>2, <4>2, <4>3
    <3> QED
      BY <3>3, <3>4
  <2>9. counts'.made + counts'.reused = Cardinality(Live') + counts'.retired
    <3>1. Cardinality(Live') = IF s \in Live THEN Cardinality(Live) ELSE Cardinality(Live) + 1
      BY <1>3, <2>3, FS_AddElement
    <3> QED
      BY <1>3, <1>4, <2>2, <3>1 DEF ReportInv
  <2>10. Unreported(slots, Live)' = Unreported(slots', Live')
    BY DEF Unreported, UnreportedFrames
  <2> QED
    BY <2>4, <2>7, <2>8, <2>9, <2>10 DEF ReportInv
<1>8. CASE Pull
  <2>1. PICK dry : Dries(dry)
    BY <1>8 DEF Pull, Dries
  <2>2. Live' = Live /\ Cardinality(dry) \in Nat /\ concealed' = concealed + Cardinality(dry)
    BY <1>1, <2>1, PullDries DEF Dries
  <2>3. UNCHANGED <<totals, counts>> /\ listener'.at # "finished"
    BY <1>2, <1>8 DEF Pull
  <2>4. \A s \in Live : slots'[s].reported <= slots'[s].concealed
    <3>1. \A s \in Live : slots[s].reported \in Nat /\ slots[s].concealed \in Nat
      BY <1>1, LiveType, FrameNumbers DEF Receivers
    <3> QED
      BY <1>1, <2>1, <3>1, PullDries DEF ReportInv
  <2>5. Unreported(slots', Live) = Unreported(slots, Live) + Cardinality(dry)
    BY <1>1, <2>1, DryIsUnreported DEF ReportInv
  <2>6. concealed' = totals' + Unreported(slots', Live')
    BY <1>3, <1>4, <2>2, <2>3, <2>5 DEF ReportInv
  <2>7. Unreported(slots, Live)' = Unreported(slots', Live')
    BY DEF Unreported, UnreportedFrames
  <2> QED
    BY <2>2, <2>3, <2>4, <2>6, <2>7 DEF ReportInv
<1>9. CASE DrainAgain
  <2>1. listener'.at # "finished" /\ UNCHANGED receiver_vars
    BY <1>2, <1>9 DEF DrainAgain
  <2> QED
    BY <2>1 DEF ReportInv, receiver_vars, Live, Unreported, UnreportedFrames
<1>10. CASE Finish
  <2>1. Live' = Live
          /\ (\A s \in Live : slots'[s].concealed = slots[s].concealed
                               /\ slots'[s].reported = slots[s].concealed)
          /\ totals' = totals + Unreported(slots, Live) + Unreported(pool, DOMAIN pool)
    BY <1>1, <1>10, FinishCollects
  <2>2. UNCHANGED <<concealed, counts>>
    BY <1>10 DEF Finish
  <2>3. totals' = concealed
    BY <1>3, <1>4, <2>1, PoolIsReported DEF ReportInv
  <2>4. \A s \in Live : slots'[s].reported = slots'[s].concealed /\ slots'[s].concealed \in Nat
    BY <1>1, <2>1, LiveType, FrameNumbers DEF Receivers
  <2>5. Unreported(slots', Live') = 0
    BY <2>1, <2>4, NothingUnreported
  <2>6. Unreported(slots, Live)' = Unreported(slots', Live')
    BY DEF Unreported, UnreportedFrames
  <2> QED
    BY <1>4, <2>1, <2>2, <2>3, <2>4, <2>5, <2>6 DEF ReportInv
<1> QED
  BY <1>5, <1>6, <1>7, <1>8, <1>9, <1>10 DEF Listening, Drain

\* Whichever receivers were retired, pooled or reused, the concealment a listener reports, at
\* any moment and in its result, is all that its receivers concealed and nothing
\* twice, and the receivers taken up and given back are the ones it holds
\* (main.rs:2703-2752, 3332-3360).
THEOREM ReportsAreTrue == Spec => []ReportIsTrue
<1>1. VoiceInv /\ ReportInv /\ [Next]_vars => ReportInv'
  <2> SUFFICES ASSUME VoiceInv, ReportInv, [Next]_vars PROVE ReportInv'
    OBVIOUS
  <2>1. CASE UNCHANGED vars
    BY <2>1, ReportStays DEF vars
  <2>2. CASE Network
    BY <2>2, NetworkLeaves, ReportStays
  <2>3. CASE ChurnStep
    BY <2>3, ChurnLeaves, ReportStays DEF Elsewhere
  <2>4. CASE Listening
    BY <2>4, ListeningReport
  <2> QED
    BY <2>1, <2>2, <2>3, <2>4 DEF Next, Network, Listening
<1>2. VoiceInv /\ ReportInv => ReportIsTrue
  <2> SUFFICES ASSUME VoiceInv, ReportInv PROVE ReportIsTrue
    OBVIOUS
  <2>1. totals \in Nat /\ Unreported(slots, Live) \in Nat
    BY LiveType, UnreportedType DEF VoiceInv, TypeInv, ReceiversInv
  <2> QED
    BY <2>1, PoolIsReported DEF ReportInv, ReportIsTrue
<1> QED
  BY VoiceInit, VoiceStep, ReportInit, <1>1, <1>2, PTL DEF Spec
=============================================================================
