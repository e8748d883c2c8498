--------------------------- MODULE PacketDelivery ---------------------------
(***************************************************************************)
(* What a stage of the voice path promises about the packets handed to it, *)
(* whatever queues, locks and threads it is made of: a packet is delivered *)
(* at most once, never invented, never after it was given up, and not      *)
(* after a packet it had to precede.  It promises nothing about how many   *)
(* packets arrive.                                                         *)
(***************************************************************************)
CONSTANTS
  Ids,       \* the packets
  Precedes   \* pairs <<i, j>>: i is not delivered once j has been

VARIABLE status

Statuses == {"unsent", "inflight", "delivered", "lost"}

Init == status = [i \in Ids |-> "unsent"]

Move(i, from, to) ==
  /\ status[i] = from
  /\ status' = [status EXCEPT ![i] = to]

Send(i) == Move(i, "unsent", "inflight")

\* The stage does not accept the packet.
Refuse(i) == Move(i, "unsent", "lost")

\* Packets that wait together are given up together.
Lose(waiting) == status' = [i \in Ids |-> IF i \in waiting THEN "lost" ELSE status[i]]

Deliver(i) ==
  /\ \A j \in Ids : <<i, j>> \in Precedes => status[j] # "delivered"
  /\ Move(i, "inflight", "delivered")

Next ==
  \/ \E i \in Ids : Send(i) \/ Refuse(i) \/ Deliver(i)
  \/ \E waiting \in SUBSET {i \in Ids : status[i] = "inflight"} : Lose(waiting)

Spec == Init /\ [][Next]_status
=============================================================================
