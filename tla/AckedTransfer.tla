----------------------------- MODULE AckedTransfer -----------------------------
(***************************************************************************)
(* What the acknowledgement protocol of the simulator promises, for either *)
(* strategy and without time, packets or fragments: a message that was     *)
(* sent stays pending with its sender until it has been delivered, and     *)
(* every message is eventually delivered and settled.                      *)
(***************************************************************************)
CONSTANT Transfers

VARIABLES sent,      \* messages whose SendMessage was executed
          pending,   \* messages their sender may still (re)transmit
          delivered  \* messages the recipient has completed

vars == <<sent, pending, delivered>>

Init == sent = {} /\ pending = {} /\ delivered = {}

Send(k) ==
  /\ k \notin sent
  /\ sent' = sent \cup {k} /\ pending' = pending \cup {k}
  /\ UNCHANGED delivered

Deliver(k) ==
  /\ k \in pending \ delivered
  /\ delivered' = delivered \cup {k}
  /\ UNCHANGED <<sent, pending>>

Settle(k) ==
  /\ k \in pending \cap delivered
  /\ pending' = pending \ {k}
  /\ UNCHANGED <<sent, delivered>>

Next == \E k \in Transfers : Send(k) \/ Deliver(k) \/ Settle(k)

Spec == Init /\ [][Next]_vars

FairSpec == Spec /\ WF_vars(Next)

(***************************************************************************)
(* A message that was sent is pending or delivered, and everything pending *)
(* or delivered was sent.                                                  *)
(***************************************************************************)
NothingLost ==
  /\ sent \subseteq Transfers
  /\ pending \cup delivered = sent

===============================================================================
