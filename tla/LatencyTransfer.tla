---------------------------- MODULE LatencyTransfer ----------------------------
(***************************************************************************)
(* The simulation as an implementation of AckedTransfer.  A transfer is    *)
(* one SendMessage event, named by the fragment set it created: run()      *)
(* queues them all at time 0, so they take the sets 0..NumSends - 1 before *)
(* any retransmission takes one.                                           *)
(***************************************************************************)
EXTENDS LatencySim

Root(m) == origin[m.fragment_set].root

(***************************************************************************)
(* The sender will send (part of) message m if event e is executed.        *)
(***************************************************************************)
WillSend(e, k) ==
  \/ e.kind = "Egress" /\ Root(e.packet.content) = k
  \/ e.kind = "AckTimeout" /\ Root(original_messages[Sender][e.id]) = k

SentTransfers == {origin[s].root : s \in DOMAIN origin}
PendingTransfers == {k \in SentTransfers : \E e \in Items(events[Sender]) : WillSend(e, k)}
DeliveredTransfers == {origin[deliveries[i].fragment_set].root : i \in 1..Len(deliveries)}

Transfer == INSTANCE AckedTransfer
            WITH Transfers <- 0..(NumSends - 1), sent <- SentTransfers,
                 pending <- PendingTransfers, delivered <- DeliveredTransfers

(***************************************************************************)
(* With either strategy the simulation keeps the promise of AckedTransfer: *)
(* retransmission stops only after delivery, and with finitely many losses *)
(* and late packets every message gets there and is settled.               *)
(***************************************************************************)
ImplementsTransfer == Transfer!FairSpec

(***************************************************************************)
(* The simulation comes to its end, and then the statistics have at least  *)
(* one record per SendMessage: none of them is missing from the averages   *)
(* and quantiles, whose index into an empty list would panic.              *)
(***************************************************************************)
AllDelivered == DeliveredTransfers = 0..(NumSends - 1)

EndsComplete == <>[](Finished /\ AllDelivered)

(***************************************************************************)
(* Each SendMessage contributes one record to the delivery statistics.     *)
(***************************************************************************)
DeliveredOnce ==
  \A i, j \in 1..Len(deliveries) :
    origin[deliveries[i].fragment_set].root = origin[deliveries[j].fragment_set].root => i = j

===============================================================================
