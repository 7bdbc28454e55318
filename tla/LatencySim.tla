------------------------------ MODULE LatencySim ------------------------------
(***************************************************************************)
(* The discrete-event simulation of latency-sim/src/main.rs: one user      *)
(* sends fragmented messages to another through mix nodes that delay every *)
(* packet, and retransmits what is not acknowledged in time, per fragment  *)
(* or per message.  One step of this specification is one call of          *)
(* Simulation::step; Init is the simulation that run() sets up.  An        *)
(* operator marked "mutation" is not the code's: it is the definition      *)
(* after it with a plausible mistake, kept to show that a property notices.*)
(***************************************************************************)
EXTENDS EventQueue, Integers, Functions

CONSTANTS Nodes,        \* the mix nodes
          Sender,       \* user 0 of run(), the only one with a drop_chance
          Recipient,    \* user 1, to which every SendMessage goes
          AckStrat,     \* "PerFragment" or "WholeMessage"
          NumSends,     \* how many SendMessage events run() queues
          NumFrags,     \* the fragments of each message
          MultNum, MultDen, \* config.ack_multiplier as a fraction
          AckAddition,  \* config.ack_addition
          Routes,       \* the hop sequences build_packet may draw
          PromptRoutes, \* those it draws once SlowIds ids are used up
          SlowIds,      \* bound: message ids whose hops are drawn from Routes
          MaxDrops      \* bound: packets that may be lost

Users == {Sender, Recipient}

(***************************************************************************)
(* A packet and the packets nested in it, outermost first, are one record: *)
(* hops lists destination and delay of each layer, content is the message  *)
(* or the acknowledgement inside the innermost.                            *)
(***************************************************************************)
Hop == [node : Nodes, delay : Nat]
Path == Seq(Hop) \ {<<>>}

TotalDelay(hops) ==
  LET left[i \in 1..(Len(hops) + 1)] ==
        IF i > Len(hops) THEN 0 ELSE hops[i].delay + left[i + 1]
  IN  left[1]

ASSUME UserAssumption == Sender # Recipient

ASSUME ConfigAssumption ==
  /\ AckStrat \in {"PerFragment", "WholeMessage"}
  /\ NumSends \in Nat /\ NumFrags \in Nat \ {0}
  /\ MultNum \in Nat /\ MultDen \in Nat \ {0} /\ AckAddition \in Nat
  /\ SlowIds \in Nat /\ MaxDrops \in Nat

ASSUME RouteAssumption ==
  Routes \subseteq Path /\ PromptRoutes \subseteq Routes

VARIABLES timestamp,         \* the simulated clock
          ingress,           \* Node::ingress, of each node
          events,            \* User::events, of each user
          fragments,         \* User::fragments, as <<set, index>> pairs
          t_first,           \* User::t_first, of the recipient's sets
          original_messages, \* User::original_messages, by acknowledgement id
          deliveries,        \* delivery_times and first_to_last, pushed together
          next_message_id, next_fragment_set, packet_count

VARIABLES origin,  \* auxiliary: the SendMessage a fragment set stems from
          drops    \* auxiliary: packets lost so far, spent against MaxDrops

simVars == <<timestamp, ingress, events, fragments, t_first, original_messages,
             deliveries, next_message_id, next_fragment_set, packet_count>>
vars == <<simVars, origin, drops>>

-------------------------------------------------------------------------------
Packet(hops, content) == [hops |-> hops, content |-> content]

Ack(id, user) == [kind |-> "Ack", message_id |-> id, recipient |-> user]

\* mutation: a retransmitted set is stamped with the current time
MessageRestamped(id, sent, from, to, set, size, index, ack) ==
  [kind |-> "Message", id |-> id, sending_time |-> timestamp', sender |-> from,
   recipient |-> to, fragment_set |-> set, fragment_size |-> size,
   fragment_index |-> index, ack |-> ack]

Message(id, sent, from, to, set, size, index, ack) ==
  [kind |-> "Message", id |-> id, sending_time |-> sent, sender |-> from,
   recipient |-> to, fragment_set |-> set, fragment_size |-> size,
   fragment_index |-> index, ack |-> ack]

MessageEvent(m) == [kind |-> "Message", message |-> m]
Egress(p) == [kind |-> "Egress", packet |-> p]
AckTimeout(id) == [kind |-> "AckTimeout", id |-> id]
SendMessage(n) == [kind |-> "SendMessage", num_frags |-> n]

(***************************************************************************)
(* The id an acknowledgement carries and a timeout is armed under.         *)
(***************************************************************************)
\* mutation: the fragment set names the acknowledgement in either strategy
AckKeyIsSet(id, set) == set

AckKey(id, set) == IF AckStrat = "PerFragment" THEN id ELSE set

\* mutation: the timeout is one tick early, as if the addition were one less
TimeoutOneEarly(hops) == ((TotalDelay(hops) * MultNum) \div MultDen) + AckAddition - 1

\* mutation: ack_addition is taken off
TimeoutLessAddition(hops) == ((TotalDelay(hops) * MultNum) \div MultDen) - AckAddition

Timeout(hops) == ((TotalDelay(hops) * MultNum) \div MultDen) + AckAddition

(***************************************************************************)
(* Which packets arm a timeout: each one, or the first of its set.         *)
(***************************************************************************)
\* mutation: every packet of a set arms a timeout
ArmsAlways(u, id) == TRUE

\* mutation: no timeout is armed while another original is stored
ArmsOnce(u, id) == original_messages[u] = <<>>

Arms(u, id) == AckStrat = "PerFragment" \/ id \notin DOMAIN original_messages[u]

(***************************************************************************)
(* Which arrivals are acknowledged: each one, or one that completes a set. *)
(***************************************************************************)
\* mutation: every arrival is acknowledged
AcknowledgesAlways(complete) == TRUE

\* mutation: only completion is acknowledged
AcknowledgesComplete(complete) == complete

Acknowledges(complete) == AckStrat = "PerFragment" \/ complete

(***************************************************************************)
(* build_packet draws every hop and delay at random: any route will do.    *)
(***************************************************************************)
Drawable == IF next_message_id < SlowIds THEN Routes ELSE PromptRoutes

(***************************************************************************)
(* build_messages: one packet per fragment of a new set, each with its own *)
(* id and its own way back for the acknowledgement.                        *)
(***************************************************************************)
BuildMessages(from, to, n, sent, way, ackWay) ==
  [k \in 1..n |->
     LET id  == next_message_id + k - 1
         ack == Ack(AckKey(id, next_fragment_set), from)
     IN  Packet(way[k], Message(id, sent, from, to, next_fragment_set, n, k - 1,
                                Packet(ackWay[k], ack)))]

(***************************************************************************)
(* The same fragment again, under a new id and with new ways.              *)
(***************************************************************************)
\* mutation: the fragment's sending time is reset
RetransmissionRestamped(u, m, way, ackWay) ==
  Packet(way, [m EXCEPT !.id = next_message_id, !.sending_time = timestamp',
                        !.ack = Packet(ackWay, Ack(next_message_id, u))])

Retransmission(u, m, way, ackWay) ==
  Packet(way, [m EXCEPT !.id = next_message_id,
                        !.ack = Packet(ackWay, Ack(next_message_id, u))])

(***************************************************************************)
(* HashMap::insert.                                                        *)
(***************************************************************************)
Put(map, key, value) ==
  [k \in DOMAIN map \cup {key} |-> IF k = key THEN value ELSE map[k]]

SendTo(nodes, t, p) ==
  [nodes EXCEPT ![Head(p.hops).node] = Insert(@, t + Head(p.hops).delay, p)]

-------------------------------------------------------------------------------
(***************************************************************************)
(* Simulation::next picks a node only if it is due strictly before every   *)
(* user; among nodes due together, hash map order decides.  step() fails   *)
(* on an event in the past, which would end the run: such a state would    *)
(* have no successor here.                                                 *)
(***************************************************************************)
NodeTurn(n) ==
  /\ ingress[n] # <<>>
  /\ \A m \in Nodes : ingress[m] # <<>> => NextTime(ingress[n]) <= NextTime(ingress[m])
  /\ \A u \in Users : events[u] # <<>> => NextTime(ingress[n]) < NextTime(events[u])
  /\ NextTime(ingress[n]) >= timestamp
  /\ timestamp' = NextTime(ingress[n])

UserTurn(u, kind) ==
  /\ events[u] # <<>>
  /\ \A v \in Users : events[v] # <<>> => NextTime(events[u]) <= NextTime(events[v])
  /\ \A m \in Nodes : ingress[m] # <<>> => NextTime(events[u]) <= NextTime(ingress[m])
  /\ NextTime(events[u]) >= timestamp
  /\ timestamp' = NextTime(events[u])
  /\ NextItem(events[u]).kind = kind

(***************************************************************************)
(* The last node hands a message to its recipient.                         *)
(***************************************************************************)
NodeMessage(n) ==
  LET p == NextItem(ingress[n])
  IN  /\ NodeTurn(n)
      /\ Len(p.hops) = 1 /\ p.content.kind = "Message"
      /\ ingress' = [ingress EXCEPT ![n] = Pop(@)]
      /\ events' = [events EXCEPT ![p.content.recipient] =
                      Insert(@, timestamp', MessageEvent(p.content))]
      /\ UNCHANGED <<fragments, t_first, original_messages, deliveries, next_message_id,
                     next_fragment_set, packet_count, origin, drops>>

(***************************************************************************)
(* The last node hands over an acknowledgement: the timeout is cancelled.  *)
(***************************************************************************)
NodeAck(n) ==
  LET p == NextItem(ingress[n])
  IN  /\ NodeTurn(n)
      /\ Len(p.hops) = 1 /\ p.content.kind = "Ack"
      /\ ingress' = [ingress EXCEPT ![n] = Pop(@)]
      /\ events' = [events EXCEPT ![p.content.recipient] =
                      Cancel(@, AckTimeout(p.content.message_id))]
      /\ UNCHANGED <<fragments, t_first, original_messages, deliveries, next_message_id,
                     next_fragment_set, packet_count, origin, drops>>

NodeForward(n) ==
  LET p == NextItem(ingress[n])
  IN  /\ NodeTurn(n)
      /\ Len(p.hops) > 1
      /\ ingress' = SendTo([ingress EXCEPT ![n] = Pop(@)], timestamp',
                           Packet(Tail(p.hops), p.content))
      /\ UNCHANGED <<events, fragments, t_first, original_messages, deliveries,
                     next_message_id, next_fragment_set, packet_count, origin, drops>>

(***************************************************************************)
(* A fragment arrives.  Per fragment it is acknowledged at once; per       *)
(* message the fragment that completes the set is.                         *)
(***************************************************************************)
FragmentsOf(u, set) == {x \in fragments[u] : x[1] = set}

ReceiveMessage(u) ==
  LET m        == NextItem(events[u]).message
      s        == m.fragment_set
      first    == IF s \in DOMAIN t_first[u] THEN t_first[u] ELSE Put(t_first[u], s, timestamp')
      complete == Cardinality(FragmentsOf(u, s) \cup {<<s, m.fragment_index>>}) = m.fragment_size
  IN  /\ UserTurn(u, "Message")
      /\ events' = [events EXCEPT ![u] = Pop(@)]
      /\ t_first' = [t_first EXCEPT ![u] = first]
      /\ fragments' = [fragments EXCEPT ![u] = @ \cup {<<s, m.fragment_index>>}]
      /\ deliveries' = IF complete
                       THEN Append(deliveries, [fragment_set |-> s,
                                                delivery_time |-> timestamp' - m.sending_time,
                                                first_to_last |-> timestamp' - first[s]])
                       ELSE deliveries
      /\ ingress' = IF Acknowledges(complete) THEN SendTo(ingress, timestamp', m.ack) ELSE ingress
      /\ packet_count' = IF Acknowledges(complete) THEN packet_count + 1 ELSE packet_count
      /\ UNCHANGED <<original_messages, next_message_id, next_fragment_set, origin, drops>>

(***************************************************************************)
(* A packet leaves the user: its timeout is armed (per message, only by    *)
(* the first packet of the set), then it is lost or enters its first node. *)
(***************************************************************************)
EgressPacket(u, dropped) ==
  LET p  == NextItem(events[u]).packet
      id == AckKey(p.content.id, p.content.fragment_set)
  IN  /\ UserTurn(u, "Egress")
      /\ dropped => u = Sender /\ drops < MaxDrops
      /\ events' = [events EXCEPT ![u] =
                      IF Arms(u, id) THEN Insert(Pop(@), timestamp' + Timeout(p.hops), AckTimeout(id))
                      ELSE Pop(@)]
      /\ original_messages' = [original_messages EXCEPT ![u] =
                                 IF Arms(u, id) THEN Put(@, id, p.content) ELSE @]
      /\ ingress' = IF dropped THEN ingress ELSE SendTo(ingress, timestamp', p)
      /\ drops' = IF dropped THEN drops + 1 ELSE drops
      /\ packet_count' = packet_count + 1
      /\ UNCHANGED <<fragments, t_first, deliveries, next_message_id, next_fragment_set, origin>>

(***************************************************************************)
(* The packets of one new fragment set are queued for egress at user u.    *)
(***************************************************************************)
QueueMessages(u, from, to, n, sent) ==
  \E way, ackWay \in [1..n -> Drawable] :
    LET packets == BuildMessages(from, to, n, sent, way, ackWay)
    IN  /\ events' = [events EXCEPT ![u] =
                        InsertAll(Pop(@), timestamp', [k \in 1..n |-> Egress(packets[k])])]
        /\ next_message_id' = next_message_id + n
        /\ next_fragment_set' = next_fragment_set + 1

StartSend(u) ==
  /\ UserTurn(u, "SendMessage")
  /\ QueueMessages(u, u, Recipient, NextItem(events[u]).num_frags, timestamp')
  /\ origin' = Put(origin, next_fragment_set, [root |-> next_fragment_set, sent |-> timestamp'])
  /\ UNCHANGED <<ingress, fragments, t_first, original_messages, deliveries, packet_count, drops>>

(***************************************************************************)
(* A fragment that is not acknowledged in time is sent again under a new   *)
(* id, with a new way there and back.                                      *)
(***************************************************************************)
ResendFragment(u) ==
  LET id == NextItem(events[u]).id
      m  == original_messages[u][id]
  IN  /\ AckStrat = "PerFragment"
      /\ UserTurn(u, "AckTimeout")
      /\ id \in DOMAIN original_messages[u]
      /\ \E way, ackWay \in Drawable :
           events' = [events EXCEPT ![u] =
                        Insert(Pop(@), timestamp', Egress(Retransmission(u, m, way, ackWay)))]
      /\ original_messages' = [original_messages EXCEPT ![u] = Restrict(@, DOMAIN @ \ {id})]
      /\ next_message_id' = next_message_id + 1
      /\ UNCHANGED <<ingress, fragments, t_first, deliveries, next_fragment_set, packet_count,
                     origin, drops>>

(***************************************************************************)
(* A message that is not acknowledged in time is sent again as a new set,  *)
(* with the sending time of the old one; what arrived of the old set is    *)
(* forgotten.                                                              *)
(***************************************************************************)
ResendMessage(u) ==
  LET id == NextItem(events[u]).id
      m  == original_messages[u][id]
  IN  /\ AckStrat = "WholeMessage"
      /\ UserTurn(u, "AckTimeout")
      /\ id \in DOMAIN original_messages[u]
      /\ QueueMessages(u, m.sender, m.recipient, m.fragment_size, m.sending_time)
      /\ original_messages' = [original_messages EXCEPT ![u] = Restrict(@, DOMAIN @ \ {id})]
      /\ fragments' = [fragments EXCEPT ![m.recipient] =
                         @ \ FragmentsOf(m.recipient, m.fragment_set)]
      /\ origin' = Put(origin, next_fragment_set, origin[m.fragment_set])
      /\ UNCHANGED <<ingress, t_first, deliveries, packet_count, drops>>

(***************************************************************************)
(* "No more events": run() leaves its loop and computes the statistics.    *)
(***************************************************************************)
Finished ==
  /\ \A n \in Nodes : ingress[n] = <<>>
  /\ \A u \in Users : events[u] = <<>>

Stop == Finished /\ UNCHANGED vars

-------------------------------------------------------------------------------
Init ==
  /\ timestamp = 0
  /\ ingress = [n \in Nodes |-> <<>>]
  /\ events = [u \in Users |-> IF u = Sender
                               THEN [i \in 1..NumSends |-> Entry(0, SendMessage(NumFrags))]
                               ELSE <<>>]
  /\ fragments = [u \in Users |-> {}]
  /\ t_first = [u \in Users |-> <<>>]
  /\ original_messages = [u \in Users |-> <<>>]
  /\ deliveries = <<>>
  /\ next_message_id = 0 /\ next_fragment_set = 0 /\ packet_count = 0
  /\ origin = <<>>
  /\ drops = 0

Step ==
  \/ \E n \in Nodes : NodeMessage(n) \/ NodeAck(n) \/ NodeForward(n)
  \/ \E u \in Users : \/ ReceiveMessage(u)
                      \/ \E dropped \in BOOLEAN : EgressPacket(u, dropped)
                      \/ StartSend(u)
                      \/ ResendFragment(u)
                      \/ ResendMessage(u)

Next == Step \/ Stop

Spec == Init /\ [][Next]_vars

(***************************************************************************)
(* run() calls step() until it fails: a step that can be taken is taken.   *)
(***************************************************************************)
FairSpec == Spec /\ WF_vars(Step)

-------------------------------------------------------------------------------
Acks == [kind : {"Ack"}, message_id : Nat, recipient : Users]
AckPackets == [hops : Path, content : Acks]
Messages == [kind : {"Message"}, id : Nat, sending_time : Nat, sender : Users,
             recipient : Users, fragment_set : Nat, fragment_size : Nat \ {0},
             fragment_index : Nat, ack : AckPackets]
MessagePackets == [hops : Path, content : Messages]
Packets == AckPackets \cup MessagePackets
UserEvents == [kind : {"Message"}, message : Messages]
              \cup [kind : {"Egress"}, packet : [hops : Routes, content : Messages]]
              \cup [kind : {"AckTimeout"}, id : Nat]
              \cup [kind : {"SendMessage"}, num_frags : Nat \ {0}]

(***************************************************************************)
(* Every queue, map and counter of the Simulation holds what its Rust type *)
(* says; delivery records may only be read as unsigned, see MeasuredDelays.*)
(***************************************************************************)
TypeOK ==
  /\ timestamp \in Nat
  /\ ingress \in [Nodes -> Queues(Packets)]
  /\ events \in [Users -> Queues(UserEvents)]
  /\ fragments \in [Users -> SUBSET (Nat \X Nat)]
  /\ \A u \in Users : \A s \in DOMAIN t_first[u] : s \in Nat /\ t_first[u][s] \in Nat
  /\ \A u \in Users : \A id \in DOMAIN original_messages[u] :
       id \in Nat /\ original_messages[u][id] \in Messages
  /\ deliveries \in Seq([fragment_set : Nat, delivery_time : Int, first_to_last : Int])
  /\ next_message_id \in Nat /\ next_fragment_set \in Nat /\ packet_count \in Nat
  /\ drops \in 0..MaxDrops

(***************************************************************************)
(* No queue is ever out of order and nothing in one is due before the      *)
(* clock: the "Next event is in the past" failure of step(), which the     *)
(* loop of run() would take for the end of the simulation, cannot happen.  *)
(***************************************************************************)
NoEventInThePast ==
  /\ \A n \in Nodes : SortedByTime(ingress[n]) /\ NothingBefore(ingress[n], timestamp)
  /\ \A u \in Users : SortedByTime(events[u]) /\ NothingBefore(events[u], timestamp)

(***************************************************************************)
(* A timeout that is armed finds the message it is to retransmit (the      *)
(* unwrap() of both AckTimeout handlers), and the message found is the one *)
(* the timeout was armed for.                                              *)
(***************************************************************************)
TimeoutUnwraps ==
  \A u \in Users : \A e \in Items(events[u]) : e.kind = "AckTimeout" =>
    /\ e.id \in DOMAIN original_messages[u]
    /\ e.id = AckKey(original_messages[u][e.id].id, original_messages[u][e.id].fragment_set)

(***************************************************************************)
(* The positions of a user's events that will make it send message m of    *)
(* the same unit of retransmission again: the fragment, or the whole       *)
(* message, whose set may since have been replaced by a new one.           *)
(***************************************************************************)
SameUnit(m, s, i) == IF AckStrat = "PerFragment"
                     THEN m.fragment_set = s /\ m.fragment_index = i
                     ELSE origin[m.fragment_set].root = origin[s].root

Timeouts(s, i) == {k \in 1..Len(events[Sender]) :
                    LET e == events[Sender][k].item
                    IN  e.kind = "AckTimeout" /\ SameUnit(original_messages[Sender][e.id], s, i)}

Queued(s, i) == {k \in 1..Len(events[Sender]) :
                  LET e == events[Sender][k].item
                  IN  e.kind = "Egress" /\ SameUnit(e.packet.content, s, i)}

(***************************************************************************)
(* At most one attempt per unit is alive: a retransmission never runs      *)
(* beside another attempt that can itself time out.                        *)
(***************************************************************************)
OneLiveAttempt ==
  \A s \in DOMAIN origin, i \in 0..(NumFrags - 1) :
    /\ Cardinality(Timeouts(s, i)) <= 1
    /\ AckStrat = "PerFragment" => Cardinality(Queued(s, i) \cup Timeouts(s, i)) <= 1
    /\ \A k, l \in Queued(s, i) : events[Sender][k].item.packet.content.fragment_set
                                = events[Sender][l].item.packet.content.fragment_set

(***************************************************************************)
(* Per fragment: as long as a fragment has not reached the recipient, its  *)
(* sender still has it queued or a timeout armed that will queue it again. *)
(***************************************************************************)
FragmentNotForgotten ==
  AckStrat = "PerFragment" =>
    \A s \in DOMAIN origin, i \in 0..(NumFrags - 1) :
      <<s, i>> \in fragments[Recipient] \/ Queued(s, i) \cup Timeouts(s, i) # {}

(***************************************************************************)
(* An acknowledgement under way that would still cancel a timeout tells    *)
(* the truth: the fragment is with the recipient, or its set is complete.  *)
(***************************************************************************)
AckMeansArrived ==
  \A n \in Nodes : \A p \in Items(ingress[n]) :
    /\ p.content.kind = "Ack"
    /\ AckTimeout(p.content.message_id) \in Items(events[p.content.recipient])
    => LET m == original_messages[p.content.recipient][p.content.message_id]
       IN  IF AckStrat = "PerFragment"
           THEN <<m.fragment_set, m.fragment_index>> \in fragments[m.recipient]
           ELSE Cardinality(FragmentsOf(m.recipient, m.fragment_set)) = m.fragment_size

(***************************************************************************)
(* packet_count, the traffic the evaluation reports, counts every packet   *)
(* once: each message packet that left its sender, lost or not, and each   *)
(* acknowledgement the recipient sent.                                     *)
(***************************************************************************)
QueuedCount(q, kind) == Cardinality({k \in 1..Len(q) : q[k].item.kind = kind})

Travelling == UNION {{n} \X {k \in 1..Len(ingress[n]) :
                               ingress[n][k].item.content.kind = "Message"} : n \in Nodes}

PacketsCounted ==
  LET left     == next_message_id - QueuedCount(events[Sender], "Egress")
      received == left - drops - QueuedCount(events[Recipient], "Message")
                       - Cardinality(Travelling)
      acked    == IF AckStrat = "PerFragment" THEN received ELSE Len(deliveries)
  IN  packet_count = left + acked

(***************************************************************************)
(* A recorded delivery is measured from the first transmission of its      *)
(* message, whatever was retransmitted since, and the time from first to   *)
(* last fragment is a part of it; neither subtraction of u64s underflows.  *)
(***************************************************************************)
MeasuredDelays ==
  [][Len(deliveries') > Len(deliveries) =>
       LET d == deliveries'[Len(deliveries')]
       IN  /\ d.delivery_time = timestamp' - origin[d.fragment_set].sent
           /\ 0 <= d.first_to_last /\ d.first_to_last <= d.delivery_time]_vars

===============================================================================
