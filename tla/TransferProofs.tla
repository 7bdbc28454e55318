---------------------------- MODULE TransferProofs ----------------------------
(***************************************************************************)
(* Proofs about the retransmission of fragments and of whole messages, and *)
(* that LatencySim implements AckedTransfer: for all nodes, routes,        *)
(* strategies, counts and bounds, every step of the simulation sends,      *)
(* delivers or settles one message, or does none of it; that the traffic   *)
(* is counted; that no message is missing when the simulation ends; and    *)
(* that none is recorded twice if acknowledgements are back before their   *)
(* timeouts.                                                               *)
(***************************************************************************)
EXTENDS LatencySimProofs, LatencyTransfer

(***************************************************************************)
(* Every message in the system: nested in a packet at a node, in a user's  *)
(* queue on its way out or in, or stored for retransmission.               *)
(***************************************************************************)
PacketMessages(q) == {p.content : p \in {r \in Items(q) : r.content.kind = "Message"}}

EventMessages(q) == {e.message : e \in {f \in Items(q) : f.kind = "Message"}}
                    \cup {e.packet.content : e \in {f \in Items(q) : f.kind = "Egress"}}

AtNodes(nodes) == UNION {PacketMessages(nodes[n]) : n \in Nodes}
AtUsers(users) == UNION {EventMessages(users[u]) : u \in Users}
Stored(originals) == UNION {{originals[u][id] : id \in DOMAIN originals[u]} : u \in Users}

MessagesIn(nodes, users, originals) == AtNodes(nodes) \cup AtUsers(users) \cup Stored(originals)

Live == MessagesIn(ingress, events, original_messages)

(***************************************************************************)
(* All messages go from Sender to Recipient, as fragments 0..NumFrags-1 of *)
(* a known set, stamped with the time of the send the set stems from; an   *)
(* id names one fragment of one set.                                       *)
(***************************************************************************)
MessageOK(m) ==
  /\ m \in Messages
  /\ m.id < next_message_id
  /\ m.fragment_set \in DOMAIN origin
  /\ m.sending_time = origin[m.fragment_set].sent
  /\ m.sender = Sender /\ m.recipient = Recipient
  /\ m.fragment_size = NumFrags /\ m.fragment_index < NumFrags
  /\ m.ack.content = Ack(AckKey(m.id, m.fragment_set), Sender)
  /\ m.ack.hops \in Routes

MessagesInv ==
  /\ \A m \in Live : MessageOK(m)
  /\ \A m, o \in Live : m.id = o.id => m.fragment_set = o.fragment_set
                                       /\ m.fragment_index = o.fragment_index

RolesInv ==
  /\ \A e \in Items(events[Recipient]) : e.kind = "Message"
  /\ \A e \in Items(events[Sender]) : /\ e.kind # "Message"
                                      /\ e.kind = "SendMessage" => e.num_frags = NumFrags
  /\ DOMAIN original_messages = Users /\ DOMAIN original_messages[Recipient] = {}
  /\ \A n \in Nodes : \A p \in Items(ingress[n]) :
       p.content.kind = "Ack" =>
         /\ p.content.recipient = Sender
         /\ p.content.message_id < AckKey(next_message_id, next_fragment_set)
  /\ \A x \in fragments[Recipient] : x[2] < NumFrags

OriginInv ==
  /\ DOMAIN origin = 0..(next_fragment_set - 1)
  /\ \A s \in DOMAIN origin : /\ origin[s].sent \in Nat /\ origin[s].sent <= timestamp
                              /\ origin[s].root \in Nat /\ origin[s].root <= s
  /\ \A u \in Users : \A s \in DOMAIN t_first[u] :
       /\ s \in DOMAIN origin
       /\ origin[s].sent <= t_first[u][s] /\ t_first[u][s] <= timestamp

(***************************************************************************)
(* The events that make the sender transmit something again, now or later, *)
(* and the fragment or message they stand for.                             *)
(***************************************************************************)
Pending == {e \in UserEvents : e.kind \in {"Egress", "AckTimeout"}}

Leaving == {e \in UserEvents : e.kind = "Egress"}

MessageOf(e) == IF e.kind = "Egress" THEN e.packet.content
                                     ELSE original_messages[Sender][e.id]

Unit(m) == IF AckStrat = "PerFragment" THEN <<m.fragment_set, m.fragment_index>>
                                       ELSE origin[m.fragment_set].root

(***************************************************************************)
(* Two pending events may not follow one another if they stand for the     *)
(* same unit; per message, the fragments of a set do stand in the queue    *)
(* together, but none comes after the timeout of the set.                  *)
(***************************************************************************)
SameSet(e, f) == MessageOf(e).fragment_set = MessageOf(f).fragment_set

Clashes == {x \in Pending \X Pending :
             /\ Unit(MessageOf(x[1])) = Unit(MessageOf(x[2]))
             /\ ~(/\ AckStrat = "WholeMessage"
                  /\ x[1].kind = "Egress" /\ SameSet(x[1], x[2]))}

PendingInv ==
  /\ \A e \in Items(events[Sender]) : e.kind = "AckTimeout" =>
       /\ e.id \in DOMAIN original_messages[Sender]
       /\ e.id = AckKey(original_messages[Sender][e.id].id,
                        original_messages[Sender][e.id].fragment_set)
  /\ Avoids(events[Sender], Clashes)
  /\ NoneAfter(events[Sender], timestamp, Leaving)

(***************************************************************************)
(* What an acknowledgement under way says.                                 *)
(***************************************************************************)
Arrived(s, i) == <<s, i>> \in fragments[Recipient]

AckInv ==
  \A n \in Nodes : \A p \in Items(ingress[n]) : p.content.kind = "Ack" =>
    /\ AckStrat = "PerFragment" =>
         \A m \in Live : m.id = p.content.message_id => Arrived(m.fragment_set, m.fragment_index)
    /\ AckStrat = "WholeMessage" =>
         \A e \in Items(events[Sender]) :
           e \in Pending /\ MessageOf(e).fragment_set = p.content.message_id =>
             \A i \in 0..(NumFrags - 1) : Arrived(p.content.message_id, i)

NotForgottenInv ==
  AckStrat = "PerFragment" =>
    \A s \in DOMAIN origin, i \in 0..(NumFrags - 1) :
      \/ Arrived(s, i)
      \/ \E e \in Items(events[Sender]) : e \in Pending /\ Unit(MessageOf(e)) = <<s, i>>

RetransmissionInv == /\ SimInv /\ MessagesInv /\ RolesInv /\ OriginInv
                     /\ PendingInv /\ AckInv /\ NotForgottenInv

-------------------------------------------------------------------------------
(***************************************************************************)
(* Where a message is when it is in the system.                            *)
(***************************************************************************)
LEMMA MessagesInWhere ==
  ASSUME NEW nodes, NEW users, NEW originals, NEW m
  PROVE  m \in MessagesIn(nodes, users, originals) <=>
           \/ \E n \in Nodes : \E p \in Items(nodes[n]) : p.content.kind = "Message" /\ m = p.content
           \/ \E u \in Users : \E e \in Items(users[u]) : e.kind = "Message" /\ m = e.message
           \/ \E u \in Users : \E e \in Items(users[u]) : e.kind = "Egress" /\ m = e.packet.content
           \/ \E u \in Users : \E id \in DOMAIN originals[u] : m = originals[u][id]
<1>1. m \in AtNodes(nodes) <=>
        \E n \in Nodes : \E p \in Items(nodes[n]) : p.content.kind = "Message" /\ m = p.content
  BY DEF AtNodes, PacketMessages
<1>2. m \in AtUsers(users) <=>
        \/ \E u \in Users : \E e \in Items(users[u]) : e.kind = "Message" /\ m = e.message
        \/ \E u \in Users : \E e \in Items(users[u]) : e.kind = "Egress" /\ m = e.packet.content
  BY DEF AtUsers, EventMessages
<1>3. m \in Stored(originals) <=> \E u \in Users : \E id \in DOMAIN originals[u] : m = originals[u][id]
  BY DEF Stored
<1> QED BY <1>1, <1>2, <1>3 DEF MessagesIn

(***************************************************************************)
(* A step that moves messages about, and adds those of New, has no others. *)
(***************************************************************************)
LEMMA MessagesInMoved ==
  ASSUME NEW nodes, NEW users, NEW originals, NEW nodes2, NEW users2, NEW originals2, NEW New,
         \A n \in Nodes : \A p \in Items(nodes2[n]) : p.content.kind = "Message" =>
           p \in Items(nodes[n]) \/ p.content \in MessagesIn(nodes, users, originals) \cup New,
         \A u \in Users : \A e \in Items(users2[u]) :
           \/ e \in Items(users[u])
           \/ /\ e.kind = "Message" => e.message \in MessagesIn(nodes, users, originals) \cup New
              /\ e.kind = "Egress" => e.packet.content \in MessagesIn(nodes, users, originals) \cup New,
         \A u \in Users : \A id \in DOMAIN originals2[u] :
           \/ id \in DOMAIN originals[u] /\ originals2[u][id] = originals[u][id]
           \/ originals2[u][id] \in MessagesIn(nodes, users, originals) \cup New
  PROVE  MessagesIn(nodes2, users2, originals2) \subseteq MessagesIn(nodes, users, originals) \cup New
<1> DEFINE old == MessagesIn(nodes, users, originals)
<1> SUFFICES ASSUME NEW m \in MessagesIn(nodes2, users2, originals2)
             PROVE  m \in old \cup New
  OBVIOUS
<1>1. \/ \E n \in Nodes : \E p \in Items(nodes2[n]) : p.content.kind = "Message" /\ m = p.content
      \/ \E u \in Users : \E e \in Items(users2[u]) : e.kind = "Message" /\ m = e.message
      \/ \E u \in Users : \E e \in Items(users2[u]) : e.kind = "Egress" /\ m = e.packet.content
      \/ \E u \in Users : \E id \in DOMAIN originals2[u] : m = originals2[u][id]
  BY MessagesInWhere
<1>2. ASSUME NEW n \in Nodes, NEW p \in Items(nodes2[n]), p.content.kind = "Message", m = p.content
      PROVE  m \in old \cup New
  BY <1>2, MessagesInWhere
<1>3. ASSUME NEW u \in Users, NEW e \in Items(users2[u]), e.kind = "Message", m = e.message
      PROVE  m \in old \cup New
  BY <1>3, MessagesInWhere
<1>4. ASSUME NEW u \in Users, NEW e \in Items(users2[u]), e.kind = "Egress", m = e.packet.content
      PROVE  m \in old \cup New
  BY <1>4, MessagesInWhere
<1>5. ASSUME NEW u \in Users, NEW id \in DOMAIN originals2[u], m = originals2[u][id]
      PROVE  m \in old \cup New
  BY <1>5, MessagesInWhere
<1> QED BY <1>1, <1>2, <1>3, <1>4, <1>5

LEMMA LiveMoved ==
  ASSUME NEW New,
         \A n \in Nodes : \A p \in Items(ingress'[n]) : p.content.kind = "Message" =>
           p \in Items(ingress[n]) \/ p.content \in Live \cup New,
         \A u \in Users : \A e \in Items(events'[u]) :
           \/ e \in Items(events[u])
           \/ /\ e.kind = "Message" => e.message \in Live \cup New
              /\ e.kind = "Egress" => e.packet.content \in Live \cup New,
         \A u \in Users : \A id \in DOMAIN original_messages'[u] :
           \/ id \in DOMAIN original_messages[u] /\ original_messages'[u][id] = original_messages[u][id]
           \/ original_messages'[u][id] \in Live \cup New
  PROVE  Live' \subseteq Live \cup New
BY MessagesInMoved DEF Live

LEMMA LiveKept ==
  ASSUME \A n \in Nodes : \A p \in Items(ingress'[n]) : p.content.kind = "Message" =>
           p \in Items(ingress[n]) \/ p.content \in Live,
         \A u \in Users : \A e \in Items(events'[u]) :
           \/ e \in Items(events[u])
           \/ e.kind = "Message" /\ e.message \in Live
           \/ e.kind = "Egress" /\ e.packet.content \in Live
           \/ e.kind = "AckTimeout",
         \A u \in Users : \A id \in DOMAIN original_messages'[u] :
           \/ id \in DOMAIN original_messages[u] /\ original_messages'[u][id] = original_messages[u][id]
           \/ original_messages'[u][id] \in Live
  PROVE  Live' \subseteq Live
<1> DEFINE New == {}
<1>1. \A n \in Nodes : \A p \in Items(ingress'[n]) : p.content.kind = "Message" =>
           p \in Items(ingress[n]) \/ p.content \in Live \cup New
  OBVIOUS
<1>2. \A u \in Users : \A e \in Items(events'[u]) :
           \/ e \in Items(events[u])
           \/ /\ e.kind = "Message" => e.message \in Live \cup New
              /\ e.kind = "Egress" => e.packet.content \in Live \cup New
  OBVIOUS
<1>3. \A u \in Users : \A id \in DOMAIN original_messages'[u] :
           \/ id \in DOMAIN original_messages[u] /\ original_messages'[u][id] = original_messages[u][id]
           \/ original_messages'[u][id] \in Live \cup New
  OBVIOUS
<1> HIDE DEF New
<1>4. Live' \subseteq Live \cup New
  BY <1>1, <1>2, <1>3, LiveMoved
<1> QED BY <1>4 DEF New

(***************************************************************************)
(* What a turn takes off a queue and what an insertion puts into one.      *)
(***************************************************************************)
LEMMA NodeFront ==
  ASSUME SimInv, NEW n \in Nodes, NodeTurn(n)
  PROVE  /\ timestamp' \in Nat /\ timestamp <= timestamp' /\ timestamp \in Nat
         /\ NextItem(ingress[n]) \in Packets
         /\ NextItem(ingress[n]) \in Items(ingress[n])
         /\ Items(Pop(ingress[n])) \subseteq Items(ingress[n])
         /\ DueFrom(Pop(ingress[n]), Packets, timestamp')
         /\ \A k \in Nodes : DueFrom(ingress[k], Packets, timestamp')
         /\ \A u \in Users : DueFrom(events[u], UserEvents, timestamp')
<1>1. ingress[n] \in Queues(Packets) /\ SortedByTime(ingress[n]) /\ ingress[n] # <<>>
  BY DEF SimInv, QueuesInv, DueFrom, NodeTurn
<1>2. /\ NextItem(ingress[n]) \in Items(ingress[n])
      /\ Items(Pop(ingress[n])) \subseteq Items(ingress[n])
  BY <1>1, PopProperties
<1>3. NextTime(ingress[n]) \in Nat /\ timestamp' = NextTime(ingress[n])
      /\ timestamp <= NextTime(ingress[n]) /\ timestamp \in Nat
  BY <1>1, PopProperties DEF NodeTurn, SimInv, QueuesInv
<1> QED BY <1>2, <1>3, NodeTurnFacts DEF SimInv

LEMMA UserFront ==
  ASSUME SimInv, NEW u \in Users, NEW kind, UserTurn(u, kind)
  PROVE  /\ timestamp' \in Nat /\ timestamp <= timestamp' /\ timestamp \in Nat
         /\ NextItem(events[u]) \in UserEvents
         /\ NextItem(events[u]).kind = kind
         /\ NextItem(events[u]) \in Items(events[u])
         /\ Items(events[u]) = Items(Pop(events[u])) \cup {NextItem(events[u])}
         /\ events[u] \in Queues(UserEvents) /\ events[u] # <<>>
         /\ DueFrom(Pop(events[u]), UserEvents, timestamp')
         /\ \A k \in Nodes : DueFrom(ingress[k], Packets, timestamp')
         /\ \A v \in Users : DueFrom(events[v], UserEvents, timestamp')
<1>1. events[u] \in Queues(UserEvents) /\ SortedByTime(events[u]) /\ events[u] # <<>>
  BY DEF SimInv, QueuesInv, DueFrom, UserTurn
<1>2. /\ NextItem(events[u]) \in Items(events[u])
      /\ Items(events[u]) = Items(Pop(events[u])) \cup {NextItem(events[u])}
  BY <1>1, PopProperties
<1>3. NextTime(events[u]) \in Nat /\ timestamp' = NextTime(events[u])
      /\ timestamp <= NextTime(events[u]) /\ timestamp \in Nat
  BY <1>1, PopProperties DEF UserTurn, SimInv, QueuesInv
<1> QED BY <1>1, <1>2, <1>3, UserTurnFacts DEF SimInv

LEMMA ItemsInsertAll ==
  ASSUME NEW S, NEW v, NEW q, DueFrom(q, S, v), NEW t \in Nat, NEW xs \in Seq(S)
  PROVE  Items(InsertAll(q, t, xs)) = Items(q) \cup {xs[i] : i \in 1..Len(xs)}
BY InsertAllProperties DEF DueFrom

LEMMA ItemsInsert ==
  ASSUME NEW S, NEW v, NEW q, DueFrom(q, S, v), NEW t \in Nat, NEW x \in S
  PROVE  Items(Insert(q, t, x)) = Items(q) \cup {x}
<1> DEFINE xs == <<x>>
<1>1. xs \in Seq(S) /\ Len(xs) = 1 /\ xs[1] = x
  OBVIOUS
<1>2. {xs[i] : i \in 1..Len(xs)} = {x}
  BY <1>1
<1>3. Insert(q, t, x) = InsertAll(q, t, xs)
  BY DEF Insert
<1> HIDE DEF xs
<1> QED BY <1>1, <1>2, <1>3, ItemsInsertAll

LEMMA ItemsTyped ==
  ASSUME NEW S, NEW v, NEW q, DueFrom(q, S, v)
  PROVE  Items(q) \subseteq S
BY QueueEntries DEF Items, DueFrom

LEMMA ItemsSendTo ==
  ASSUME NEW t \in Nat, NEW nodes,
         DOMAIN nodes = Nodes, \A n \in Nodes : DueFrom(nodes[n], Packets, t),
         NEW p \in Packets
  PROVE  \A n \in Nodes : Items(SendTo(nodes, t, p)[n]) \subseteq Items(nodes[n]) \cup {p}
<1> DEFINE hop == Head(p.hops)
<1>1. hop.node \in Nodes /\ hop.delay \in Nat
  <2>1. p.hops \in Seq(Hop) /\ p.hops # <<>>
    BY DEF Packets, AckPackets, MessagePackets, Path
  <2>2. hop \in Hop
    BY <2>1
  <2> QED BY <2>2 DEF Hop
<1>2. Items(Insert(nodes[hop.node], t + hop.delay, p)) = Items(nodes[hop.node]) \cup {p}
  BY <1>1, ItemsInsert
<1>3. SendTo(nodes, t, p) = [nodes EXCEPT ![hop.node] = Insert(nodes[hop.node], t + hop.delay, p)]
  BY DEF SendTo
<1> HIDE DEF hop
<1> QED BY <1>1, <1>2, <1>3

-------------------------------------------------------------------------------
(***************************************************************************)
(* Steps without new messages keep what is known of each message.          *)
(***************************************************************************)
LEMMA SameMessages ==
  ASSUME MessagesInv, Live' \subseteq Live,
         next_message_id' = next_message_id, origin' = origin
  PROVE  MessagesInv'
<1>1. \A m \in Live' : MessageOK(m)'
  BY DEF MessagesInv, MessageOK, AckKey, Ack
<1> QED BY <1>1 DEF MessagesInv

LEMMA SameOrigin ==
  ASSUME OriginInv, SimInv, timestamp <= timestamp', timestamp' \in Nat,
         origin' = origin, next_fragment_set' = next_fragment_set, t_first' = t_first
  PROVE  OriginInv'
<1>1. timestamp \in Nat /\ \A u \in Users : \A s \in DOMAIN t_first[u] : t_first[u][s] \in Nat
  BY DEF SimInv, QueuesInv, RecordsInv
<1> QED BY <1>1 DEF OriginInv

LEMMA SamePending ==
  ASSUME PendingInv, SimInv, timestamp <= timestamp', timestamp' \in Nat,
         events'[Sender] = events[Sender], original_messages' = original_messages,
         origin' = origin
  PROVE  PendingInv'
<1>1. timestamp \in Nat /\ events[Sender] \in Queues(UserEvents)
  BY DEF SimInv, QueuesInv, DueFrom, Users
<1>2. \A i \in 1..Len(events[Sender]) : events[Sender][i].time \in Nat
  BY <1>1, QueueEntries
<1>3. Clashes' = Clashes
  BY DEF Clashes, Unit, MessageOf, SameSet
<1>4. NoneAfter(events'[Sender], timestamp', Leaving)
  BY <1>1, <1>2 DEF PendingInv, NoneAfter
<1> QED BY <1>3, <1>4 DEF PendingInv, AckKey, Leaving

(***************************************************************************)
(* Acknowledgements that were on their way keep telling the truth as long  *)
(* as what the recipient has of pending messages stays.                    *)
(***************************************************************************)
LEMMA SameAcks ==
  ASSUME AckInv, Live' \subseteq Live,
         \A n \in Nodes : \A p \in Items(ingress'[n]) : p.content.kind = "Ack" =>
           \E k \in Nodes : \E r \in Items(ingress[k]) : p.content = r.content,
         Items(events'[Sender]) \subseteq Items(events[Sender]),
         original_messages' = original_messages,
         fragments[Recipient] \subseteq fragments'[Recipient]
  PROVE  AckInv'
<1> SUFFICES ASSUME NEW n \in Nodes, NEW p \in Items(ingress'[n]), p.content.kind = "Ack"
             PROVE  /\ AckStrat = "PerFragment" =>
                         \A m \in Live' : m.id = p.content.message_id =>
                           Arrived(m.fragment_set, m.fragment_index)'
                    /\ AckStrat = "WholeMessage" =>
                         \A e \in Items(events'[Sender]) :
                           e \in Pending /\ MessageOf(e)'.fragment_set = p.content.message_id =>
                             \A i \in 0..(NumFrags - 1) : Arrived(p.content.message_id, i)'
  BY DEF AckInv, Pending, UserEvents
<1>1. PICK k \in Nodes : \E r \in Items(ingress[k]) : p.content = r.content
  OBVIOUS
<1>2. \A e : MessageOf(e)' = MessageOf(e)
  BY DEF MessageOf
<1>3. \A s, i : Arrived(s, i) => Arrived(s, i)'
  BY DEF Arrived
<1> QED BY <1>1, <1>2, <1>3 DEF AckInv

LEMMA SameNotForgotten ==
  ASSUME NotForgottenInv, events'[Sender] = events[Sender],
         original_messages' = original_messages, origin' = origin,
         AckStrat = "PerFragment" => fragments[Recipient] \subseteq fragments'[Recipient]
  PROVE  NotForgottenInv'
<1>1. \A e : Unit(MessageOf(e))' = Unit(MessageOf(e))
  BY DEF MessageOf, Unit
<1>2. AckStrat = "PerFragment" => \A s, i : Arrived(s, i) => Arrived(s, i)'
  BY DEF Arrived
<1> QED BY <1>1, <1>2 DEF NotForgottenInv

-------------------------------------------------------------------------------
LEMMA UsersDiffer == Sender \in Users /\ Recipient \in Users /\ Sender # Recipient
                     /\ \A u \in Users : u = Sender \/ u = Recipient
BY UserAssumption DEF Users

(***************************************************************************)
(* A delivery moves a message from a node to the recipient's queue.        *)
(***************************************************************************)
LEMMA NodeMessageKeeps ==
  ASSUME RetransmissionInv, NEW n \in Nodes, NodeMessage(n)
  PROVE  RetransmissionInv'
<1> USE DEF RetransmissionInv
<1> DEFINE p == NextItem(ingress[n])
           m == p.content
<1>1. /\ timestamp' \in Nat /\ timestamp <= timestamp'
      /\ p \in Items(ingress[n]) /\ p \in Packets
      /\ Items(Pop(ingress[n])) \subseteq Items(ingress[n])
      /\ \A u \in Users : DueFrom(events[u], UserEvents, timestamp')
  BY NodeFront DEF NodeMessage
<1>2. m.kind = "Message"
  BY DEF NodeMessage
<1>3. m \in Live
  BY <1>1, <1>2, MessagesInWhere DEF Live
<1>4. MessageOK(m)
  BY <1>3 DEF MessagesInv
<1>5. m \in Messages /\ m.recipient = Recipient
  BY <1>4 DEF MessageOK
<1>6. /\ ingress' = [ingress EXCEPT ![n] = Pop(ingress[n])]
      /\ events' = [events EXCEPT ![m.recipient] =
                      Insert(events[m.recipient], timestamp', MessageEvent(m))]
      /\ UNCHANGED <<fragments, t_first, original_messages, next_message_id,
                     next_fragment_set, origin>>
  BY DEF NodeMessage
<1>7. DOMAIN ingress = Nodes /\ DOMAIN events = Users
  BY DEF SimInv, QueuesInv
<1> HIDE DEF p, m
<1>8. \A k \in Nodes : Items(ingress'[k]) \subseteq Items(ingress[k])
  BY <1>1, <1>6, <1>7
<1>9. events'[Sender] = events[Sender]
  BY <1>5, <1>6, <1>7, UsersDiffer
<1>10. Items(events'[Recipient]) = Items(events[Recipient]) \cup {MessageEvent(m)}
  <2>1. MessageEvent(m) \in UserEvents
    BY <1>5 DEF MessageEvent, UserEvents
  <2>2. events'[Recipient] = Insert(events[Recipient], timestamp', MessageEvent(m))
    BY <1>5, <1>6, <1>7, UsersDiffer
  <2> QED BY <1>1, <2>1, <2>2, ItemsInsert, UsersDiffer
<1>11. MessageEvent(m).kind = "Message" /\ MessageEvent(m).message = m
  BY DEF MessageEvent
<1>12. Live' \subseteq Live
  <2>1. \A u \in Users : \A e \in Items(events'[u]) :
          e \in Items(events[u]) \/ e = MessageEvent(m)
    BY <1>9, <1>10, UsersDiffer
  <2> QED BY <1>3, <1>6, <1>8, <1>11, <2>1, LiveKept
<1>13. SimInv'
  BY NodeMessageInv
<1>14. RolesInv'
  BY <1>6, <1>8, <1>9, <1>10, <1>11 DEF RolesInv, AckKey
<1>15. MessagesInv' /\ OriginInv' /\ PendingInv'
  BY <1>1, <1>6, <1>9, <1>12, SameMessages, SameOrigin, SamePending
<1>16. AckInv' /\ NotForgottenInv'
  BY <1>6, <1>8, <1>9, <1>12, SameAcks, SameNotForgotten
<1> QED BY <1>13, <1>14, <1>15, <1>16

(***************************************************************************)
(* An acknowledgement that reaches the sender cancels a timeout.  Cancelled*)
(* per fragment, it leaves a fragment behind that has arrived.             *)
(***************************************************************************)
LEMMA NodeAckKeeps ==
  ASSUME RetransmissionInv, NEW n \in Nodes, NodeAck(n)
  PROVE  RetransmissionInv'
<1> USE DEF RetransmissionInv
<1> DEFINE p == NextItem(ingress[n])
           id == p.content.message_id
           q == events[Sender]
           x == AckTimeout(id)
<1>1. /\ timestamp' \in Nat /\ timestamp <= timestamp' /\ timestamp \in Nat
      /\ p \in Items(ingress[n])
      /\ Items(Pop(ingress[n])) \subseteq Items(ingress[n])
  BY NodeFront DEF NodeAck
<1>2. p.content.kind = "Ack" /\ p.content.recipient = Sender
  BY <1>1 DEF NodeAck, RolesInv
<1>3. /\ ingress' = [ingress EXCEPT ![n] = Pop(ingress[n])]
      /\ events' = [events EXCEPT ![p.content.recipient] = Cancel(events[p.content.recipient], x)]
      /\ UNCHANGED <<fragments, t_first, original_messages, next_message_id,
                     next_fragment_set, origin>>
  BY DEF NodeAck
<1>4. /\ DOMAIN ingress = Nodes /\ DOMAIN events = Users
      /\ q \in Queues(UserEvents) /\ SortedByTime(q)
      /\ \A i \in 1..Len(q) : q[i].time \in Nat
  BY UsersDiffer, QueueEntries DEF SimInv, QueuesInv, DueFrom
<1> HIDE DEF p, x, id, q
<1>5. \A k \in Nodes : Items(ingress'[k]) \subseteq Items(ingress[k])
  BY <1>1, <1>3, <1>4
<1>6. events'[Sender] = Cancel(q, x) /\ events'[Recipient] = events[Recipient]
  BY <1>2, <1>3, <1>4, UsersDiffer DEF q
<1>7. /\ Items(events'[Sender]) = Items(q) \ {x}
      /\ \A W : Avoids(q, W) => Avoids(events'[Sender], W)
      /\ \A t, K : NoneAfter(q, t, K) => NoneAfter(events'[Sender], t, K)
  BY <1>4, <1>6, CancelProperties
<1>8. \A u \in Users : Items(events'[u]) \subseteq Items(events[u])
  BY <1>6, <1>7, UsersDiffer DEF q
<1>9. Live' \subseteq Live
  BY <1>3, <1>5, <1>8, LiveKept
<1>10. SimInv'
  BY NodeAckInv
<1>11. RolesInv'
  BY <1>3, <1>5, <1>8, UsersDiffer DEF RolesInv, AckKey
<1>12. MessagesInv' /\ OriginInv'
  BY <1>1, <1>3, <1>9, SameMessages, SameOrigin
<1>13. PendingInv'
  <2>1. Clashes' = Clashes
    BY <1>3 DEF Clashes, Unit, MessageOf, SameSet
  <2>2. Avoids(events'[Sender], Clashes)
    BY <1>7 DEF PendingInv, q
  <2>3. NoneAfter(q, timestamp', Leaving)
    BY <1>1, <1>4 DEF PendingInv, NoneAfter, q
  <2>4. NoneAfter(events'[Sender], timestamp', Leaving)
    BY <1>7, <2>3
  <2> QED BY <1>3, <1>7, <2>1, <2>2, <2>4 DEF PendingInv, AckKey, Leaving, q
<1>14. AckInv'
  BY <1>3, <1>5, <1>7, <1>9, SameAcks DEF q
<1>15. NotForgottenInv'
  <2>0. (\A e : Unit(MessageOf(e))' = Unit(MessageOf(e))) /\ \A s, i : Arrived(s, i)' = Arrived(s, i)
    BY <1>3 DEF Unit, MessageOf, Arrived
  <2> SUFFICES ASSUME AckStrat = "PerFragment",
                      NEW s \in DOMAIN origin, NEW i \in 0..(NumFrags - 1),
                      ~Arrived(s, i)
               PROVE  \E e \in Items(events'[Sender]) : e \in Pending /\ Unit(MessageOf(e)) = <<s, i>>
    BY <1>3, <2>0 DEF NotForgottenInv
  <2>1. PICK e \in Items(q) : e \in Pending /\ Unit(MessageOf(e)) = <<s, i>>
    BY DEF NotForgottenInv, q
  <2>2. ASSUME e = x PROVE FALSE
    <3> DEFINE m == original_messages[Sender][id]
    <3>1. e.kind = "AckTimeout" /\ e.id = id
      BY <2>2 DEF x, AckTimeout
    <3>2. id \in DOMAIN original_messages[Sender] /\ id = AckKey(m.id, m.fragment_set)
      BY <3>1 DEF PendingInv, q
    <3>3. MessageOf(e) = m /\ m.id = id
      BY <3>1, <3>2 DEF MessageOf, AckKey
    <3>4. m \in Live
      BY <3>2, UsersDiffer, MessagesInWhere DEF Live
    <3> HIDE DEF m
    <3>5. Arrived(m.fragment_set, m.fragment_index)
      BY <1>1, <1>2, <3>3, <3>4 DEF AckInv, id
    <3>6. m.fragment_set = s /\ m.fragment_index = i
      BY <2>1, <3>3 DEF Unit
    <3> QED BY <3>5, <3>6
  <2> QED BY <1>7, <2>1, <2>2
<1> QED BY <1>10, <1>11, <1>12, <1>13, <1>14, <1>15

(***************************************************************************)
(* A packet moves to its next node with its layer removed.                 *)
(***************************************************************************)
LEMMA NodeForwardKeeps ==
  ASSUME RetransmissionInv, NEW n \in Nodes, NodeForward(n)
  PROVE  RetransmissionInv'
<1> USE DEF RetransmissionInv
<1> DEFINE p == NextItem(ingress[n])
           inner == Packet(Tail(p.hops), p.content)
           popped == [ingress EXCEPT ![n] = Pop(ingress[n])]
<1>1. /\ timestamp' \in Nat /\ timestamp <= timestamp'
      /\ p \in Items(ingress[n]) /\ p \in Packets
      /\ Items(Pop(ingress[n])) \subseteq Items(ingress[n])
      /\ DueFrom(Pop(ingress[n]), Packets, timestamp')
      /\ \A k \in Nodes : DueFrom(ingress[k], Packets, timestamp')
  BY NodeFront DEF NodeForward
<1>2. inner \in Packets
  <2>1. p.hops \in Path /\ Len(p.hops) > 1
    BY <1>1 DEF NodeForward, Packets, AckPackets, MessagePackets
  <2>2. Tail(p.hops) \in Path
    BY <2>1, PathTail
  <2> QED BY <1>1, <2>2 DEF Packet, Packets, AckPackets, MessagePackets
<1>3. DOMAIN ingress = Nodes
  BY DEF SimInv, QueuesInv
<1>4. /\ DOMAIN popped = Nodes /\ \A k \in Nodes : DueFrom(popped[k], Packets, timestamp')
      /\ \A k \in Nodes : Items(popped[k]) \subseteq Items(ingress[k])
  BY <1>1, <1>3
<1>5. /\ ingress' = SendTo(popped, timestamp', inner)
      /\ UNCHANGED <<events, fragments, t_first, original_messages, next_message_id,
                     next_fragment_set, origin>>
  BY DEF NodeForward
<1>6. inner.content = p.content
  BY DEF Packet
<1> HIDE DEF p, inner, popped
<1>7. \A k \in Nodes : Items(ingress'[k]) \subseteq Items(ingress[k]) \cup {inner}
  BY <1>1, <1>2, <1>4, <1>5, ItemsSendTo
<1>8. \A k \in Nodes : \A r \in Items(ingress'[k]) :
        \E j \in Nodes : \E o \in Items(ingress[j]) : r.content = o.content
  BY <1>1, <1>6, <1>7
<1>9. p.content.kind = "Message" => p.content \in Live
  BY <1>1, MessagesInWhere DEF Live
<1>10. Live' \subseteq Live
  BY <1>5, <1>6, <1>7, <1>9, LiveKept
<1>11. SimInv'
  BY NodeForwardInv
<1>12. RolesInv'
  BY <1>5, <1>8 DEF RolesInv, AckKey
<1>13. MessagesInv' /\ OriginInv' /\ PendingInv'
  BY <1>1, <1>5, <1>10, SameMessages, SameOrigin, SamePending
<1>14. AckInv' /\ NotForgottenInv'
  BY <1>5, <1>8, <1>10, SameAcks, SameNotForgotten
<1> QED BY <1>11, <1>12, <1>13, <1>14

(***************************************************************************)
(* The recipient has a set when it has as many fragments of it as the set  *)
(* has, because it only ever gets those numbered 0..NumFrags-1.            *)
(***************************************************************************)
LEMMA CompleteMeaning ==
  ASSUME NEW F, F \in SUBSET (Nat \X Nat), \A x \in F : x[2] < NumFrags, NEW s \in Nat
  PROVE  Cardinality({x \in F : x[1] = s}) = NumFrags <=>
           \A i \in 0..(NumFrags - 1) : <<s, i>> \in F
<1> DEFINE I == 0..(NumFrags - 1)
           T == {<<s, i>> : i \in I}
           C == {x \in F : x[1] = s}
           f == [i \in I |-> <<s, i>>]
<1>1. NumFrags \in Nat \ {0}
  BY ConfigAssumption
<1>2. IsFiniteSet(I) /\ Cardinality(I) = NumFrags
  BY <1>1, FS_Interval
<1>3. f \in Bijection(I, T)
  BY DEF Bijection, Injection, Surjection, IsInjective
<1>4. IsFiniteSet(T) /\ Cardinality(T) = NumFrags
  BY <1>2, <1>3, FS_Bijection DEF ExistsBijection
<1>5. C \subseteq T
  <2> SUFFICES ASSUME NEW x \in C PROVE x \in T
    OBVIOUS
  <2>1. x \in Nat \X Nat /\ x[1] = s /\ x[2] < NumFrags
    OBVIOUS
  <2>2. x = <<s, x[2]>> /\ x[2] \in I
    BY <1>1, <2>1
  <2> QED BY <2>2
<1>6. Cardinality(C) = NumFrags => C = T
  BY <1>4, <1>5, FS_Subset
<1>7. ASSUME \A i \in I : <<s, i>> \in F PROVE C = T
  BY <1>5, <1>7
<1>8. C = T => \A i \in I : <<s, i>> \in F
  OBVIOUS
<1> HIDE DEF C, T, I
<1>9. Cardinality(C) = NumFrags <=> \A i \in I : <<s, i>> \in F
  BY <1>4, <1>6, <1>7, <1>8
<1> QED BY <1>9 DEF C, I

(***************************************************************************)
(* A fragment arrives and may be acknowledged.                             *)
(***************************************************************************)
LEMMA ReceiveMessageKeeps ==
  ASSUME RetransmissionInv, NEW u \in Users, ReceiveMessage(u)
  PROVE  RetransmissionInv'
<1> USE DEF RetransmissionInv
<1> DEFINE m        == NextItem(events[u]).message
           s        == m.fragment_set
           i        == m.fragment_index
           first    == IF s \in DOMAIN t_first[u] THEN t_first[u] ELSE Put(t_first[u], s, timestamp')
           complete == Cardinality(FragmentsOf(u, s) \cup {<<s, i>>}) = m.fragment_size
<1>1. /\ timestamp' \in Nat /\ timestamp <= timestamp' /\ timestamp \in Nat
      /\ NextItem(events[u]) \in Items(events[u])
      /\ NextItem(events[u]).kind = "Message"
      /\ Items(Pop(events[u])) \subseteq Items(events[u])
      /\ \A n \in Nodes : DueFrom(ingress[n], Packets, timestamp')
  BY UserFront DEF ReceiveMessage
<1>2. u = Recipient
  BY <1>1, UsersDiffer DEF RolesInv
<1>3. m \in Live
  BY <1>1, MessagesInWhere DEF Live
<1>4. MessageOK(m)
  BY <1>3 DEF MessagesInv
<1>5. /\ m \in Messages /\ m.id \in Nat /\ s \in Nat /\ i \in Nat /\ i < NumFrags
      /\ m.fragment_size = NumFrags /\ s \in DOMAIN origin
      /\ m.ack \in Packets
      /\ m.ack.content = Ack(AckKey(m.id, s), Sender)
      /\ m.id < next_message_id
  BY <1>4 DEF MessageOK, Messages, Packets
<1>6. /\ events' = [events EXCEPT ![u] = Pop(events[u])]
      /\ t_first' = [t_first EXCEPT ![u] = first]
      /\ fragments' = [fragments EXCEPT ![u] = fragments[u] \cup {<<s, i>>}]
      /\ ingress' = IF Acknowledges(complete) THEN SendTo(ingress, timestamp', m.ack) ELSE ingress
      /\ UNCHANGED <<original_messages, next_message_id, next_fragment_set, origin>>
  BY DEF ReceiveMessage
<1>7. /\ DOMAIN ingress = Nodes /\ DOMAIN events = Users
      /\ fragments \in [Users -> SUBSET (Nat \X Nat)]
      /\ next_message_id \in Nat /\ next_fragment_set \in Nat
  BY DEF SimInv, QueuesInv, RecordsInv
<1> HIDE DEF m, i
<1>8. events'[Sender] = events[Sender] /\ Items(events'[Recipient]) \subseteq Items(events[Recipient])
  BY <1>1, <1>2, <1>6, <1>7, UsersDiffer
<1>9. fragments'[Recipient] = fragments[Recipient] \cup {<<s, i>>}
  BY <1>2, <1>6, <1>7, UsersDiffer
<1>10. \A n \in Nodes : \A p \in Items(ingress'[n]) :
         p \in Items(ingress[n]) \/ (Acknowledges(complete) /\ p = m.ack)
  <2>1. \A n \in Nodes : Items(SendTo(ingress, timestamp', m.ack)[n]) \subseteq Items(ingress[n]) \cup {m.ack}
    BY <1>1, <1>5, <1>7, ItemsSendTo
  <2> HIDE DEF s, complete
  <2> QED BY <1>6, <2>1
<1>11. /\ m.ack.content.kind = "Ack" /\ m.ack.content.recipient = Sender
       /\ m.ack.content.message_id = AckKey(m.id, s)
  BY <1>5 DEF Ack
<1>12. Live' \subseteq Live
  <2>1. \A v \in Users : \A e \in Items(events'[v]) : e \in Items(events[v])
    BY <1>8, UsersDiffer
  <2> QED BY <1>6, <1>10, <1>11, <2>1, LiveKept
<1>13. SimInv'
  BY ReceiveMessageInv
<1>14. RolesInv'
  <2>1. AckKey(m.id, s) < AckKey(next_message_id, next_fragment_set)
    BY <1>5, <1>7 DEF AckKey, OriginInv
  <2>2. \A x \in fragments'[Recipient] : x[2] < NumFrags
    BY <1>5, <1>9 DEF RolesInv
  <2> HIDE DEF s, complete
  <2>3. /\ \A e \in Items(events'[Recipient]) : e.kind = "Message"
        /\ \A e \in Items(events'[Sender]) : /\ e.kind # "Message"
                                             /\ e.kind = "SendMessage" => e.num_frags = NumFrags
        /\ DOMAIN original_messages' = Users /\ DOMAIN original_messages'[Recipient] = {}
    BY <1>6, <1>8 DEF RolesInv
  <2>4. \A n \in Nodes : \A p \in Items(ingress'[n]) :
          p.content.kind = "Ack" =>
            /\ p.content.recipient = Sender
            /\ p.content.message_id < AckKey(next_message_id', next_fragment_set')
    <3>1. AckKey(next_message_id', next_fragment_set') = AckKey(next_message_id, next_fragment_set)
      BY <1>6
    <3> QED BY <1>10, <1>11, <2>1, <3>1 DEF RolesInv
  <2> QED BY <2>2, <2>3, <2>4 DEF RolesInv
<1>15. MessagesInv' /\ PendingInv'
  BY <1>1, <1>6, <1>8, <1>12, SameMessages, SamePending
<1>16. OriginInv'
  <2> DEFINE Good(f) == \A k \in DOMAIN f : k \in DOMAIN origin
                                            /\ origin[k].sent <= f[k] /\ f[k] <= timestamp'
  <2>1. \A v \in Users : Good(t_first[v])
    <3>1. \A v \in Users : \A k \in DOMAIN t_first[v] : t_first[v][k] \in Nat
      BY DEF SimInv, RecordsInv
    <3> QED BY <1>1, <3>1 DEF OriginInv
  <2>2. Good(first)
    <3>1. CASE s \in DOMAIN t_first[u]
      BY <2>1, <3>1
    <3>2. CASE s \notin DOMAIN t_first[u]
      <4>1. first = Put(t_first[u], s, timestamp')
        BY <3>2
      <4>2. origin[s].sent <= timestamp'
        BY <1>1, <1>5 DEF OriginInv
      <4> HIDE DEF s, first
      <4>3. DOMAIN first = {s} \cup DOMAIN t_first[u] /\ first[s] = timestamp'
            /\ \A x \in DOMAIN t_first[u] : x # s => first[x] = t_first[u][x]
        BY <4>1 DEF Put
      <4> QED BY <1>1, <1>5, <2>1, <4>2, <4>3
    <3> QED BY <3>1, <3>2
  <2> HIDE DEF s, first
  <2>3. \A v \in Users : Good(t_first'[v])
    BY <1>6, <2>1, <2>2
  <2>4. \A k \in DOMAIN origin : origin[k].sent <= timestamp'
    BY <1>1 DEF OriginInv
  <2> QED BY <1>6, <2>3, <2>4 DEF OriginInv
<1> HIDE DEF s, complete
<1>17. AckInv'
  <2>1. \A k, j : Arrived(k, j) => Arrived(k, j)'
    BY <1>9 DEF Arrived
  <2>2. \A e : MessageOf(e)' = MessageOf(e)
    BY <1>6 DEF MessageOf
  <2>3. ASSUME AckStrat = "PerFragment", NEW o \in Live, o.id = m.id
        PROVE  Arrived(o.fragment_set, o.fragment_index)'
    BY <1>3, <1>9, <2>3 DEF MessagesInv, Arrived, s, i
  <2>4. ASSUME AckStrat = "WholeMessage", Acknowledges(complete), NEW j \in 0..(NumFrags - 1)
        PROVE  <<s, j>> \in fragments'[Recipient]
    <3> DEFINE F == fragments[Recipient] \cup {<<s, i>>}
    <3>1. Cardinality(FragmentsOf(Recipient, s) \cup {<<s, i>>}) = NumFrags
      BY <1>2, <1>5, <2>4 DEF Acknowledges, complete
    <3>2. FragmentsOf(Recipient, s) \cup {<<s, i>>} = {x \in F : x[1] = s}
      BY DEF FragmentsOf
    <3>3. F \in SUBSET (Nat \X Nat) /\ \A x \in F : x[2] < NumFrags
      BY <1>5, <1>7, UsersDiffer DEF RolesInv
    <3> HIDE DEF F
    <3>4. <<s, j>> \in F
      BY <1>5, <3>1, <3>2, <3>3, CompleteMeaning
    <3> QED BY <1>9, <3>4 DEF F
  <2>5. ASSUME NEW n \in Nodes, NEW p \in Items(ingress'[n]), p.content.kind = "Ack",
               AckStrat = "PerFragment", NEW o \in Live', o.id = p.content.message_id
        PROVE  Arrived(o.fragment_set, o.fragment_index)'
    <3>1. CASE p \in Items(ingress[n])
      BY <1>12, <2>1, <2>5, <3>1 DEF AckInv
    <3>2. CASE p = m.ack
      BY <1>11, <1>12, <2>3, <2>5, <3>2 DEF AckKey
    <3> QED BY <1>10, <3>1, <3>2
  <2>6. ASSUME NEW n \in Nodes, NEW p \in Items(ingress'[n]), p.content.kind = "Ack",
               AckStrat = "WholeMessage", NEW e \in Items(events'[Sender]), e \in Pending,
               MessageOf(e)'.fragment_set = p.content.message_id,
               NEW j \in 0..(NumFrags - 1)
        PROVE  Arrived(p.content.message_id, j)'
    <3>1. CASE p \in Items(ingress[n])
      BY <1>8, <2>1, <2>2, <2>6, <3>1 DEF AckInv
    <3>2. CASE Acknowledges(complete) /\ p = m.ack
      BY <1>11, <2>4, <2>6, <3>2 DEF AckKey, Arrived
    <3> QED BY <1>10, <3>1, <3>2
  <2> QED BY <2>5, <2>6 DEF AckInv
<1>18. NotForgottenInv'
  BY <1>6, <1>8, <1>9, SameNotForgotten
<1> QED BY <1>13, <1>14, <1>15, <1>16, <1>17, <1>18

-------------------------------------------------------------------------------
(***************************************************************************)
(* The order of a queue after the insertion of one entry.                  *)
(***************************************************************************)
LEMMA InsertOrder ==
  ASSUME NEW S, NEW v, NEW q, DueFrom(q, S, v), NEW t \in Nat, NEW x \in S,
         NEW K, NoneAfter(q, t, K), NEW W, Avoids(q, W),
         \A e \in Items(q) : <<e, x>> \notin W /\ (e \notin K => <<x, e>> \notin W)
  PROVE  Avoids(Insert(q, t, x), W)
<1> DEFINE xs == <<x>>
           new == [i \in 1..Len(xs) |-> Entry(t, xs[i])]
<1>1. xs \in Seq(S) /\ Len(xs) = 1 /\ xs[1] = x
  OBVIOUS
<1>2. Insert(q, t, x) = InsertAll(q, t, xs)
  BY DEF Insert
<1> HIDE DEF xs
<1>3. \A e \in Items(q), i \in 1..Len(xs) :
           <<e, xs[i]>> \notin W /\ (e \notin K => <<xs[i], e>> \notin W)
  BY <1>1
<1>4. new = <<Entry(t, x)>>
  BY <1>1
<1>5. Avoids(new, W)
  BY <1>4 DEF Avoids
<1>6. q \in Queues(S) /\ SortedByTime(q)
  BY DEF DueFrom
<1> QED BY <1>1, <1>2, <1>3, <1>5, <1>6, InsertAllOrder

LEMMA InsertTimes ==
  ASSUME NEW S, NEW v, NEW q, DueFrom(q, S, v), NEW t \in Nat, NEW x \in S,
         NEW w, NEW K, NoneAfter(q, w, K), x \in K => t <= w
  PROVE  NoneAfter(Insert(q, t, x), w, K)
<1> DEFINE xs == <<x>>
<1>1. xs \in Seq(S) /\ \A i \in 1..Len(xs) : xs[i] = x
  OBVIOUS
<1>2. Insert(q, t, x) = InsertAll(q, t, xs)
  BY DEF Insert
<1> HIDE DEF xs
<1>3. q \in Queues(S) /\ SortedByTime(q)
  BY DEF DueFrom
<1> QED BY <1>1, <1>2, <1>3, InsertAllTimes

LEMMA AvoidsFewer ==
  ASSUME NEW q, NEW V, NEW W, Avoids(q, W),
         \A e, f \in Items(q) : <<e, f>> \in V => <<e, f>> \in W
  PROVE  Avoids(q, V)
BY DEF Avoids, Items

(***************************************************************************)
(* Which pairs clash, before and after a step.                             *)
(***************************************************************************)
LEMMA ClashesMeaning ==
  /\ \A e, f : <<e, f>> \in Clashes <=>
       /\ e \in Pending /\ f \in Pending
       /\ Unit(MessageOf(e)) = Unit(MessageOf(f))
       /\ ~(/\ AckStrat = "WholeMessage" /\ e.kind = "Egress"
            /\ MessageOf(e).fragment_set = MessageOf(f).fragment_set)
  /\ \A e, f : <<e, f>> \in Clashes' <=>
       /\ e \in Pending /\ f \in Pending
       /\ Unit(MessageOf(e))' = Unit(MessageOf(f))'
       /\ ~(/\ AckStrat = "WholeMessage" /\ e.kind = "Egress"
            /\ MessageOf(e)'.fragment_set = MessageOf(f)'.fragment_set)
<1>1. \A e, f : <<e, f>> \in Clashes <=>
       /\ e \in Pending /\ f \in Pending
       /\ Unit(MessageOf(e)) = Unit(MessageOf(f))
       /\ ~(/\ AckStrat = "WholeMessage" /\ e.kind = "Egress"
            /\ MessageOf(e).fragment_set = MessageOf(f).fragment_set)
  BY DEF Clashes, SameSet
<1>2. \A e, f : <<e, f>> \in Clashes' <=>
       /\ e \in Pending /\ f \in Pending
       /\ Unit(MessageOf(e))' = Unit(MessageOf(f))'
       /\ ~(/\ AckStrat = "WholeMessage" /\ e.kind = "Egress"
            /\ MessageOf(e)'.fragment_set = MessageOf(f)'.fragment_set)
  BY DEF Clashes, SameSet
<1> QED BY <1>1, <1>2

(***************************************************************************)
(* The message a pending event stands for is in the system.                *)
(***************************************************************************)
LEMMA PendingLive ==
  ASSUME SimInv, MessagesInv, PendingInv, NEW e \in Items(events[Sender]), e \in Pending
  PROVE  /\ MessageOf(e) \in Live /\ MessageOK(MessageOf(e))
         /\ e.kind \in {"Egress", "AckTimeout"}
         /\ e.kind = "AckTimeout" =>
              /\ e = AckTimeout(e.id) /\ e.id \in DOMAIN original_messages[Sender]
              /\ e.id = AckKey(MessageOf(e).id, MessageOf(e).fragment_set)
<1>1. CASE e.kind = "Egress"
  <2>1. MessageOf(e) = e.packet.content
    BY <1>1 DEF MessageOf
  <2>2. MessageOf(e) \in Live
    BY <1>1, <2>1, UsersDiffer, MessagesInWhere DEF Live
  <2> QED BY <1>1, <2>2 DEF MessagesInv
<1>2. CASE e.kind = "AckTimeout"
  <2>1. MessageOf(e) = original_messages[Sender][e.id]
    BY <1>2 DEF MessageOf
  <2>2. e.id \in DOMAIN original_messages[Sender]
        /\ e.id = AckKey(MessageOf(e).id, MessageOf(e).fragment_set)
    BY <1>2, <2>1 DEF PendingInv
  <2>3. MessageOf(e) \in Live
    BY <2>1, <2>2, UsersDiffer, MessagesInWhere DEF Live
  <2>4. e = AckTimeout(e.id)
    BY <1>2 DEF Pending, UserEvents, AckTimeout
  <2> QED BY <1>2, <2>2, <2>3, <2>4 DEF MessagesInv
<1>3. e.kind = "Egress" \/ e.kind = "AckTimeout"
  BY DEF Pending
<1> QED BY <1>1, <1>2, <1>3

(***************************************************************************)
(* The sender's turn: nothing behind the front clashes with it.            *)
(***************************************************************************)
LEMMA SenderFront ==
  ASSUME SimInv, RolesInv, PendingInv, NEW u \in Users, NEW kind, UserTurn(u, kind), kind # "Message"
  PROVE  LET q == events[Sender]
         IN  /\ u = Sender
             /\ timestamp' \in Nat /\ timestamp <= timestamp' /\ timestamp \in Nat
             /\ NextItem(q) \in UserEvents /\ NextItem(q).kind = kind
             /\ Items(q) = Items(Pop(q)) \cup {NextItem(q)}
             /\ Items(q) \subseteq UserEvents
             /\ DueFrom(Pop(q), UserEvents, timestamp')
             /\ \A k \in Nodes : DueFrom(ingress[k], Packets, timestamp')
             /\ Avoids(Pop(q), Clashes)
             /\ \A f \in Items(Pop(q)) : <<NextItem(q), f>> \notin Clashes
             /\ NoneAfter(Pop(q), timestamp', Leaving)
<1> DEFINE q == events[u]
<1>1. /\ timestamp' \in Nat /\ timestamp <= timestamp' /\ timestamp \in Nat
      /\ NextItem(q) \in UserEvents /\ NextItem(q).kind = kind
      /\ Items(q) = Items(Pop(q)) \cup {NextItem(q)}
      /\ q \in Queues(UserEvents) /\ q # <<>>
      /\ DueFrom(Pop(q), UserEvents, timestamp')
      /\ \A k \in Nodes : DueFrom(ingress[k], Packets, timestamp')
  BY UserFront
<1>2. u = Sender
  BY <1>1, UsersDiffer DEF RolesInv
<1>3. \A i \in 1..Len(q) : q[i].time \in Nat /\ q[i].item \in UserEvents
  BY <1>1, QueueEntries
<1>4. Items(q) \subseteq UserEvents
  BY <1>3 DEF Items
<1>5. NoneAfter(q, timestamp', Leaving)
  BY <1>1, <1>2, <1>3 DEF PendingInv, NoneAfter
<1>6. Avoids(Pop(q), Clashes) /\ \A f \in Items(Pop(q)) : <<NextItem(q), f>> \notin Clashes
  BY <1>1, <1>2, PopOrder DEF PendingInv
<1>7. NoneAfter(Pop(q), timestamp', Leaving)
  BY <1>1, <1>5, PopOrder
<1> HIDE DEF q
<1> QED BY <1>1, <1>2, <1>4, <1>6, <1>7 DEF q

(***************************************************************************)
(* The sender's queue changes: acknowledgements under way keep telling the *)
(* truth if a pending event of a known set takes the place of one of the   *)
(* same set, and messages that are not known yet get new ids.              *)
(***************************************************************************)
LEMMA PendingAcks ==
  ASSUME AckInv, RolesInv,
         next_message_id \in Nat, next_fragment_set \in Nat,
         \A m \in Live' : m \in Live \/ (m.id \in Nat /\ m.id >= next_message_id),
         \A n \in Nodes : \A p \in Items(ingress'[n]) : p.content.kind = "Ack" =>
           p.content.message_id \in Nat /\ p \in Items(ingress[n]),
         AckStrat = "WholeMessage" =>
           \A e \in Items(events'[Sender]) : e \in Pending =>
             \/ /\ MessageOf(e)'.fragment_set \in Nat
                /\ MessageOf(e)'.fragment_set >= next_fragment_set
             \/ \E f \in Items(events[Sender]) :
                  /\ f \in Pending /\ MessageOf(f).fragment_set = MessageOf(e)'.fragment_set
                  /\ \A i : Arrived(MessageOf(f).fragment_set, i) =>
                              <<MessageOf(f).fragment_set, i>> \in fragments'[Recipient],
         AckStrat = "PerFragment" => fragments[Recipient] \subseteq fragments'[Recipient]
  PROVE  AckInv'
<1>1. ASSUME NEW n \in Nodes, NEW p \in Items(ingress'[n]), p.content.kind = "Ack"
      PROVE  /\ p \in Items(ingress[n]) /\ p.content.message_id \in Nat
             /\ p.content.message_id < AckKey(next_message_id, next_fragment_set)
  BY <1>1 DEF RolesInv
<1>2. ASSUME NEW n \in Nodes, NEW p \in Items(ingress'[n]), p.content.kind = "Ack",
             AckStrat = "PerFragment", NEW m \in Live', m.id = p.content.message_id
      PROVE  Arrived(m.fragment_set, m.fragment_index)'
  <2>1. m.id < next_message_id
    BY <1>1, <1>2 DEF AckKey
  <2>2. m \in Live
    BY <1>1, <1>2, <2>1
  <2> QED BY <1>1, <1>2, <2>2 DEF AckInv, Arrived
<1>3. ASSUME NEW n \in Nodes, NEW p \in Items(ingress'[n]), p.content.kind = "Ack",
             AckStrat = "WholeMessage", NEW e \in Items(events'[Sender]), e \in Pending,
             MessageOf(e)'.fragment_set = p.content.message_id,
             NEW i \in 0..(NumFrags - 1)
      PROVE  Arrived(p.content.message_id, i)'
  <2> DEFINE s == MessageOf(e)'.fragment_set
  <2>1. p.content.message_id < next_fragment_set
    BY <1>1, <1>3 DEF AckKey
  <2>2. ~(s \in Nat /\ s >= next_fragment_set)
    BY <1>3, <2>1
  <2>3. PICK f \in Items(events[Sender]) :
               /\ f \in Pending /\ MessageOf(f).fragment_set = s
               /\ \A j : Arrived(MessageOf(f).fragment_set, j) =>
                           <<MessageOf(f).fragment_set, j>> \in fragments'[Recipient]
    BY <1>3, <2>2
  <2>4. MessageOf(f).fragment_set = p.content.message_id
    BY <1>3, <2>3
  <2>5. Arrived(p.content.message_id, i)
    BY <1>1, <1>3, <2>3, <2>4 DEF AckInv
  <2> QED BY <2>3, <2>4, <2>5 DEF Arrived
<1> QED BY <1>2, <1>3 DEF AckInv

LEMMA PendingNotForgotten ==
  ASSUME NotForgottenInv,
         AckStrat = "PerFragment" =>
           /\ \A s \in DOMAIN origin', i \in 0..(NumFrags - 1) :
                \/ s \in DOMAIN origin
                \/ \E e \in Items(events'[Sender]) : e \in Pending /\ Unit(MessageOf(e))' = <<s, i>>
           /\ \A f \in Items(events[Sender]) : f \in Pending =>
                \E e \in Items(events'[Sender]) : e \in Pending /\ Unit(MessageOf(e))' = Unit(MessageOf(f))
           /\ fragments[Recipient] \subseteq fragments'[Recipient]
  PROVE  NotForgottenInv'
<1> SUFFICES ASSUME AckStrat = "PerFragment",
                    NEW s \in DOMAIN origin', NEW i \in 0..(NumFrags - 1)
             PROVE  \/ Arrived(s, i)'
                    \/ \E e \in Items(events'[Sender]) : e \in Pending /\ Unit(MessageOf(e))' = <<s, i>>
  BY DEF NotForgottenInv
<1>1. CASE s \notin DOMAIN origin
  BY <1>1
<1>2. CASE s \in DOMAIN origin /\ Arrived(s, i)
  BY <1>2 DEF Arrived
<1>3. CASE s \in DOMAIN origin /\ ~Arrived(s, i)
  <2>1. PICK f \in Items(events[Sender]) : f \in Pending /\ Unit(MessageOf(f)) = <<s, i>>
    BY <1>3 DEF NotForgottenInv
  <2> QED BY <2>1
<1> QED BY <1>1, <1>2, <1>3

(***************************************************************************)
(* A packet leaves the sender, and its timeout may be armed: there is none *)
(* for its fragment or set yet, and it comes after the others of its set.  *)
(***************************************************************************)
LEMMA EgressPacketKeeps ==
  ASSUME RetransmissionInv, NEW u \in Users, NEW dropped \in BOOLEAN, EgressPacket(u, dropped)
  PROVE  RetransmissionInv'
<1> USE DEF RetransmissionInv
<1> DEFINE e0  == NextItem(events[Sender])
           r   == Pop(events[Sender])
           p   == e0.packet
           c   == p.content
           id  == AckKey(c.id, c.fragment_set)
           due == timestamp' + Timeout(p.hops)
           x   == AckTimeout(id)
           stored == original_messages[Sender]
<1>1. /\ u = Sender
      /\ timestamp' \in Nat /\ timestamp <= timestamp' /\ timestamp \in Nat
      /\ e0 \in UserEvents /\ e0.kind = "Egress"
      /\ Items(events[Sender]) = Items(r) \cup {e0}
      /\ Items(events[Sender]) \subseteq UserEvents
      /\ DueFrom(r, UserEvents, timestamp')
      /\ \A n \in Nodes : DueFrom(ingress[n], Packets, timestamp')
      /\ Avoids(r, Clashes)
      /\ \A f \in Items(r) : <<e0, f>> \notin Clashes
      /\ NoneAfter(r, timestamp', Leaving)
  BY SenderFront DEF EgressPacket
<1>2. p.hops \in Routes /\ c \in Messages /\ p \in Packets /\ c.kind = "Message"
  BY <1>1, RouteAssumption DEF UserEvents, Packets, MessagePackets, Messages
<1>3. /\ e0 \in Items(events[Sender]) /\ e0 \in Pending /\ MessageOf(e0) = c
      /\ c \in Live /\ MessageOK(c)
  <2>1. e0 \in Items(events[Sender]) /\ e0 \in Pending /\ MessageOf(e0) = c
    BY <1>1 DEF Pending, MessageOf
  <2> QED BY <2>1, PendingLive
<1>4. id \in Nat /\ due \in Nat /\ timestamp' <= due /\ x \in UserEvents
  <2>1. c.id \in Nat /\ c.fragment_set \in Nat
    BY <1>2 DEF Messages
  <2>2. id \in Nat
    BY <2>1, AckKeyType
  <2>3. Timeout(p.hops) \in Nat
    BY <1>2, TimeoutType
  <2>4. x \in UserEvents
    BY <2>2 DEF AckTimeout, UserEvents
  <2> QED BY <1>1, <2>2, <2>3, <2>4
<1>5. /\ events' = [events EXCEPT ![Sender] = IF Arms(Sender, id) THEN Insert(r, due, x) ELSE r]
      /\ original_messages' = [original_messages EXCEPT ![Sender] =
                                 IF Arms(Sender, id) THEN Put(stored, id, c) ELSE stored]
      /\ ingress' = IF dropped THEN ingress ELSE SendTo(ingress, timestamp', p)
      /\ UNCHANGED <<fragments, t_first, next_message_id, next_fragment_set, origin>>
  BY <1>1 DEF EgressPacket
<1>6. /\ DOMAIN ingress = Nodes /\ DOMAIN events = Users
      /\ next_message_id \in Nat /\ next_fragment_set \in Nat
      /\ \A n \in Nodes : Items(ingress[n]) \subseteq Packets
  BY <1>1, ItemsTyped DEF SimInv, QueuesInv, RecordsInv
<1>7. DOMAIN original_messages = Users /\ Sender \in Users /\ Recipient # Sender
  BY UsersDiffer DEF RolesInv
<1>8. /\ original_messages'[Sender] = IF Arms(Sender, id) THEN Put(stored, id, c) ELSE stored
      /\ events'[Sender] = IF Arms(Sender, id) THEN Insert(r, due, x) ELSE r
      /\ events'[Recipient] = events[Recipient]
      /\ original_messages'[Recipient] = original_messages[Recipient]
  BY <1>5, <1>6, <1>7
<1>9. Items(Insert(r, due, x)) = Items(r) \cup {x}
  BY <1>1, <1>4, ItemsInsert
<1>10. x.kind = "AckTimeout" /\ x.id = id /\ x \in Pending /\ x \notin Leaving
  BY <1>4 DEF AckTimeout, Pending, Leaving
<1>11. /\ DOMAIN Put(stored, id, c) = {id} \cup DOMAIN stored
       /\ Put(stored, id, c)[id] = c
       /\ \A k \in DOMAIN stored : k # id => Put(stored, id, c)[k] = stored[k]
  BY DEF Put
<1> HIDE DEF e0, r, p, c, id, due, x, stored
<1>12. \A n \in Nodes : Items(ingress'[n]) \subseteq Items(ingress[n]) \cup {p}
  BY <1>1, <1>2, <1>5, <1>6, ItemsSendTo
<1>13. Live' \subseteq Live
  <2>1. \A n \in Nodes : \A q \in Items(ingress'[n]) : q.content.kind = "Message" =>
          q \in Items(ingress[n]) \/ q.content \in Live
    BY <1>3, <1>12 DEF c
  <2>2. \A v \in Users : \A e \in Items(events'[v]) : e \in Items(events[v]) \/ e.kind = "AckTimeout"
    BY <1>1, <1>8, <1>9, <1>10, UsersDiffer
  <2>3. \A v \in Users : \A k \in DOMAIN original_messages'[v] :
           \/ k \in DOMAIN original_messages[v] /\ original_messages'[v][k] = original_messages[v][k]
           \/ original_messages'[v][k] \in Live
    BY <1>3, <1>8, <1>11, UsersDiffer DEF stored
  <2> QED BY <2>1, <2>2, <2>3, LiveKept
<1>14. SimInv'
  BY <1>1, EgressPacketInv
<1>15. RolesInv'
  <2>1. \A e \in Items(events'[Sender]) : e \in Items(events[Sender]) \/ e.kind = "AckTimeout"
    BY <1>1, <1>8, <1>9, <1>10
  <2>2. \A n \in Nodes : \A q \in Items(ingress'[n]) : q.content.kind = "Ack" => q \in Items(ingress[n])
    BY <1>2, <1>12 DEF c
  <2>3. DOMAIN original_messages' = Users
    BY <1>5, <1>7
  <2> QED BY <1>5, <1>8, <2>1, <2>2, <2>3 DEF RolesInv, AckKey
<1>16. MessagesInv' /\ OriginInv'
  BY <1>1, <1>5, <1>13, SameMessages, SameOrigin
<1>17. ASSUME Arms(Sender, id) PROVE x \notin Items(r)
  <2> SUFFICES ASSUME x \in Items(r) PROVE FALSE
    OBVIOUS
  <2>1. x \in Items(events[Sender])
    BY <1>1
  <2>2. /\ MessageOf(x) \in Live /\ id \in DOMAIN stored
        /\ id = AckKey(MessageOf(x).id, MessageOf(x).fragment_set)
    BY <1>10, <2>1, PendingLive DEF stored
  <2>3. AckStrat = "PerFragment"
    BY <1>17, <2>2 DEF Arms, stored
  <2>4. MessageOf(x).id = c.id
    BY <2>2, <2>3 DEF AckKey, id
  <2>5. Unit(MessageOf(x)) = Unit(c)
    BY <1>3, <2>2, <2>3, <2>4 DEF MessagesInv, Unit
  <2> QED BY <1>1, <1>3, <1>10, <2>3, <2>5, ClashesMeaning
<1>18. ASSUME NEW e \in Items(r), e \in Pending
       PROVE  MessageOf(e)' = MessageOf(e) /\ Unit(MessageOf(e))' = Unit(MessageOf(e))
  <2>1. MessageOf(e)' = MessageOf(e)
    <3>1. e \in Items(events[Sender])
      BY <1>1
    <3>2. e.kind = "AckTimeout" => e.id \in DOMAIN stored /\ e = AckTimeout(e.id)
      BY <1>18, <3>1, PendingLive DEF stored
    <3>3. e.kind = "AckTimeout" /\ Arms(Sender, id) => e.id # id
      BY <1>17, <3>2 DEF x
    <3>4. CASE e.kind = "Egress"
      BY <3>4 DEF MessageOf
    <3>5. CASE e.kind = "AckTimeout"
      <4>1. original_messages'[Sender][e.id] = stored[e.id]
        BY <1>8, <1>11, <3>2, <3>3, <3>5
      <4> QED BY <3>5, <4>1 DEF MessageOf, stored
    <3> QED BY <1>18, <3>4, <3>5 DEF Pending
  <2> QED BY <1>5, <2>1 DEF Unit
<1>19. ASSUME Arms(Sender, id), NEW e, e = x
       PROVE  MessageOf(e)' = c /\ Unit(MessageOf(e))' = Unit(c)
  BY <1>5, <1>8, <1>10, <1>11, <1>19 DEF MessageOf, Unit
<1>20. PendingInv'
  <2>1. Avoids(r, Clashes')
    <3>1. \A e, f \in Items(r) : <<e, f>> \in Clashes' => <<e, f>> \in Clashes
      BY <1>18, ClashesMeaning
    <3> QED BY <1>1, <3>1, AvoidsFewer
  <2>2. CASE ~Arms(Sender, id)
    BY <1>1, <1>8, <2>1, <2>2 DEF PendingInv, AckKey, Leaving, stored
  <2>3. CASE Arms(Sender, id)
    <3>1. ASSUME NEW e \in Items(r)
          PROVE  <<e, x>> \notin Clashes' /\ (e \notin Leaving => <<x, e>> \notin Clashes')
      <4> SUFFICES ASSUME e \in Pending, Unit(MessageOf(e)) = Unit(c)
                   PROVE  /\ AckStrat = "WholeMessage" /\ e.kind = "Egress"
                          /\ MessageOf(e).fragment_set = c.fragment_set
                          /\ e \in Leaving
        BY <1>10, <1>18, <1>19, <2>3, <3>1, ClashesMeaning
      <4>1. AckStrat = "WholeMessage" /\ MessageOf(e).fragment_set = c.fragment_set
        BY <1>1, <1>3, ClashesMeaning
      <4>2. e \in Items(events[Sender])
        BY <1>1
      <4>3. e.kind # "AckTimeout"
        <5> SUFFICES ASSUME e.kind = "AckTimeout" PROVE FALSE
          OBVIOUS
        <5>1. e = AckTimeout(e.id) /\ e.id = AckKey(MessageOf(e).id, MessageOf(e).fragment_set)
          BY <4>2, PendingLive
        <5>2. e.id = id
          BY <4>1, <5>1 DEF AckKey, id
        <5> QED BY <1>17, <2>3, <5>1, <5>2 DEF x
      <4> QED BY <4>1, <4>3 DEF Pending, Leaving
    <3>2. NoneAfter(r, due, Leaving)
      <4>1. \A i \in 1..Len(r) : r[i].time \in Nat
        BY <1>1, QueueEntries DEF DueFrom
      <4> QED BY <1>1, <1>4, <4>1 DEF NoneAfter
    <3>3. Avoids(Insert(r, due, x), Clashes')
      BY <1>1, <1>4, <2>1, <3>1, <3>2, InsertOrder
    <3>4. NoneAfter(Insert(r, due, x), timestamp', Leaving)
      BY <1>1, <1>4, <1>10, InsertTimes
    <3>5. ASSUME NEW e \in Items(events'[Sender]), e.kind = "AckTimeout"
          PROVE  /\ e.id \in DOMAIN original_messages'[Sender]
                 /\ e.id = AckKey(original_messages'[Sender][e.id].id,
                                  original_messages'[Sender][e.id].fragment_set)
      <4>1. CASE e = x
        BY <1>8, <1>10, <1>11, <2>3, <4>1 DEF id
      <4>2. CASE e \in Items(r)
        <5>1. e \in Items(events[Sender]) /\ e \in Pending
          BY <1>1, <3>5, <4>2 DEF Pending
        <5>2. e.id \in DOMAIN stored /\ e.id = AckKey(MessageOf(e).id, MessageOf(e).fragment_set)
          BY <3>5, <5>1, PendingLive DEF stored
        <5>3. MessageOf(e)' = MessageOf(e) /\ MessageOf(e)' = original_messages'[Sender][e.id]
          BY <1>18, <3>5, <4>2, <5>1 DEF MessageOf
        <5> QED BY <1>8, <1>11, <2>3, <5>2, <5>3
      <4> QED BY <1>8, <1>9, <2>3, <4>1, <4>2
    <3> QED BY <1>8, <2>3, <3>3, <3>4, <3>5 DEF PendingInv, AckKey, Leaving
  <2> QED BY <2>2, <2>3
<1>21. ASSUME NEW e \in Items(events'[Sender]), e \in Pending
       PROVE  \E f \in Items(events[Sender]) :
                f \in Pending /\ MessageOf(f).fragment_set = MessageOf(e)'.fragment_set
  <2>1. CASE e \in Items(r)
    BY <1>1, <1>18, <1>21, <2>1
  <2>2. CASE Arms(Sender, id) /\ e = x
    BY <1>3, <1>19, <2>2
  <2> QED BY <1>8, <1>9, <1>21, <2>1, <2>2
<1>22. AckInv'
  <2>1. \A n \in Nodes : \A q \in Items(ingress'[n]) : q.content.kind = "Ack" =>
          q.content.message_id \in Nat /\ q \in Items(ingress[n])
    <3>1. \A n \in Nodes : \A q \in Items(ingress'[n]) : q.content.kind = "Ack" => q \in Items(ingress[n])
      BY <1>2, <1>12 DEF c
    <3> QED BY <1>6, <3>1 DEF Packets, AckPackets, MessagePackets, Acks, Messages
  <2> QED BY <1>5, <1>6, <1>13, <1>21, <2>1, PendingAcks DEF Arrived
<1>23. NotForgottenInv'
  <2>1. ASSUME AckStrat = "PerFragment", NEW f \in Items(events[Sender]), f \in Pending
        PROVE  \E e \in Items(events'[Sender]) : e \in Pending /\ Unit(MessageOf(e))' = Unit(MessageOf(f))
    <3>1. CASE f \in Items(r)
      BY <1>8, <1>9, <1>18, <2>1, <3>1
    <3>2. CASE f = e0
      <4>1. Arms(Sender, id) /\ x \in Items(events'[Sender])
        BY <1>8, <1>9, <2>1 DEF Arms
      <4> QED BY <1>3, <1>10, <1>19, <3>2, <4>1
    <3> QED BY <1>1, <3>1, <3>2
  <2> QED BY <1>5, <2>1, PendingNotForgotten
<1> QED BY <1>14, <1>15, <1>16, <1>20, <1>22, <1>23

-------------------------------------------------------------------------------
(***************************************************************************)
(* The k-th message of a new set.                                          *)
(***************************************************************************)
FragmentOfSet(m, k, sent) ==
  /\ m \in Messages
  /\ m.id = next_message_id + k - 1 /\ m.sending_time = sent
  /\ m.sender = Sender /\ m.recipient = Recipient
  /\ m.fragment_set = next_fragment_set
  /\ m.fragment_size = NumFrags /\ m.fragment_index = k - 1
  /\ m.ack.content = Ack(AckKey(m.id, next_fragment_set), Sender)
  /\ m.ack.hops \in Routes

EgressOfSet(xs, sent) ==
  /\ xs \in Seq(UserEvents) /\ Len(xs) = NumFrags
  /\ \A k \in 1..NumFrags : /\ xs[k].kind = "Egress" /\ xs[k] \in UserEvents
                            /\ FragmentOfSet(xs[k].packet.content, k, sent)

LEMMA BuiltMessage ==
  ASSUME next_message_id \in Nat, next_fragment_set \in Nat, NEW sent \in Nat,
         NEW way \in [1..NumFrags -> Routes], NEW ackWay \in [1..NumFrags -> Routes],
         NEW k \in 1..NumFrags
  PROVE  LET x == Egress(BuildMessages(Sender, Recipient, NumFrags, sent, way, ackWay)[k])
         IN  x.kind = "Egress" /\ x \in UserEvents /\ FragmentOfSet(x.packet.content, k, sent)
<1> DEFINE id  == next_message_id + k - 1
           ack == Packet(ackWay[k], Ack(AckKey(id, next_fragment_set), Sender))
           m   == Message(id, sent, Sender, Recipient, next_fragment_set, NumFrags, k - 1, ack)
           x   == Egress(BuildMessages(Sender, Recipient, NumFrags, sent, way, ackWay)[k])
<1>1. NumFrags \in Nat \ {0}
  BY ConfigAssumption
<1>2. x \in UserEvents
  BY <1>1, BuildMessagesType, UsersDiffer
<1>3. x = Egress(Packet(way[k], m))
  BY DEF BuildMessages
<1> HIDE DEF x
<1>4. x.kind = "Egress" /\ x.packet.content = m
  BY <1>3 DEF Egress, Packet
<1>5. m \in Messages
  BY <1>2, <1>4 DEF UserEvents
<1>6. ack.content = Ack(AckKey(id, next_fragment_set), Sender) /\ ack.hops \in Routes
  BY DEF Packet
<1> HIDE DEF id, ack
<1>7. /\ m.id = id /\ m.sending_time = sent /\ m.sender = Sender /\ m.recipient = Recipient
      /\ m.fragment_set = next_fragment_set /\ m.fragment_size = NumFrags
      /\ m.fragment_index = k - 1 /\ m.ack = ack
  BY DEF Message
<1> HIDE DEF m
<1>8. FragmentOfSet(m, k, sent)
  BY <1>5, <1>6, <1>7 DEF FragmentOfSet, id
<1> QED BY <1>2, <1>4, <1>8 DEF x

LEMMA QueuedMessages ==
  ASSUME SimInv, NEW sent \in Nat,
         QueueMessages(Sender, Sender, Recipient, NumFrags, sent)
  PROVE  /\ next_message_id' = next_message_id + NumFrags
         /\ next_fragment_set' = next_fragment_set + 1
         /\ \E xs : /\ EgressOfSet(xs, sent)
                    /\ events' = [events EXCEPT ![Sender] =
                                    InsertAll(Pop(events[Sender]), timestamp', xs)]
<1>1. /\ next_message_id \in Nat /\ next_fragment_set \in Nat /\ Drawable \subseteq Routes
      /\ NumFrags \in Nat
  BY RouteAssumption, ConfigAssumption DEF SimInv, RecordsInv, Drawable
<1>2. PICK way \in [1..NumFrags -> Drawable], ackWay \in [1..NumFrags -> Drawable] :
        events' = [events EXCEPT ![Sender] =
                     InsertAll(Pop(events[Sender]), timestamp',
                               [k \in 1..NumFrags |->
                                  Egress(BuildMessages(Sender, Recipient, NumFrags, sent, way, ackWay)[k])])]
  BY DEF QueueMessages
<1> DEFINE xs == [k \in 1..NumFrags |->
                    Egress(BuildMessages(Sender, Recipient, NumFrags, sent, way, ackWay)[k])]
<1>3. way \in [1..NumFrags -> Routes] /\ ackWay \in [1..NumFrags -> Routes]
  BY <1>1, <1>2
<1>4. \A k \in 1..NumFrags : /\ xs[k].kind = "Egress" /\ xs[k] \in UserEvents
                             /\ FragmentOfSet(xs[k].packet.content, k, sent)
  BY <1>1, <1>3, BuiltMessage
<1>5. xs \in Seq(UserEvents) /\ Len(xs) = NumFrags
  <2>1. xs \in [1..NumFrags -> UserEvents]
    BY <1>4
  <2>2. Len(xs) = NumFrags
    BY <1>1
  <2> HIDE DEF xs
  <2> QED BY <1>1, <2>1, <2>2, IsASeq
<1>6. EgressOfSet(xs, sent)
  BY <1>4, <1>5 DEF EgressOfSet
<1>7. events' = [events EXCEPT ![Sender] = InsertAll(Pop(events[Sender]), timestamp', xs)]
  BY <1>2
<1> HIDE DEF xs
<1>8. next_message_id' = next_message_id + NumFrags /\ next_fragment_set' = next_fragment_set + 1
  BY DEF QueueMessages
<1> QED BY <1>6, <1>7, <1>8

(***************************************************************************)
(* New messages with new ids, of sets with a place in origin.              *)
(***************************************************************************)
LEMMA MoreMessages ==
  ASSUME MessagesInv, next_message_id \in Nat, next_message_id' \in Nat,
         next_message_id <= next_message_id',
         \A s \in DOMAIN origin : s \in DOMAIN origin' /\ origin'[s] = origin[s],
         NEW New, Live' \subseteq Live \cup New,
         \A m \in New : MessageOK(m)' /\ m.id >= next_message_id,
         \A m, o \in New : m.id = o.id => m.fragment_set = o.fragment_set
                                          /\ m.fragment_index = o.fragment_index
  PROVE  MessagesInv'
<1>1. ASSUME NEW m \in Live PROVE MessageOK(m)' /\ m.id \in Nat /\ m.id < next_message_id
  <2>1. MessageOK(m) /\ m.id \in Nat
    BY DEF MessagesInv, MessageOK, Messages
  <2>2. m.id < next_message_id'
    BY <2>1 DEF MessageOK
  <2> QED BY <2>1, <2>2 DEF MessageOK, AckKey, Ack
<1>2. \A m \in New : m \notin Live
  BY <1>1
<1>3. \A m, o \in Live' : m.id = o.id => m.fragment_set = o.fragment_set
                                          /\ m.fragment_index = o.fragment_index
  <2> SUFFICES ASSUME NEW m \in Live', NEW o \in Live', m.id = o.id
               PROVE  m.fragment_set = o.fragment_set /\ m.fragment_index = o.fragment_index
    OBVIOUS
  <2>1. CASE m \in Live /\ o \in Live
    BY <2>1 DEF MessagesInv
  <2>2. CASE m \in New /\ o \in New
    BY <2>2
  <2>3. CASE m \in Live /\ o \in New
    BY <1>1, <2>3
  <2>4. CASE m \in New /\ o \in Live
    BY <1>1, <2>4
  <2> QED BY <2>1, <2>2, <2>3, <2>4
<1> QED BY <1>1, <1>3 DEF MessagesInv

(***************************************************************************)
(* A new set takes the place of the front event of the sender's queue, of  *)
(* a message no event behind the front stands for.  This is what StartSend *)
(* and ResendMessage have in common.                                       *)
(***************************************************************************)
LEMMA NewSet ==
  ASSUME RetransmissionInv, NEW kind, UserTurn(Sender, kind), kind # "Message",
         NEW sent \in Nat, NEW root \in Nat, root <= next_fragment_set, sent <= timestamp',
         NEW from, from.root = root, from.sent = sent,
         QueueMessages(Sender, Sender, Recipient, NumFrags, sent),
         origin' = Put(origin, next_fragment_set, from),
         ingress' = ingress, t_first' = t_first,
         DOMAIN original_messages' = Users,
         original_messages'[Recipient] = original_messages[Recipient],
         \A id \in DOMAIN original_messages'[Sender] :
           /\ id \in DOMAIN original_messages[Sender]
           /\ original_messages'[Sender][id] = original_messages[Sender][id],
         \A e \in Items(Pop(events[Sender])) : e \in Pending =>
           /\ e.kind = "AckTimeout" => e.id \in DOMAIN original_messages'[Sender]
           /\ AckStrat = "WholeMessage" => origin[MessageOf(e).fragment_set].root # root
           /\ \A i : Arrived(MessageOf(e).fragment_set, i) =>
                       <<MessageOf(e).fragment_set, i>> \in fragments'[Recipient],
         AckStrat = "PerFragment" => fragments[Recipient] \subseteq fragments'[Recipient],
         fragments'[Recipient] \subseteq fragments[Recipient]
  PROVE  /\ MessagesInv' /\ RolesInv' /\ OriginInv' /\ PendingInv' /\ AckInv'
         /\ \E xs : /\ EgressOfSet(xs, sent)
                    /\ Items(events'[Sender]) = Items(Pop(events[Sender])) \cup {xs[k] : k \in 1..Len(xs)}
         /\ \A e \in Items(Pop(events[Sender])) : e \in Pending =>
              Unit(MessageOf(e))' = Unit(MessageOf(e))
<1> USE DEF RetransmissionInv
<1> DEFINE r == Pop(events[Sender])
           s == next_fragment_set
<1>1. /\ timestamp' \in Nat /\ timestamp <= timestamp' /\ timestamp \in Nat
      /\ Items(r) \subseteq Items(events[Sender])
      /\ Items(events[Sender]) \subseteq UserEvents
      /\ DueFrom(r, UserEvents, timestamp')
      /\ Avoids(r, Clashes)
      /\ NoneAfter(r, timestamp', Leaving)
  BY SenderFront, UsersDiffer
<1>2. PICK xs : /\ EgressOfSet(xs, sent)
                /\ events' = [events EXCEPT ![Sender] = InsertAll(r, timestamp', xs)]
  BY QueuedMessages
<1>3. next_message_id' = next_message_id + NumFrags /\ next_fragment_set' = s + 1
  BY QueuedMessages
<1>4. /\ DOMAIN events = Users /\ next_message_id \in Nat /\ s \in Nat /\ NumFrags \in Nat \ {0}
  BY ConfigAssumption DEF SimInv, QueuesInv, RecordsInv
<1> DEFINE New == {xs[k].packet.content : k \in 1..NumFrags}
<1>5. /\ xs \in Seq(UserEvents) /\ Len(xs) = NumFrags
      /\ \A k \in 1..NumFrags : /\ xs[k].kind = "Egress" /\ xs[k] \in UserEvents
                                /\ FragmentOfSet(xs[k].packet.content, k, sent)
  BY <1>2 DEF EgressOfSet
<1>6. events'[Sender] = InsertAll(r, timestamp', xs) /\ events'[Recipient] = events[Recipient]
  BY <1>2, <1>4, UsersDiffer
<1>7. Items(events'[Sender]) = Items(r) \cup {xs[k] : k \in 1..Len(xs)}
  BY <1>1, <1>5, <1>6, ItemsInsertAll
<1>8. \A e \in Items(events'[Sender]) :
        e \in Items(r) \/ \E k \in 1..NumFrags : e = xs[k]
  BY <1>5, <1>7
<1>9. DOMAIN origin = 0..(s - 1) /\ s \notin DOMAIN origin
  BY <1>4 DEF OriginInv
<1>10. /\ DOMAIN origin' = DOMAIN origin \cup {s}
       /\ origin'[s].sent = sent /\ origin'[s].root = root
       /\ \A k \in DOMAIN origin : origin'[k] = origin[k]
  BY <1>9 DEF Put
<1> HIDE DEF r, s
<1>11. \A m \in New : /\ MessageOK(m)' /\ m.id \in Nat /\ m.id >= next_message_id
                      /\ m.fragment_set = s
  <2> SUFFICES ASSUME NEW k \in 1..NumFrags, NEW m, m = xs[k].packet.content
               PROVE  /\ MessageOK(m)' /\ m.id \in Nat /\ m.id >= next_message_id
                      /\ m.fragment_set = s
    OBVIOUS
  <2>1. FragmentOfSet(m, k, sent)
    BY <1>5
  <2>2. k \in Nat /\ 1 <= k /\ k <= NumFrags
    BY <1>4
  <2>3. m.fragment_set = s /\ m.id = next_message_id + k - 1 /\ m.fragment_index = k - 1
    BY <2>1 DEF FragmentOfSet, s
  <2>4. /\ m.id \in Nat /\ m.id >= next_message_id /\ m.id < next_message_id'
        /\ m.fragment_index < NumFrags
    BY <1>3, <1>4, <2>2, <2>3
  <2>5. m \in Messages /\ m.sending_time = sent /\ m.sender = Sender /\ m.recipient = Recipient
        /\ m.fragment_size = NumFrags /\ m.ack.content = Ack(AckKey(m.id, s), Sender)
        /\ m.ack.hops \in Routes
    BY <2>1 DEF FragmentOfSet, s
  <2>6. MessageOK(m)'
    BY <1>10, <2>3, <2>4, <2>5 DEF MessageOK, AckKey, Ack
  <2> QED BY <2>3, <2>4, <2>6
<1>12. \A m, o \in New : m.id = o.id => m.fragment_set = o.fragment_set
                                          /\ m.fragment_index = o.fragment_index
  <2> SUFFICES ASSUME NEW k \in 1..NumFrags, NEW j \in 1..NumFrags,
                      xs[k].packet.content.id = xs[j].packet.content.id
               PROVE  xs[k] .packet.content.fragment_set = xs[j].packet.content.fragment_set
                      /\ xs[k].packet.content.fragment_index = xs[j].packet.content.fragment_index
    OBVIOUS
  <2>1. k \in Nat /\ j \in Nat
    BY <1>4
  <2>2. FragmentOfSet(xs[k].packet.content, k, sent) /\ FragmentOfSet(xs[j].packet.content, j, sent)
    BY <1>5
  <2>3. next_message_id + k - 1 = next_message_id + j - 1
    BY <2>2 DEF FragmentOfSet
  <2>4. k = j
    BY <1>4, <2>1, <2>3
  <2> QED BY <2>2, <2>4 DEF FragmentOfSet
<1>13. Live' \subseteq Live \cup New
  <2>1. \A n \in Nodes : \A p \in Items(ingress'[n]) : p.content.kind = "Message" =>
           p \in Items(ingress[n]) \/ p.content \in Live \cup New
    OBVIOUS
  <2>2. \A v \in Users : \A e \in Items(events'[v]) :
           \/ e \in Items(events[v])
           \/ /\ e.kind = "Message" => e.message \in Live \cup New
              /\ e.kind = "Egress" => e.packet.content \in Live \cup New
    BY <1>1, <1>5, <1>6, <1>8, UsersDiffer
  <2>3. \A v \in Users : \A id \in DOMAIN original_messages'[v] :
           \/ id \in DOMAIN original_messages[v] /\ original_messages'[v][id] = original_messages[v][id]
           \/ original_messages'[v][id] \in Live \cup New
    BY UsersDiffer
  <2> HIDE DEF New
  <2> QED BY <2>1, <2>2, <2>3, LiveMoved
<1> HIDE DEF New
<1>14. MessagesInv'
  <2>1. next_message_id' \in Nat /\ next_message_id <= next_message_id'
    BY <1>3, <1>4
  <2> QED BY <1>4, <1>10, <1>11, <1>12, <1>13, <2>1, MoreMessages
<1>15. RolesInv'
  <2>1. \A e \in Items(events'[Sender]) : /\ e.kind # "Message"
                                          /\ e.kind = "SendMessage" => e.num_frags = NumFrags
    BY <1>1, <1>5, <1>8 DEF RolesInv
  <2>2. \A n \in Nodes : \A p \in Items(ingress'[n]) : p.content.kind = "Ack" =>
          /\ p.content.recipient = Sender
          /\ p.content.message_id < AckKey(next_message_id, next_fragment_set)'
    <3> SUFFICES ASSUME NEW n \in Nodes, NEW p \in Items(ingress[n]), p.content.kind = "Ack"
                 PROVE  /\ p.content.recipient = Sender
                        /\ p.content.message_id < AckKey(next_message_id, next_fragment_set)'
      OBVIOUS
    <3>1. p \in Packets
      BY ItemsTyped DEF SimInv, QueuesInv
    <3>2. p.content.message_id \in Nat
      BY <3>1 DEF Packets, AckPackets, MessagePackets, Acks, Messages
    <3>3. p.content.recipient = Sender /\ p.content.message_id < AckKey(next_message_id, s)
      BY DEF RolesInv, s
    <3> QED BY <1>3, <1>4, <3>2, <3>3 DEF AckKey, s
  <2> QED BY <1>6, <2>1, <2>2 DEF RolesInv
<1>16. OriginInv'
  <2>1. DOMAIN origin' = 0..(next_fragment_set' - 1)
    <3>1. s \in Nat /\ next_fragment_set' - 1 = s
      BY <1>3, <1>4 DEF s
    <3>2. DOMAIN origin' = (0..(s - 1)) \cup {s}
      BY <1>9, <1>10
    <3>3. (0..(s - 1)) \cup {s} = 0..s
      BY <3>1
    <3> QED BY <3>1, <3>2, <3>3
  <2>2. \A k \in DOMAIN origin : origin[k].sent <= timestamp'
    BY <1>1 DEF OriginInv
  <2>3. \A v \in Users : \A k \in DOMAIN t_first[v] : t_first[v][k] \in Nat
    BY DEF SimInv, RecordsInv
  <2>4. \A v \in Users : \A k \in DOMAIN t_first[v] :
          /\ k \in DOMAIN origin /\ origin[k].sent <= t_first[v][k] /\ t_first[v][k] <= timestamp'
    BY <1>1, <2>3 DEF OriginInv
  <2>5. \A k \in DOMAIN origin' : /\ origin'[k].sent \in Nat /\ origin'[k].sent <= timestamp'
                                  /\ origin'[k].root \in Nat /\ origin'[k].root <= k
    BY <1>10, <2>2 DEF OriginInv, s
  <2> QED BY <1>10, <2>1, <2>4, <2>5 DEF OriginInv
<1>17. ASSUME NEW e \in Items(r), e \in Pending
       PROVE  /\ MessageOf(e)' = MessageOf(e) /\ Unit(MessageOf(e))' = Unit(MessageOf(e))
              /\ MessageOK(MessageOf(e)) /\ MessageOf(e).fragment_set \in DOMAIN origin
  <2>1. MessageOK(MessageOf(e)) /\ MessageOf(e).fragment_set \in DOMAIN origin
    BY <1>1, <1>17, PendingLive DEF MessageOK
  <2>2. MessageOf(e)' = MessageOf(e)
    BY <1>17 DEF MessageOf, Pending, r
  <2> QED BY <1>10, <2>1, <2>2 DEF Unit
<1>18. ASSUME NEW e, NEW k \in 1..NumFrags, e = xs[k]
       PROVE  /\ e \in Pending /\ e.kind = "Egress" /\ MessageOf(e)' = e.packet.content
              /\ MessageOf(e)'.fragment_set = s /\ MessageOf(e)'.fragment_index = k - 1
              /\ Unit(MessageOf(e))' = IF AckStrat = "PerFragment" THEN <<s, k - 1>> ELSE root
  <2>1. e.kind = "Egress" /\ e \in Pending /\ MessageOf(e)' = e.packet.content
    BY <1>5, <1>18 DEF Pending, MessageOf
  <2>2. MessageOf(e)'.fragment_set = s /\ MessageOf(e)'.fragment_index = k - 1
    BY <1>5, <1>18, <2>1 DEF FragmentOfSet, s
  <2> QED BY <1>10, <2>1, <2>2 DEF Unit
<1>19. PendingInv'
  <2>1. Avoids(r, Clashes')
    <3>1. \A e, f \in Items(r) : <<e, f>> \in Clashes' => <<e, f>> \in Clashes
      BY <1>17, ClashesMeaning
    <3> QED BY <1>1, <3>1, AvoidsFewer
  <2>2. \A e \in Items(r), k \in 1..NumFrags : <<e, xs[k]>> \notin Clashes' /\ <<xs[k], e>> \notin Clashes'
    <3> SUFFICES ASSUME NEW e \in Items(r), NEW f, NEW k \in 1..NumFrags, f = xs[k], e \in Pending,
                        Unit(MessageOf(e))' = Unit(MessageOf(f))'
                 PROVE  FALSE
      BY ClashesMeaning
    <3>1. MessageOf(e).fragment_set # s
      BY <1>9, <1>17
    <3>2. Unit(MessageOf(e)) = IF AckStrat = "PerFragment" THEN <<s, k - 1>> ELSE root
      BY <1>17, <1>18
    <3>3. AckStrat # "PerFragment"
      BY <3>1, <3>2 DEF Unit
    <3>4. AckStrat = "WholeMessage"
      BY <3>3, ConfigAssumption
    <3> QED BY <3>2, <3>3, <3>4 DEF Unit, r
  <2>3. \A k, j \in 1..NumFrags : k < j => <<xs[k], xs[j]>> \notin Clashes'
    <3> SUFFICES ASSUME NEW k \in 1..NumFrags, NEW j \in 1..NumFrags, k < j,
                        NEW e, e = xs[k], NEW f, f = xs[j], <<e, f>> \in Clashes'
                 PROVE  FALSE
      OBVIOUS
    <3>1. Unit(MessageOf(e))' = Unit(MessageOf(f))' /\ ~(AckStrat = "WholeMessage")
      BY <1>18, ClashesMeaning
    <3>2. AckStrat = "PerFragment"
      BY <3>1, ConfigAssumption
    <3>3. k - 1 = j - 1
      BY <1>18, <3>1, <3>2
    <3>4. k \in Nat /\ j \in Nat
      BY <1>4
    <3> QED BY <3>3, <3>4
  <2> DEFINE new == [k \in 1..Len(xs) |-> Entry(timestamp', xs[k])]
  <2>4. Avoids(new, Clashes')
    <3>1. Len(new) = NumFrags /\ \A k \in 1..NumFrags : new[k].item = xs[k]
      BY <1>4, <1>5 DEF Entry
    <3> HIDE DEF new
    <3> QED BY <2>3, <3>1 DEF Avoids
  <2>5. r \in Queues(UserEvents) /\ SortedByTime(r)
    BY <1>1 DEF DueFrom
  <2>6. Avoids(InsertAll(r, timestamp', xs), Clashes')
    BY <1>1, <1>5, <2>1, <2>2, <2>4, <2>5, InsertAllOrder
  <2>7. NoneAfter(InsertAll(r, timestamp', xs), timestamp', Leaving)
    BY <1>1, <1>5, <2>5, InsertAllTimes
  <2>8. ASSUME NEW e \in Items(events'[Sender]), e.kind = "AckTimeout"
        PROVE  /\ e.id \in DOMAIN original_messages'[Sender]
               /\ e.id = AckKey(original_messages'[Sender][e.id].id,
                                original_messages'[Sender][e.id].fragment_set)
    <3>1. e \in Items(r)
      BY <1>5, <1>8, <2>8
    <3>2. e \in Items(events[Sender]) /\ e \in Pending
      BY <1>1, <2>8, <3>1 DEF Pending
    <3>3. e.id = AckKey(MessageOf(e).id, MessageOf(e).fragment_set)
      BY <2>8, <3>2, PendingLive
    <3> QED BY <2>8, <3>1, <3>2, <3>3 DEF MessageOf, r
  <2> QED BY <1>6, <2>6, <2>7, <2>8 DEF PendingInv, AckKey, Leaving
<1>20. AckInv'
  <2>1. \A m \in Live' : m \in Live \/ (m.id \in Nat /\ m.id >= next_message_id)
    BY <1>11, <1>13
  <2>2. \A n \in Nodes : \A p \in Items(ingress'[n]) : p.content.kind = "Ack" =>
           p.content.message_id \in Nat /\ p \in Items(ingress[n])
    <3>1. \A n \in Nodes : Items(ingress[n]) \subseteq Packets
      BY ItemsTyped DEF SimInv, QueuesInv
    <3> QED BY <3>1 DEF Packets, AckPackets, MessagePackets, Acks, Messages
  <2>3. ASSUME NEW e \in Items(events'[Sender]), e \in Pending
        PROVE  \/ /\ MessageOf(e)'.fragment_set \in Nat
                  /\ MessageOf(e)'.fragment_set >= s
               \/ \E f \in Items(events[Sender]) :
                    /\ f \in Pending /\ MessageOf(f).fragment_set = MessageOf(e)'.fragment_set
                    /\ \A i : Arrived(MessageOf(f).fragment_set, i) =>
                                <<MessageOf(f).fragment_set, i>> \in fragments'[Recipient]
    <3>1. CASE e \in Items(r)
      BY <1>1, <1>17, <2>3, <3>1 DEF r
    <3>2. CASE \E k \in 1..NumFrags : e = xs[k]
      BY <1>4, <1>18, <3>2
    <3> QED BY <1>8, <3>1, <3>2
  <2> QED BY <1>4, <2>1, <2>2, <2>3, PendingAcks DEF s
<1> QED BY <1>2, <1>7, <1>14, <1>15, <1>16, <1>17, <1>19, <1>20 DEF r

LEMMA StartSendKeeps ==
  ASSUME RetransmissionInv, NEW u \in Users, StartSend(u)
  PROVE  RetransmissionInv'
<1> USE DEF RetransmissionInv
<1> DEFINE e0 == NextItem(events[Sender])
           r  == Pop(events[Sender])
           s  == next_fragment_set
<1>1. /\ u = Sender /\ UserTurn(Sender, "SendMessage")
      /\ timestamp' \in Nat /\ timestamp <= timestamp' /\ timestamp \in Nat
      /\ e0.kind = "SendMessage"
      /\ Items(events[Sender]) = Items(r) \cup {e0}
  BY SenderFront DEF StartSend
<1>2. e0.num_frags = NumFrags
  BY <1>1 DEF RolesInv
<1>3. /\ QueueMessages(Sender, Sender, Recipient, NumFrags, timestamp')
      /\ origin' = Put(origin, s, [root |-> s, sent |-> timestamp'])
      /\ UNCHANGED <<ingress, fragments, t_first, original_messages>>
  BY <1>1, <1>2 DEF StartSend
<1>4. s \in Nat
  BY DEF SimInv, RecordsInv
<1>5. ASSUME NEW e \in Items(r), e \in Pending
      PROVE  /\ e.kind = "AckTimeout" => e.id \in DOMAIN original_messages'[Sender]
             /\ origin[MessageOf(e).fragment_set].root # s
  <2>1. /\ e \in Items(events[Sender]) /\ MessageOf(e).fragment_set \in DOMAIN origin
        /\ e.kind = "AckTimeout" => e.id \in DOMAIN original_messages[Sender]
    BY <1>1, <1>5, PendingLive DEF MessageOK
  <2>2. origin[MessageOf(e).fragment_set].root < s
    BY <1>4, <2>1 DEF OriginInv
  <2> QED BY <1>3, <1>4, <2>1, <2>2
<1> HIDE DEF s
<1>6. /\ MessagesInv' /\ RolesInv' /\ OriginInv' /\ PendingInv' /\ AckInv'
      /\ \E xs : EgressOfSet(xs, timestamp') /\ Items(events'[Sender]) = Items(r) \cup {xs[k] : k \in 1..Len(xs)}
      /\ \A e \in Items(r) : e \in Pending => Unit(MessageOf(e))' = Unit(MessageOf(e))
  <2>1. DOMAIN original_messages' = Users
    BY <1>3 DEF RolesInv
  <2> DEFINE from == [root |-> s, sent |-> timestamp']
  <2>2. from.root = s /\ from.sent = timestamp' /\ origin' = Put(origin, s, from)
    BY <1>3
  <2> HIDE DEF from
  <2> QED BY <1>1, <1>3, <1>4, <1>5, <2>1, <2>2, NewSet DEF s, Arrived
<1>7. PICK xs : EgressOfSet(xs, timestamp') /\ Items(events'[Sender]) = Items(r) \cup {xs[k] : k \in 1..Len(xs)}
  BY <1>6
<1>8. NotForgottenInv'
  <2>1. ASSUME AckStrat = "PerFragment", NEW t \in DOMAIN origin', t \notin DOMAIN origin,
               NEW i \in 0..(NumFrags - 1)
        PROVE  \E e \in Items(events'[Sender]) : e \in Pending /\ Unit(MessageOf(e))' = <<t, i>>
    <3>1. t = s
      BY <1>3, <2>1 DEF Put
    <3>2. i + 1 \in 1..NumFrags
      BY ConfigAssumption
    <3> DEFINE e == xs[i + 1]
    <3>3. /\ e \in Items(events'[Sender]) /\ e \in Pending /\ e.kind = "Egress"
          /\ FragmentOfSet(e.packet.content, i + 1, timestamp')
      BY <1>7, <3>2 DEF EgressOfSet, Pending
    <3> HIDE DEF e
    <3>4. e.packet.content.fragment_set = s /\ e.packet.content.fragment_index = i
      BY <3>3 DEF FragmentOfSet, s
    <3>5. Unit(MessageOf(e))' = <<t, i>>
      BY <2>1, <3>1, <3>3, <3>4 DEF Unit, MessageOf
    <3> QED BY <3>3, <3>5
  <2>2. ASSUME NEW f \in Items(events[Sender]), f \in Pending
        PROVE  \E e \in Items(events'[Sender]) : e \in Pending /\ Unit(MessageOf(e))' = Unit(MessageOf(f))
    <3>1. f \in Items(r)
      BY <1>1, <2>2 DEF Pending
    <3> QED BY <1>6, <1>7, <2>2, <3>1
  <2> QED BY <1>3, <2>1, <2>2, PendingNotForgotten
<1>9. SimInv'
  BY StartSendInv
<1> QED BY <1>6, <1>8, <1>9

(***************************************************************************)
(* A message that is not acknowledged in time: its timeout was the last    *)
(* event of the sender's queue that stands for it.                         *)
(***************************************************************************)
LEMMA ResendMessageKeeps ==
  ASSUME RetransmissionInv, NEW u \in Users, ResendMessage(u)
  PROVE  RetransmissionInv'
<1> USE DEF RetransmissionInv
<1> DEFINE e0 == NextItem(events[Sender])
           r  == Pop(events[Sender])
           s  == next_fragment_set
           id == e0.id
           stored == original_messages[Sender]
           m  == stored[id]
<1>1. /\ u = Sender /\ UserTurn(Sender, "AckTimeout")
      /\ timestamp' \in Nat /\ timestamp <= timestamp' /\ timestamp \in Nat
      /\ e0 \in UserEvents /\ e0.kind = "AckTimeout"
      /\ Items(events[Sender]) = Items(r) \cup {e0}
      /\ \A f \in Items(r) : <<e0, f>> \notin Clashes
  BY SenderFront DEF ResendMessage
<1>2. AckStrat = "WholeMessage"
  BY DEF ResendMessage
<1>3. /\ e0 \in Items(events[Sender]) /\ e0 \in Pending /\ MessageOf(e0) = m
      /\ MessageOK(m) /\ id = m.fragment_set
  <2>1. e0 \in Items(events[Sender]) /\ e0 \in Pending /\ MessageOf(e0) = m
    BY <1>1 DEF Pending, MessageOf
  <2> QED BY <1>1, <1>2, <2>1, PendingLive DEF AckKey
<1>4. /\ QueueMessages(Sender, m.sender, m.recipient, m.fragment_size, m.sending_time)
      /\ original_messages' = [original_messages EXCEPT ![Sender] = Restrict(@, DOMAIN @ \ {id})]
      /\ fragments' = [fragments EXCEPT ![m.recipient] = @ \ FragmentsOf(m.recipient, m.fragment_set)]
      /\ origin' = Put(origin, s, origin[m.fragment_set])
      /\ UNCHANGED <<ingress, t_first>>
  BY <1>1 DEF ResendMessage
<1> DEFINE from == origin[m.fragment_set]
           rest == Restrict(stored, DOMAIN stored \ {id})
<1>5. /\ m.sender = Sender /\ m.recipient = Recipient /\ m.fragment_size = NumFrags
      /\ m.sending_time = from.sent /\ m.fragment_set \in DOMAIN origin
  BY <1>3 DEF MessageOK
<1>6. s \in Nat /\ fragments \in [Users -> SUBSET (Nat \X Nat)]
  BY DEF SimInv, RecordsInv
<1>7. /\ from.sent \in Nat /\ from.sent <= timestamp' /\ from.root \in Nat /\ from.root <= s
  <2>1. /\ from.sent \in Nat /\ from.sent <= timestamp
        /\ from.root \in Nat /\ from.root <= m.fragment_set /\ m.fragment_set \in 0..(s - 1)
    BY <1>5 DEF OriginInv
  <2> HIDE DEF from, m, s
  <2> QED BY <1>1, <1>6, <2>1
<1>8. /\ DOMAIN original_messages' = Users
      /\ original_messages'[Recipient] = original_messages[Recipient]
      /\ original_messages'[Sender] = rest
  BY <1>4, UsersDiffer DEF RolesInv
<1>9. DOMAIN rest = DOMAIN stored \ {id} /\ \A k \in DOMAIN rest : rest[k] = stored[k]
  BY DEF Restrict
<1>10. fragments'[Recipient] = fragments[Recipient] \ FragmentsOf(Recipient, m.fragment_set)
  BY <1>4, <1>5, <1>6, UsersDiffer
<1> HIDE DEF e0, r, s, id, m, stored, from, rest
<1>11. ASSUME NEW e \in Items(r), e \in Pending
       PROVE  /\ e.kind = "AckTimeout" => e.id \in DOMAIN rest
              /\ origin[MessageOf(e).fragment_set].root # from.root
              /\ \A i : Arrived(MessageOf(e).fragment_set, i) =>
                          <<MessageOf(e).fragment_set, i>> \in fragments'[Recipient]
  <2>1. e \in Items(events[Sender])
    BY <1>1, <1>11
  <2>2. Unit(MessageOf(e)) # Unit(m)
    BY <1>1, <1>3, <1>11, ClashesMeaning
  <2>3. origin[MessageOf(e).fragment_set].root # from.root
    BY <1>2, <2>2 DEF Unit, from
  <2>4. MessageOf(e).fragment_set # m.fragment_set
    BY <2>3 DEF from
  <2>5. e.kind = "AckTimeout" => e.id \in DOMAIN stored /\ e.id = MessageOf(e).fragment_set
    BY <1>2, <1>11, <2>1, PendingLive DEF AckKey, stored
  <2>6. e.kind = "AckTimeout" => e.id \in DOMAIN rest
    BY <1>3, <1>9, <2>4, <2>5
  <2>7. \A i : Arrived(MessageOf(e).fragment_set, i) =>
                 <<MessageOf(e).fragment_set, i>> \in fragments'[Recipient]
    BY <1>10, <2>4 DEF Arrived, FragmentsOf
  <2> QED BY <2>3, <2>6, <2>7
<1>12. MessagesInv' /\ RolesInv' /\ OriginInv' /\ PendingInv' /\ AckInv'
  <2>1. QueueMessages(Sender, Sender, Recipient, NumFrags, from.sent)
    BY <1>4, <1>5
  <2>2. origin' = Put(origin, next_fragment_set, from)
    BY <1>4 DEF from, s
  <2>3. \A k \in DOMAIN original_messages'[Sender] :
          /\ k \in DOMAIN original_messages[Sender]
          /\ original_messages'[Sender][k] = original_messages[Sender][k]
    BY <1>8, <1>9 DEF stored
  <2>4. \A e \in Items(Pop(events[Sender])) : e \in Pending =>
          /\ e.kind = "AckTimeout" => e.id \in DOMAIN original_messages'[Sender]
          /\ AckStrat = "WholeMessage" => origin[MessageOf(e).fragment_set].root # from.root
          /\ \A i : Arrived(MessageOf(e).fragment_set, i) =>
                      <<MessageOf(e).fragment_set, i>> \in fragments'[Recipient]
    BY <1>8, <1>11 DEF r
  <2>5. fragments'[Recipient] \subseteq fragments[Recipient] /\ AckStrat # "PerFragment"
    BY <1>2, <1>10
  <2>6. from.root <= next_fragment_set
    BY <1>7 DEF s
  <2>7. ingress' = ingress /\ t_first' = t_first
    BY <1>4
  <2> QED BY <1>1, <1>7, <1>8, <2>1, <2>2, <2>3, <2>4, <2>5, <2>6, <2>7, NewSet
<1>13. SimInv' /\ NotForgottenInv'
  BY <1>2, ResendMessageInv DEF NotForgottenInv
<1> QED BY <1>12, <1>13

(***************************************************************************)
(* A fragment that is not acknowledged in time is queued once more, under  *)
(* a new id, in place of its timeout.                                      *)
(***************************************************************************)
LEMMA ResendFragmentKeeps ==
  ASSUME RetransmissionInv, NEW u \in Users, ResendFragment(u)
  PROVE  RetransmissionInv'
<1> USE DEF RetransmissionInv
<1> DEFINE e0 == NextItem(events[Sender])
           r  == Pop(events[Sender])
           id == e0.id
           stored == original_messages[Sender]
           m  == stored[id]
           rest == Restrict(stored, DOMAIN stored \ {id})
<1>1. /\ u = Sender
      /\ timestamp' \in Nat /\ timestamp <= timestamp' /\ timestamp \in Nat
      /\ e0 \in UserEvents /\ e0.kind = "AckTimeout"
      /\ Items(events[Sender]) = Items(r) \cup {e0}
      /\ Items(events[Sender]) \subseteq UserEvents
      /\ DueFrom(r, UserEvents, timestamp')
      /\ Avoids(r, Clashes)
      /\ \A f \in Items(r) : <<e0, f>> \notin Clashes
      /\ NoneAfter(r, timestamp', Leaving)
  BY SenderFront DEF ResendFragment
<1>2. AckStrat = "PerFragment"
  BY DEF ResendFragment
<1>3. /\ e0 \in Items(events[Sender]) /\ e0 \in Pending /\ MessageOf(e0) = m
      /\ m \in Live /\ MessageOK(m) /\ id = m.id /\ id \in DOMAIN stored
  <2>1. e0 \in Items(events[Sender]) /\ e0 \in Pending /\ MessageOf(e0) = m
    BY <1>1 DEF Pending, MessageOf
  <2> QED BY <1>1, <1>2, <2>1, PendingLive DEF AckKey
<1>4. PICK way \in Drawable, ackWay \in Drawable :
        events' = [events EXCEPT ![Sender] =
                     Insert(r, timestamp', Egress(Retransmission(Sender, m, way, ackWay)))]
  BY <1>1 DEF ResendFragment
<1>5. /\ original_messages' = [original_messages EXCEPT ![Sender] = Restrict(@, DOMAIN @ \ {id})]
      /\ next_message_id' = next_message_id + 1
      /\ UNCHANGED <<ingress, fragments, t_first, next_fragment_set, origin>>
  BY <1>1 DEF ResendFragment
<1>6. /\ next_message_id \in Nat /\ next_fragment_set \in Nat /\ way \in Routes /\ ackWay \in Path
      /\ ackWay \in Routes /\ DOMAIN events = Users
  BY <1>4, RouteAssumption DEF SimInv, QueuesInv, RecordsInv, Drawable
<1> DEFINE ack == Packet(ackWay, Ack(next_message_id, Sender))
           c   == [m EXCEPT !.id = next_message_id, !.ack = ack]
           x   == Egress(Retransmission(Sender, m, way, ackWay))
<1>7. m \in Messages
  BY <1>3 DEF MessageOK
<1>8. ack \in AckPackets /\ ack.content = Ack(next_message_id, Sender) /\ ack.hops \in Routes
  BY <1>6, UsersDiffer DEF Packet, AckPackets, Ack, Acks
<1>9. x = Egress(Packet(way, c))
  BY DEF Retransmission
<1> HIDE DEF e0, r, id, stored, m, rest, ack, x
<1>10. c \in Messages
  BY <1>6, <1>7, <1>8 DEF Messages
<1>11. /\ c.id = next_message_id /\ c.ack = ack
       /\ c.sending_time = m.sending_time /\ c.sender = m.sender /\ c.recipient = m.recipient
       /\ c.fragment_set = m.fragment_set /\ c.fragment_size = m.fragment_size
       /\ c.fragment_index = m.fragment_index
  BY <1>7 DEF Messages
<1> HIDE DEF c
<1>12. x.kind = "Egress" /\ x.packet.content = c /\ x \in UserEvents /\ x \in Pending
  <2>1. Packet(way, c) \in [hops : Routes, content : Messages]
    BY <1>6, <1>10 DEF Packet
  <2>2. x.kind = "Egress" /\ x.packet = Packet(way, c) /\ x \in UserEvents
    BY <1>9, <2>1 DEF Egress, UserEvents
  <2>3. x.packet.content = c
    BY <2>2 DEF Packet
  <2> QED BY <2>2, <2>3 DEF Pending
<1>13. /\ DOMAIN original_messages' = Users
       /\ original_messages'[Recipient] = original_messages[Recipient]
       /\ original_messages'[Sender] = rest
  BY <1>5, UsersDiffer DEF RolesInv, rest, stored
<1>14. DOMAIN rest = DOMAIN stored \ {id} /\ \A k \in DOMAIN rest : rest[k] = stored[k]
  BY DEF Restrict, rest
<1>15. /\ events'[Sender] = Insert(r, timestamp', x) /\ events'[Recipient] = events[Recipient]
       /\ Items(Insert(r, timestamp', x)) = Items(r) \cup {x}
  BY <1>1, <1>4, <1>6, <1>12, ItemsInsert, UsersDiffer DEF x
<1>16. ASSUME NEW o, o = c PROVE MessageOK(o)'
  <2>1. next_message_id < next_message_id'
    BY <1>5, <1>6
  <2>2. MessageOK(m) /\ origin' = origin
    BY <1>3, <1>5
  <2> QED BY <1>2, <1>8, <1>10, <1>11, <1>16, <2>1, <2>2 DEF MessageOK, AckKey, Ack
<1>17. Live' \subseteq Live \cup {c}
  <2> DEFINE New == {c}
  <2>1. \A n \in Nodes : \A p \in Items(ingress'[n]) : p.content.kind = "Message" =>
           p \in Items(ingress[n]) \/ p.content \in Live \cup New
    BY <1>5
  <2>2. \A v \in Users : \A e \in Items(events'[v]) :
           \/ e \in Items(events[v])
           \/ /\ e.kind = "Message" => e.message \in Live \cup New
              /\ e.kind = "Egress" => e.packet.content \in Live \cup New
    BY <1>1, <1>12, <1>15, UsersDiffer
  <2>3. \A v \in Users : \A k \in DOMAIN original_messages'[v] :
           \/ k \in DOMAIN original_messages[v] /\ original_messages'[v][k] = original_messages[v][k]
           \/ original_messages'[v][k] \in Live \cup New
    BY <1>13, <1>14, UsersDiffer DEF stored
  <2> HIDE DEF New
  <2>4. Live' \subseteq Live \cup New
    BY <2>1, <2>2, <2>3, LiveMoved
  <2> QED BY <2>4 DEF New
<1>18. MessagesInv'
  <2> DEFINE New == {c}
  <2>1. \A o \in New : MessageOK(o)' /\ o.id >= next_message_id
    BY <1>6, <1>11, <1>16
  <2>2. next_message_id' \in Nat /\ next_message_id <= next_message_id'
    BY <1>5, <1>6
  <2>3. Live' \subseteq Live \cup New
    BY <1>17
  <2>4. \A o, q \in New : o.id = q.id => o.fragment_set = q.fragment_set
                                         /\ o.fragment_index = q.fragment_index
    OBVIOUS
  <2>5. \A k \in DOMAIN origin : k \in DOMAIN origin' /\ origin'[k] = origin[k]
    BY <1>5
  <2> HIDE DEF New
  <2> QED BY <1>6, <2>1, <2>2, <2>3, <2>4, <2>5, MoreMessages
<1>19. RolesInv'
  <2>1. \A e \in Items(events'[Sender]) : /\ e.kind # "Message"
                                          /\ e.kind = "SendMessage" => e.num_frags = NumFrags
    BY <1>1, <1>12, <1>15 DEF RolesInv
  <2>2. ASSUME NEW n \in Nodes, NEW p \in Items(ingress[n]), p.content.kind = "Ack"
        PROVE  /\ p.content.recipient = Sender
               /\ p.content.message_id < AckKey(next_message_id, next_fragment_set)'
    <3>1. p \in Packets
      BY ItemsTyped DEF SimInv, QueuesInv
    <3>2. p.content.message_id \in Nat
      BY <2>2, <3>1 DEF Packets, AckPackets, MessagePackets, Acks, Messages
    <3>3. p.content.recipient = Sender /\ p.content.message_id < next_message_id
      BY <1>2, <2>2 DEF RolesInv, AckKey
    <3> QED BY <1>2, <1>5, <1>6, <3>2, <3>3 DEF AckKey
  <2> QED BY <1>5, <1>13, <1>15, <2>1, <2>2 DEF RolesInv
<1>20. OriginInv'
  BY <1>1, <1>5, SameOrigin
<1>21. ASSUME NEW e \in Items(r), e \in Pending
       PROVE  /\ MessageOf(e)' = MessageOf(e) /\ Unit(MessageOf(e))' = Unit(MessageOf(e))
              /\ Unit(MessageOf(e)) # Unit(m)
              /\ e.kind = "AckTimeout" => e.id \in DOMAIN rest /\ e.id = MessageOf(e).id
  <2>1. e \in Items(events[Sender])
    BY <1>1, <1>21
  <2>2. Unit(MessageOf(e)) # Unit(m)
    BY <1>1, <1>2, <1>3, <1>21, ClashesMeaning
  <2>3. e.kind = "AckTimeout" => e.id \in DOMAIN stored /\ e.id = MessageOf(e).id
                                 /\ MessageOf(e) = stored[e.id]
    BY <1>2, <1>21, <2>1, PendingLive DEF AckKey, stored, MessageOf
  <2>4. e.kind = "AckTimeout" => e.id # id
    BY <2>2, <2>3 DEF m
  <2>5. e.kind = "AckTimeout" => e.id \in DOMAIN rest
    BY <1>14, <2>3, <2>4
  <2>6. MessageOf(e)' = MessageOf(e)
    <3>1. CASE e.kind = "Egress"
      BY <3>1 DEF MessageOf
    <3>2. CASE e.kind # "Egress"
      <4>1. e.kind = "AckTimeout"
        BY <1>21, <3>2 DEF Pending
      <4>2. original_messages'[Sender][e.id] = stored[e.id]
        BY <1>13, <1>14, <2>5, <4>1
      <4> QED BY <3>2, <4>1, <4>2 DEF MessageOf, stored
    <3> QED BY <3>1, <3>2
  <2> QED BY <1>5, <2>2, <2>3, <2>5, <2>6 DEF Unit
<1>22. ASSUME NEW e, e = x
       PROVE  MessageOf(e)' = c /\ Unit(MessageOf(e))' = Unit(m)
  <2>1. MessageOf(e)' = c
    BY <1>12, <1>22 DEF MessageOf
  <2> QED BY <1>2, <1>11, <2>1 DEF Unit
<1>23. PendingInv'
  <2>1. Avoids(r, Clashes')
    <3>1. \A e, f \in Items(r) : <<e, f>> \in Clashes' => <<e, f>> \in Clashes
      BY <1>21, ClashesMeaning
    <3> QED BY <1>1, <3>1, AvoidsFewer
  <2>2. \A e \in Items(r) : <<e, x>> \notin Clashes' /\ <<x, e>> \notin Clashes'
    BY <1>21, <1>22, ClashesMeaning
  <2>3. Avoids(Insert(r, timestamp', x), Clashes')
    BY <1>1, <1>12, <2>1, <2>2, InsertOrder
  <2>4. NoneAfter(Insert(r, timestamp', x), timestamp', Leaving)
    BY <1>1, <1>12, InsertTimes
  <2>5. ASSUME NEW e \in Items(events'[Sender]), e.kind = "AckTimeout"
        PROVE  /\ e.id \in DOMAIN original_messages'[Sender]
               /\ e.id = AckKey(original_messages'[Sender][e.id].id,
                                original_messages'[Sender][e.id].fragment_set)
    <3>1. e \in Items(r)
      BY <1>12, <1>15, <2>5
    <3>2. e \in Pending
      BY <1>1, <2>5, <3>1 DEF Pending
    <3>3. MessageOf(e)' = original_messages'[Sender][e.id]
      BY <2>5 DEF MessageOf
    <3> QED BY <1>2, <1>13, <1>21, <2>5, <3>1, <3>2, <3>3 DEF AckKey
  <2> QED BY <1>15, <2>3, <2>4, <2>5 DEF PendingInv, AckKey, Leaving
<1>24. AckInv'
  <2>1. \A o \in Live' : o \in Live \/ (o.id \in Nat /\ o.id >= next_message_id)
    BY <1>6, <1>11, <1>17
  <2>2. \A n \in Nodes : \A p \in Items(ingress'[n]) : p.content.kind = "Ack" =>
           p.content.message_id \in Nat /\ p \in Items(ingress[n])
    <3>1. \A n \in Nodes : Items(ingress[n]) \subseteq Packets
      BY ItemsTyped DEF SimInv, QueuesInv
    <3> QED BY <1>5, <3>1 DEF Packets, AckPackets, MessagePackets, Acks, Messages
  <2> QED BY <1>2, <1>5, <1>6, <2>1, <2>2, PendingAcks
<1>25. NotForgottenInv'
  <2>1. ASSUME NEW f \in Items(events[Sender]), f \in Pending
        PROVE  \E e \in Items(events'[Sender]) : e \in Pending /\ Unit(MessageOf(e))' = Unit(MessageOf(f))
    <3>1. CASE f \in Items(r)
      BY <1>15, <1>21, <2>1, <3>1
    <3>2. CASE f = e0
      BY <1>3, <1>12, <1>15, <1>22, <3>2
    <3> QED BY <1>1, <3>1, <3>2
  <2> QED BY <1>5, <2>1, PendingNotForgotten
<1>26. SimInv'
  BY ResendFragmentInv
<1> QED BY <1>18, <1>19, <1>20, <1>23, <1>24, <1>25, <1>26

-------------------------------------------------------------------------------
LEMMA InitRetransmission == Init => RetransmissionInv
<1> SUFFICES ASSUME Init PROVE RetransmissionInv
  OBVIOUS
<1> DEFINE q == [i \in 1..NumSends |-> Entry(0, SendMessage(NumFrags))]
<1>1. SimInv
  BY InitSimInv
<1>2. /\ events[Sender] = q /\ events[Recipient] = <<>>
      /\ \A n \in Nodes : ingress[n] = <<>>
      /\ \A u \in Users : DOMAIN original_messages[u] = {} /\ DOMAIN t_first[u] = {}
      /\ DOMAIN original_messages = Users /\ fragments[Recipient] = {}
      /\ next_fragment_set = 0 /\ DOMAIN origin = {} /\ timestamp = 0
  BY UsersDiffer DEF Init
<1>3. Items(<<>>) = {}
  BY DEF Items
<1>4. Len(q) = NumSends /\ \A i \in 1..Len(q) : q[i].item = SendMessage(NumFrags)
  BY ConfigAssumption DEF Entry
<1> HIDE DEF q
<1>5. \A e \in Items(events[Sender]) : e.kind = "SendMessage" /\ e.num_frags = NumFrags
  BY <1>2, <1>4 DEF Items, SendMessage
<1>6. Live = {}
  <2> SUFFICES ASSUME NEW m \in Live PROVE FALSE
    OBVIOUS
  <2>1. \/ \E n \in Nodes : \E p \in Items(ingress[n]) : p.content.kind = "Message" /\ m = p.content
        \/ \E u \in Users : \E e \in Items(events[u]) : e.kind = "Message" /\ m = e.message
        \/ \E u \in Users : \E e \in Items(events[u]) : e.kind = "Egress" /\ m = e.packet.content
        \/ \E u \in Users : \E id \in DOMAIN original_messages[u] : m = original_messages[u][id]
    BY MessagesInWhere DEF Live
  <2> QED BY <1>2, <1>3, <1>5, <2>1, UsersDiffer
<1>7. MessagesInv
  BY <1>6 DEF MessagesInv
<1>8. RolesInv
  BY <1>2, <1>3, <1>5, UsersDiffer DEF RolesInv
<1>9. OriginInv
  BY <1>2 DEF OriginInv
<1>10. PendingInv
  <2>1. \A i \in 1..Len(q) : q[i].item \notin Pending /\ q[i].item \notin Leaving
    BY <1>4 DEF Pending, Leaving, SendMessage
  <2>2. Avoids(q, Clashes)
    BY <2>1, ClashesMeaning DEF Avoids
  <2>3. NoneAfter(q, timestamp, Leaving)
    BY <2>1 DEF NoneAfter
  <2> QED BY <1>2, <1>5, <2>2, <2>3 DEF PendingInv
<1>11. AckInv /\ NotForgottenInv
  BY <1>2, <1>3 DEF AckInv, NotForgottenInv
<1> QED BY <1>1, <1>7, <1>8, <1>9, <1>10, <1>11 DEF RetransmissionInv

(***************************************************************************)
(* One step of the simulation keeps RetransmissionInv.                     *)
(***************************************************************************)
LEMMA NextRetransmission == RetransmissionInv /\ [Next]_vars => RetransmissionInv'
<1> SUFFICES ASSUME RetransmissionInv, [Next]_vars PROVE RetransmissionInv'
  OBVIOUS
<1>1. ASSUME NEW n \in Nodes, NodeMessage(n) PROVE RetransmissionInv'
  BY <1>1, NodeMessageKeeps
<1>2. ASSUME NEW n \in Nodes, NodeAck(n) PROVE RetransmissionInv'
  BY <1>2, NodeAckKeeps
<1>3. ASSUME NEW n \in Nodes, NodeForward(n) PROVE RetransmissionInv'
  BY <1>3, NodeForwardKeeps
<1>4. ASSUME NEW u \in Users, ReceiveMessage(u) PROVE RetransmissionInv'
  BY <1>4, ReceiveMessageKeeps
<1>5. ASSUME NEW u \in Users, NEW dropped \in BOOLEAN, EgressPacket(u, dropped)
      PROVE  RetransmissionInv'
  BY <1>5, EgressPacketKeeps
<1>6. ASSUME NEW u \in Users, StartSend(u) PROVE RetransmissionInv'
  BY <1>6, StartSendKeeps
<1>7. ASSUME NEW u \in Users, ResendFragment(u) PROVE RetransmissionInv'
  BY <1>7, ResendFragmentKeeps
<1>8. ASSUME NEW u \in Users, ResendMessage(u) PROVE RetransmissionInv'
  BY <1>8, ResendMessageKeeps
<1>9. CASE UNCHANGED vars
  <2> USE DEF RetransmissionInv
  <2>1. /\ events' = events /\ ingress' = ingress /\ original_messages' = original_messages
        /\ origin' = origin /\ timestamp' = timestamp /\ t_first' = t_first
        /\ fragments' = fragments /\ next_message_id' = next_message_id
        /\ next_fragment_set' = next_fragment_set
    BY <1>9 DEF vars, simVars
  <2>2. timestamp' \in Nat /\ timestamp <= timestamp'
    BY <2>1 DEF SimInv, QueuesInv
  <2>3. Live' = Live
    BY <2>1 DEF Live
  <2>4. SimInv'
    BY NextSimInv
  <2>5. RolesInv'
    BY <2>1 DEF RolesInv, AckKey
  <2>6. MessagesInv' /\ OriginInv' /\ PendingInv'
    BY <2>1, <2>2, <2>3, SameMessages, SameOrigin, SamePending
  <2>7. AckInv' /\ NotForgottenInv'
    BY <2>1, <2>3, SameAcks, SameNotForgotten
  <2> QED BY <2>4, <2>5, <2>6, <2>7
<1> QED BY <1>1, <1>2, <1>3, <1>4, <1>5, <1>6, <1>7, <1>8, <1>9 DEF Next, Step, Stop

LEMMA RetransmissionInvariant == Spec => []RetransmissionInv
<1>1. Init => RetransmissionInv
  BY InitRetransmission
<1>2. RetransmissionInv /\ [Next]_vars => RetransmissionInv'
  BY NextRetransmission
<1> QED BY <1>1, <1>2, PTL DEF Spec

-------------------------------------------------------------------------------
(***************************************************************************)
(* However fragments are lost, delayed and acknowledged, a timeout that    *)
(* fires finds its own message: the unwrap()s of both AckTimeout handlers  *)
(* of Simulation::step never panic.                                        *)
(***************************************************************************)
THEOREM TimeoutsUnwrap == Spec => []TimeoutUnwraps
<1>1. RetransmissionInv => TimeoutUnwraps
  <2> SUFFICES ASSUME RetransmissionInv,
                      NEW u \in Users, NEW e \in Items(events[u]), e.kind = "AckTimeout"
               PROVE  /\ e.id \in DOMAIN original_messages[u]
                      /\ e.id = AckKey(original_messages[u][e.id].id,
                                       original_messages[u][e.id].fragment_set)
    BY DEF TimeoutUnwraps
  <2>1. u # Recipient
    <3>1. u = Recipient => e \in Items(events[Recipient])
      OBVIOUS
    <3> QED BY <3>1 DEF RetransmissionInv, RolesInv
  <2>2. u = Sender
    BY <2>1 DEF Users
  <2>3. e \in Items(events[Sender])
    BY <2>2
  <2> QED BY <2>2, <2>3 DEF RetransmissionInv, PendingInv
<1> QED BY <1>1, RetransmissionInvariant, PTL

(***************************************************************************)
(* A set of positions with no two in it has at most one.                   *)
(***************************************************************************)
LEMMA AtMostOne ==
  ASSUME NEW n \in Nat, NEW P, P \subseteq 1..n, \A k, l \in P : k = l
  PROVE  Cardinality(P) <= 1
<1>1. IsFiniteSet(P)
  BY InitialSegment, FS_Subset
<1>2. CASE P = {}
  <2>1. Cardinality(P) = 0
    BY <1>1, <1>2, FS_EmptySet
  <2> QED BY <2>1
<1>3. CASE P # {}
  <2>1. PICK k : k \in P
    BY <1>3
  <2>2. P = {k}
    BY <2>1
  <2>3. Cardinality(P) = 1
    BY <1>1, <2>2, FS_Singleton
  <2> QED BY <2>3
<1> QED BY <1>2, <1>3

(***************************************************************************)
(* Positions that make the sender transmit the same unit again.            *)
(***************************************************************************)
UnitOf(s, i) == IF AckStrat = "PerFragment" THEN <<s, i>> ELSE origin[s].root

LEMMA PendingPositions ==
  ASSUME RetransmissionInv, NEW s \in DOMAIN origin, NEW i
  PROVE  /\ events[Sender] \in Queues(UserEvents)
         /\ \A k \in Timeouts(s, i) \cup Queued(s, i) :
              /\ k \in 1..Len(events[Sender])
              /\ events[Sender][k].item \in Pending
              /\ Unit(MessageOf(events[Sender][k].item)) = UnitOf(s, i)
         /\ \A k \in Timeouts(s, i) : events[Sender][k].item.kind = "AckTimeout"
         /\ \A k \in Queued(s, i) :
              /\ events[Sender][k].item.kind = "Egress"
              /\ MessageOf(events[Sender][k].item) = events[Sender][k].item.packet.content
<1> DEFINE q == events[Sender]
<1>1. q \in Queues(UserEvents) /\ \A k \in 1..Len(q) : q[k].item \in UserEvents
  BY UsersDiffer, QueueEntries DEF RetransmissionInv, SimInv, QueuesInv, DueFrom
<1>3. ASSUME NEW k \in Timeouts(s, i)
      PROVE  /\ k \in 1..Len(q) /\ q[k].item.kind = "AckTimeout" /\ q[k].item \in Pending
             /\ Unit(MessageOf(q[k].item)) = UnitOf(s, i)
  <2>1. k \in 1..Len(q) /\ q[k].item.kind = "AckTimeout"
        /\ SameUnit(original_messages[Sender][q[k].item.id], s, i)
    BY DEF Timeouts
  <2>2. MessageOf(q[k].item) = original_messages[Sender][q[k].item.id]
    BY <2>1 DEF MessageOf
  <2> QED BY <1>1, <2>1, <2>2 DEF SameUnit, Unit, UnitOf, Pending
<1>4. ASSUME NEW k \in Queued(s, i)
      PROVE  /\ k \in 1..Len(q) /\ q[k].item.kind = "Egress" /\ q[k].item \in Pending
             /\ MessageOf(q[k].item) = q[k].item.packet.content
             /\ Unit(MessageOf(q[k].item)) = UnitOf(s, i)
  <2>1. k \in 1..Len(q) /\ q[k].item.kind = "Egress" /\ SameUnit(q[k].item.packet.content, s, i)
    BY DEF Queued
  <2>2. MessageOf(q[k].item) = q[k].item.packet.content
    BY <2>1 DEF MessageOf
  <2> QED BY <1>1, <2>1, <2>2 DEF SameUnit, Unit, UnitOf, Pending
<1> QED BY <1>1, <1>3, <1>4

(***************************************************************************)
(* A retransmission never runs beside another attempt at the same fragment *)
(* or message that can itself time out: timeouts and queued packets of one *)
(* unit exclude one another in User::events.                               *)
(***************************************************************************)
THEOREM OneAttempt == Spec => []OneLiveAttempt
<1>1. RetransmissionInv => OneLiveAttempt
  <2> SUFFICES ASSUME RetransmissionInv, NEW s \in DOMAIN origin, NEW i \in 0..(NumFrags - 1)
               PROVE  /\ Cardinality(Timeouts(s, i)) <= 1
                      /\ AckStrat = "PerFragment" => Cardinality(Queued(s, i) \cup Timeouts(s, i)) <= 1
                      /\ \A k, l \in Queued(s, i) : events[Sender][k].item.packet.content.fragment_set
                                                  = events[Sender][l].item.packet.content.fragment_set
    BY DEF OneLiveAttempt
  <2> DEFINE q == events[Sender]
             P == Timeouts(s, i) \cup Queued(s, i)
  <2>1. q \in Queues(UserEvents) /\ Len(q) \in Nat
    BY PendingPositions, QueueEntries
  <2>2. P \subseteq 1..Len(q)
    BY PendingPositions
  <2>3. ASSUME NEW k \in P, NEW l \in P, k < l
        PROVE  /\ AckStrat = "WholeMessage" /\ q[k].item.kind = "Egress"
               /\ MessageOf(q[k].item).fragment_set = MessageOf(q[l].item).fragment_set
    <3>1. /\ Unit(MessageOf(q[k].item)) = UnitOf(s, i) /\ q[k].item \in Pending
          /\ Unit(MessageOf(q[l].item)) = UnitOf(s, i) /\ q[l].item \in Pending
      BY PendingPositions
    <3>2. <<q[k].item, q[l].item>> \notin Clashes
      BY <2>2, <2>3 DEF RetransmissionInv, PendingInv, Avoids
    <3> QED BY <3>1, <3>2, ClashesMeaning
  <2>4. \A k \in P : k \in Nat
    BY <2>2
  <2>5. \A k, l \in Timeouts(s, i) : k = l
    <3> SUFFICES ASSUME NEW k \in Timeouts(s, i), NEW l \in Timeouts(s, i), k < l PROVE FALSE
      BY <2>4
    <3>1. q[k].item.kind = "AckTimeout" /\ k \in P /\ l \in P
      BY PendingPositions
    <3> QED BY <2>3, <3>1
  <2>6. AckStrat = "PerFragment" => \A k, l \in P : k = l
    BY <2>3, <2>4
  <2>7. \A k, l \in Queued(s, i) : q[k].item.packet.content.fragment_set
                                 = q[l].item.packet.content.fragment_set
    <3> SUFFICES ASSUME NEW k \in Queued(s, i), NEW l \in Queued(s, i), k < l
                 PROVE  q[k].item.packet.content.fragment_set = q[l].item.packet.content.fragment_set
      BY <2>4
    <3>1. /\ MessageOf(q[k].item) = q[k].item.packet.content
          /\ MessageOf(q[l].item) = q[l].item.packet.content
      BY PendingPositions
    <3> QED BY <2>3, <3>1
  <2>8. Cardinality(Timeouts(s, i)) <= 1
    BY <2>1, <2>2, <2>5, AtMostOne
  <2>9. AckStrat = "PerFragment" => Cardinality(P) <= 1
    BY <2>1, <2>2, <2>6, AtMostOne
  <2>10. P = Queued(s, i) \cup Timeouts(s, i)
    OBVIOUS
  <2> HIDE DEF P, q
  <2> QED BY <2>7, <2>8, <2>9, <2>10 DEF q
<1> QED BY <1>1, RetransmissionInvariant, PTL

(***************************************************************************)
(* Per fragment, no fragment is ever given up before it arrived: until     *)
(* then User::events holds its packet or the timeout that queues it again. *)
(***************************************************************************)
THEOREM NeverForgotten == Spec => []FragmentNotForgotten
<1>1. RetransmissionInv => FragmentNotForgotten
  <2> SUFFICES ASSUME RetransmissionInv, AckStrat = "PerFragment",
                      NEW s \in DOMAIN origin, NEW i \in 0..(NumFrags - 1),
                      ~Arrived(s, i)
               PROVE  Queued(s, i) \cup Timeouts(s, i) # {}
    BY DEF FragmentNotForgotten, Arrived
  <2>1. PICK e \in Items(events[Sender]) : e \in Pending /\ Unit(MessageOf(e)) = <<s, i>>
    BY DEF RetransmissionInv, NotForgottenInv
  <2>2. PICK k \in 1..Len(events[Sender]) : e = events[Sender][k].item
    BY DEF Items
  <2>3. SameUnit(MessageOf(e), s, i)
    BY <2>1 DEF Unit, SameUnit
  <2>4. CASE e.kind = "Egress"
    BY <2>2, <2>3, <2>4 DEF MessageOf, Queued
  <2>5. CASE e.kind = "AckTimeout"
    BY <2>2, <2>3, <2>5 DEF MessageOf, Timeouts
  <2> QED BY <2>1, <2>4, <2>5 DEF Pending
<1> QED BY <1>1, RetransmissionInvariant, PTL

(***************************************************************************)
(* An acknowledgement that can still cancel a timeout (Vec::retain on the  *)
(* sender's events) is about a fragment or set the recipient has.          *)
(***************************************************************************)
THEOREM AcksTellTheTruth == Spec => []AckMeansArrived
<1>1. RetransmissionInv => AckMeansArrived
  <2> SUFFICES ASSUME RetransmissionInv,
                      NEW n \in Nodes, NEW p \in Items(ingress[n]), p.content.kind = "Ack",
                      AckTimeout(p.content.message_id) \in Items(events[p.content.recipient])
               PROVE  LET m == original_messages[p.content.recipient][p.content.message_id]
                      IN  IF AckStrat = "PerFragment"
                          THEN <<m.fragment_set, m.fragment_index>> \in fragments[m.recipient]
                          ELSE Cardinality(FragmentsOf(m.recipient, m.fragment_set)) = m.fragment_size
    BY DEF AckMeansArrived
  <2> DEFINE id == p.content.message_id
             e  == AckTimeout(id)
             m  == original_messages[Sender][id]
  <2>1. p.content.recipient = Sender /\ e \in Items(events[Sender])
    BY DEF RetransmissionInv, RolesInv
  <2>2. e \in Pending /\ MessageOf(e) = m
    <3>1. Items(events[Sender]) \subseteq UserEvents
      BY UsersDiffer, ItemsTyped DEF RetransmissionInv, SimInv, QueuesInv
    <3> QED BY <2>1, <3>1 DEF Pending, AckTimeout, MessageOf
  <2>3. m \in Live /\ MessageOK(m) /\ id = AckKey(m.id, m.fragment_set)
    <3>1. e.kind = "AckTimeout" /\ e.id = id
      BY DEF AckTimeout
    <3> QED BY <2>1, <2>2, <3>1, PendingLive DEF RetransmissionInv
  <2>4. m.recipient = Recipient /\ m.fragment_size = NumFrags /\ m.fragment_set \in Nat
    BY <2>3 DEF MessageOK, Messages
  <2> HIDE DEF id, e, m
  <2>5. CASE AckStrat = "PerFragment"
    <3>1. Arrived(m.fragment_set, m.fragment_index)
      BY <2>3, <2>5 DEF RetransmissionInv, AckInv, AckKey, id
    <3> QED BY <2>1, <2>4, <2>5, <3>1 DEF Arrived, m, id
  <2>6. CASE AckStrat = "WholeMessage"
    <3>1. id = m.fragment_set
      BY <2>3, <2>6 DEF AckKey
    <3>2. \A i \in 0..(NumFrags - 1) : Arrived(id, i)
      BY <2>1, <2>2, <2>6, <3>1 DEF RetransmissionInv, AckInv, id
    <3>3. fragments[Recipient] \in SUBSET (Nat \X Nat) /\ \A x \in fragments[Recipient] : x[2] < NumFrags
      BY UsersDiffer DEF RetransmissionInv, SimInv, RecordsInv, RolesInv
    <3>4. Cardinality({x \in fragments[Recipient] : x[1] = m.fragment_set}) = NumFrags
      BY <2>4, <3>1, <3>2, <3>3, CompleteMeaning DEF Arrived
    <3> QED BY <2>1, <2>4, <2>6, <3>4 DEF FragmentsOf, m, id
  <2> QED BY <2>5, <2>6, ConfigAssumption
<1> QED BY <1>1, RetransmissionInvariant, PTL

(***************************************************************************)
(* The delays the evaluation reports count from the first transmission of  *)
(* a message, and the u64 subtractions that compute them never underflow.  *)
(***************************************************************************)
THEOREM DelaysMeasured == Spec => MeasuredDelays
<1> DEFINE Measured ==
      Len(deliveries') > Len(deliveries) =>
        LET d == deliveries'[Len(deliveries')]
        IN  /\ d.delivery_time = timestamp' - origin[d.fragment_set].sent
            /\ 0 <= d.first_to_last /\ d.first_to_last <= d.delivery_time
<1>1. RetransmissionInv /\ [Next]_vars => [Measured]_vars
  <2> SUFFICES ASSUME RetransmissionInv, [Next]_vars, Len(deliveries') > Len(deliveries)
               PROVE  Measured
    OBVIOUS
  <2>1. Len(deliveries) \in Nat
    BY LenProperties DEF RetransmissionInv, SimInv, RecordsInv
  <2>2. deliveries' # deliveries
    BY <2>1
  <2>3. PICK u \in Users : ReceiveMessage(u)
    BY <2>2 DEF Next, Step, Stop, vars, simVars, NodeMessage, NodeAck, NodeForward, EgressPacket,
                StartSend, ResendFragment, ResendMessage
  <2> DEFINE m     == NextItem(events[u]).message
             s     == m.fragment_set
             first == IF s \in DOMAIN t_first[u] THEN t_first[u] ELSE Put(t_first[u], s, timestamp')
             d     == [fragment_set |-> s, delivery_time |-> timestamp' - m.sending_time,
                       first_to_last |-> timestamp' - first[s]]
  <2>4. deliveries' = Append(deliveries, d)
    BY <2>2, <2>3 DEF ReceiveMessage
  <2>5. /\ timestamp' \in Nat /\ timestamp <= timestamp' /\ timestamp \in Nat
        /\ NextItem(events[u]) \in Items(events[u]) /\ NextItem(events[u]).kind = "Message"
    BY <2>3, UserFront DEF RetransmissionInv, ReceiveMessage
  <2>6. m \in Live
    BY <2>5, MessagesInWhere DEF Live
  <2>7. s \in DOMAIN origin /\ m.sending_time = origin[s].sent
    BY <2>6 DEF RetransmissionInv, MessagesInv, MessageOK
  <2>8. origin[s].sent \in Nat /\ origin[s].sent <= timestamp
    BY <2>7 DEF RetransmissionInv, OriginInv
  <2>9. first[s] \in Nat /\ origin[s].sent <= first[s] /\ first[s] <= timestamp'
    <3>1. CASE s \in DOMAIN t_first[u]
      <4>1. first[s] = t_first[u][s]
        BY <3>1
      <4>2. t_first[u][s] \in Nat /\ origin[s].sent <= t_first[u][s] /\ t_first[u][s] <= timestamp
        BY <3>1 DEF RetransmissionInv, OriginInv, SimInv, RecordsInv
      <4> QED BY <2>5, <4>1, <4>2
    <3>2. CASE s \notin DOMAIN t_first[u]
      <4>1. first = Put(t_first[u], s, timestamp')
        BY <3>2
      <4>2. Put(t_first[u], s, timestamp')[s] = timestamp'
        BY DEF Put
      <4>3. first[s] = timestamp'
        BY <4>1, <4>2
      <4> QED BY <2>5, <2>8, <4>3
    <3> QED BY <3>1, <3>2
  <2> HIDE DEF first, s, m
  <2>10. d.fragment_set = s /\ d.delivery_time = timestamp' - origin[s].sent
         /\ d.first_to_last = timestamp' - first[s]
    BY <2>7
  <2> HIDE DEF d
  <2>11. 0 <= d.first_to_last /\ d.first_to_last <= d.delivery_time
    BY <2>5, <2>8, <2>9, <2>10
  <2>12. deliveries'[Len(deliveries')] = d
    <3> DEFINE D == [fragment_set : Nat, delivery_time : Int, first_to_last : Int]
    <3>1. deliveries \in Seq(D)
      BY DEF RetransmissionInv, SimInv, RecordsInv
    <3> HIDE DEF D
    <3> QED BY <2>1, <2>4, <3>1
  <2> QED BY <2>10, <2>11, <2>12
<1>2. Spec => [][Measured]_vars
  BY <1>1, RetransmissionInvariant, PTL DEF Spec
<1> QED BY <1>2 DEF MeasuredDelays

-------------------------------------------------------------------------------
(***************************************************************************)
(* The messages still to be sent are the first events of the sender, due   *)
(* already, and no more of them than fragment sets missing to NumSends.    *)
(***************************************************************************)
Unsent == {e \in UserEvents : e.kind = "SendMessage"}

Overtaking == {x \in UserEvents \X UserEvents : x[1] \notin Unsent /\ x[2] \in Unsent}

WithinSends(q, n) == \A i \in 1..Len(q) : q[i].item \in Unsent => i + n <= NumSends

UnsentInv ==
  /\ Avoids(events[Sender], Overtaking)
  /\ NoneAfter(events[Sender], timestamp, Unsent)
  /\ WithinSends(events[Sender], next_fragment_set)

(***************************************************************************)
(* Roots are sends, what arrived and was recorded is of a known set, and   *)
(* a set that is there as a whole has been recorded.                       *)
(***************************************************************************)
Recorded == {deliveries[i].fragment_set : i \in 1..Len(deliveries)}

RecordInv ==
  /\ \A s \in DOMAIN origin : origin[s].root \in 0..(NumSends - 1)
  /\ \A x \in fragments[Recipient] : x[1] \in DOMAIN origin
  /\ Recorded \subseteq DOMAIN origin
  /\ \A s \in DOMAIN origin :
       (\A i \in 0..(NumFrags - 1) : Arrived(s, i)) => s \in Recorded

(***************************************************************************)
(* Per message: the timeout of a set whose original is stored is armed, or *)
(* the set was recorded; and a message is pending or was recorded.  Per    *)
(* fragment the second follows from NotForgottenInv.                       *)
(***************************************************************************)
PendingRoots == {Root(MessageOf(e)) : e \in Items(events[Sender]) \cap Pending}

RecordedRoots == {origin[s].root : s \in Recorded}

ArmedInv ==
  AckStrat = "WholeMessage" =>
    \A s \in DOMAIN original_messages[Sender] :
      AckTimeout(s) \in Items(events[Sender]) \/ s \in Recorded

NoneLost == SentTransfers \subseteq PendingRoots \cup RecordedRoots

SettledInv == AckStrat = "WholeMessage" => NoneLost

TransferInv == RetransmissionInv /\ UnsentInv /\ RecordInv /\ ArmedInv /\ SettledInv

-------------------------------------------------------------------------------
(***************************************************************************)
(* What the operations of a queue do to the messages still to be sent.     *)
(***************************************************************************)
LEMMA NoneUnsent ==
  ASSUME NEW q, Items(q) \cap Unsent = {}, NEW t, NEW n
  PROVE  Avoids(q, Overtaking) /\ NoneAfter(q, t, Unsent) /\ WithinSends(q, n)
<1>1. \A i \in 1..Len(q) : q[i].item \notin Unsent
  BY DEF Items
<1> QED BY <1>1 DEF Avoids, NoneAfter, WithinSends, Overtaking

LEMMA PopUnsent ==
  ASSUME NEW q \in Queues(UserEvents), q # <<>>, NEW n \in Nat, WithinSends(q, n)
  PROVE  WithinSends(Pop(q), n + 1)
<1> DEFINE r == Pop(q)
<1>1. Len(q) \in Nat /\ 1 \in 1..Len(q)
  BY DEF Queues
<1>2. Len(r) = Len(q) - 1 /\ \A i \in 1..(Len(q) - 1) : r[i] = q[i + 1]
  BY HeadTailProperties DEF Queues, Pop
<1> HIDE DEF r
<1> SUFFICES ASSUME NEW i \in 1..Len(r), r[i].item \in Unsent
             PROVE  i + (n + 1) <= NumSends
  BY DEF WithinSends, r
<1>3. i + 1 \in 1..Len(q) /\ r[i] = q[i + 1] /\ i \in Nat
  BY <1>1, <1>2
<1>4. (i + 1) + n <= NumSends
  BY <1>3 DEF WithinSends
<1> QED BY <1>3, <1>4

(***************************************************************************)
(* A new event goes behind those still to be sent, which are due.          *)
(***************************************************************************)
LEMMA InsertUnsent ==
  ASSUME NEW q \in Queues(UserEvents), SortedByTime(q), NEW t \in Nat, NEW xs \in Seq(UserEvents),
         \A k \in 1..Len(xs) : xs[k] \notin Unsent,
         Avoids(q, Overtaking), NoneAfter(q, t, Unsent), NEW n, WithinSends(q, n)
  PROVE  LET r == InsertAll(q, t, xs)
         IN  Avoids(r, Overtaking) /\ NoneAfter(r, t, Unsent) /\ WithinSends(r, n)
<1> DEFINE r == InsertAll(q, t, xs)
           k == PartitionPoint(q, t)
<1>1. Avoids(r, Overtaking)
  <2>1. Avoids([i \in 1..Len(xs) |-> Entry(t, xs[i])], Overtaking)
    <3> DEFINE new == [i \in 1..Len(xs) |-> Entry(t, xs[i])]
    <3>1. Len(new) = Len(xs) /\ \A i \in 1..Len(xs) : new[i].item = xs[i]
      BY LenProperties DEF Entry
    <3> HIDE DEF new
    <3>2. Avoids(new, Overtaking)
      BY <3>1 DEF Avoids, Overtaking
    <3> QED BY <3>2 DEF new
  <2>2. \A e \in Items(q), i \in 1..Len(xs) :
          <<e, xs[i]>> \notin Overtaking /\ (e \notin Unsent => <<xs[i], e>> \notin Overtaking)
    BY DEF Overtaking
  <2> QED BY <2>1, <2>2, InsertAllOrder
<1>2. NoneAfter(r, t, Unsent)
  BY InsertAllTimes
<1>3. WithinSends(r, n)
  <2>1. /\ k \in 0..Len(q) /\ Len(q) \in Nat /\ Len(xs) \in Nat
        /\ \A i \in (k + 1)..Len(q) : t < q[i].time
        /\ \A i \in 1..Len(q) : q[i].time \in Nat
    BY PartitionPointProperties, QueueEntries, LenProperties
  <2>2. /\ Len(r) = Len(q) + Len(xs)
        /\ \A i \in 1..Len(r) : r[i] = IF i <= k THEN q[i]
                                       ELSE IF i <= k + Len(xs) THEN Entry(t, xs[i - k])
                                       ELSE q[i - Len(xs)]
    BY InsertAllEntries
  <2> HIDE DEF r, k
  <2> SUFFICES ASSUME NEW i \in 1..Len(r), r[i].item \in Unsent PROVE i + n <= NumSends
    BY DEF WithinSends
  <2>3. CASE i <= k
    <3>1. i \in 1..Len(q) /\ r[i] = q[i]
      BY <2>1, <2>2, <2>3
    <3> QED BY <3>1 DEF WithinSends
  <2>4. CASE i > k /\ i <= k + Len(xs)
    <3>1. r[i] = Entry(t, xs[i - k]) /\ i - k \in 1..Len(xs)
      BY <2>1, <2>2, <2>4
    <3>2. r[i].item = xs[i - k]
      BY <3>1 DEF Entry
    <3> QED BY <3>1, <3>2
  <2>5. CASE i > k + Len(xs)
    <3> DEFINE j == i - Len(xs)
    <3>1. r[i] = q[j] /\ j \in (k + 1)..Len(q) /\ j \in 1..Len(q)
      BY <2>1, <2>2, <2>5
    <3> HIDE DEF j
    <3>2. t < q[j].time /\ q[j].time \in Nat
      BY <2>1, <3>1
    <3>3. q[j].time <= t
      BY <3>1 DEF NoneAfter
    <3> QED BY <3>2, <3>3
  <2> QED BY <2>1, <2>3, <2>4, <2>5
<1> QED BY <1>1, <1>2, <1>3

(***************************************************************************)
(* A cancellation moves events only to the front.                          *)
(***************************************************************************)
LEMMA CancelUnsent ==
  ASSUME NEW q \in Queues(UserEvents), SortedByTime(q), NEW x, NEW n \in Nat, WithinSends(q, n)
  PROVE  WithinSends(Cancel(q, x), n)
<1> DEFINE kept == {i \in 1..Len(q) : q[i].item # x}
           c == Cardinality(kept)
           pos(k) == CHOOSE i \in kept : Rank(kept, i) = k
           r == Cancel(q, x)
<1>1. Len(q) \in Nat
  BY QueueEntries
<1>2. kept \subseteq 1..Len(q)
  OBVIOUS
<1>3. c \in Nat /\ \A k \in 1..c : \E i \in kept : Rank(kept, i) = k
  <2> HIDE DEF kept
  <2> QED BY <1>1, <1>2, RankProperties
<1>4. r = [k \in 1..c |-> q[pos(k)]]
  BY DEF Cancel
<1> HIDE DEF kept, c, r
<1>5. \A k \in 1..c : pos(k) \in kept /\ Rank(kept, pos(k)) = k
  BY <1>3
<1>6. Len(r) = c /\ \A k \in 1..c : r[k] = q[pos(k)]
  BY <1>3, <1>4
<1> HIDE DEF pos
<1>7. ASSUME NEW i \in kept PROVE Rank(kept, i) <= i
  <2>0. \A j \in kept : j \in Nat /\ 1 <= j
    BY <1>1, <1>2
  <2>1. i \in Nat /\ {j \in kept : j <= i} \subseteq 1..i
    BY <2>0
  <2> DEFINE K == {j \in kept : j <= i}
  <2>2. IsFiniteSet(1..i) /\ Cardinality(1..i) = i
    BY <2>1, InitialSegment
  <2>3. Cardinality(K) <= i
    <3> HIDE DEF K
    <3> QED BY <2>1, <2>2, FS_Subset DEF K
  <2> QED BY <2>3 DEF Rank
<1> SUFFICES ASSUME NEW k \in 1..Len(r), r[k].item \in Unsent PROVE k + n <= NumSends
  BY DEF WithinSends, r
<1>8. pos(k) \in 1..Len(q) /\ k <= pos(k) /\ r[k] = q[pos(k)]
  BY <1>2, <1>5, <1>6, <1>7
<1>9. pos(k) + n <= NumSends /\ pos(k) \in Nat /\ k \in Nat /\ NumSends \in Nat
  BY <1>1, <1>3, <1>6, <1>8, ConfigAssumption DEF WithinSends
<1> QED BY <1>8, <1>9

-------------------------------------------------------------------------------
(***************************************************************************)
(* The abstract state in terms of the invariants.                          *)
(***************************************************************************)
Mapped == PendingTransfers = PendingRoots /\ DeliveredTransfers = RecordedRoots

LEMMA StateMapped == RetransmissionInv => Mapped
<1> SUFFICES ASSUME RetransmissionInv PROVE Mapped
  OBVIOUS
<1> DEFINE q == events[Sender]
<1>1. Items(q) \subseteq UserEvents
  BY UsersDiffer, ItemsTyped DEF RetransmissionInv, SimInv, QueuesInv
<1>2. ASSUME NEW e \in Items(q), NEW k
      PROVE  WillSend(e, k) <=> e \in Pending /\ Root(MessageOf(e)) = k
  BY <1>1, <1>2 DEF WillSend, Pending, MessageOf
<1>3. ASSUME NEW e \in Items(q) \cap Pending PROVE Root(MessageOf(e)) \in SentTransfers
  <2>1. MessageOK(MessageOf(e))
    BY <1>3, PendingLive DEF RetransmissionInv
  <2> QED BY <2>1 DEF MessageOK, SentTransfers, Root
<1>4. PendingTransfers = {k \in SentTransfers : \E e \in Items(q) : e \in Pending /\ Root(MessageOf(e)) = k}
  BY <1>2 DEF PendingTransfers
<1>5. PendingRoots = {Root(MessageOf(e)) : e \in Items(q) \cap Pending}
  BY DEF PendingRoots
<1> HIDE DEF q
<1>6. PendingTransfers = PendingRoots
  BY <1>3, <1>4, <1>5
<1>7. DeliveredTransfers = RecordedRoots
  BY DEF DeliveredTransfers, RecordedRoots, Recorded
<1> QED BY <1>6, <1>7 DEF Mapped

(***************************************************************************)
(* A message that was sent is pending or was recorded: nothing is lost.    *)
(***************************************************************************)
LEMMA SentIsSettled == TransferInv => NoneLost
<1> SUFFICES ASSUME TransferInv PROVE NoneLost
  OBVIOUS
<1>1. CASE AckStrat = "WholeMessage"
  BY <1>1 DEF TransferInv, SettledInv
<1>2. CASE AckStrat = "PerFragment"
  <2> SUFFICES ASSUME NEW s \in DOMAIN origin
               PROVE  origin[s].root \in PendingRoots \cup RecordedRoots
    BY DEF SentTransfers, NoneLost
  <2>1. CASE \A i \in 0..(NumFrags - 1) : Arrived(s, i)
    <3>1. s \in Recorded
      BY <2>1 DEF TransferInv, RecordInv
    <3> QED BY <3>1 DEF RecordedRoots
  <2>2. ASSUME NEW i \in 0..(NumFrags - 1), ~Arrived(s, i)
        PROVE  origin[s].root \in PendingRoots
    <3>1. PICK e \in Items(events[Sender]) : e \in Pending /\ Unit(MessageOf(e)) = <<s, i>>
      BY <1>2, <2>2 DEF TransferInv, RetransmissionInv, NotForgottenInv
    <3>2. Root(MessageOf(e)) = origin[s].root
      BY <1>2, <3>1 DEF Unit, Root
    <3> QED BY <3>1, <3>2 DEF PendingRoots
  <2> QED BY <2>1, <2>2
<1> QED BY <1>1, <1>2, ConfigAssumption

(***************************************************************************)
(* A step that stops transmitting at most one message, and neither sends   *)
(* nor records one, is a Settle or a stutter of the abstract machine.      *)
(***************************************************************************)
Quiet(k) ==
  /\ SentTransfers' = SentTransfers /\ RecordedRoots' = RecordedRoots
  /\ PendingRoots' \subseteq PendingRoots /\ PendingRoots \subseteq PendingRoots' \cup {k}

LEMMA QuietRefines ==
  ASSUME TransferInv, TransferInv', NEW k, Quiet(k)
  PROVE  [Transfer!Next]_Transfer!vars
<1>1. Mapped /\ RetransmissionInv'
  BY StateMapped DEF TransferInv
<1>2. Mapped'
  BY <1>1, StateMapped, PTL
<1>3. NoneLost'
  BY SentIsSettled, PTL
<1>4. CASE PendingRoots' = PendingRoots
  BY <1>1, <1>2, <1>4 DEF Quiet, Mapped, Transfer!vars
<1>5. CASE PendingRoots' # PendingRoots
  <2>1. k \in PendingRoots /\ PendingRoots' = PendingRoots \ {k}
    BY <1>5 DEF Quiet
  <2>2. k \in SentTransfers
    BY <1>1, <2>1 DEF Mapped, PendingTransfers
  <2>3. k \in RecordedRoots
    BY <1>3, <2>1, <2>2 DEF Quiet, NoneLost
  <2>4. Transfer!Settle(k)
    BY <1>1, <1>2, <2>1, <2>3 DEF Quiet, Mapped, Transfer!Settle
  <2>5. k \in 0..(NumSends - 1)
    BY <2>2 DEF SentTransfers, TransferInv, RecordInv
  <2> QED BY <2>4, <2>5 DEF Transfer!Next
<1> QED BY <1>4, <1>5

(***************************************************************************)
(* The sender's queue and what it stands for, before and after.            *)
(***************************************************************************)
LEMMA QuietIf ==
  ASSUME origin' = origin, deliveries' = deliveries, NEW e0, NEW k,
         e0 \in Pending => Root(MessageOf(e0)) = k,
         \A e \in Items(events[Sender]) : e \in Pending /\ e # e0 =>
           e \in Items(events'[Sender]) /\ Root(MessageOf(e))' = Root(MessageOf(e)),
         \A e \in Items(events'[Sender]) : e \in Pending =>
           \E f \in Items(events[Sender]) : f \in Pending /\ Root(MessageOf(e))' = Root(MessageOf(f))
  PROVE  Quiet(k)
<1>1. SentTransfers' = SentTransfers /\ RecordedRoots' = RecordedRoots
  BY DEF SentTransfers, RecordedRoots, Recorded
<1>2. PendingRoots' \subseteq PendingRoots
  BY DEF PendingRoots, Pending
<1>3. PendingRoots \subseteq PendingRoots' \cup {k}
  BY DEF PendingRoots, Pending
<1> QED BY <1>1, <1>2, <1>3 DEF Quiet

-------------------------------------------------------------------------------
Kept == UnsentInv' /\ RecordInv' /\ ArmedInv' /\ SettledInv'

LEMMA LaterUnsent ==
  ASSUME RetransmissionInv, UnsentInv, timestamp <= timestamp', timestamp' \in Nat
  PROVE  NoneAfter(events[Sender], timestamp', Unsent)
<1> DEFINE q == events[Sender]
<1>1. q \in Queues(UserEvents) /\ timestamp \in Nat
  BY UsersDiffer DEF RetransmissionInv, SimInv, QueuesInv, DueFrom
<1> HIDE DEF q
<1>2. \A i \in 1..Len(q) : q[i].time \in Nat
  BY <1>1, QueueEntries
<1>3. NoneAfter(q, timestamp, Unsent)
  BY DEF UnsentInv, q
<1>4. NoneAfter(q, timestamp', Unsent)
  BY <1>1, <1>2, <1>3 DEF NoneAfter
<1> QED BY <1>4 DEF q

LEMMA SameRecord ==
  ASSUME RecordInv, origin' = origin, fragments' = fragments, deliveries' = deliveries
  PROVE  RecordInv'
BY DEF RecordInv, Recorded, Arrived

LEMMA SettledIf ==
  ASSUME SettledInv, NEW k, Quiet(k),
         AckStrat = "WholeMessage" /\ k \in PendingRoots => k \in PendingRoots' \cup RecordedRoots
  PROVE  SettledInv'
BY DEF SettledInv, NoneLost, Quiet

(***************************************************************************)
(* Messages and packets move; the sender and what was recorded stay.       *)
(***************************************************************************)
LEMMA SenderIdle ==
  ASSUME TransferInv, timestamp <= timestamp', timestamp' \in Nat,
         events'[Sender] = events[Sender], original_messages' = original_messages,
         fragments' = fragments, deliveries' = deliveries,
         next_fragment_set' = next_fragment_set, origin' = origin
  PROVE  Kept /\ \E k : Quiet(k)
<1> USE DEF TransferInv
<1>1. UnsentInv'
  BY LaterUnsent DEF UnsentInv
<1>2. RecordInv' /\ ArmedInv'
  BY SameRecord DEF ArmedInv, Recorded
<1>3. \A e : Root(MessageOf(e))' = Root(MessageOf(e))
  BY DEF Root, MessageOf
<1>4. PendingRoots' = PendingRoots
  BY <1>3 DEF PendingRoots, Pending
<1>5. SentTransfers' = SentTransfers /\ RecordedRoots' = RecordedRoots
  BY DEF SentTransfers, RecordedRoots, Recorded
<1>6. SettledInv' /\ Quiet(0)
  BY <1>4, <1>5 DEF SettledInv, NoneLost, Quiet
<1> QED BY <1>1, <1>2, <1>6 DEF Kept

LEMMA NodeMessageTransfers ==
  ASSUME TransferInv, NEW n \in Nodes, NodeMessage(n)
  PROVE  Kept /\ \E k : Quiet(k)
<1> DEFINE p == NextItem(ingress[n])
<1>1. timestamp' \in Nat /\ timestamp <= timestamp' /\ p \in Items(ingress[n])
  BY NodeFront DEF NodeMessage, TransferInv, RetransmissionInv
<1>2. p.content.kind = "Message"
  BY DEF NodeMessage
<1>3. p.content \in Live
  BY <1>1, <1>2, MessagesInWhere DEF Live
<1>4. p.content.recipient = Recipient
  BY <1>3 DEF TransferInv, RetransmissionInv, MessagesInv, MessageOK
<1>5. events'[Sender] = events[Sender]
  BY <1>4, UsersDiffer DEF NodeMessage, TransferInv, RetransmissionInv, SimInv, QueuesInv
<1> HIDE DEF p
<1> QED BY <1>1, <1>5, SenderIdle DEF NodeMessage

LEMMA NodeForwardTransfers ==
  ASSUME TransferInv, NEW n \in Nodes, NodeForward(n)
  PROVE  Kept /\ \E k : Quiet(k)
<1>1. timestamp' \in Nat /\ timestamp <= timestamp'
  BY NodeFront DEF NodeForward, TransferInv, RetransmissionInv
<1> QED BY <1>1, SenderIdle DEF NodeForward

(***************************************************************************)
(* An acknowledgement that cancels a timeout ends the transmission of what *)
(* was recorded.                                                           *)
(***************************************************************************)
LEMMA NodeAckTransfers ==
  ASSUME TransferInv, NEW n \in Nodes, NodeAck(n)
  PROVE  Kept /\ \E k : Quiet(k)
<1> USE DEF TransferInv, RetransmissionInv
<1> DEFINE p == NextItem(ingress[n])
           id == p.content.message_id
           q == events[Sender]
           x == AckTimeout(id)
           k == Root(MessageOf(x))
<1>1. /\ timestamp' \in Nat /\ timestamp <= timestamp' /\ timestamp \in Nat
      /\ p \in Items(ingress[n])
  BY NodeFront DEF NodeAck
<1>2. p.content.kind = "Ack" /\ p.content.recipient = Sender
  BY <1>1 DEF NodeAck, RolesInv
<1>3. /\ events' = [events EXCEPT ![p.content.recipient] = Cancel(events[p.content.recipient], x)]
      /\ UNCHANGED <<fragments, original_messages, deliveries, next_fragment_set, origin>>
  BY DEF NodeAck
<1>4. /\ DOMAIN events = Users /\ q \in Queues(UserEvents) /\ SortedByTime(q)
      /\ next_fragment_set \in Nat
  BY UsersDiffer DEF SimInv, QueuesInv, RecordsInv, DueFrom
<1> HIDE DEF p, x, id, q, k
<1>5. events'[Sender] = Cancel(q, x)
  BY <1>2, <1>3, <1>4, UsersDiffer DEF q
<1>6. /\ Items(events'[Sender]) = Items(q) \ {x}
      /\ \A W : Avoids(q, W) => Avoids(events'[Sender], W)
      /\ \A t, K : NoneAfter(q, t, K) => NoneAfter(events'[Sender], t, K)
  BY <1>4, <1>5, CancelProperties
<1>7. UnsentInv'
  <2>1. WithinSends(events'[Sender], next_fragment_set)
    BY <1>4, <1>5, CancelUnsent DEF UnsentInv, q
  <2>2. NoneAfter(events'[Sender], timestamp', Unsent)
    BY <1>1, <1>6, LaterUnsent DEF q
  <2> QED BY <1>3, <1>6, <2>1, <2>2 DEF UnsentInv, q
<1>8. RecordInv'
  BY <1>3, SameRecord
<1>9. \A e : Root(MessageOf(e))' = Root(MessageOf(e))
  BY <1>3 DEF Root, MessageOf
<1>10. Quiet(k)
  <2>1. x \in Pending => Root(MessageOf(x)) = k
    BY DEF k
  <2> QED BY <1>3, <1>6, <1>9, <2>1, QuietIf DEF q
<1>11. ASSUME AckStrat = "WholeMessage", x \in Items(q)
       PROVE  id \in Recorded /\ k \in RecordedRoots
  <2>1. x \in Pending /\ x.kind = "AckTimeout" /\ x.id = id
    <3>1. x \in UserEvents
      BY <1>4, <1>11, ItemsTyped, UsersDiffer DEF SimInv, QueuesInv, q
    <3> QED BY <3>1 DEF x, AckTimeout, Pending
  <2>2. id = MessageOf(x).fragment_set /\ MessageOK(MessageOf(x))
    BY <1>11, <2>1, PendingLive DEF AckKey, q
  <2>3. \A i \in 0..(NumFrags - 1) : Arrived(id, i)
    BY <1>1, <1>2, <1>11, <2>1, <2>2 DEF AckInv, q, id
  <2>4. id \in DOMAIN origin
    BY <2>2 DEF MessageOK
  <2>5. id \in Recorded
    BY <2>3, <2>4 DEF RecordInv
  <2> QED BY <2>2, <2>5 DEF RecordedRoots, Root, k
<1>12. ArmedInv'
  <2> SUFFICES ASSUME AckStrat = "WholeMessage", NEW s \in DOMAIN original_messages[Sender]
               PROVE  AckTimeout(s) \in Items(events'[Sender]) \/ s \in Recorded
    BY <1>3 DEF ArmedInv, Recorded
  <2>1. CASE s = id
    BY <1>6, <1>11, <2>1 DEF ArmedInv, q, x
  <2>2. CASE s # id
    <3>1. AckTimeout(s) # x
      BY <2>2 DEF x, AckTimeout
    <3> QED BY <1>6, <3>1 DEF ArmedInv, q
  <2> QED BY <2>1, <2>2
<1>13. SettledInv'
  <2>1. CASE x \in Items(q)
    BY <1>10, <1>11, <2>1, SettledIf
  <2>2. CASE x \notin Items(q)
    <3>1. PendingRoots' = PendingRoots
      BY <1>6, <1>9, <2>2 DEF PendingRoots, Pending, q
    <3> QED BY <1>10, <3>1, SettledIf
  <2> QED BY <2>1, <2>2
<1> QED BY <1>7, <1>8, <1>10, <1>12, <1>13 DEF Kept

(***************************************************************************)
(* A packet leaves: the timeout that now stands for its message, or the    *)
(* one armed by an earlier packet of the set, will send it again.          *)
(***************************************************************************)
LEMMA EgressTransfers ==
  ASSUME TransferInv, NEW u \in Users, NEW dropped \in BOOLEAN, EgressPacket(u, dropped)
  PROVE  Kept /\ \E k : Quiet(k)
<1> USE DEF TransferInv, RetransmissionInv
<1> DEFINE e0  == NextItem(events[Sender])
           r   == Pop(events[Sender])
           p   == e0.packet
           c   == p.content
           id  == AckKey(c.id, c.fragment_set)
           due == timestamp' + Timeout(p.hops)
           x   == AckTimeout(id)
           k   == Root(c)
           stored == original_messages[Sender]
<1>1. /\ u = Sender
      /\ timestamp' \in Nat
      /\ e0 \in UserEvents /\ e0.kind = "Egress"
      /\ Items(events[Sender]) = Items(r) \cup {e0}
      /\ Items(events[Sender]) \subseteq UserEvents
      /\ DueFrom(r, UserEvents, timestamp')
  BY SenderFront DEF EgressPacket
<1>2. p.hops \in Routes /\ c \in Messages
  BY <1>1 DEF UserEvents
<1>3. /\ e0 \in Pending /\ MessageOf(e0) = c /\ c \in Live /\ MessageOK(c)
  <2>1. e0 \in Items(events[Sender]) /\ e0 \in Pending /\ MessageOf(e0) = c
    BY <1>1 DEF Pending, MessageOf
  <2> QED BY <2>1, PendingLive
<1>4. due \in Nat /\ x \in UserEvents
  <2>1. c.id \in Nat /\ c.fragment_set \in Nat
    BY <1>2 DEF Messages
  <2>2. id \in Nat
    BY <2>1, AckKeyType
  <2>3. Timeout(p.hops) \in Nat
    BY <1>2, TimeoutType
  <2>4. x \in UserEvents
    BY <2>2 DEF AckTimeout, UserEvents
  <2> QED BY <1>1, <2>3, <2>4
<1>5. /\ events' = [events EXCEPT ![Sender] = IF Arms(Sender, id) THEN Insert(r, due, x) ELSE r]
      /\ original_messages' = [original_messages EXCEPT ![Sender] =
                                 IF Arms(Sender, id) THEN Put(stored, id, c) ELSE stored]
      /\ UNCHANGED <<fragments, deliveries, next_fragment_set, origin>>
  BY <1>1 DEF EgressPacket
<1>6. /\ original_messages'[Sender] = IF Arms(Sender, id) THEN Put(stored, id, c) ELSE stored
      /\ events'[Sender] = IF Arms(Sender, id) THEN Insert(r, due, x) ELSE r
  BY <1>5, UsersDiffer DEF SimInv, QueuesInv, RolesInv
<1>7. Items(Insert(r, due, x)) = Items(r) \cup {x}
  BY <1>1, <1>4, ItemsInsert
<1>8. x.kind = "AckTimeout" /\ x.id = id /\ x \in Pending
  BY <1>4 DEF AckTimeout, Pending
<1>9. /\ DOMAIN Put(stored, id, c) = {id} \cup DOMAIN stored
      /\ Put(stored, id, c)[id] = c
      /\ \A j \in DOMAIN stored : j # id => Put(stored, id, c)[j] = stored[j]
  BY DEF Put
<1> HIDE DEF e0, r, p, c, id, due, x, k, stored
<1>10. Items(events'[Sender]) = Items(r) \cup (IF Arms(Sender, id) THEN {x} ELSE {})
  BY <1>6, <1>7
<1>11. UnsentInv'
  <2>1. e0 \in UserEvents /\ e0 \notin Unsent
    BY <1>1 DEF Unsent
  <2>2. \A f \in Items(r) : <<e0, f>> \notin Overtaking
    BY <1>1, PopOrder DEF UnsentInv, SimInv, QueuesInv, DueFrom, UserTurn, EgressPacket, e0, r
  <2>3. \A f \in Items(r) : f \in UserEvents
    BY <1>1
  <2>4. Items(r) \cap Unsent = {}
    BY <2>1, <2>2, <2>3 DEF Overtaking
  <2>5. x \notin Unsent
    BY <1>8 DEF Unsent
  <2>6. Items(events'[Sender]) \cap Unsent = {}
    BY <1>10, <2>4, <2>5
  <2> QED BY <2>6, NoneUnsent DEF UnsentInv, Unsent, Overtaking
<1>12. RecordInv'
  BY <1>5, SameRecord
<1>13. c.fragment_set \in DOMAIN origin /\ k = origin[c.fragment_set].root
  BY <1>3 DEF MessageOK, k, Root
<1>14. ASSUME NEW e \in Items(r), e \in Pending PROVE Root(MessageOf(e))' = Root(MessageOf(e))
  <2>1. e \in Items(events[Sender])
    BY <1>1
  <2>2. CASE e.kind = "Egress"
    BY <1>5, <2>2 DEF MessageOf, Root
  <2>3. CASE e.kind # "Egress"
    <3>1. /\ e.id \in DOMAIN stored /\ MessageOf(e) = stored[e.id]
          /\ MessageOf(e) \in Live
          /\ e.id = AckKey(MessageOf(e).id, MessageOf(e).fragment_set)
      BY <1>14, <2>1, <2>3, PendingLive DEF stored, MessageOf
    <3>2. MessageOf(e)' = original_messages'[Sender][e.id]
      BY <2>3 DEF MessageOf
    <3>3. CASE e.id = id /\ Arms(Sender, id)
      <4>1. MessageOf(e)' = c
        BY <1>6, <1>9, <3>2, <3>3
      <4>2. MessageOf(e).fragment_set = c.fragment_set
        BY <1>3, <3>1, <3>3 DEF MessagesInv, AckKey, id
      <4> QED BY <1>5, <4>1, <4>2 DEF Root
    <3>4. CASE ~(e.id = id /\ Arms(Sender, id))
      <4>1. MessageOf(e)' = MessageOf(e)
        BY <1>6, <1>9, <3>1, <3>2, <3>4
      <4> QED BY <1>5, <4>1 DEF Root
    <3> QED BY <3>3, <3>4
  <2> QED BY <2>2, <2>3
<1>15. ASSUME NEW e, e = x, Arms(Sender, id) PROVE Root(MessageOf(e))' = k
  <2>1. MessageOf(e)' = c
    BY <1>6, <1>8, <1>9, <1>15 DEF MessageOf
  <2> QED BY <1>5, <2>1 DEF Root, k
<1>16. Quiet(k)
  <2>1. e0 \in Pending => Root(MessageOf(e0)) = k
    BY <1>3 DEF k
  <2>2. \A e \in Items(events[Sender]) : e \in Pending /\ e # e0 =>
          e \in Items(events'[Sender]) /\ Root(MessageOf(e))' = Root(MessageOf(e))
    BY <1>1, <1>10, <1>14
  <2>3. ASSUME NEW e \in Items(events'[Sender]), e \in Pending
        PROVE  \E f \in Items(events[Sender]) : f \in Pending /\ Root(MessageOf(e))' = Root(MessageOf(f))
    <3>1. CASE e \in Items(r)
      BY <1>1, <1>14, <2>3, <3>1
    <3>2. CASE e \notin Items(r)
      <4>1. Arms(Sender, id) /\ e = x
        BY <1>10, <2>3, <3>2
      <4> QED BY <1>1, <1>3, <1>15, <2>1, <4>1
    <3> QED BY <3>1, <3>2
  <2> QED BY <1>5, <2>1, <2>2, <2>3, QuietIf
<1>17. ArmedInv'
  <2> SUFFICES ASSUME AckStrat = "WholeMessage", NEW s \in DOMAIN original_messages'[Sender]
               PROVE  AckTimeout(s) \in Items(events'[Sender]) \/ s \in Recorded
    BY <1>5 DEF ArmedInv, Recorded
  <2>1. CASE s \in DOMAIN stored
    <3>1. AckTimeout(s) # e0
      BY <1>1 DEF AckTimeout
    <3>2. AckTimeout(s) \in Items(events[Sender]) \/ s \in Recorded
      BY <2>1 DEF ArmedInv, stored
    <3> QED BY <1>1, <1>10, <3>1, <3>2
  <2>2. CASE s \notin DOMAIN stored
    <3>1. s = id /\ Arms(Sender, id)
      BY <1>6, <1>9, <2>2
    <3> QED BY <1>10, <3>1 DEF x
  <2> QED BY <2>1, <2>2
<1>18. SettledInv'
  <2> SUFFICES ASSUME AckStrat = "WholeMessage" PROVE k \in PendingRoots' \cup RecordedRoots
    BY <1>16, SettledIf
  <2>1. CASE Arms(Sender, id)
    <3>1. x \in Items(events'[Sender])
      BY <1>10, <2>1
    <3>2. PICK e : e = x
      OBVIOUS
    <3>3. Root(MessageOf(e))' = k
      BY <1>15, <2>1, <3>2
    <3> QED BY <1>8, <3>1, <3>2, <3>3 DEF PendingRoots, Pending
  <2>2. CASE ~Arms(Sender, id)
    <3>1. id \in DOMAIN stored /\ id = c.fragment_set
      BY <2>2 DEF Arms, AckKey, stored, id
    <3>2. CASE id \in Recorded
      BY <1>13, <3>1, <3>2 DEF RecordedRoots
    <3>3. CASE x \in Items(events[Sender])
      <4>1. x \in Items(r)
        BY <1>1, <1>8, <3>3
      <4>2. x = AckTimeout(x.id) /\ id = MessageOf(x).fragment_set
        BY <1>8, <3>3, PendingLive DEF AckKey
      <4>3. Root(MessageOf(x)) = k
        BY <1>13, <3>1, <4>2 DEF Root
      <4>4. PICK e : e = x
        OBVIOUS
      <4>5. Root(MessageOf(e))' = k
        BY <1>8, <1>14, <4>1, <4>3, <4>4
      <4>6. e \in Items(events'[Sender]) /\ e \in Pending
        BY <1>8, <1>10, <4>1, <4>4
      <4> QED BY <4>5, <4>6 DEF PendingRoots, Pending
    <3> QED BY <3>1, <3>2, <3>3 DEF ArmedInv, stored, x
  <2> QED BY <2>1, <2>2
<1> QED BY <1>11, <1>12, <1>16, <1>17, <1>18 DEF Kept

(***************************************************************************)
(* A fragment arrives: if its set is now complete, its message is recorded,*)
(* a Deliver of the abstract machine unless it was recorded before.        *)
(***************************************************************************)
Delivers(k) ==
  /\ k \in SentTransfers
  /\ SentTransfers' = SentTransfers /\ PendingRoots' = PendingRoots
  /\ RecordedRoots' = RecordedRoots \cup {k}

LEMMA DeliversRefines ==
  ASSUME TransferInv, TransferInv', NEW k, Delivers(k)
  PROVE  [Transfer!Next]_Transfer!vars
<1>1. Mapped /\ RetransmissionInv' /\ NoneLost
  BY StateMapped, SentIsSettled DEF TransferInv
<1>2. Mapped'
  BY <1>1, StateMapped, PTL
<1>3. CASE k \in RecordedRoots
  BY <1>1, <1>2, <1>3 DEF Delivers, Mapped, Transfer!vars
<1>4. CASE k \notin RecordedRoots
  <2>1. k \in PendingRoots
    BY <1>1, <1>4 DEF Delivers, NoneLost
  <2>2. Transfer!Deliver(k)
    BY <1>1, <1>2, <1>4, <2>1 DEF Delivers, Mapped, Transfer!Deliver
  <2>3. k \in 0..(NumSends - 1)
    BY DEF Delivers, SentTransfers, TransferInv, RecordInv
  <2> QED BY <2>2, <2>3 DEF Transfer!Next
<1> QED BY <1>3, <1>4

LEMMA ReceiveTransfers ==
  ASSUME TransferInv, NEW u \in Users, ReceiveMessage(u)
  PROVE  Kept /\ ((\E k : Quiet(k)) \/ (\E k : Delivers(k)))
<1> USE DEF TransferInv, RetransmissionInv
<1> DEFINE m        == NextItem(events[u]).message
           s        == m.fragment_set
           i        == m.fragment_index
           F        == fragments[Recipient] \cup {<<s, i>>}
           first    == IF s \in DOMAIN t_first[u] THEN t_first[u] ELSE Put(t_first[u], s, timestamp')
           d        == [fragment_set |-> s, delivery_time |-> timestamp' - m.sending_time,
                        first_to_last |-> timestamp' - first[s]]
           complete == Cardinality(FragmentsOf(u, s) \cup {<<s, i>>}) = m.fragment_size
<1>1. /\ timestamp' \in Nat /\ timestamp <= timestamp'
      /\ NextItem(events[u]) \in Items(events[u])
      /\ NextItem(events[u]).kind = "Message"
  BY UserFront DEF ReceiveMessage
<1>2. u = Recipient
  BY <1>1, UsersDiffer DEF RolesInv
<1>3. m \in Live
  BY <1>1, MessagesInWhere DEF Live
<1>4. MessageOK(m)
  BY <1>3 DEF MessagesInv
<1>5. /\ s \in Nat /\ i \in Nat /\ i < NumFrags /\ m.fragment_size = NumFrags /\ s \in DOMAIN origin
  BY <1>4 DEF MessageOK, Messages
<1>6. /\ events' = [events EXCEPT ![u] = Pop(events[u])]
      /\ fragments' = [fragments EXCEPT ![u] = fragments[u] \cup {<<s, i>>}]
      /\ UNCHANGED <<original_messages, next_fragment_set, origin>>
      /\ deliveries' = IF complete THEN Append(deliveries, d) ELSE deliveries
  BY DEF ReceiveMessage
<1>7. /\ DOMAIN events = Users /\ fragments \in [Users -> SUBSET (Nat \X Nat)]
      /\ deliveries \in Seq([fragment_set : Nat, delivery_time : Int, first_to_last : Int])
  BY DEF SimInv, QueuesInv, RecordsInv
<1>0. d.fragment_set = s
  OBVIOUS
<1> HIDE DEF m, s, i, d
<1>8. events'[Sender] = events[Sender] /\ fragments'[Recipient] = F
  BY <1>2, <1>6, <1>7, UsersDiffer
<1>9. complete <=> \A j \in 0..(NumFrags - 1) : <<s, j>> \in F
  <2>1. F \in SUBSET (Nat \X Nat) /\ \A x \in F : x[2] < NumFrags
    BY <1>5, <1>7, UsersDiffer DEF RolesInv
  <2>2. FragmentsOf(u, s) \cup {<<s, i>>} = {x \in F : x[1] = s}
    BY <1>2 DEF FragmentsOf
  <2> HIDE DEF F
  <2>3. Cardinality({x \in F : x[1] = s}) = NumFrags <=> \A j \in 0..(NumFrags - 1) : <<s, j>> \in F
    BY <1>5, <2>1, CompleteMeaning
  <2> QED BY <1>5, <2>2, <2>3
<1>10. complete => Recorded' = Recorded \cup {s}
  <2> SUFFICES ASSUME complete PROVE Recorded' = Recorded \cup {s}
    OBVIOUS
  <2>1. deliveries' = Append(deliveries, d)
    BY <1>6
  <2>2. /\ Len(deliveries) \in Nat /\ Len(deliveries') = Len(deliveries) + 1
        /\ \A j \in 1..Len(deliveries) : deliveries'[j] = deliveries[j]
        /\ deliveries'[Len(deliveries) + 1] = d
    BY <1>7, <2>1, LenProperties, AppendProperties
  <2> QED BY <1>0, <2>2 DEF Recorded
<1>11. ~complete => Recorded' = Recorded
  BY <1>6 DEF Recorded
<1> HIDE DEF complete, F
<1>12. Recorded' = Recorded \/ Recorded' = Recorded \cup {s}
  BY <1>10, <1>11
<1>13. UnsentInv'
  BY <1>1, <1>6, <1>8, LaterUnsent DEF UnsentInv
<1>14. RecordInv'
  <2>1. \A x \in fragments'[Recipient] : x[1] \in DOMAIN origin
    BY <1>5, <1>8 DEF RecordInv, F
  <2>2. Recorded' \subseteq DOMAIN origin
    BY <1>5, <1>12 DEF RecordInv
  <2>3. ASSUME NEW t \in DOMAIN origin, \A j \in 0..(NumFrags - 1) : <<t, j>> \in fragments'[Recipient]
        PROVE  t \in Recorded'
    <3>1. CASE t = s
      BY <1>8, <1>9, <1>10, <2>3, <3>1
    <3>2. CASE t # s
      <4>1. \A j \in 0..(NumFrags - 1) : Arrived(t, j)
        BY <1>8, <2>3, <3>2 DEF Arrived, F
      <4> QED BY <1>12, <4>1 DEF RecordInv
    <3> QED BY <3>1, <3>2
  <2> QED BY <1>6, <2>1, <2>2, <2>3 DEF RecordInv, Arrived
<1>15. ArmedInv'
  BY <1>6, <1>8, <1>12 DEF ArmedInv
<1>16. PendingRoots' = PendingRoots /\ SentTransfers' = SentTransfers
  <2>1. \A e : Root(MessageOf(e))' = Root(MessageOf(e))
    BY <1>6 DEF Root, MessageOf
  <2> QED BY <1>6, <1>8, <2>1 DEF PendingRoots, SentTransfers, Pending
<1>17. /\ ~complete => RecordedRoots' = RecordedRoots
       /\ complete => RecordedRoots' = RecordedRoots \cup {origin[s].root}
  BY <1>6, <1>10, <1>11 DEF RecordedRoots
<1>18. SettledInv'
  BY <1>16, <1>17 DEF SettledInv, NoneLost
<1>19. CASE complete
  <2> DEFINE k == origin[s].root
  <2>1. k \in SentTransfers
    BY <1>5 DEF SentTransfers
  <2> HIDE DEF k
  <2>2. Delivers(k)
    BY <1>16, <1>17, <1>19, <2>1 DEF Delivers, k
  <2> QED BY <1>13, <1>14, <1>15, <1>18, <2>2 DEF Kept
<1>20. CASE ~complete
  <2>1. Quiet(0)
    BY <1>16, <1>17, <1>20 DEF Quiet
  <2> QED BY <1>13, <1>14, <1>15, <1>18, <2>1 DEF Kept
<1> QED BY <1>19, <1>20

(***************************************************************************)
(* A fragment whose timeout fired is pending as a packet now.              *)
(***************************************************************************)
LEMMA ResendFragmentTransfers ==
  ASSUME TransferInv, RetransmissionInv', NEW u \in Users, ResendFragment(u)
  PROVE  Kept /\ \E k : Quiet(k)
<1> USE DEF TransferInv, RetransmissionInv
<1> DEFINE e0 == NextItem(events[Sender])
           r  == Pop(events[Sender])
           id == e0.id
           stored == original_messages[Sender]
           m  == stored[id]
           k  == Root(m)
<1>1. /\ u = Sender
      /\ timestamp' \in Nat
      /\ e0 \in UserEvents /\ e0.kind = "AckTimeout"
      /\ Items(events[Sender]) = Items(r) \cup {e0}
      /\ Items(events[Sender]) \subseteq UserEvents
      /\ DueFrom(r, UserEvents, timestamp')
  BY SenderFront DEF ResendFragment
<1>2. AckStrat = "PerFragment"
  BY DEF ResendFragment
<1>3. /\ e0 \in Items(events[Sender]) /\ e0 \in Pending /\ MessageOf(e0) = m /\ MessageOK(m)
  <2>1. e0 \in Items(events[Sender]) /\ e0 \in Pending /\ MessageOf(e0) = m
    BY <1>1 DEF Pending, MessageOf
  <2> QED BY <2>1, PendingLive
<1>4. PICK way \in Drawable, ackWay \in Drawable :
        events' = [events EXCEPT ![Sender] =
                     Insert(r, timestamp', Egress(Retransmission(Sender, m, way, ackWay)))]
  BY <1>1 DEF ResendFragment
<1> DEFINE x == Egress(Retransmission(Sender, m, way, ackWay))
           c == x.packet.content
<1>5. /\ original_messages' = [original_messages EXCEPT ![Sender] = Restrict(@, DOMAIN @ \ {id})]
      /\ UNCHANGED <<fragments, deliveries, next_fragment_set, origin>>
  BY <1>1 DEF ResendFragment
<1>6. /\ way \in Routes /\ ackWay \in Path /\ m \in Messages /\ next_message_id \in Nat
  BY <1>3, <1>4, RouteAssumption DEF SimInv, RecordsInv, Drawable, MessageOK
<1>7. x.kind = "Egress" /\ x \in UserEvents /\ x \in Pending /\ c.fragment_set = m.fragment_set
  <2> DEFINE ack == Packet(ackWay, Ack(next_message_id, Sender))
             d   == [m EXCEPT !.id = next_message_id, !.ack = ack]
  <2>1. ack \in AckPackets
    BY <1>6, UsersDiffer DEF Packet, AckPackets, Ack, Acks
  <2>2. x = Egress(Packet(way, d))
    BY DEF Retransmission
  <2> HIDE DEF ack, x
  <2>3. d \in Messages /\ d.fragment_set = m.fragment_set
    BY <1>6, <2>1 DEF Messages
  <2> HIDE DEF d
  <2>4. Packet(way, d) \in [hops : Routes, content : Messages] /\ Packet(way, d).content = d
    BY <1>6, <2>3 DEF Packet
  <2>5. x.kind = "Egress" /\ x.packet = Packet(way, d) /\ x \in UserEvents
    BY <2>2, <2>4 DEF Egress, UserEvents
  <2> QED BY <2>3, <2>4, <2>5 DEF Pending
<1> HIDE DEF e0, r, id, stored, m, k, x
<1>8. /\ events'[Sender] = Insert(r, timestamp', x)
      /\ Items(Insert(r, timestamp', x)) = Items(r) \cup {x}
  BY <1>1, <1>4, <1>7, ItemsInsert, UsersDiffer DEF SimInv, QueuesInv, x
<1>9. UnsentInv'
  <2>1. e0 \in UserEvents /\ e0 \notin Unsent
    BY <1>1 DEF Unsent
  <2>2. \A f \in Items(r) : <<e0, f>> \notin Overtaking
    BY <1>1, PopOrder DEF UnsentInv, SimInv, QueuesInv, DueFrom, UserTurn, ResendFragment, e0, r
  <2>3. \A f \in Items(r) : f \in UserEvents
    BY <1>1
  <2>4. Items(r) \cap Unsent = {}
    BY <2>1, <2>2, <2>3 DEF Overtaking
  <2>5. x \notin Unsent
    BY <1>7 DEF Unsent
  <2>6. Items(events'[Sender]) \cap Unsent = {}
    BY <1>8, <2>4, <2>5
  <2> QED BY <2>6, NoneUnsent DEF UnsentInv, Unsent, Overtaking
<1>10. RecordInv' /\ ArmedInv' /\ SettledInv'
  BY <1>2, <1>5, SameRecord DEF ArmedInv, SettledInv
<1>11. /\ original_messages'[Sender] = Restrict(stored, DOMAIN stored \ {id})
       /\ \A j \in DOMAIN original_messages'[Sender] : original_messages'[Sender][j] = stored[j]
  <2>1. original_messages'[Sender] = Restrict(stored, DOMAIN stored \ {id})
    BY <1>5, UsersDiffer DEF RolesInv, stored
  <2> QED BY <2>1 DEF Restrict
<1>12. ASSUME NEW e \in Items(r), e \in Pending PROVE Root(MessageOf(e))' = Root(MessageOf(e))
  <2>1. CASE e.kind = "Egress"
    BY <1>5, <2>1 DEF MessageOf, Root
  <2>2. CASE e.kind # "Egress"
    <3>1. e.kind = "AckTimeout" /\ e \in Items(events'[Sender])
      BY <1>8, <1>12, <2>2 DEF Pending
    <3>2. e.id \in DOMAIN original_messages'[Sender]
      BY <3>1 DEF PendingInv
    <3>3. MessageOf(e)' = MessageOf(e)
      BY <1>11, <2>2, <3>2 DEF MessageOf, stored
    <3> QED BY <1>5, <3>3 DEF Root
  <2> QED BY <2>1, <2>2
<1>13. ASSUME NEW e, e = x PROVE Root(MessageOf(e))' = k
  <2>1. MessageOf(e)' = c
    BY <1>7, <1>13 DEF MessageOf
  <2> HIDE DEF c
  <2> QED BY <1>5, <1>7, <2>1 DEF Root, k
<1>14. Quiet(k)
  <2>1. Root(MessageOf(e0)) = k
    BY <1>3 DEF k
  <2>2. \A e \in Items(events[Sender]) : e \in Pending /\ e # e0 =>
          e \in Items(events'[Sender]) /\ Root(MessageOf(e))' = Root(MessageOf(e))
    BY <1>1, <1>8, <1>12
  <2>3. ASSUME NEW e \in Items(events'[Sender]), e \in Pending
        PROVE  \E f \in Items(events[Sender]) : f \in Pending /\ Root(MessageOf(e))' = Root(MessageOf(f))
    <3>1. CASE e \in Items(r)
      BY <1>1, <1>12, <2>3, <3>1
    <3>2. CASE e \notin Items(r)
      <4>1. e = x
        BY <1>8, <2>3, <3>2
      <4>2. Root(MessageOf(e))' = Root(MessageOf(e0))
        BY <1>13, <2>1, <4>1
      <4> QED BY <1>3, <4>2
    <3> QED BY <3>1, <3>2
  <2> QED BY <1>5, <2>1, <2>2, <2>3, QuietIf
<1> QED BY <1>9, <1>10, <1>14 DEF Kept

-------------------------------------------------------------------------------
(***************************************************************************)
(* The packets of a new set are queued in place of the event that made     *)
(* them, which leaves the rest of the queue and what it stands for.        *)
(***************************************************************************)
RootsOf(q) == {Root(MessageOf(e)) : e \in Items(q) \cap Pending}

NewSetQueued(r, root) ==
  /\ next_fragment_set' = next_fragment_set + 1
  /\ \E xs \in Seq(UserEvents) : /\ \A k \in 1..Len(xs) : xs[k] \notin Unsent
                                 /\ events'[Sender] = InsertAll(r, timestamp', xs)
  /\ Items(r) \subseteq Items(events'[Sender])
  /\ SentTransfers' = SentTransfers \cup {root}
  /\ PendingRoots' = RootsOf(r) \cup {root}
  /\ RecordedRoots' = RecordedRoots

LEMMA NewSetTransfers ==
  ASSUME TransferInv, RetransmissionInv', NEW kind, UserTurn(Sender, kind), kind # "Message",
         NEW sent \in Nat, QueueMessages(Sender, Sender, Recipient, NumFrags, sent),
         NEW from, origin' = Put(origin, next_fragment_set, from), from.root \in 0..(NumSends - 1),
         \A id \in DOMAIN original_messages'[Sender] :
           original_messages'[Sender][id] = original_messages[Sender][id],
         fragments'[Recipient] \subseteq fragments[Recipient], deliveries' = deliveries
  PROVE  RecordInv' /\ NewSetQueued(Pop(events[Sender]), from.root)
<1> USE DEF TransferInv, RetransmissionInv
<1> DEFINE r == Pop(events[Sender])
           n == next_fragment_set
           root == from.root
<1>1. /\ timestamp' \in Nat
      /\ Items(r) \subseteq Items(events[Sender])
      /\ Items(events[Sender]) \subseteq UserEvents
      /\ DueFrom(r, UserEvents, timestamp')
  BY SenderFront, UsersDiffer
<1>2. n \in Nat /\ DOMAIN origin = 0..(n - 1) /\ n \notin DOMAIN origin
  BY DEF SimInv, RecordsInv, OriginInv
<1>3. /\ DOMAIN origin' = DOMAIN origin \cup {n} /\ origin'[n] = from
      /\ \A s \in DOMAIN origin : origin'[s] = origin[s]
  BY <1>2 DEF Put
<1>4. PICK xs : /\ EgressOfSet(xs, sent) /\ n' = n + 1
                /\ events' = [events EXCEPT ![Sender] = InsertAll(r, timestamp', xs)]
  BY QueuedMessages
<1> HIDE DEF r, n, root
<1>5. /\ xs \in Seq(UserEvents) /\ Len(xs) = NumFrags /\ NumFrags \in Nat \ {0}
      /\ \A k \in 1..Len(xs) : /\ xs[k].kind = "Egress" /\ xs[k] \in UserEvents
                               /\ xs[k].packet.content.fragment_set = n
  BY <1>4, ConfigAssumption DEF EgressOfSet, FragmentOfSet, n
<1>6. events'[Sender] = InsertAll(r, timestamp', xs)
  BY <1>4, UsersDiffer DEF SimInv, QueuesInv
<1>7. Items(events'[Sender]) = Items(r) \cup {xs[k] : k \in 1..Len(xs)}
  BY <1>1, <1>5, <1>6, ItemsInsertAll
<1>8. RecordInv'
  <2>1. \A s \in DOMAIN origin' : origin'[s].root \in 0..(NumSends - 1)
    BY <1>3 DEF RecordInv, root
  <2>2. \A x \in fragments'[Recipient] : x[1] \in DOMAIN origin
    BY DEF RecordInv
  <2>3. Recorded' = Recorded /\ Recorded \subseteq DOMAIN origin
    BY DEF Recorded, RecordInv
  <2>4. ASSUME NEW s \in DOMAIN origin', \A i \in 0..(NumFrags - 1) : <<s, i>> \in fragments'[Recipient]
        PROVE  s \in Recorded
    <3>1. <<s, 0>> \in fragments'[Recipient]
      BY <1>5, <2>4
    <3>2. s \in DOMAIN origin
      BY <2>2, <3>1
    <3>3. \A i \in 0..(NumFrags - 1) : Arrived(s, i)
      BY <2>4 DEF Arrived
    <3> QED BY <3>2, <3>3 DEF RecordInv
  <2> QED BY <1>3, <2>1, <2>2, <2>3, <2>4 DEF RecordInv, Arrived
<1>9. RecordedRoots' = RecordedRoots
  <2>1. Recorded' = Recorded /\ Recorded \subseteq DOMAIN origin
    BY DEF Recorded, RecordInv
  <2> QED BY <1>3, <2>1 DEF RecordedRoots
<1>10. SentTransfers' = SentTransfers \cup {root}
  BY <1>3 DEF SentTransfers, root
<1>11. ASSUME NEW e \in Items(r), e \in Pending PROVE Root(MessageOf(e))' = Root(MessageOf(e))
  <2>1. e \in Items(events[Sender])
    BY <1>1
  <2>2. MessageOf(e).fragment_set \in DOMAIN origin
    BY <1>11, <2>1, PendingLive DEF MessageOK
  <2>3. MessageOf(e)' = MessageOf(e)
    <3>1. CASE e.kind = "Egress"
      BY <3>1 DEF MessageOf
    <3>2. CASE e.kind # "Egress"
      <4>1. e.kind = "AckTimeout" /\ e \in Items(events'[Sender])
        BY <1>7, <1>11, <3>2 DEF Pending
      <4>2. e.id \in DOMAIN original_messages'[Sender]
        BY <4>1 DEF PendingInv
      <4> QED BY <3>2, <4>2 DEF MessageOf
    <3> QED BY <3>1, <3>2
  <2> QED BY <1>3, <2>2, <2>3 DEF Root
<1>12. ASSUME NEW k \in 1..Len(xs), NEW e, e = xs[k]
       PROVE  e \in Items(events'[Sender]) /\ e \in Pending /\ Root(MessageOf(e))' = root
  <2>1. e \in Items(events'[Sender]) /\ e \in Pending
    BY <1>5, <1>7, <1>12 DEF Pending
  <2>2. e.kind = "Egress" /\ e.packet.content.fragment_set = n
    BY <1>5, <1>12
  <2>3. Root(MessageOf(e))' = origin'[n].root
    BY <2>2 DEF Root, MessageOf
  <2> QED BY <1>3, <2>1, <2>3 DEF root
<1>13. PendingRoots' = RootsOf(r) \cup {root}
  <2>1. ASSUME NEW e \in Items(events'[Sender]), e \in Pending
        PROVE  Root(MessageOf(e))' \in RootsOf(r) \cup {root}
    <3>1. CASE e \in Items(r)
      BY <1>11, <2>1, <3>1 DEF RootsOf
    <3>2. CASE \E k \in 1..Len(xs) : e = xs[k]
      BY <1>12, <3>2
    <3> QED BY <1>7, <3>1, <3>2
  <2>2. ASSUME NEW e \in Items(r), e \in Pending
        PROVE  \E f \in Items(events'[Sender]) : f \in Pending /\ Root(MessageOf(f))' = Root(MessageOf(e))
    BY <1>7, <1>11, <2>2
  <2>3. \E f \in Items(events'[Sender]) : f \in Pending /\ Root(MessageOf(f))' = root
    <3>1. 1 \in 1..Len(xs)
      BY <1>5
    <3>2. PICK f : f = xs[1]
      OBVIOUS
    <3> QED BY <1>12, <3>1, <3>2
  <2>4. PendingRoots' = {Root(MessageOf(e))' : e \in Items(events'[Sender]) \cap Pending}
    BY DEF PendingRoots, Pending
  <2>5. RootsOf(r) = {Root(MessageOf(e)) : e \in Items(r) \cap Pending}
    BY DEF RootsOf
  <2> QED BY <2>1, <2>2, <2>3, <2>4, <2>5
<1>14. \A k \in 1..Len(xs) : xs[k] \notin Unsent
  BY <1>5 DEF Unsent
<1>15. NewSetQueued(r, root)
  BY <1>4, <1>5, <1>6, <1>7, <1>9, <1>10, <1>13, <1>14 DEF NewSetQueued, n
<1> QED BY <1>8, <1>15 DEF r, root

(***************************************************************************)
(* A message is sent for the first time.                                   *)
(***************************************************************************)
Sends(k) ==
  /\ k \in 0..(NumSends - 1) /\ k \notin SentTransfers
  /\ SentTransfers' = SentTransfers \cup {k} /\ PendingRoots' = PendingRoots \cup {k}
  /\ RecordedRoots' = RecordedRoots

LEMMA SendsRefines ==
  ASSUME TransferInv, TransferInv', NEW k, Sends(k)
  PROVE  [Transfer!Next]_Transfer!vars
<1>1. Mapped /\ RetransmissionInv'
  BY StateMapped DEF TransferInv
<1>2. Mapped'
  BY <1>1, StateMapped, PTL
<1>3. Transfer!Send(k) /\ k \in 0..(NumSends - 1)
  BY <1>1, <1>2 DEF Sends, Mapped, Transfer!Send
<1> QED BY <1>3 DEF Transfer!Next

LEMMA StartSendTransfers ==
  ASSUME TransferInv, RetransmissionInv', NEW u \in Users, StartSend(u)
  PROVE  Kept /\ \E k : Sends(k)
<1> USE DEF TransferInv, RetransmissionInv
<1> DEFINE e0 == NextItem(events[Sender])
           q  == events[Sender]
           r  == Pop(events[Sender])
           s  == next_fragment_set
           from == [root |-> s, sent |-> timestamp']
<1>1. /\ u = Sender /\ UserTurn(Sender, "SendMessage")
      /\ timestamp' \in Nat /\ timestamp <= timestamp'
      /\ e0 \in UserEvents /\ e0.kind = "SendMessage"
      /\ Items(q) = Items(r) \cup {e0}
      /\ DueFrom(r, UserEvents, timestamp')
  BY SenderFront DEF StartSend
<1>2. e0.num_frags = NumFrags
  BY <1>1 DEF RolesInv
<1>3. /\ QueueMessages(Sender, Sender, Recipient, NumFrags, timestamp')
      /\ origin' = Put(origin, s, from)
      /\ UNCHANGED <<fragments, original_messages, deliveries>>
  BY <1>1, <1>2 DEF StartSend
<1>4. s \in Nat /\ q \in Queues(UserEvents) /\ q # <<>>
  BY <1>1, UsersDiffer DEF SimInv, QueuesInv, RecordsInv, DueFrom, UserTurn
<1>5. s \in 0..(NumSends - 1)
  <2>1. Len(q) \in Nat /\ 1 \in 1..Len(q) /\ q[1].item = e0
    BY <1>4 DEF Queues, NextItem
  <2>2. 1 + s <= NumSends
    BY <1>1, <2>1 DEF UnsentInv, WithinSends, Unsent
  <2> QED BY <1>4, <2>2, ConfigAssumption
<1>6. s \notin SentTransfers
  BY <1>4 DEF SentTransfers, OriginInv
<1>7. from.root = s
  OBVIOUS
<1> HIDE DEF e0, q, r, s, from
<1>8. RecordInv' /\ NewSetQueued(r, s)
  <2>1. from.root \in 0..(NumSends - 1) /\ origin' = Put(origin, next_fragment_set, from)
    BY <1>3, <1>5, <1>7 DEF s
  <2>2. RecordInv' /\ NewSetQueued(r, from.root)
    BY <1>1, <1>3, <2>1, NewSetTransfers DEF r
  <2> QED BY <1>7, <2>2
<1>9. PendingRoots = RootsOf(r)
  <2>1. e0 \notin Pending
    BY <1>1 DEF Pending
  <2>2. Items(q) \cap Pending = Items(r) \cap Pending
    BY <1>1, <2>1
  <2> QED BY <2>2 DEF PendingRoots, RootsOf, q
<1>10. Sends(s)
  BY <1>5, <1>6, <1>8, <1>9 DEF Sends, NewSetQueued
<1>11. UnsentInv'
  <2>1. Avoids(r, Overtaking) /\ NoneAfter(r, timestamp', Unsent)
    BY <1>1, <1>4, PopOrder, LaterUnsent DEF UnsentInv, q, r
  <2>2. WithinSends(r, s + 1)
    BY <1>4, PopUnsent DEF UnsentInv, q, r, s
  <2>3. PICK xs \in Seq(UserEvents) : /\ \A k \in 1..Len(xs) : xs[k] \notin Unsent
                                      /\ events'[Sender] = InsertAll(r, timestamp', xs)
    BY <1>8 DEF NewSetQueued
  <2>4. r \in Queues(UserEvents) /\ SortedByTime(r)
    BY <1>1 DEF DueFrom
  <2>5. LET R == InsertAll(r, timestamp', xs)
        IN  Avoids(R, Overtaking) /\ NoneAfter(R, timestamp', Unsent) /\ WithinSends(R, s + 1)
    BY <1>1, <2>1, <2>2, <2>3, <2>4, InsertUnsent
  <2>6. next_fragment_set' = s + 1
    BY <1>8 DEF NewSetQueued, s
  <2> QED BY <2>3, <2>5, <2>6 DEF UnsentInv
<1>12. ArmedInv'
  <2> SUFFICES ASSUME AckStrat = "WholeMessage", NEW t \in DOMAIN original_messages[Sender]
               PROVE  AckTimeout(t) \in Items(events'[Sender]) \/ t \in Recorded
    BY <1>3 DEF ArmedInv, Recorded
  <2>1. AckTimeout(t) # e0
    BY <1>1 DEF AckTimeout
  <2>2. AckTimeout(t) \in Items(q) \/ t \in Recorded
    BY DEF ArmedInv, q
  <2> QED BY <1>1, <1>8, <2>1, <2>2 DEF NewSetQueued
<1>13. SettledInv'
  BY <1>10 DEF Sends, SettledInv, NoneLost
<1> QED BY <1>8, <1>10, <1>11, <1>12, <1>13 DEF Kept

(***************************************************************************)
(* A message is sent again as a new set with the root of the old one.      *)
(***************************************************************************)
LEMMA ResendMessageTransfers ==
  ASSUME TransferInv, RetransmissionInv', NEW u \in Users, ResendMessage(u)
  PROVE  Kept /\ \E k : Quiet(k)
<1> USE DEF TransferInv, RetransmissionInv
<1> DEFINE e0 == NextItem(events[Sender])
           q  == events[Sender]
           r  == Pop(events[Sender])
           s  == next_fragment_set
           id == e0.id
           stored == original_messages[Sender]
           m  == stored[id]
           from == origin[m.fragment_set]
<1>1. /\ u = Sender /\ UserTurn(Sender, "AckTimeout")
      /\ e0 \in UserEvents /\ e0.kind = "AckTimeout"
      /\ Items(q) = Items(r) \cup {e0}
      /\ Items(q) \subseteq UserEvents
  BY SenderFront DEF ResendMessage
<1>2. AckStrat = "WholeMessage"
  BY DEF ResendMessage
<1>3. e0 \in Items(q) /\ e0 \in Pending /\ MessageOf(e0) = m /\ MessageOK(m)
  <2>1. e0 \in Items(q) /\ e0 \in Pending /\ MessageOf(e0) = m
    BY <1>1 DEF Pending, MessageOf
  <2> QED BY <2>1, PendingLive
<1>4. /\ QueueMessages(Sender, m.sender, m.recipient, m.fragment_size, m.sending_time)
      /\ original_messages' = [original_messages EXCEPT ![Sender] = Restrict(@, DOMAIN @ \ {id})]
      /\ fragments' = [fragments EXCEPT ![m.recipient] = @ \ FragmentsOf(m.recipient, m.fragment_set)]
      /\ origin' = Put(origin, s, from)
      /\ UNCHANGED deliveries
  BY <1>1 DEF ResendMessage
<1>5. /\ m.sender = Sender /\ m.recipient = Recipient /\ m.fragment_size = NumFrags
      /\ m.sending_time \in Nat /\ m.fragment_set \in DOMAIN origin
  BY <1>3 DEF MessageOK, Messages
<1>6. /\ from.root \in 0..(NumSends - 1) /\ from.root \in SentTransfers
      /\ Root(m) = from.root
  BY <1>5 DEF RecordInv, SentTransfers, Root
<1>7. original_messages'[Sender] = Restrict(stored, DOMAIN stored \ {id})
  BY <1>4, UsersDiffer DEF RolesInv
<1>8. /\ DOMAIN original_messages'[Sender] = DOMAIN stored \ {id}
      /\ \A k \in DOMAIN original_messages'[Sender] : original_messages'[Sender][k] = stored[k]
  BY <1>7 DEF Restrict
<1>9. fragments'[Recipient] \subseteq fragments[Recipient]
  BY <1>4, <1>5, UsersDiffer DEF SimInv, RecordsInv
<1> HIDE DEF e0, q, r, s, id, m, stored, from
<1>10. RecordInv' /\ NewSetQueued(r, from.root)
  <2>1. QueueMessages(Sender, Sender, Recipient, NumFrags, m.sending_time)
    BY <1>4, <1>5
  <2>2. origin' = Put(origin, next_fragment_set, from)
    BY <1>4 DEF s
  <2>3. \A k \in DOMAIN original_messages'[Sender] :
          original_messages'[Sender][k] = original_messages[Sender][k]
    BY <1>8 DEF stored
  <2> QED BY <1>1, <1>4, <1>5, <1>6, <1>9, <2>1, <2>2, <2>3, NewSetTransfers DEF r
<1>11. PendingRoots = RootsOf(r) \cup {from.root}
  <2>1. Items(q) \cap Pending = (Items(r) \cap Pending) \cup {e0}
    BY <1>1, <1>3
  <2>2. Root(MessageOf(e0)) = from.root
    BY <1>3, <1>6
  <2> QED BY <2>1, <2>2 DEF PendingRoots, RootsOf, q
<1>12. Quiet(0) /\ PendingRoots' = PendingRoots
  BY <1>6, <1>10, <1>11 DEF Quiet, NewSetQueued
<1>13. SettledInv'
  BY <1>12, SettledIf
<1>14. UnsentInv'
  <2>1. e0 \in UserEvents /\ e0 \notin Unsent
    BY <1>1 DEF Unsent
  <2>2. \A f \in Items(r) : <<e0, f>> \notin Overtaking
    BY <1>1, UsersDiffer, PopOrder DEF UnsentInv, SimInv, QueuesInv, DueFrom, UserTurn, e0, r
  <2>3. Items(r) \cap Unsent = {}
    BY <1>1, <2>1, <2>2 DEF Overtaking
  <2>4. PICK xs \in Seq(UserEvents) : /\ \A k \in 1..Len(xs) : xs[k] \notin Unsent
                                      /\ events'[Sender] = InsertAll(r, timestamp', xs)
    BY <1>10 DEF NewSetQueued
  <2>5. Items(events'[Sender]) = Items(r) \cup {xs[k] : k \in 1..Len(xs)}
    <3>1. timestamp' \in Nat /\ DueFrom(r, UserEvents, timestamp')
      BY <1>1, SenderFront, UsersDiffer DEF r
    <3> QED BY <2>4, <3>1, ItemsInsertAll
  <2>6. Items(events'[Sender]) \cap Unsent = {}
    BY <2>3, <2>4, <2>5
  <2> QED BY <2>6, NoneUnsent DEF UnsentInv, Unsent, Overtaking
<1>15. ArmedInv'
  <2> SUFFICES ASSUME NEW t \in DOMAIN original_messages'[Sender]
               PROVE  AckTimeout(t) \in Items(events'[Sender]) \/ t \in Recorded
    BY <1>4 DEF ArmedInv, Recorded
  <2>1. t \in DOMAIN stored /\ t # id
    BY <1>8
  <2>2. AckTimeout(t) # e0
    BY <2>1 DEF AckTimeout, id
  <2>3. AckTimeout(t) \in Items(q) \/ t \in Recorded
    BY <1>2, <2>1 DEF ArmedInv, q, stored
  <2> QED BY <1>1, <1>10, <2>2, <2>3 DEF NewSetQueued
<1> QED BY <1>10, <1>12, <1>13, <1>14, <1>15 DEF Kept

-------------------------------------------------------------------------------
LEMMA InitTransfer == Init => TransferInv /\ Transfer!Init
<1> SUFFICES ASSUME Init PROVE TransferInv /\ Transfer!Init
  OBVIOUS
<1>1. RetransmissionInv
  BY InitRetransmission
<1> DEFINE q == [i \in 1..NumSends |-> Entry(0, SendMessage(NumFrags))]
<1>2. /\ events[Sender] = q /\ fragments[Recipient] = {} /\ DOMAIN original_messages[Sender] = {}
      /\ deliveries = <<>> /\ next_fragment_set = 0 /\ DOMAIN origin = {} /\ timestamp = 0
  BY UsersDiffer DEF Init
<1>3. /\ NumSends \in Nat /\ Len(q) = NumSends
      /\ \A i \in 1..Len(q) : q[i].item = SendMessage(NumFrags) /\ q[i].time = 0
  BY ConfigAssumption DEF Entry
<1>4. SendMessage(NumFrags) \in UserEvents /\ SendMessage(NumFrags).kind = "SendMessage"
  BY ConfigAssumption DEF SendMessage, UserEvents
<1> HIDE DEF q
<1>5. UnsentInv
  <2>1. Avoids(q, Overtaking)
    BY <1>3, <1>4 DEF Avoids, Overtaking, Unsent
  <2>2. NoneAfter(q, 0, Unsent) /\ WithinSends(q, 0)
    BY <1>3 DEF NoneAfter, WithinSends
  <2> QED BY <1>2, <2>1, <2>2 DEF UnsentInv
<1>6. Recorded = {} /\ SentTransfers = {}
  BY <1>2 DEF Recorded, SentTransfers
<1>7. RecordInv /\ ArmedInv /\ SettledInv
  BY <1>2, <1>6 DEF RecordInv, ArmedInv, SettledInv, NoneLost
<1>8. PendingTransfers = {} /\ DeliveredTransfers = {}
  BY <1>2, <1>6 DEF PendingTransfers, DeliveredTransfers
<1> QED BY <1>1, <1>5, <1>6, <1>7, <1>8 DEF TransferInv, Transfer!Init

LEMMA StutterRefines ==
  ASSUME TransferInv, UNCHANGED vars
  PROVE  Kept /\ [Transfer!Next]_Transfer!vars
<1>1. /\ events' = events /\ original_messages' = original_messages
      /\ origin' = origin /\ timestamp' = timestamp /\ deliveries' = deliveries
      /\ fragments' = fragments /\ next_fragment_set' = next_fragment_set
  BY DEF vars, simVars
<1>2. \A e : Root(MessageOf(e))' = Root(MessageOf(e)) /\ \A k : WillSend(e, k)' = WillSend(e, k)
  BY <1>1 DEF Root, MessageOf, WillSend
<1>3. PendingRoots' = PendingRoots /\ SentTransfers' = SentTransfers
      /\ Recorded' = Recorded /\ RecordedRoots' = RecordedRoots
  BY <1>1, <1>2 DEF PendingRoots, Pending, SentTransfers, Recorded, RecordedRoots
<1>4. Kept
  BY <1>1, <1>3 DEF Kept, TransferInv, UnsentInv, RecordInv, Arrived, ArmedInv, SettledInv, NoneLost
<1>5. PendingTransfers' = PendingTransfers /\ DeliveredTransfers' = DeliveredTransfers
  BY <1>1, <1>2, <1>3 DEF PendingTransfers, DeliveredTransfers
<1> QED BY <1>3, <1>4, <1>5 DEF Transfer!vars

(***************************************************************************)
(* One step of the simulation keeps TransferInv and is a step of           *)
(* AckedTransfer or none.                                                  *)
(***************************************************************************)
LEMMA NextTransfer ==
  TransferInv /\ [Next]_vars => TransferInv' /\ [Transfer!Next]_Transfer!vars
<1> SUFFICES ASSUME TransferInv, [Next]_vars
             PROVE  TransferInv' /\ [Transfer!Next]_Transfer!vars
  OBVIOUS
<1> DEFINE Moves == (\E k : Quiet(k)) \/ (\E k : Delivers(k)) \/ (\E k : Sends(k))
<1>0. RetransmissionInv'
  BY NextRetransmission DEF TransferInv
<1>1. ASSUME Kept, Moves PROVE TransferInv' /\ [Transfer!Next]_Transfer!vars
  <2>1. TransferInv'
    BY <1>0, <1>1 DEF TransferInv, Kept
  <2> QED BY <1>1, <2>1, QuietRefines, DeliversRefines, SendsRefines
<1> HIDE DEF Moves
<1>2. ASSUME NEW n \in Nodes, NodeMessage(n) PROVE Kept /\ Moves
  BY <1>2, NodeMessageTransfers DEF Moves
<1>3. ASSUME NEW n \in Nodes, NodeAck(n) PROVE Kept /\ Moves
  BY <1>3, NodeAckTransfers DEF Moves
<1>4. ASSUME NEW n \in Nodes, NodeForward(n) PROVE Kept /\ Moves
  BY <1>4, NodeForwardTransfers DEF Moves
<1>5. ASSUME NEW u \in Users, ReceiveMessage(u) PROVE Kept /\ Moves
  BY <1>5, ReceiveTransfers DEF Moves
<1>6. ASSUME NEW u \in Users, NEW dropped \in BOOLEAN, EgressPacket(u, dropped) PROVE Kept /\ Moves
  BY <1>6, EgressTransfers DEF Moves
<1>7. ASSUME NEW u \in Users, StartSend(u) PROVE Kept /\ Moves
  BY <1>0, <1>7, StartSendTransfers DEF Moves
<1>8. ASSUME NEW u \in Users, ResendFragment(u) PROVE Kept /\ Moves
  BY <1>0, <1>8, ResendFragmentTransfers DEF Moves
<1>9. ASSUME NEW u \in Users, ResendMessage(u) PROVE Kept /\ Moves
  BY <1>0, <1>9, ResendMessageTransfers DEF Moves
<1>10. CASE Step
  <2>1. Kept /\ Moves
    BY <1>2, <1>3, <1>4, <1>5, <1>6, <1>7, <1>8, <1>9, <1>10 DEF Step
  <2> QED BY <1>1, <2>1
<1>11. CASE UNCHANGED vars
  <2>1. Kept /\ [Transfer!Next]_Transfer!vars
    BY <1>11, StutterRefines
  <2> QED BY <1>0, <2>1 DEF TransferInv, Kept
<1> QED BY <1>10, <1>11 DEF Next, Stop

(***************************************************************************)
(* The simulation implements the abstract transfer, under any losses and   *)
(* delays and with either strategy: a message sent once stays with its     *)
(* sender until the recipient has all of it, and nothing is recorded that  *)
(* was not sent.  (That it gets there needs fairness: ImplementsTransfer.) *)
(***************************************************************************)
THEOREM TransferRefined == Spec => Transfer!Spec
<1>1. Init => TransferInv /\ Transfer!Init
  BY InitTransfer
<1>2. TransferInv /\ [Next]_vars => TransferInv' /\ [Transfer!Next]_Transfer!vars
  BY NextTransfer
<1> QED BY <1>1, <1>2, PTL DEF Spec, Transfer!Spec

(***************************************************************************)
(* Whatever is lost or late, every message sent so far is either still     *)
(* going to be transmitted again or has been recorded as delivered, and    *)
(* only messages of run() are sent, pending or recorded.                   *)
(***************************************************************************)
THEOREM NothingLostAlways == Spec => []Transfer!NothingLost
<1>1. TransferInv => Transfer!NothingLost
  <2> SUFFICES ASSUME TransferInv PROVE Transfer!NothingLost
    OBVIOUS
  <2>1. Mapped /\ NoneLost
    BY StateMapped, SentIsSettled DEF TransferInv
  <2>2. SentTransfers \subseteq 0..(NumSends - 1)
    BY DEF TransferInv, RecordInv, SentTransfers
  <2>3. PendingTransfers \subseteq SentTransfers
    BY DEF PendingTransfers
  <2>4. DeliveredTransfers \subseteq SentTransfers
    BY <2>1 DEF Mapped, RecordedRoots, TransferInv, RecordInv, SentTransfers
  <2>5. SentTransfers \subseteq PendingTransfers \cup DeliveredTransfers
    BY <2>1 DEF Mapped, NoneLost
  <2> QED BY <2>2, <2>3, <2>4, <2>5 DEF Transfer!NothingLost
<1>2. Init => TransferInv
  BY InitTransfer
<1>3. TransferInv /\ [Next]_vars => TransferInv'
  BY NextTransfer
<1> QED BY <1>1, <1>2, <1>3, PTL DEF Spec

-------------------------------------------------------------------------------
(***************************************************************************)
(* The positions of a queue that hold an item of K, and how many they are  *)
(* after an operation on the queue.                                        *)
(***************************************************************************)
Places(q, K) == {k \in 1..Len(q) : q[k].item \in K}

Count(q, K) == Cardinality(Places(q, K))

LEMMA SameSize ==
  ASSUME NEW S, IsFiniteSet(S), NEW T, NEW f \in [S -> T],
         \A x, y \in S : f[x] = f[y] => x = y,
         \A y \in T : \E x \in S : f[x] = y
  PROVE  IsFiniteSet(T) /\ Cardinality(T) = Cardinality(S)
<1>1. f \in Bijection(S, T)
  BY DEF Bijection, Injection, Surjection, IsInjective
<1> QED BY <1>1, FS_Bijection DEF ExistsBijection

LEMMA PlacesFinite ==
  ASSUME NEW S, NEW q \in Queues(S), NEW K
  PROVE  IsFiniteSet(Places(q, K)) /\ Count(q, K) \in Nat
<1>1. IsFiniteSet(1..Len(q))
  BY QueueEntries, InitialSegment
<1>2. IsFiniteSet(Places(q, K))
  BY <1>1, FS_Subset DEF Places
<1> QED BY <1>2, FS_CardinalityType DEF Count

LEMMA CountPop ==
  ASSUME NEW S, NEW q \in Queues(S), q # <<>>, NEW K
  PROVE  Count(q, K) = Count(Pop(q), K) + (IF NextItem(q) \in K THEN 1 ELSE 0)
<1> DEFINE r == Pop(q)
           P == Places(r, K)
           T == Places(q, K) \ {1}
           f == [k \in P |-> k + 1]
<1>1. /\ Len(q) \in Nat /\ 1 \in 1..Len(q) /\ Head(q) = q[1]
      /\ r \in Queues(S) /\ Len(r) = Len(q) - 1
      /\ \A i \in 1..(Len(q) - 1) : r[i] = q[i + 1]
  BY HeadTailProperties DEF Queues, Pop
<1>2. IsFiniteSet(P) /\ IsFiniteSet(Places(q, K)) /\ Count(r, K) \in Nat
  BY <1>1, PlacesFinite
<1>3. f \in [P -> T]
  <2> SUFFICES ASSUME NEW k \in P PROVE k + 1 \in T
    OBVIOUS
  <2>1. k \in 1..(Len(q) - 1) /\ r[k].item \in K
    BY <1>1 DEF Places
  <2> QED BY <1>1, <2>1 DEF Places
<1>4. \A x, y \in P : f[x] = f[y] => x = y
  BY <1>1 DEF Places
<1>5. ASSUME NEW k \in T PROVE \E j \in P : f[j] = k
  <2>1. k \in 1..Len(q) /\ k # 1 /\ q[k].item \in K
    BY DEF Places
  <2>2. k - 1 \in 1..(Len(q) - 1) /\ (k - 1) + 1 = k
    BY <1>1, <2>1
  <2>3. k - 1 \in P
    BY <1>1, <2>1, <2>2 DEF Places
  <2> QED BY <2>2, <2>3
<1> HIDE DEF P, T, f, r
<1>6. Cardinality(T) = Cardinality(P)
  BY <1>2, <1>3, <1>4, <1>5, SameSize
<1>7. Cardinality(T) = IF 1 \in Places(q, K) THEN Count(q, K) - 1 ELSE Count(q, K)
  BY <1>2, FS_RemoveElement DEF T, Count
<1>8. 1 \in Places(q, K) <=> NextItem(q) \in K
  BY <1>1 DEF Places, NextItem
<1>9. Cardinality(P) = Count(r, K) /\ Count(q, K) \in Nat
  BY PlacesFinite DEF P, Count
<1> DEFINE a == Count(q, K)
           b == Count(r, K)
<1>10. /\ a \in Nat /\ b \in Nat
       /\ b = IF NextItem(q) \in K THEN a - 1 ELSE a
  BY <1>2, <1>6, <1>7, <1>8, <1>9
<1> HIDE DEF a, b
<1>11. a = b + (IF NextItem(q) \in K THEN 1 ELSE 0)
  BY <1>10
<1> QED BY <1>11 DEF a, b, r

LEMMA CountInsertAll ==
  ASSUME NEW S, NEW q \in Queues(S), NEW t \in Nat, SortedByTime(q), NEW xs \in Seq(S), NEW K
  PROVE  Count(InsertAll(q, t, xs), K)
           = Count(q, K) + Cardinality({i \in 1..Len(xs) : xs[i] \in K})
<1> DEFINE k == PartitionPoint(q, t)
           n == Len(xs)
           r == InsertAll(q, t, xs)
           P == Places(q, K)
           N == {i \in 1..n : xs[i] \in K}
           A == {i \in Places(r, K) : i <= k \/ ~(i <= k + n)}
           B == {i \in Places(r, K) : ~(i <= k) /\ i <= k + n}
           f == [i \in P |-> IF i <= k THEN i ELSE i + n]
           g == [i \in N |-> i + k]
<1>1. k \in 0..Len(q) /\ Len(q) \in Nat /\ n \in Nat
  BY PartitionPointProperties, QueueEntries, LenProperties
<1>2. /\ r \in Queues(S) /\ Len(r) = Len(q) + n
      /\ \A i \in 1..Len(r) : r[i] = IF i <= k THEN q[i]
                                     ELSE IF i <= k + n THEN Entry(t, xs[i - k])
                                     ELSE q[i - n]
  BY InsertAllEntries
<1>3. IsFiniteSet(P) /\ IsFiniteSet(N) /\ IsFiniteSet(Places(r, K))
  <2>1. IsFiniteSet(1..n)
    BY <1>1, InitialSegment
  <2>2. N \subseteq 1..n
    OBVIOUS
  <2> QED BY <1>2, <2>1, <2>2, PlacesFinite, FS_Subset
<1> HIDE DEF k, n, r
<1>4. Cardinality(A) = Cardinality(P)
  <2>1. ASSUME NEW i \in P PROVE f[i] \in A
    <3>1. i \in 1..Len(q) /\ q[i].item \in K
      BY DEF Places
    <3>2. CASE i <= k
      <4>1. i \in 1..Len(r) /\ r[i] = q[i]
        BY <1>1, <1>2, <3>1, <3>2
      <4> QED BY <3>1, <3>2, <4>1 DEF Places
    <3>3. CASE ~(i <= k)
      <4>1. /\ i + n \in 1..Len(r) /\ ~(i + n <= k) /\ ~(i + n <= k + n) /\ (i + n) - n = i
        BY <1>1, <1>2, <3>1, <3>3
      <4>2. r[i + n] = q[i]
        BY <1>2, <4>1
      <4> QED BY <3>1, <3>3, <4>1, <4>2 DEF Places
    <3> QED BY <3>2, <3>3
  <2>2. f \in [P -> A]
    BY <2>1
  <2>3. ASSUME NEW i \in P, NEW j \in P, f[i] = f[j] PROVE i = j
    <3>1. i \in 1..Len(q) /\ j \in 1..Len(q)
      BY DEF Places
    <3>2. (IF i <= k THEN i ELSE i + n) = (IF j <= k THEN j ELSE j + n)
      BY <2>3
    <3> QED BY <1>1, <3>1, <3>2
  <2>4. ASSUME NEW j \in A PROVE \E i \in P : f[i] = j
    <3>1. j \in 1..Len(r) /\ r[j].item \in K /\ (j <= k \/ ~(j <= k + n))
      BY DEF Places
    <3>2. CASE j <= k
      <4>1. j \in 1..Len(q) /\ r[j] = q[j]
        BY <1>1, <1>2, <3>1, <3>2
      <4>2. j \in P
        BY <3>1, <4>1 DEF Places
      <4> QED BY <3>2, <4>2
    <3>3. CASE ~(j <= k + n)
      <4>1. /\ j - n \in 1..Len(q) /\ ~(j - n <= k) /\ ~(j <= k) /\ (j - n) + n = j
        BY <1>1, <1>2, <3>1, <3>3
      <4>2. r[j] = q[j - n]
        BY <1>2, <3>1, <3>3, <4>1
      <4>3. j - n \in P
        BY <3>1, <4>1, <4>2 DEF Places
      <4> QED BY <4>1, <4>3
    <3> QED BY <3>1, <3>2, <3>3
  <2> HIDE DEF f, A, P
  <2> QED BY <1>3, <2>2, <2>3, <2>4, SameSize
<1>5. Cardinality(B) = Cardinality(N)
  <2>1. ASSUME NEW i \in N PROVE g[i] \in B
    <3>1. i \in 1..n /\ xs[i] \in K
      OBVIOUS
    <3>2. i + k \in 1..Len(r) /\ ~(i + k <= k) /\ i + k <= k + n /\ (i + k) - k = i
      BY <1>1, <1>2, <3>1
    <3>3. r[i + k] = Entry(t, xs[i])
      BY <1>2, <3>2
    <3>4. r[i + k].item = xs[i]
      BY <3>3 DEF Entry
    <3> QED BY <3>1, <3>2, <3>4 DEF Places
  <2>2. g \in [N -> B]
    BY <2>1
  <2>3. ASSUME NEW i \in N, NEW j \in N, g[i] = g[j] PROVE i = j
    <3>1. i \in 1..n /\ j \in 1..n /\ i + k = j + k
      BY <2>3
    <3> QED BY <1>1, <3>1
  <2>4. ASSUME NEW j \in B PROVE \E i \in N : g[i] = j
    <3>1. j \in 1..Len(r) /\ r[j].item \in K /\ ~(j <= k) /\ j <= k + n
      BY DEF Places
    <3>2. j - k \in 1..n /\ (j - k) + k = j
      BY <1>1, <1>2, <3>1
    <3>3. r[j] = Entry(t, xs[j - k])
      BY <1>2, <3>1
    <3>4. xs[j - k] \in K
      BY <3>1, <3>3 DEF Entry
    <3> QED BY <3>2, <3>4
  <2> HIDE DEF g, B, N
  <2> QED BY <1>3, <2>2, <2>3, <2>4, SameSize
<1>6. Cardinality(Places(r, K)) = Cardinality(A) + Cardinality(B)
  <2>1. Places(r, K) = A \cup B /\ A \cap B = {}
    <3>1. \A i \in Places(r, K) : i <= k => i <= k + n
      BY <1>1, <1>2 DEF Places
    <3> QED BY <3>1
  <2>2. IsFiniteSet(A) /\ IsFiniteSet(B)
    <3>1. A \subseteq Places(r, K) /\ B \subseteq Places(r, K)
      OBVIOUS
    <3> HIDE DEF A, B
    <3> QED BY <1>3, <3>1, FS_Subset
  <2> HIDE DEF A, B
  <2>3. Cardinality(A) \in Nat /\ Cardinality(B) \in Nat
    BY <2>2, FS_CardinalityType
  <2>4. Cardinality(A \cup B) = Cardinality(A) + Cardinality(B) - Cardinality(A \cap B)
    BY <2>2, FS_Union
  <2>5. Cardinality(A \cap B) = 0
    BY <2>1, FS_EmptySet
  <2> QED BY <2>1, <2>3, <2>4, <2>5
<1> HIDE DEF A, B, P, N
<1>7. Cardinality(Places(r, K)) = Cardinality(P) + Cardinality(N)
  BY <1>4, <1>5, <1>6
<1> QED BY <1>7 DEF Count, P, N, n, r

LEMMA CountInsert ==
  ASSUME NEW S, NEW q \in Queues(S), NEW t \in Nat, SortedByTime(q), NEW x \in S, NEW K
  PROVE  Count(Insert(q, t, x), K) = Count(q, K) + (IF x \in K THEN 1 ELSE 0)
<1> DEFINE xs == <<x>>
           N  == {i \in 1..Len(xs) : xs[i] \in K}
<1>1. xs \in Seq(S) /\ N = IF x \in K THEN {1} ELSE {}
  OBVIOUS
<1>2. Cardinality(N) = IF x \in K THEN 1 ELSE 0
  <2> HIDE DEF N
  <2> QED BY <1>1, FS_EmptySet, FS_Singleton
<1> HIDE DEF xs
<1>3. Count(InsertAll(q, t, xs), K) = Count(q, K) + Cardinality(N)
  BY <1>1, CountInsertAll
<1> QED BY <1>2, <1>3 DEF Insert, xs

LEMMA CountCancel ==
  ASSUME NEW S, NEW q \in Queues(S), SortedByTime(q), NEW x, NEW K, x \notin K
  PROVE  Count(Cancel(q, x), K) = Count(q, K)
<1> DEFINE kept == {i \in 1..Len(q) : q[i].item # x}
           c == Cardinality(kept)
           r == Cancel(q, x)
           P == Places(q, K)
           T == Places(r, K)
           f == [i \in P |-> Rank(kept, i)]
           pos(n) == CHOOSE i \in kept : Rank(kept, i) = n
<1>1. Len(q) \in Nat /\ IsFiniteSet(P) /\ r \in Queues(S)
  BY QueueEntries, PlacesFinite, CancelProperties
<1>2. /\ c \in Nat
      /\ \A i \in kept : Rank(kept, i) \in 1..c
      /\ \A i, j \in kept : i < j => Rank(kept, i) < Rank(kept, j)
      /\ \A n \in 1..c : \E i \in kept : Rank(kept, i) = n
  <2>1. kept \subseteq 1..Len(q)
    OBVIOUS
  <2> HIDE DEF kept
  <2> QED BY <1>1, <2>1, RankProperties
<1>3. /\ \A i \in kept : i \in 1..Len(q) /\ i \in Nat
      /\ \A i \in P : i \in kept /\ q[i].item \in K
  BY <1>1 DEF Places
<1>4. r = [n \in 1..c |-> q[pos(n)]]
  BY DEF Cancel
<1>5. \A i \in 1..Len(q) : q[i].item \in K => i \in P
  BY DEF Places
<1> HIDE DEF kept, c, r, P
<1>6. \A i, j \in kept : Rank(kept, i) = Rank(kept, j) => i = j
  <2> SUFFICES ASSUME NEW i \in kept, NEW j \in kept, Rank(kept, i) = Rank(kept, j)
               PROVE  i = j
    OBVIOUS
  <2>1. Rank(kept, i) \in Nat /\ ~(i < j) /\ ~(j < i)
    BY <1>2
  <2> QED BY <1>3, <2>1
<1>7. \A n \in 1..c : pos(n) \in kept /\ Rank(kept, pos(n)) = n
  BY <1>2
<1>8. Len(r) = c /\ \A n \in 1..c : r[n] = q[pos(n)]
  <2>1. DOMAIN r = 1..c /\ DOMAIN r = 1..Len(r) /\ Len(r) \in Nat
    BY <1>1, <1>4, QueueEntries
  <2>2. Len(r) = c
    <3>1. (c = 0 \/ c \in 1..Len(r)) /\ (Len(r) = 0 \/ Len(r) \in 1..c)
      BY <1>2, <2>1
    <3> QED BY <1>2, <2>1, <3>1
  <2> QED BY <1>4, <2>2
<1> HIDE DEF pos
<1>9. ASSUME NEW i \in kept PROVE pos(Rank(kept, i)) = i
  BY <1>2, <1>6, <1>7
<1>10. f \in [P -> T]
  <2> SUFFICES ASSUME NEW i \in P PROVE Rank(kept, i) \in T
    OBVIOUS
  <2>1. i \in kept /\ q[i].item \in K /\ Rank(kept, i) \in 1..c
    BY <1>2, <1>3
  <2>2. r[Rank(kept, i)] = q[i]
    BY <1>8, <1>9, <2>1
  <2> QED BY <1>8, <2>1, <2>2 DEF Places
<1>11. ASSUME NEW n \in T PROVE \E i \in P : f[i] = n
  <2>1. n \in 1..c /\ r[n].item \in K
    BY <1>8 DEF Places
  <2>2. pos(n) \in kept /\ Rank(kept, pos(n)) = n /\ r[n] = q[pos(n)]
    BY <1>7, <1>8, <2>1
  <2>3. pos(n) \in P
    BY <1>3, <1>5, <2>1, <2>2
  <2> QED BY <2>2, <2>3
<1>12. \A i, j \in P : f[i] = f[j] => i = j
  BY <1>3, <1>6
<1> HIDE DEF f, T
<1>13. Cardinality(T) = Cardinality(P)
  BY <1>1, <1>10, <1>11, <1>12, SameSize
<1> QED BY <1>13 DEF Count, P, T, r

(***************************************************************************)
(* The places of the messages that are under way, as pairs of a node and a *)
(* position, when a queue is replaced, popped or gets a packet.            *)
(***************************************************************************)
Carrying == {p \in Packets : p.content.kind = "Message"}

Transit(nodes, K) == UNION {{n} \X Places(nodes[n], K) : n \in Nodes}

LEMMA TransitReplaced ==
  ASSUME NEW K, NEW nodes, DOMAIN nodes = Nodes, IsFiniteSet(Transit(nodes, K)),
         NEW n \in Nodes, nodes[n] \in Queues(Packets), NEW q \in Queues(Packets)
  PROVE  /\ IsFiniteSet(Transit([nodes EXCEPT ![n] = q], K))
         /\ Cardinality(Transit([nodes EXCEPT ![n] = q], K))
              = Cardinality(Transit(nodes, K)) - Count(nodes[n], K) + Count(q, K)
<1> DEFINE new  == [nodes EXCEPT ![n] = q]
           P    == Places(nodes[n], K)
           Q    == Places(q, K)
           Rest == Transit(nodes, K) \ ({n} \X P)
<1>1. /\ IsFiniteSet(P) /\ IsFiniteSet(Q)
      /\ Cardinality(P) \in Nat /\ Cardinality(Q) \in Nat
  BY PlacesFinite DEF Count
<1>2. \A k \in Nodes : new[k] = IF k = n THEN q ELSE nodes[k]
  OBVIOUS
<1> HIDE DEF new
<1>3. Transit(new, K) = Rest \cup ({n} \X Q) /\ Rest \cap ({n} \X Q) = {}
  <2>1. \A x : x \in Transit(nodes, K) <=> \E k \in Nodes : x \in {k} \X Places(nodes[k], K)
    BY DEF Transit
  <2>2. \A x : x \in Transit(new, K) <=> \E k \in Nodes : x \in {k} \X Places(new[k], K)
    BY DEF Transit
  <2>3. ASSUME NEW x PROVE x \in Rest <=> \E k \in Nodes \ {n} : x \in {k} \X Places(nodes[k], K)
    BY <2>1
  <2>4. ASSUME NEW x PROVE x \in Transit(new, K) <=> x \in Rest \/ x \in {n} \X Q
    BY <1>2, <2>2, <2>3
  <2>5. ASSUME NEW x \in Rest, x \in {n} \X Q PROVE FALSE
    BY <2>3, <2>5
  <2> HIDE DEF Rest, Q
  <2> QED BY <2>4, <2>5
<1>4. /\ IsFiniteSet({n} \X P) /\ Cardinality({n} \X P) = Cardinality(P)
      /\ IsFiniteSet({n} \X Q) /\ Cardinality({n} \X Q) = Cardinality(Q)
  <2>1. IsFiniteSet({n}) /\ Cardinality({n}) = 1
    BY FS_Singleton
  <2> HIDE DEF P, Q
  <2>2. /\ IsFiniteSet({n} \X P) /\ Cardinality({n} \X P) = Cardinality({n}) * Cardinality(P)
        /\ IsFiniteSet({n} \X Q) /\ Cardinality({n} \X Q) = Cardinality({n}) * Cardinality(Q)
    BY <1>1, <2>1, FS_Product
  <2> QED BY <1>1, <2>1, <2>2
<1>5. IsFiniteSet(Rest) /\ Cardinality(Rest) = Cardinality(Transit(nodes, K)) - Cardinality(P)
  <2> DEFINE all == Transit(nodes, K)
             X   == {n} \X P
  <2>1. all \cap X = X
    BY DEF Transit
  <2>2. Rest = all \ X
    OBVIOUS
  <2>3. IsFiniteSet(all) /\ Cardinality(X) = Cardinality(P)
    BY <1>4
  <2> HIDE DEF all, X, Rest
  <2>4. IsFiniteSet(all \ X) /\ Cardinality(all \ X) = Cardinality(all) - Cardinality(all \cap X)
    BY <2>3, FS_Difference
  <2>5. IsFiniteSet(Rest) /\ Cardinality(Rest) = Cardinality(all) - Cardinality(P)
    BY <2>1, <2>2, <2>3, <2>4
  <2> QED BY <2>5 DEF all
<1>6. Cardinality(Transit(nodes, K)) \in Nat /\ Cardinality(Rest) \in Nat
  BY <1>5, FS_CardinalityType
<1> HIDE DEF Rest, P, Q
<1>7. /\ IsFiniteSet(Transit(new, K))
      /\ Cardinality(Transit(new, K)) = Cardinality(Rest) + Cardinality({n} \X Q) - Cardinality(Rest \cap ({n} \X Q))
  BY <1>3, <1>4, <1>5, FS_Union
<1>8. Cardinality(Rest \cap ({n} \X Q)) = 0
  BY <1>3, FS_EmptySet
<1>9. Cardinality(Transit(new, K)) = Cardinality(Transit(nodes, K)) - Cardinality(P) + Cardinality(Q)
  BY <1>1, <1>4, <1>5, <1>6, <1>7, <1>8
<1> QED BY <1>7, <1>9 DEF new, Count, P, Q

LEMMA TransitPopped ==
  ASSUME NEW K, NEW nodes, DOMAIN nodes = Nodes, IsFiniteSet(Transit(nodes, K)),
         NEW n \in Nodes, nodes[n] \in Queues(Packets), nodes[n] # <<>>
  PROVE  /\ IsFiniteSet(Transit([nodes EXCEPT ![n] = Pop(nodes[n])], K))
         /\ Cardinality(Transit(nodes, K)) \in Nat
         /\ Cardinality(Transit([nodes EXCEPT ![n] = Pop(nodes[n])], K))
              = IF NextItem(nodes[n]) \in K THEN Cardinality(Transit(nodes, K)) - 1
                                                   ELSE Cardinality(Transit(nodes, K))
<1> DEFINE a == Count(nodes[n], K)
           b == Count(Pop(nodes[n]), K)
           c == Cardinality(Transit(nodes, K))
           d == Cardinality(Transit([nodes EXCEPT ![n] = Pop(nodes[n])], K))
<1>1. Pop(nodes[n]) \in Queues(Packets)
  BY HeadTailProperties DEF Pop, Queues
<1>2. a \in Nat /\ b \in Nat /\ c \in Nat
  BY <1>1, PlacesFinite, FS_CardinalityType
<1>3. a = b + (IF NextItem(nodes[n]) \in K THEN 1 ELSE 0)
  BY CountPop
<1>4. IsFiniteSet(Transit([nodes EXCEPT ![n] = Pop(nodes[n])], K)) /\ d = c - a + b
  BY <1>1, TransitReplaced
<1> HIDE DEF a, b, c, d
<1>5. d = IF NextItem(nodes[n]) \in K THEN c - 1 ELSE c
  BY <1>2, <1>3, <1>4
<1> QED BY <1>2, <1>4, <1>5 DEF c, d

LEMMA TransitSendTo ==
  ASSUME NEW K, NEW t \in Nat, NEW nodes, DOMAIN nodes = Nodes, IsFiniteSet(Transit(nodes, K)),
         \A n \in Nodes : DueFrom(nodes[n], Packets, t), NEW p \in Packets
  PROVE  /\ IsFiniteSet(Transit(SendTo(nodes, t, p), K))
         /\ Cardinality(Transit(nodes, K)) \in Nat
         /\ Cardinality(Transit(SendTo(nodes, t, p), K))
              = IF p \in K THEN Cardinality(Transit(nodes, K)) + 1 ELSE Cardinality(Transit(nodes, K))
<1> DEFINE hop == Head(p.hops)
           q == Insert(nodes[hop.node], t + hop.delay, p)
           new == [nodes EXCEPT ![hop.node] = q]
           a == Count(nodes[hop.node], K)
           b == Count(q, K)
           c == Cardinality(Transit(nodes, K))
           d == Cardinality(Transit(new, K))
<1>1. hop.node \in Nodes /\ hop.delay \in Nat
  <2>1. p.hops \in Seq(Hop) /\ p.hops # <<>>
    BY DEF Packets, AckPackets, MessagePackets, Path
  <2>2. hop \in Hop
    BY <2>1
  <2> QED BY <2>2 DEF Hop
<1>2. SendTo(nodes, t, p) = new
  BY DEF SendTo
<1>3. nodes[hop.node] \in Queues(Packets) /\ SortedByTime(nodes[hop.node]) /\ t + hop.delay \in Nat
  BY <1>1 DEF DueFrom
<1>4. q \in Queues(Packets)
  <2>1. DueFrom(q, Packets, t)
    BY <1>1, DueInsert
  <2> QED BY <2>1 DEF DueFrom
<1>5. b = a + (IF p \in K THEN 1 ELSE 0)
  BY <1>3, CountInsert
<1>6. a \in Nat /\ b \in Nat /\ c \in Nat
  BY <1>3, <1>4, PlacesFinite, FS_CardinalityType
<1> HIDE DEF hop, q
<1>7. IsFiniteSet(Transit(new, K)) /\ d = c - a + b
  BY <1>1, <1>3, <1>4, TransitReplaced
<1> HIDE DEF a, b, c, d, new
<1>8. d = IF p \in K THEN c + 1 ELSE c
  BY <1>5, <1>6, <1>7
<1> QED BY <1>2, <1>6, <1>7, <1>8 DEF c, d

-------------------------------------------------------------------------------
(***************************************************************************)
(* packet_count: every id that was given out names a packet, which is      *)
(* either still queued at the sender or has left; of those that left, each *)
(* was lost, is at a node, is with the recipient's events, or was received.*)
(***************************************************************************)
Arriving == {e \in UserEvents : e.kind = "Message"}

Outgoing == Count(events[Sender], Leaving)
Incoming == Count(events[Recipient], Arriving)
Underway == Cardinality(Transit(ingress, Carrying))

Balanced(ids, outgoing, incoming, underway, lost, delivered, counted) ==
  LET left == ids - outgoing
  IN  counted = left + IF AckStrat = "PerFragment" THEN left - lost - incoming - underway
                                                   ELSE delivered

CountInv ==
  /\ IsFiniteSet(Transit(ingress, Carrying))
  /\ Balanced(next_message_id, Outgoing, Incoming, Underway, drops, Len(deliveries), packet_count)

CountingInv == RetransmissionInv /\ CountInv

LEMMA CountedTypes ==
  ASSUME RetransmissionInv, IsFiniteSet(Transit(ingress, Carrying))
  PROVE  /\ Outgoing \in Nat /\ Incoming \in Nat /\ Underway \in Nat
         /\ Len(deliveries) \in Nat /\ packet_count \in Nat /\ drops \in Nat /\ next_message_id \in Nat
<1>1. Outgoing \in Nat /\ Incoming \in Nat
  BY UsersDiffer, PlacesFinite DEF RetransmissionInv, SimInv, QueuesInv, DueFrom, Outgoing, Incoming
<1>2. Underway \in Nat
  BY FS_CardinalityType DEF Underway
<1>3. Len(deliveries) \in Nat /\ packet_count \in Nat /\ drops \in Nat /\ next_message_id \in Nat
  BY LenProperties, ConfigAssumption DEF RetransmissionInv, SimInv, RecordsInv
<1> QED BY <1>1, <1>2, <1>3

(***************************************************************************)
(* The four ways in which a step changes the counts: a packet moves to its *)
(* next place, leaves the sender, or is received, or packets are queued.   *)
(***************************************************************************)
LEMMA BalanceMoved ==
  ASSUME NEW ids \in Nat, NEW o \in Nat, NEW l \in Nat, NEW d \in Nat, NEW c \in Nat,
         NEW i \in Nat, NEW u \in Nat, NEW i2 \in Nat, NEW u2 \in Nat,
         Balanced(ids, o, i, u, l, d, c), i2 + u2 = i + u
  PROVE  Balanced(ids, o, i2, u2, l, d, c)
<1>1. ids - o - l - i2 - u2 = ids - o - l - i - u
  OBVIOUS
<1> QED BY <1>1 DEF Balanced

LEMMA BalanceLeft ==
  ASSUME NEW ids \in Nat, NEW o \in Nat, NEW i \in Nat, NEW u \in Nat, NEW l \in Nat,
         NEW d \in Nat, NEW c \in Nat, NEW o2 \in Nat, NEW u2 \in Nat, NEW l2 \in Nat,
         Balanced(ids, o, i, u, l, d, c), o = o2 + 1, u2 + l2 = u + l + 1
  PROVE  Balanced(ids, o2, i, u2, l2, d, c + 1)
BY DEF Balanced

LEMMA BalanceReceived ==
  ASSUME NEW ids \in Nat, NEW o \in Nat, NEW i \in Nat, NEW u \in Nat, NEW l \in Nat,
         NEW d \in Nat, NEW c \in Nat, NEW i2 \in Nat, NEW d2 \in Nat, NEW c2 \in Nat,
         Balanced(ids, o, i, u, l, d, c), i = i2 + 1,
         IF AckStrat = "PerFragment" THEN c2 = c + 1 ELSE c2 - c = d2 - d
  PROVE  Balanced(ids, o, i2, u, l, d2, c2)
BY DEF Balanced

LEMMA BalanceQueued ==
  ASSUME NEW ids \in Nat, NEW o \in Nat, NEW i \in Nat, NEW u \in Nat, NEW l \in Nat,
         NEW d \in Nat, NEW c \in Nat, NEW o2 \in Nat, NEW n \in Nat,
         Balanced(ids, o, i, u, l, d, c), o2 = o + n
  PROVE  Balanced(ids + n, o2, i, u, l, d, c)
BY DEF Balanced

-------------------------------------------------------------------------------
LEMMA CountNow ==
  ASSUME CountingInv
  PROVE  /\ RetransmissionInv /\ SimInv /\ MessagesInv /\ RolesInv
         /\ IsFiniteSet(Transit(ingress, Carrying)) /\ DOMAIN ingress = Nodes /\ DOMAIN events = Users
         /\ \A n \in Nodes : ingress[n] \in Queues(Packets) /\ SortedByTime(ingress[n])
         /\ \A u \in Users : events[u] \in Queues(UserEvents) /\ SortedByTime(events[u])
         /\ Outgoing \in Nat /\ Incoming \in Nat /\ Underway \in Nat
         /\ Len(deliveries) \in Nat /\ packet_count \in Nat /\ drops \in Nat /\ next_message_id \in Nat
         /\ Balanced(next_message_id, Outgoing, Incoming, Underway, drops, Len(deliveries), packet_count)
BY CountedTypes DEF CountingInv, CountInv, RetransmissionInv, SimInv, QueuesInv, DueFrom

LEMMA CountNext ==
  ASSUME IsFiniteSet(Transit(ingress', Carrying)),
         Balanced(next_message_id', Count(events'[Sender], Leaving), Count(events'[Recipient], Arriving),
                  Cardinality(Transit(ingress', Carrying)), drops', Len(deliveries'), packet_count')
  PROVE  CountInv'
BY DEF CountInv, Outgoing, Incoming, Underway, Leaving, Arriving

LEMMA CountType ==
  ASSUME NEW S, NEW t, NEW q, DueFrom(q, S, t), NEW K
  PROVE  q \in Queues(S) /\ SortedByTime(q) /\ Count(q, K) \in Nat
BY PlacesFinite DEF DueFrom

LEMMA NodeMessageCounts ==
  ASSUME CountingInv, NEW n \in Nodes, NodeMessage(n)
  PROVE  CountInv'
<1> DEFINE p == NextItem(ingress[n])
           m == p.content
           q == events[Recipient]
<1>1. /\ timestamp' \in Nat
      /\ p \in Items(ingress[n]) /\ p \in Packets
      /\ \A u \in Users : DueFrom(events[u], UserEvents, timestamp')
  BY CountNow, NodeFront DEF NodeMessage
<1>2. m.kind = "Message" /\ p \in Carrying /\ ingress[n] # <<>>
  BY <1>1 DEF NodeMessage, NodeTurn, Carrying
<1>3. MessageOK(m)
  <2>1. m \in Live
    BY <1>1, <1>2, MessagesInWhere DEF Live
  <2> QED BY <2>1, CountNow DEF MessagesInv
<1>4. m \in Messages /\ m.recipient = Recipient
  BY <1>3 DEF MessageOK
<1>5. /\ ingress' = [ingress EXCEPT ![n] = Pop(ingress[n])]
      /\ events' = [events EXCEPT ![m.recipient] =
                      Insert(events[m.recipient], timestamp', MessageEvent(m))]
      /\ UNCHANGED <<deliveries, next_message_id, packet_count, drops>>
  BY DEF NodeMessage
<1>6. MessageEvent(m) \in UserEvents /\ MessageEvent(m) \in Arriving
  BY <1>4 DEF MessageEvent, UserEvents, Arriving
<1>7. events'[Sender] = events[Sender] /\ events'[Recipient] = Insert(q, timestamp', MessageEvent(m))
  BY <1>4, <1>5, CountNow, UsersDiffer
<1>8. Count(events'[Recipient], Arriving) = Incoming + 1
  BY <1>1, <1>6, <1>7, CountNow, UsersDiffer, CountInsert DEF Incoming
<1>9. /\ IsFiniteSet(Transit(ingress', Carrying)) /\ Cardinality(Transit(ingress', Carrying)) = Underway - 1
      /\ Cardinality(Transit(ingress', Carrying)) \in Nat
  BY <1>2, <1>5, CountNow, TransitPopped, FS_CardinalityType DEF Underway
<1> DEFINE u2 == Cardinality(Transit(ingress', Carrying))
           i2 == Count(events'[Recipient], Arriving)
<1>10. u2 \in Nat /\ i2 \in Nat /\ i2 + u2 = Incoming + Underway
  <2> HIDE DEF u2, i2
  <2>1. u2 \in Nat /\ u2 = Underway - 1 /\ i2 = Incoming + 1
    BY <1>8, <1>9 DEF u2, i2
  <2> QED BY <2>1, CountNow
<1> HIDE DEF u2, i2
<1>11. Balanced(next_message_id, Outgoing, i2, u2, drops, Len(deliveries), packet_count)
  BY <1>10, CountNow, BalanceMoved
<1>12. Outgoing = Count(events'[Sender], Leaving)
  BY <1>7 DEF Outgoing
<1> QED BY <1>5, <1>9, <1>11, <1>12, CountNext DEF u2, i2

LEMMA NodeAckCounts ==
  ASSUME CountingInv, NEW n \in Nodes, NodeAck(n)
  PROVE  CountInv'
<1> DEFINE p == NextItem(ingress[n])
           x == AckTimeout(p.content.message_id)
           q == events[Sender]
<1>1. p \in Items(ingress[n]) /\ p.content.kind = "Ack" /\ ingress[n] # <<>>
  BY CountNow, NodeFront DEF NodeAck, NodeTurn
<1>2. p.content.recipient = Sender /\ p \notin Carrying
  BY <1>1, CountNow DEF RolesInv, Carrying
<1>3. x \notin Leaving
  BY DEF AckTimeout, Leaving
<1>4. /\ ingress' = [ingress EXCEPT ![n] = Pop(ingress[n])]
      /\ events' = [events EXCEPT ![p.content.recipient] = Cancel(events[p.content.recipient], x)]
      /\ UNCHANGED <<deliveries, next_message_id, packet_count, drops>>
  BY DEF NodeAck
<1> HIDE DEF x
<1>5. events'[Recipient] = events[Recipient] /\ events'[Sender] = Cancel(q, x)
  BY <1>2, <1>4, CountNow, UsersDiffer
<1>6. Count(events'[Sender], Leaving) = Outgoing
  BY <1>3, <1>5, CountNow, UsersDiffer, CountCancel DEF Outgoing
<1>7. IsFiniteSet(Transit(ingress', Carrying)) /\ Cardinality(Transit(ingress', Carrying)) = Underway
  BY <1>1, <1>2, <1>4, CountNow, TransitPopped DEF Underway
<1>8. Count(events'[Recipient], Arriving) = Incoming
  BY <1>5 DEF Incoming
<1> QED BY <1>4, <1>6, <1>7, <1>8, CountNow, CountNext

LEMMA NodeForwardCounts ==
  ASSUME CountingInv, NEW n \in Nodes, NodeForward(n)
  PROVE  CountInv'
<1> DEFINE p == NextItem(ingress[n])
           inner == Packet(Tail(p.hops), p.content)
           popped == [ingress EXCEPT ![n] = Pop(ingress[n])]
<1>1. /\ timestamp' \in Nat /\ p \in Packets
      /\ DueFrom(Pop(ingress[n]), Packets, timestamp')
      /\ \A k \in Nodes : DueFrom(ingress[k], Packets, timestamp')
  BY CountNow, NodeFront DEF NodeForward
<1>2. inner \in Packets
  <2>1. p.hops \in Path /\ Len(p.hops) > 1
    BY <1>1 DEF NodeForward, Packets, AckPackets, MessagePackets
  <2>2. Tail(p.hops) \in Path
    BY <2>1, PathTail
  <2> QED BY <1>1, <2>2 DEF Packet, Packets, AckPackets, MessagePackets
<1>3. p \in Carrying <=> inner \in Carrying
  BY <1>1, <1>2 DEF Carrying, Packet
<1>4. ingress[n] # <<>>
  BY DEF NodeForward, NodeTurn
<1>5. DOMAIN popped = Nodes /\ \A k \in Nodes : DueFrom(popped[k], Packets, timestamp')
  BY <1>1, CountNow
<1>6. /\ ingress' = SendTo(popped, timestamp', inner)
      /\ UNCHANGED <<events, deliveries, next_message_id, packet_count, drops>>
  BY DEF NodeForward
<1> DEFINE c == Cardinality(Transit(popped, Carrying))
           d == Cardinality(Transit(ingress', Carrying))
<1>7. /\ IsFiniteSet(Transit(popped, Carrying))
      /\ c = IF p \in Carrying THEN Underway - 1 ELSE Underway
  BY <1>4, CountNow, TransitPopped DEF Underway
<1> HIDE DEF inner, popped, p
<1>8. /\ IsFiniteSet(Transit(ingress', Carrying)) /\ c \in Nat
      /\ d = IF inner \in Carrying THEN c + 1 ELSE c
  BY <1>1, <1>2, <1>5, <1>6, <1>7, TransitSendTo
<1> HIDE DEF c, d
<1>9. d = Underway
  BY <1>3, <1>7, <1>8, CountNow
<1>10. Count(events'[Sender], Leaving) = Outgoing /\ Count(events'[Recipient], Arriving) = Incoming
  BY <1>6 DEF Outgoing, Incoming
<1> QED BY <1>6, <1>8, <1>9, <1>10, CountNow, CountNext DEF d

(***************************************************************************)
(* The recipient counts the acknowledgement it sends: one per fragment, or *)
(* one per delivery it records.                                            *)
(***************************************************************************)
LEMMA ReceiveCounts ==
  ASSUME CountingInv, NEW u \in Users, ReceiveMessage(u)
  PROVE  CountInv'
<1> DEFINE m        == NextItem(events[u]).message
           s        == m.fragment_set
           first    == IF s \in DOMAIN t_first[u] THEN t_first[u] ELSE Put(t_first[u], s, timestamp')
           complete == Cardinality(FragmentsOf(u, s) \cup {<<s, m.fragment_index>>}) = m.fragment_size
           record   == [fragment_set |-> s, delivery_time |-> timestamp' - m.sending_time,
                        first_to_last |-> timestamp' - first[s]]
           e0       == NextItem(events[u])
<1>1. /\ timestamp' \in Nat
      /\ e0 \in Items(events[u]) /\ e0 \in UserEvents /\ e0.kind = "Message" /\ events[u] # <<>>
      /\ DueFrom(Pop(events[u]), UserEvents, timestamp')
      /\ \A n \in Nodes : DueFrom(ingress[n], Packets, timestamp')
  BY CountNow, UserFront DEF ReceiveMessage
<1>2. u = Recipient
  BY <1>1, CountNow, UsersDiffer DEF RolesInv
<1>3. MessageOK(m)
  <2>1. m \in Live
    BY <1>1, MessagesInWhere DEF Live
  <2> QED BY <2>1, CountNow DEF MessagesInv
<1>4. m.ack \in Packets /\ m.ack \notin Carrying
  <2>1. m.ack \in Packets /\ m.ack.content = Ack(AckKey(m.id, m.fragment_set), Sender)
    BY <1>3 DEF MessageOK, Messages, Packets
  <2> QED BY <2>1 DEF Carrying, Ack
<1>5. /\ events' = [events EXCEPT ![u] = Pop(events[u])]
      /\ deliveries' = IF complete THEN Append(deliveries, record) ELSE deliveries
      /\ ingress' = IF Acknowledges(complete) THEN SendTo(ingress, timestamp', m.ack) ELSE ingress
      /\ packet_count' = IF Acknowledges(complete) THEN packet_count + 1 ELSE packet_count
      /\ UNCHANGED <<next_message_id, drops>>
  BY DEF ReceiveMessage
<1>6. e0 \in Arriving
  BY <1>1 DEF Arriving
<1>7. deliveries \in Seq([fragment_set : Nat, delivery_time : Int, first_to_last : Int])
  BY CountNow DEF SimInv, RecordsInv
<1> HIDE DEF m, s, first, complete, record, e0
<1>8. events'[Sender] = events[Sender] /\ events'[Recipient] = Pop(events[Recipient])
  BY <1>2, <1>5, CountNow, UsersDiffer
<1> DEFINE i2 == Count(events'[Recipient], Arriving)
           u2 == Cardinality(Transit(ingress', Carrying))
           d2 == Len(deliveries')
<1>9. i2 \in Nat /\ Incoming = i2 + 1
  <2>1. i2 \in Nat
    BY <1>1, <1>2, <1>8, CountType
  <2>2. Count(events[Recipient], Arriving) = Count(Pop(events[Recipient]), Arriving) + 1
    BY <1>1, <1>2, <1>6, CountNow, UsersDiffer, CountPop DEF e0
  <2> QED BY <1>8, <2>1, <2>2 DEF Incoming
<1>10. IsFiniteSet(Transit(ingress', Carrying)) /\ u2 = Underway
  <2>1. CASE Acknowledges(complete)
    <3>1. ingress' = SendTo(ingress, timestamp', m.ack)
      BY <1>5, <2>1
    <3> QED BY <1>1, <1>4, <3>1, CountNow, TransitSendTo DEF Underway
  <2>2. CASE ~Acknowledges(complete)
    <3>1. ingress' = ingress
      BY <1>5, <2>2
    <3> QED BY <3>1, CountNow DEF Underway
  <2> QED BY <2>1, <2>2
<1>11. d2 = IF complete THEN Len(deliveries) + 1 ELSE Len(deliveries)
  <2>1. Len(Append(deliveries, record)) = Len(deliveries) + 1
    BY <1>7
  <2> QED BY <1>5, <2>1
<1> HIDE DEF i2, u2, d2
<1>12. d2 \in Nat /\ packet_count' \in Nat
       /\ IF AckStrat = "PerFragment" THEN packet_count' = packet_count + 1
                                      ELSE packet_count' - packet_count = d2 - Len(deliveries)
  <2>1. Acknowledges(complete) <=> AckStrat = "PerFragment" \/ complete
    BY DEF Acknowledges
  <2> DEFINE c == packet_count
             c2 == packet_count'
             d == Len(deliveries)
  <2>2. /\ c \in Nat /\ d \in Nat /\ c2 = IF Acknowledges(complete) THEN c + 1 ELSE c
        /\ d2 = IF complete THEN d + 1 ELSE d
    BY <1>5, <1>11, CountNow
  <2> HIDE DEF c, c2, d
  <2>3. d2 \in Nat /\ c2 \in Nat
       /\ IF AckStrat = "PerFragment" THEN c2 = c + 1 ELSE c2 - c = d2 - d
    BY <2>1, <2>2
  <2> QED BY <2>3 DEF c, c2, d
<1>13. Balanced(next_message_id, Outgoing, i2, Underway, drops, d2, packet_count')
  BY <1>9, <1>12, CountNow, BalanceReceived
<1>14. Count(events'[Sender], Leaving) = Outgoing
  BY <1>8 DEF Outgoing
<1> QED BY <1>5, <1>10, <1>13, <1>14, CountNext DEF i2, u2, d2

(***************************************************************************)
(* A packet leaves the sender and is counted, whether it is lost or not.   *)
(***************************************************************************)
LEMMA EgressCounts ==
  ASSUME CountingInv, NEW u \in Users, NEW dropped \in BOOLEAN, EgressPacket(u, dropped)
  PROVE  CountInv'
<1> DEFINE e0  == NextItem(events[Sender])
           r   == Pop(events[Sender])
           p   == e0.packet
           id  == AckKey(p.content.id, p.content.fragment_set)
           due == timestamp' + Timeout(p.hops)
           x   == AckTimeout(id)
           armed == Arms(Sender, id)
<1>1. /\ u = Sender /\ timestamp' \in Nat
      /\ e0 \in UserEvents /\ e0.kind = "Egress"
      /\ DueFrom(r, UserEvents, timestamp')
      /\ \A n \in Nodes : DueFrom(ingress[n], Packets, timestamp')
  BY CountNow, SenderFront DEF EgressPacket, RetransmissionInv
<1>2. events[Sender] # <<>>
  BY <1>1 DEF EgressPacket, UserTurn
<1>3. p.hops \in Routes /\ p.content \in Messages /\ p \in Packets /\ p \in Carrying
  BY <1>1, RouteAssumption DEF UserEvents, Packets, MessagePackets, Messages, Carrying
<1>4. due \in Nat /\ x \in UserEvents /\ x \notin Leaving
  <2>1. id \in Nat
    BY <1>3, AckKeyType DEF Messages
  <2>2. Timeout(p.hops) \in Nat
    BY <1>3, TimeoutType
  <2> QED BY <1>1, <2>1, <2>2 DEF AckTimeout, UserEvents, Leaving
<1>5. /\ events' = [events EXCEPT ![Sender] = IF armed THEN Insert(r, due, x) ELSE r]
      /\ ingress' = IF dropped THEN ingress ELSE SendTo(ingress, timestamp', p)
      /\ drops' = IF dropped THEN drops + 1 ELSE drops
      /\ packet_count' = packet_count + 1
      /\ UNCHANGED <<deliveries, next_message_id>>
  BY <1>1 DEF EgressPacket
<1>6. e0 \in Leaving
  BY <1>1 DEF Leaving
<1> HIDE DEF e0, r, p, id, due, x, armed
<1>7. events'[Recipient] = events[Recipient] /\ events'[Sender] = IF armed THEN Insert(r, due, x) ELSE r
  BY <1>5, CountNow, UsersDiffer
<1> DEFINE o2 == Count(events'[Sender], Leaving)
           u2 == Cardinality(Transit(ingress', Carrying))
<1>8. o2 \in Nat /\ Outgoing = o2 + 1
  <2>1. r \in Queues(UserEvents) /\ SortedByTime(r) /\ Count(r, Leaving) \in Nat
    BY <1>1, CountType
  <2>2. Count(events[Sender], Leaving) = Count(r, Leaving) + 1
    BY <1>2, <1>6, CountNow, UsersDiffer, CountPop DEF e0, r
  <2>3. Count(Insert(r, due, x), Leaving) = Count(r, Leaving) + (IF x \in Leaving THEN 1 ELSE 0)
    BY <1>4, <2>1, CountInsert
  <2>4. Count(Insert(r, due, x), Leaving) = Count(r, Leaving)
    BY <1>4, <2>1, <2>3
  <2>5. o2 = Count(r, Leaving)
    BY <1>7, <2>4
  <2> QED BY <2>1, <2>2, <2>5 DEF Outgoing
<1>9. IsFiniteSet(Transit(ingress', Carrying)) /\ u2 = IF dropped THEN Underway ELSE Underway + 1
  BY <1>1, <1>3, <1>5, CountNow, TransitSendTo DEF Underway
<1> HIDE DEF o2, u2
<1> DEFINE l2 == drops'
<1>10. u2 \in Nat /\ l2 \in Nat /\ u2 + l2 = Underway + drops + 1
  <2>1. l2 = IF dropped THEN drops + 1 ELSE drops
    BY <1>5
  <2> HIDE DEF l2
  <2> QED BY <1>9, <2>1, CountNow
<1> HIDE DEF l2
<1>11. Balanced(next_message_id, o2, Incoming, u2, l2, Len(deliveries), packet_count + 1)
  BY <1>8, <1>10, CountNow, BalanceLeft
<1>12. Count(events'[Recipient], Arriving) = Incoming
  BY <1>7 DEF Incoming
<1> QED BY <1>5, <1>9, <1>11, <1>12, CountNext DEF o2, u2, l2

(***************************************************************************)
(* The fragments of a set are queued under as many new ids.                *)
(***************************************************************************)
LEMMA NewSetCounts ==
  ASSUME CountingInv, NEW kind, UserTurn(Sender, kind), kind \in {"SendMessage", "AckTimeout"},
         NEW sent \in Nat, QueueMessages(Sender, Sender, Recipient, NumFrags, sent),
         UNCHANGED <<ingress, deliveries, packet_count, drops>>
  PROVE  CountInv'
<1> DEFINE r  == Pop(events[Sender])
           e0 == NextItem(events[Sender])
<1>1. /\ timestamp' \in Nat
      /\ e0.kind = kind /\ events[Sender] # <<>>
      /\ DueFrom(r, UserEvents, timestamp')
  BY CountNow, UserFront, UsersDiffer
<1>2. e0 \notin Leaving
  BY <1>1 DEF Leaving
<1>3. PICK xs : /\ EgressOfSet(xs, sent)
                /\ events' = [events EXCEPT ![Sender] = InsertAll(r, timestamp', xs)]
  BY CountNow, QueuedMessages
<1>4. next_message_id' = next_message_id + NumFrags /\ NumFrags \in Nat
  BY CountNow, QueuedMessages, ConfigAssumption
<1>5. /\ xs \in Seq(UserEvents) /\ Len(xs) = NumFrags
      /\ \A k \in 1..NumFrags : xs[k] \in Leaving
  BY <1>3 DEF EgressOfSet, Leaving
<1> DEFINE N == {k \in 1..Len(xs) : xs[k] \in Leaving}
<1>6. Cardinality(N) = NumFrags
  <2>1. N = 1..NumFrags
    BY <1>5
  <2> HIDE DEF N
  <2>2. Cardinality(1..NumFrags) = NumFrags
    BY <1>4, FS_Interval
  <2> QED BY <2>1, <2>2
<1>7. r \in Queues(UserEvents) /\ SortedByTime(r)
  BY <1>1, CountType
<1>8. Count(events[Sender], Leaving) = Count(r, Leaving)
  <2>1. Count(r, Leaving) \in Nat
    BY <1>7, PlacesFinite
  <2>2. Count(events[Sender], Leaving) = Count(r, Leaving) + (IF e0 \in Leaving THEN 1 ELSE 0)
    BY <1>1, CountNow, UsersDiffer, CountPop
  <2> HIDE DEF r, e0
  <2> QED BY <1>2, <2>1, <2>2
<1>9. Count(InsertAll(r, timestamp', xs), Leaving) = Count(r, Leaving) + Cardinality(N)
  BY <1>1, <1>5, <1>7, CountInsertAll
<1> HIDE DEF r, e0, N
<1>10. /\ events'[Sender] = InsertAll(r, timestamp', xs)
       /\ events'[Recipient] = events[Recipient]
  BY <1>3, CountNow, UsersDiffer
<1> DEFINE o2 == Count(events'[Sender], Leaving)
<1>11. o2 \in Nat /\ o2 = Outgoing + NumFrags
  <2>1. o2 = Outgoing + NumFrags
    BY <1>6, <1>8, <1>9, <1>10 DEF Outgoing
  <2> HIDE DEF o2
  <2> QED BY <1>4, <2>1, CountNow
<1> HIDE DEF o2
<1>12. Balanced(next_message_id + NumFrags, o2, Incoming, Underway, drops, Len(deliveries), packet_count)
  BY <1>4, <1>11, CountNow, BalanceQueued
<1>13. Count(events'[Recipient], Arriving) = Incoming /\ Cardinality(Transit(ingress', Carrying)) = Underway
  BY <1>10 DEF Incoming, Underway
<1> QED BY <1>4, <1>12, <1>13, CountNow, CountNext DEF o2

LEMMA StartSendCounts ==
  ASSUME CountingInv, NEW u \in Users, StartSend(u)
  PROVE  CountInv'
<1> DEFINE e0 == NextItem(events[Sender])
<1>1. /\ u = Sender /\ UserTurn(Sender, "SendMessage") /\ timestamp' \in Nat
      /\ e0 \in Items(events[Sender]) /\ e0.kind = "SendMessage"
  BY CountNow, SenderFront DEF StartSend, RetransmissionInv
<1>2. e0.num_frags = NumFrags
  BY <1>1, CountNow DEF RolesInv
<1>3. /\ QueueMessages(Sender, Sender, Recipient, NumFrags, timestamp')
      /\ UNCHANGED <<ingress, deliveries, packet_count, drops>>
  BY <1>1, <1>2 DEF StartSend
<1> QED BY <1>1, <1>3, NewSetCounts

LEMMA ResendMessageCounts ==
  ASSUME CountingInv, NEW u \in Users, ResendMessage(u)
  PROVE  CountInv'
<1> DEFINE e0 == NextItem(events[Sender])
           m  == original_messages[Sender][e0.id]
<1>1. /\ u = Sender /\ UserTurn(Sender, "AckTimeout")
      /\ e0 \in Items(events[Sender]) /\ e0 \in UserEvents /\ e0.kind = "AckTimeout"
  BY CountNow, SenderFront DEF ResendMessage, RetransmissionInv
<1>2. e0 \in Pending /\ MessageOf(e0) = m
  BY <1>1 DEF Pending, MessageOf
<1>3. MessageOK(m)
  BY <1>1, <1>2, CountNow, PendingLive DEF RetransmissionInv
<1>4. /\ QueueMessages(Sender, m.sender, m.recipient, m.fragment_size, m.sending_time)
      /\ UNCHANGED <<ingress, deliveries, packet_count, drops>>
  BY <1>1 DEF ResendMessage
<1> HIDE DEF m
<1>5. /\ m.sender = Sender /\ m.recipient = Recipient /\ m.fragment_size = NumFrags
      /\ m.sending_time \in Nat
  BY <1>3 DEF MessageOK, Messages
<1>6. QueueMessages(Sender, Sender, Recipient, NumFrags, m.sending_time)
  BY <1>4, <1>5
<1> QED BY <1>1, <1>4, <1>5, <1>6, NewSetCounts

LEMMA ResendFragmentCounts ==
  ASSUME CountingInv, NEW u \in Users, ResendFragment(u)
  PROVE  CountInv'
<1> DEFINE e0 == NextItem(events[Sender])
           r  == Pop(events[Sender])
           m  == original_messages[Sender][e0.id]
<1>1. /\ u = Sender /\ timestamp' \in Nat
      /\ e0 \in Items(events[Sender]) /\ e0.kind = "AckTimeout" /\ e0 \in UserEvents
      /\ DueFrom(r, UserEvents, timestamp')
  BY CountNow, SenderFront DEF ResendFragment, RetransmissionInv
<1>2. events[Sender] # <<>> /\ AckStrat = "PerFragment"
  BY <1>1 DEF ResendFragment, UserTurn
<1>3. e0 \in Pending /\ MessageOf(e0) = m /\ e0 \notin Leaving
  BY <1>1 DEF Pending, MessageOf, Leaving
<1>4. m \in Messages
  BY <1>1, <1>3, CountNow, PendingLive DEF RetransmissionInv, MessageOK
<1>5. PICK way \in Drawable, ackWay \in Drawable :
        events' = [events EXCEPT ![Sender] =
                     Insert(r, timestamp', Egress(Retransmission(Sender, m, way, ackWay)))]
  BY <1>1 DEF ResendFragment
<1>6. /\ next_message_id' = next_message_id + 1
      /\ UNCHANGED <<ingress, deliveries, packet_count, drops>>
  BY DEF ResendFragment
<1> DEFINE ack == Packet(ackWay, Ack(next_message_id, Sender))
           c   == [m EXCEPT !.id = next_message_id, !.ack = ack]
           x   == Egress(Retransmission(Sender, m, way, ackWay))
<1>7. x = Egress(Packet(way, c))
  BY DEF Retransmission
<1>8. way \in Routes /\ ackWay \in Path
  BY <1>5, RouteAssumption DEF Drawable
<1>9. ack \in AckPackets
  BY <1>8, CountNow, UsersDiffer DEF Packet, AckPackets, Ack, Acks
<1> HIDE DEF e0, r, m, ack, x
<1>10. c \in Messages
  BY <1>4, <1>9, CountNow DEF Messages
<1> HIDE DEF c
<1>11. x \in UserEvents /\ x \in Leaving
  BY <1>7, <1>8, <1>10 DEF Egress, Packet, UserEvents, Leaving
<1>12. events'[Sender] = Insert(r, timestamp', x) /\ events'[Recipient] = events[Recipient]
  BY <1>5, CountNow, UsersDiffer DEF x
<1>13. r \in Queues(UserEvents) /\ SortedByTime(r) /\ Count(r, Leaving) \in Nat
  BY <1>1, CountType
<1>14. Count(events[Sender], Leaving) = Count(r, Leaving) + (IF e0 \in Leaving THEN 1 ELSE 0)
  BY <1>2, CountNow, UsersDiffer, CountPop DEF e0, r
<1>15. Count(Insert(r, timestamp', x), Leaving) = Count(r, Leaving) + (IF x \in Leaving THEN 1 ELSE 0)
  BY <1>1, <1>11, <1>13, CountInsert
<1> DEFINE o2 == Count(events'[Sender], Leaving)
<1>16. o2 \in Nat /\ o2 = Outgoing + 1
  BY <1>3, <1>11, <1>12, <1>13, <1>14, <1>15 DEF Outgoing
<1> HIDE DEF o2
<1>17. Balanced(next_message_id + 1, o2, Incoming, Underway, drops, Len(deliveries), packet_count)
  BY <1>16, CountNow, BalanceQueued
<1>18. Count(events'[Recipient], Arriving) = Incoming /\ Cardinality(Transit(ingress', Carrying)) = Underway
  BY <1>6, <1>12 DEF Incoming, Underway
<1> QED BY <1>6, <1>17, <1>18, CountNow, CountNext DEF o2

-------------------------------------------------------------------------------
LEMMA InitCounts == Init => CountInv
<1> SUFFICES ASSUME Init PROVE CountInv
  OBVIOUS
<1> DEFINE q == [i \in 1..NumSends |-> Entry(0, SendMessage(NumFrags))]
<1>1. /\ events[Sender] = q /\ events[Recipient] = <<>>
      /\ \A n \in Nodes : ingress[n] = <<>>
      /\ deliveries = <<>> /\ next_message_id = 0 /\ packet_count = 0 /\ drops = 0
  BY UsersDiffer DEF Init
<1>2. Len(q) = NumSends /\ \A i \in 1..Len(q) : q[i].item = SendMessage(NumFrags)
  BY ConfigAssumption DEF Entry
<1> HIDE DEF q
<1>3. Places(q, Leaving) = {}
  BY <1>2 DEF Places, Leaving, SendMessage
<1>4. \A K : Places(<<>>, K) = {}
  BY DEF Places
<1>5. Transit(ingress, Carrying) = {}
  BY <1>1, <1>4 DEF Transit
<1>6. Outgoing = 0 /\ Incoming = 0 /\ Underway = 0 /\ IsFiniteSet(Transit(ingress, Carrying))
  BY <1>1, <1>3, <1>4, <1>5, FS_EmptySet DEF Outgoing, Incoming, Underway, Count
<1>7. Len(deliveries) = 0
  BY <1>1
<1> QED BY <1>1, <1>6, <1>7 DEF CountInv, Balanced

LEMMA NextCounts == CountingInv /\ [Next]_vars => CountInv'
<1> SUFFICES ASSUME CountingInv, [Next]_vars PROVE CountInv'
  OBVIOUS
<1>1. ASSUME NEW n \in Nodes, NodeMessage(n) PROVE CountInv'
  BY <1>1, NodeMessageCounts
<1>2. ASSUME NEW n \in Nodes, NodeAck(n) PROVE CountInv'
  BY <1>2, NodeAckCounts
<1>3. ASSUME NEW n \in Nodes, NodeForward(n) PROVE CountInv'
  BY <1>3, NodeForwardCounts
<1>4. ASSUME NEW u \in Users, ReceiveMessage(u) PROVE CountInv'
  BY <1>4, ReceiveCounts
<1>5. ASSUME NEW u \in Users, NEW dropped \in BOOLEAN, EgressPacket(u, dropped) PROVE CountInv'
  BY <1>5, EgressCounts
<1>6. ASSUME NEW u \in Users, StartSend(u) PROVE CountInv'
  BY <1>6, StartSendCounts
<1>7. ASSUME NEW u \in Users, ResendFragment(u) PROVE CountInv'
  BY <1>7, ResendFragmentCounts
<1>8. ASSUME NEW u \in Users, ResendMessage(u) PROVE CountInv'
  BY <1>8, ResendMessageCounts
<1>9. CASE UNCHANGED vars
  <2>1. UNCHANGED <<events, ingress, deliveries, next_message_id, packet_count, drops>>
    BY <1>9 DEF vars, simVars
  <2> QED BY <2>1 DEF CountingInv, CountInv, Outgoing, Incoming, Underway
<1> QED BY <1>1, <1>2, <1>3, <1>4, <1>5, <1>6, <1>7, <1>8, <1>9 DEF Next, Step, Stop

LEMMA CountsMean == CountingInv => PacketsCounted
<1> SUFFICES ASSUME CountingInv PROVE PacketsCounted
  OBVIOUS
<1>1. \A u \in Users : \A k \in 1..Len(events[u]) : events[u][k].item \in UserEvents
  BY CountNow, QueueEntries
<1>2. \A n \in Nodes : \A k \in 1..Len(ingress[n]) : ingress[n][k].item \in Packets
  BY CountNow, QueueEntries
<1>3. QueuedCount(events[Sender], "Egress") = Outgoing
  <2>1. {k \in 1..Len(events[Sender]) : events[Sender][k].item.kind = "Egress"}
          = Places(events[Sender], Leaving)
    BY <1>1, UsersDiffer DEF Places, Leaving
  <2> QED BY <2>1 DEF QueuedCount, Outgoing, Count
<1>4. QueuedCount(events[Recipient], "Message") = Incoming
  <2>1. {k \in 1..Len(events[Recipient]) : events[Recipient][k].item.kind = "Message"}
          = Places(events[Recipient], Arriving)
    BY <1>1, UsersDiffer DEF Places, Arriving
  <2> QED BY <2>1 DEF QueuedCount, Incoming, Count
<1>5. Cardinality(Travelling) = Underway
  <2>1. \A n \in Nodes : {k \in 1..Len(ingress[n]) : ingress[n][k].item.content.kind = "Message"}
                           = Places(ingress[n], Carrying)
    BY <1>2 DEF Places, Carrying
  <2>2. Travelling = Transit(ingress, Carrying)
    BY <2>1 DEF Travelling, Transit
  <2> QED BY <2>2 DEF Underway
<1> DEFINE left == next_message_id - Outgoing
           received == left - drops - Incoming - Underway
<1>6. packet_count = left + IF AckStrat = "PerFragment" THEN received ELSE Len(deliveries)
  BY CountNow DEF Balanced
<1> QED BY <1>3, <1>4, <1>5, <1>6 DEF PacketsCounted

(***************************************************************************)
(* The traffic the evaluation reports is what was sent: with any losses,   *)
(* delays and retransmissions packet_count is one for every message packet *)
(* that left its sender and one for every acknowledgement of a fragment or *)
(* of a completed message, and every packet that left is accounted for.    *)
(***************************************************************************)
THEOREM PacketsCountedAlways == Spec => []PacketsCounted
<1>1. Init => CountingInv
  BY InitRetransmission, InitCounts DEF CountingInv
<1>2. CountingInv /\ [Next]_vars => CountingInv'
  BY NextRetransmission, NextCounts DEF CountingInv
<1>3. CountingInv => PacketsCounted
  BY CountsMean
<1> QED BY <1>1, <1>2, <1>3, PTL DEF Spec

-------------------------------------------------------------------------------
(***************************************************************************)
(* What the operations of a queue do to its entries.                       *)
(***************************************************************************)
LEMMA EntriesInsertAll ==
  ASSUME NEW S, NEW v, NEW q, DueFrom(q, S, v), NEW t \in Nat, NEW xs \in Seq(S)
  PROVE  Entries(InsertAll(q, t, xs)) = Entries(q) \cup {Entry(t, xs[i]) : i \in 1..Len(xs)}
BY InsertAllProperties DEF DueFrom

LEMMA EntriesStay ==
  ASSUME NEW S, NEW v, NEW q, DueFrom(q, S, v), NEW t \in Nat, NEW xs \in Seq(S)
  PROVE  Entries(q) \subseteq Entries(InsertAll(q, t, xs))
<1> DEFINE new == {Entry(t, xs[i]) : i \in 1..Len(xs)}
<1>1. Entries(InsertAll(q, t, xs)) = Entries(q) \cup new
  BY EntriesInsertAll
<1> HIDE DEF new
<1> QED BY <1>1

LEMMA EntriesInsert ==
  ASSUME NEW S, NEW v, NEW q, DueFrom(q, S, v), NEW t \in Nat, NEW x \in S
  PROVE  Entries(Insert(q, t, x)) = Entries(q) \cup {Entry(t, x)}
<1> DEFINE xs == <<x>>
<1>1. xs \in Seq(S) /\ Len(xs) = 1 /\ xs[1] = x
  OBVIOUS
<1>2. {Entry(t, xs[i]) : i \in 1..Len(xs)} = {Entry(t, x)}
  BY <1>1
<1>3. Insert(q, t, x) = InsertAll(q, t, xs)
  BY DEF Insert
<1> HIDE DEF xs
<1>4. Entries(InsertAll(q, t, xs)) = Entries(q) \cup {Entry(t, xs[i]) : i \in 1..Len(xs)}
  BY <1>1, EntriesInsertAll
<1> QED BY <1>2, <1>3, <1>4

LEMMA EntriesPop ==
  ASSUME NEW S, NEW v, NEW q, DueFrom(q, S, v), q # <<>>
  PROVE  Entries(q) = Entries(Pop(q)) \cup {Entry(NextTime(q), NextItem(q))}
BY PopProperties DEF DueFrom

LEMMA EntriesCancel ==
  ASSUME NEW S, NEW v, NEW q, DueFrom(q, S, v), NEW x
  PROVE  Entries(Cancel(q, x)) = {e \in Entries(q) : e.item # x}
BY CancelProperties DEF DueFrom

LEMMA EntriesTyped ==
  ASSUME NEW S, NEW v, NEW q, DueFrom(q, S, v)
  PROVE  /\ \A e \in Entries(q) : /\ e.time \in Nat /\ v <= e.time
                                  /\ e.item \in S /\ e.item \in Items(q)
         /\ \A x \in Items(q) : \E e \in Entries(q) : e.item = x
BY QueueEntries DEF Items, Entries, DueFrom, NothingBefore

LEMMA EntryFields ==
  ASSUME NEW t, NEW x
  PROVE  Entry(t, x).time = t /\ Entry(t, x).item = x
BY DEF Entry

LEMMA PacketHops ==
  ASSUME NEW p \in Packets
  PROVE  /\ p.hops \in Path /\ TotalDelay(p.hops) \in Nat /\ TotalDelay(Tail(p.hops)) \in Nat
         /\ Head(p.hops).node \in Nodes /\ Head(p.hops).delay \in Nat
         /\ TotalDelay(p.hops) = Head(p.hops).delay + TotalDelay(Tail(p.hops))
<1>1. p.hops \in Path
  BY DEF Packets, AckPackets, MessagePackets
<1> QED BY <1>1, TotalDelaySum

LEMMA EntriesSendTo ==
  ASSUME NEW t \in Nat, NEW nodes,
         DOMAIN nodes = Nodes, \A n \in Nodes : DueFrom(nodes[n], Packets, t),
         NEW p \in Packets
  PROVE  LET e == Entry(t + Head(p.hops).delay, p)
         IN  /\ \A n \in Nodes : /\ Entries(nodes[n]) \subseteq Entries(SendTo(nodes, t, p)[n])
                                 /\ Entries(SendTo(nodes, t, p)[n]) \subseteq Entries(nodes[n]) \cup {e}
             /\ \E n \in Nodes : e \in Entries(SendTo(nodes, t, p)[n])
<1> DEFINE hop == Head(p.hops)
<1>1. hop.node \in Nodes /\ hop.delay \in Nat
  BY PacketHops
<1>2. Entries(Insert(nodes[hop.node], t + hop.delay, p))
        = Entries(nodes[hop.node]) \cup {Entry(t + hop.delay, p)}
  BY <1>1, EntriesInsert
<1>3. SendTo(nodes, t, p) = [nodes EXCEPT ![hop.node] = Insert(nodes[hop.node], t + hop.delay, p)]
  BY DEF SendTo
<1> HIDE DEF hop
<1> QED BY <1>1, <1>2, <1>3 DEF hop

-------------------------------------------------------------------------------
(***************************************************************************)
(* A timeout is armed that outlasts time t.                                *)
(***************************************************************************)
ArmedIn(q, key, t) == \E e \in Entries(q) : e.item = AckTimeout(key) /\ t < e.time

LEMMA ArmedKept ==
  ASSUME NEW q, NEW r, NEW key, NEW t, ArmedIn(q, key, t),
         \A e \in Entries(q) : e.item = AckTimeout(key) => e \in Entries(r)
  PROVE  ArmedIn(r, key, t)
BY DEF ArmedIn

LEMMA ArmedCancel ==
  ASSUME NEW v, NEW q, DueFrom(q, UserEvents, v), NEW id, NEW key, id # key, NEW t, ArmedIn(q, key, t)
  PROVE  ArmedIn(Cancel(q, AckTimeout(id)), key, t)
<1>1. AckTimeout(id) # AckTimeout(key)
  BY DEF AckTimeout
<1> QED BY <1>1, EntriesCancel, ArmedKept

LEMMA ArmedItem ==
  ASSUME NEW v, NEW q, DueFrom(q, UserEvents, v), NEW key, NEW t, ArmedIn(q, key, t)
  PROVE  AckTimeout(key) \in Items(q) /\ AckTimeout(key) \in Pending
         /\ AckTimeout(key).id = key /\ AckTimeout(key).kind = "AckTimeout"
<1>1. AckTimeout(key) \in Items(q) /\ AckTimeout(key) \in UserEvents
  BY EntriesTyped DEF ArmedIn
<1> QED BY <1>1 DEF AckTimeout, Pending

-------------------------------------------------------------------------------
(***************************************************************************)
(* A queue, or the nodes together, hold an item of K just if its count is  *)
(* not zero.                                                               *)
(***************************************************************************)
LEMMA CountNone ==
  ASSUME NEW S, NEW q \in Queues(S), NEW K
  PROVE  /\ Count(q, K) \in Nat
         /\ Count(q, K) = 0 <=> Items(q) \cap K = {}
<1>1. IsFiniteSet(Places(q, K)) /\ Count(q, K) \in Nat
  BY PlacesFinite
<1>2. Places(q, K) = {} <=> Items(q) \cap K = {}
  BY DEF Places, Items
<1>3. Count(q, K) = 0 <=> Places(q, K) = {}
  BY <1>1, FS_EmptySet DEF Count
<1> QED BY <1>1, <1>2, <1>3

LEMMA TransitNone ==
  ASSUME NEW nodes, NEW K, IsFiniteSet(Transit(nodes, K))
  PROVE  /\ Cardinality(Transit(nodes, K)) \in Nat
         /\ Cardinality(Transit(nodes, K)) = 0 <=> \A n \in Nodes : Items(nodes[n]) \cap K = {}
<1> DEFINE T == Transit(nodes, K)
<1>1. \A n \in Nodes : Places(nodes[n], K) = {} <=> Items(nodes[n]) \cap K = {}
  BY DEF Places, Items
<1>2. T = {} <=> \A n \in Nodes : Places(nodes[n], K) = {}
  <2>1. ASSUME NEW n \in Nodes, NEW k \in Places(nodes[n], K) PROVE <<n, k>> \in T
    BY DEF Transit
  <2>2. ASSUME NEW x \in T PROVE \E n \in Nodes : Places(nodes[n], K) # {}
    BY DEF Transit
  <2> HIDE DEF T
  <2> QED BY <2>1, <2>2
<1>3. IsFiniteSet(T)
  OBVIOUS
<1> HIDE DEF T
<1>4. Cardinality(T) \in Nat /\ (Cardinality(T) = 0 <=> T = {})
  BY <1>3, FS_CardinalityType, FS_EmptySet
<1> QED BY <1>1, <1>2, <1>4 DEF T

-------------------------------------------------------------------------------
(***************************************************************************)
(* Where a fragment may be: in a packet queued at its sender, in one at a  *)
(* node, in an event of its recipient, or with the recipient.              *)
(***************************************************************************)
FragmentOf(m) == <<m.fragment_set, m.fragment_index>>

Outbound(f) == {e \in Leaving : FragmentOf(e.packet.content) = f}
Carried(f) == {p \in Carrying : FragmentOf(p.content) = f}
Inbound(f) == {e \in Arriving : FragmentOf(e.message) = f}

Copies(f) ==
  Count(events[Sender], Outbound(f)) + Cardinality(Transit(ingress, Carried(f)))
  + Count(events[Recipient], Inbound(f)) + (IF f \in fragments[Recipient] THEN 1 ELSE 0)

(***************************************************************************)
(* No fragment is in two places, and no acknowledgement at two.            *)
(***************************************************************************)
CopiesInv == \A f \in Nat \X Nat : IsFiniteSet(Transit(ingress, Carried(f))) /\ Copies(f) <= 1

AcksOf(id) == {p \in Packets : p.content.kind = "Ack" /\ p.content.message_id = id}
AcksInv == \A id \in Nat : /\ IsFiniteSet(Transit(ingress, AcksOf(id)))
                           /\ Cardinality(Transit(ingress, AcksOf(id))) <= 1

(***************************************************************************)
(* Of what is under way, the acknowledgement will be back before a timeout *)
(* armed for it is due: the time at which content c of a packet, or its    *)
(* acknowledgement, is back, once it is handed over, is BackDelay later.   *)
(***************************************************************************)
KeyOf(c) == IF c.kind = "Ack" THEN c.message_id ELSE AckKey(c.id, c.fragment_set)
BackDelay(c) == IF c.kind = "Ack" THEN 0 ELSE TotalDelay(c.ack.hops)

InTimeInv ==
  /\ \A n \in Nodes : \A e \in Entries(ingress[n]) :
       ArmedIn(events[Sender], KeyOf(e.item.content),
               e.time + TotalDelay(Tail(e.item.hops)) + BackDelay(e.item.content))
  /\ \A e \in Entries(events[Recipient]) :
       ArmedIn(events[Sender], KeyOf(e.item.message), e.time + BackDelay(e.item.message))

(***************************************************************************)
(* Per message the first packet of a set arms the timeout for those still  *)
(* queued behind it, which leave at the same time on other routes.         *)
(***************************************************************************)
QueuedInv ==
  AckStrat = "WholeMessage" =>
    \A e \in Items(events[Sender]) : e.kind = "Egress" =>
      LET s == e.packet.content.fragment_set
      IN  s \in DOMAIN original_messages[Sender] =>
            \A way, back \in Routes :
              ArmedIn(events[Sender], s, timestamp + TotalDelay(way) + TotalDelay(back))

(***************************************************************************)
(* What has arrived, or was recorded, while its timeout is still armed has *)
(* its acknowledgement under way.                                          *)
(***************************************************************************)
Settled(m) == IF AckStrat = "PerFragment" THEN FragmentOf(m) \in fragments[Recipient]
                                          ELSE m.fragment_set \in Recorded

Answered(nodes, id) == \E n \in Nodes : \E p \in Items(nodes[n]) : p.content = Ack(id, Sender)

AckedInv ==
  \A e \in Items(events[Sender]) :
    e.kind = "AckTimeout" /\ Settled(MessageOf(e)) => Answered(ingress, e.id)

(***************************************************************************)
(* The sets that are recorded or still transmitted: one of each message.   *)
(***************************************************************************)
Active == Recorded \cup {MessageOf(e).fragment_set : e \in Items(events[Sender]) \cap Pending}
ActiveInv == \A s, t \in Active : origin[s].root = origin[t].root => s = t

(***************************************************************************)
(* A set that was recorded stays complete, and is recorded once.           *)
(***************************************************************************)
CompleteInv ==
  /\ \A s \in Recorded, i \in 0..(NumFrags - 1) : <<s, i>> \in fragments[Recipient]
  /\ \A i, j \in 1..Len(deliveries) :
       deliveries[i].fragment_set = deliveries[j].fragment_set => i = j

OnTimeInv == /\ CopiesInv /\ AcksInv /\ InTimeInv /\ QueuedInv
             /\ AckedInv /\ ActiveInv /\ CompleteInv
PromptInv == TransferInv /\ OnTimeInv

-------------------------------------------------------------------------------
(***************************************************************************)
(* What the parts of the invariant are about, with its types.              *)
(***************************************************************************)
LEMMA PromptNow ==
  ASSUME PromptInv
  PROVE  /\ TransferInv /\ RetransmissionInv /\ SimInv /\ MessagesInv /\ RolesInv /\ OriginInv
         /\ PendingInv /\ AckInv /\ RecordInv /\ ArmedInv /\ CopiesInv /\ AcksInv /\ InTimeInv
         /\ QueuedInv /\ AckedInv /\ ActiveInv /\ CompleteInv
         /\ timestamp \in Nat /\ DOMAIN ingress = Nodes /\ DOMAIN events = Users
         /\ DOMAIN fragments = Users /\ fragments[Recipient] \subseteq Nat \X Nat
         /\ \A n \in Nodes : DueFrom(ingress[n], Packets, timestamp)
         /\ \A u \in Users : DueFrom(events[u], UserEvents, timestamp)
         /\ next_message_id \in Nat /\ next_fragment_set \in Nat
<1>1. RetransmissionInv /\ SimInv
  BY DEF PromptInv, TransferInv, RetransmissionInv
<1>2. fragments[Recipient] \subseteq Nat \X Nat /\ DOMAIN fragments = Users
  BY <1>1, UsersDiffer DEF SimInv, RecordsInv
<1> QED BY <1>1, <1>2 DEF PromptInv, OnTimeInv, TransferInv, RetransmissionInv, SimInv, QueuesInv, RecordsInv

(***************************************************************************)
(* The numbers that Copies adds up.                                        *)
(***************************************************************************)
LEMMA CopiesNow ==
  ASSUME PromptInv, NEW f \in Nat \X Nat
  PROVE  /\ IsFiniteSet(Transit(ingress, Carried(f)))
         /\ Count(events[Sender], Outbound(f)) \in Nat
         /\ Cardinality(Transit(ingress, Carried(f))) \in Nat
         /\ Count(events[Recipient], Inbound(f)) \in Nat
         /\ Copies(f) \in Nat /\ Copies(f) <= 1
         /\ Copies(f) = Count(events[Sender], Outbound(f)) + Cardinality(Transit(ingress, Carried(f)))
              + Count(events[Recipient], Inbound(f)) + (IF f \in fragments[Recipient] THEN 1 ELSE 0)
         /\ Count(events[Sender], Outbound(f)) = 0 <=> Items(events[Sender]) \cap Outbound(f) = {}
         /\ Cardinality(Transit(ingress, Carried(f))) = 0 <=>
              \A n \in Nodes : Items(ingress[n]) \cap Carried(f) = {}
         /\ Count(events[Recipient], Inbound(f)) = 0 <=> Items(events[Recipient]) \cap Inbound(f) = {}
<1> DEFINE o == Count(events[Sender], Outbound(f))
           t == Cardinality(Transit(ingress, Carried(f)))
           n == Count(events[Recipient], Inbound(f))
<1>1. IsFiniteSet(Transit(ingress, Carried(f))) /\ Copies(f) <= 1
  BY PromptNow DEF CopiesInv
<1>2. events[Sender] \in Queues(UserEvents) /\ events[Recipient] \in Queues(UserEvents)
  BY PromptNow, UsersDiffer DEF DueFrom
<1>3. o \in Nat /\ (o = 0 <=> Items(events[Sender]) \cap Outbound(f) = {})
  BY <1>2, CountNone
<1>4. n \in Nat /\ (n = 0 <=> Items(events[Recipient]) \cap Inbound(f) = {})
  BY <1>2, CountNone
<1>5. t \in Nat /\ (t = 0 <=> \A k \in Nodes : Items(ingress[k]) \cap Carried(f) = {})
  BY <1>1, TransitNone
<1>6. Copies(f) = o + t + n + (IF f \in fragments[Recipient] THEN 1 ELSE 0)
  BY DEF Copies
<1> HIDE DEF o, t, n
<1>7. Copies(f) \in Nat
  BY <1>3, <1>4, <1>5, <1>6
<1> QED BY <1>1, <1>3, <1>4, <1>5, <1>6, <1>7 DEF o, t, n

(***************************************************************************)
(* Where an event or packet with a message belongs.                        *)
(***************************************************************************)
LEMMA SenderMessages ==
  ASSUME PromptInv, NEW e \in Items(events[Sender]), e.kind = "Egress"
  PROVE  LET m == e.packet.content
         IN  /\ m \in Live /\ MessageOK(m) /\ m \in Messages /\ FragmentOf(m) \in Nat \X Nat
             /\ e \in Outbound(FragmentOf(m)) /\ e \in Pending /\ MessageOf(e) = m
             /\ e.packet.hops \in Routes /\ e \in UserEvents
<1> DEFINE m == e.packet.content
<1>1. e \in UserEvents
  BY PromptNow, UsersDiffer, ItemsTyped
<1>2. m \in Live
  BY UsersDiffer, MessagesInWhere DEF Live
<1>3. MessageOK(m) /\ m \in Messages
  BY <1>2, PromptNow DEF MessagesInv, MessageOK
<1>4. FragmentOf(m) \in Nat \X Nat
  BY <1>3 DEF FragmentOf, Messages
<1>5. e \in Leaving /\ e \in Pending /\ MessageOf(e) = m
  BY <1>1 DEF Leaving, Pending, MessageOf
<1>6. e.packet.hops \in Routes
  BY <1>1 DEF UserEvents
<1> QED BY <1>1, <1>2, <1>3, <1>4, <1>5, <1>6 DEF Outbound

LEMMA NodeMessages ==
  ASSUME PromptInv, NEW n \in Nodes, NEW p \in Items(ingress[n]), p.content.kind = "Message"
  PROVE  LET m == p.content
         IN  /\ m \in Live /\ MessageOK(m) /\ m \in Messages /\ FragmentOf(m) \in Nat \X Nat
             /\ p \in Carried(FragmentOf(m)) /\ p \in Packets
<1> DEFINE m == p.content
<1>1. p \in Packets
  BY PromptNow, ItemsTyped
<1>2. m \in Live
  BY MessagesInWhere DEF Live
<1>3. MessageOK(m) /\ m \in Messages
  BY <1>2, PromptNow DEF MessagesInv, MessageOK
<1>4. FragmentOf(m) \in Nat \X Nat
  BY <1>3 DEF FragmentOf, Messages
<1> QED BY <1>1, <1>2, <1>3, <1>4 DEF Carried, Carrying

LEMMA RecipientMessages ==
  ASSUME PromptInv, NEW e \in Items(events[Recipient])
  PROVE  LET m == e.message
         IN  /\ m \in Live /\ MessageOK(m) /\ m \in Messages /\ FragmentOf(m) \in Nat \X Nat
             /\ e \in Inbound(FragmentOf(m)) /\ e \in UserEvents /\ e.kind = "Message"
             /\ m.kind = "Message"
<1> DEFINE m == e.message
<1>1. e \in UserEvents /\ e.kind = "Message"
  BY PromptNow, UsersDiffer, ItemsTyped DEF RolesInv
<1>2. m \in Live
  BY <1>1, UsersDiffer, MessagesInWhere DEF Live
<1>3. MessageOK(m) /\ m \in Messages
  BY <1>2, PromptNow DEF MessagesInv, MessageOK
<1>4. FragmentOf(m) \in Nat \X Nat /\ m.kind = "Message"
  BY <1>3 DEF FragmentOf, Messages
<1> QED BY <1>1, <1>2, <1>3, <1>4 DEF Inbound, Arriving

(***************************************************************************)
(* What is queued or under way has not arrived.                            *)
(***************************************************************************)
LEMMA NotYetArrived ==
  ASSUME PromptInv
  PROVE  /\ \A e \in Items(events[Sender]) :
              e.kind = "Egress" => FragmentOf(e.packet.content) \notin fragments[Recipient]
         /\ \A n \in Nodes : \A p \in Items(ingress[n]) :
              p.content.kind = "Message" => FragmentOf(p.content) \notin fragments[Recipient]
         /\ \A e \in Items(events[Recipient]) : FragmentOf(e.message) \notin fragments[Recipient]
<1>1. ASSUME NEW e \in Items(events[Sender]), e.kind = "Egress"
      PROVE  FragmentOf(e.packet.content) \notin fragments[Recipient]
  <2> DEFINE f == FragmentOf(e.packet.content)
  <2>1. f \in Nat \X Nat /\ e \in Outbound(f)
    BY <1>1, SenderMessages
  <2> HIDE DEF f
  <2>2. Count(events[Sender], Outbound(f)) # 0
    BY <2>1, CopiesNow
  <2>3. f \notin fragments[Recipient]
    BY <2>1, <2>2, CopiesNow
  <2> QED BY <2>3 DEF f
<1>2. ASSUME NEW n \in Nodes, NEW p \in Items(ingress[n]), p.content.kind = "Message"
      PROVE  FragmentOf(p.content) \notin fragments[Recipient]
  <2> DEFINE f == FragmentOf(p.content)
  <2>1. f \in Nat \X Nat /\ p \in Carried(f)
    BY <1>2, NodeMessages
  <2> HIDE DEF f
  <2>2. Cardinality(Transit(ingress, Carried(f))) # 0
    BY <2>1, CopiesNow
  <2>3. f \notin fragments[Recipient]
    BY <2>1, <2>2, CopiesNow
  <2> QED BY <2>3 DEF f
<1>3. ASSUME NEW e \in Items(events[Recipient])
      PROVE  FragmentOf(e.message) \notin fragments[Recipient]
  <2> DEFINE f == FragmentOf(e.message)
  <2>1. f \in Nat \X Nat /\ e \in Inbound(f)
    BY <1>3, RecipientMessages
  <2> HIDE DEF f
  <2>2. Count(events[Recipient], Inbound(f)) # 0
    BY <2>1, CopiesNow
  <2>3. f \notin fragments[Recipient]
    BY <2>1, <2>2, CopiesNow
  <2> QED BY <2>3 DEF f
<1> QED BY <1>1, <1>2, <1>3

(***************************************************************************)
(* Two pending events of one unit, of which one is a timeout, are the same.*)
(***************************************************************************)
LEMMA NoTwins ==
  ASSUME PromptInv, NEW e \in Items(events[Sender]), NEW f \in Items(events[Sender]),
         <<e, f>> \in Clashes, <<f, e>> \in Clashes
  PROVE  e = f
<1> DEFINE q == events[Sender]
<1>1. Avoids(q, Clashes) /\ Len(q) \in Nat
  BY PromptNow, UsersDiffer, QueueEntries DEF PendingInv, DueFrom
<1>2. PICK k \in 1..Len(q), l \in 1..Len(q) : e = q[k].item /\ f = q[l].item
  BY DEF Items
<1> HIDE DEF q
<1>3. ~(k < l) /\ ~(l < k)
  BY <1>1, <1>2 DEF Avoids
<1> QED BY <1>1, <1>2, <1>3

(***************************************************************************)
(* The timeout armed under the key of a message stands for its unit, and   *)
(* is the only one: for no other event does it.                            *)
(***************************************************************************)
StandsFor(e, m) ==
  /\ e \in Items(events[Sender]) /\ e \in Pending /\ e.kind = "AckTimeout"
  /\ MessageOf(e).fragment_set = m.fragment_set /\ Unit(MessageOf(e)) = Unit(m)

LEMMA TimeoutStandsFor ==
  ASSUME PromptInv, NEW m \in Live, m.kind = "Message",
         AckTimeout(KeyOf(m)) \in Items(events[Sender])
  PROVE  /\ StandsFor(AckTimeout(KeyOf(m)), m) /\ m.fragment_set \in Active
         /\ \A f \in Items(events[Sender]) :
              f \in Pending /\ f.kind = "AckTimeout" /\ Unit(MessageOf(f)) = Unit(m)
                => f = AckTimeout(KeyOf(m))
<1> DEFINE e == AckTimeout(KeyOf(m))
           o == MessageOf(e)
<1>1. e \in UserEvents /\ e.kind = "AckTimeout" /\ e.id = KeyOf(m)
  BY PromptNow, UsersDiffer, ItemsTyped DEF AckTimeout
<1>2. e \in Pending
  BY <1>1 DEF Pending
<1>3. /\ o \in Live /\ MessageOK(o) /\ MessageOK(m)
      /\ e.id = AckKey(o.id, o.fragment_set)
  BY <1>1, <1>2, PromptNow, PendingLive DEF MessagesInv
<1>4. KeyOf(m) = AckKey(m.id, m.fragment_set)
  BY DEF KeyOf
<1> HIDE DEF e, o
<1>5. o.fragment_set = m.fragment_set /\ Unit(o) = Unit(m)
  <2>1. CASE AckStrat = "PerFragment"
    <3>1. o.id = m.id
      BY <1>1, <1>3, <1>4, <2>1 DEF AckKey
    <3> QED BY <2>1, <3>1, <1>3, PromptNow DEF MessagesInv, Unit
  <2>2. CASE AckStrat # "PerFragment"
    BY <1>1, <1>3, <1>4, <2>2 DEF AckKey, Unit
  <2> QED BY <2>1, <2>2
<1>6. e \in Items(events[Sender])
  BY DEF e
<1>7. ASSUME NEW f \in Items(events[Sender]), f \in Pending, f.kind = "AckTimeout",
             Unit(MessageOf(f)) = Unit(m)
      PROVE  f = e
  <2>1. <<e, f>> \in Clashes /\ <<f, e>> \in Clashes
    BY <1>1, <1>2, <1>5, <1>7, ClashesMeaning DEF o
  <2> QED BY <1>6, <1>7, <2>1, NoTwins
<1>8. m.fragment_set \in Active
  BY <1>2, <1>5, <1>6 DEF Active, o
<1> QED BY <1>1, <1>2, <1>5, <1>6, <1>7, <1>8 DEF StandsFor, e, o

(***************************************************************************)
(* A timeout is armed for everything under way.                            *)
(***************************************************************************)
LEMMA TimeoutArmed ==
  ASSUME PromptInv
  PROVE  /\ \A n \in Nodes : \A p \in Items(ingress[n]) :
              AckTimeout(KeyOf(p.content)) \in Items(events[Sender])
         /\ \A e \in Items(events[Recipient]) :
              AckTimeout(KeyOf(e.message)) \in Items(events[Sender])
<1>0. DueFrom(events[Sender], UserEvents, timestamp) /\ DueFrom(events[Recipient], UserEvents, timestamp)
  BY PromptNow, UsersDiffer
<1>1. ASSUME NEW n \in Nodes, NEW p \in Items(ingress[n])
      PROVE  AckTimeout(KeyOf(p.content)) \in Items(events[Sender])
  <2>1. DueFrom(ingress[n], Packets, timestamp)
    BY PromptNow
  <2>2. PICK e \in Entries(ingress[n]) : e.item = p
    BY <2>1, EntriesTyped
  <2>3. \E t : ArmedIn(events[Sender], KeyOf(p.content), t)
    BY <2>2, PromptNow DEF InTimeInv
  <2> QED BY <2>3, <1>0, ArmedItem
<1>2. ASSUME NEW e \in Items(events[Recipient])
      PROVE  AckTimeout(KeyOf(e.message)) \in Items(events[Sender])
  <2>1. PICK f \in Entries(events[Recipient]) : f.item = e
    BY <1>0, EntriesTyped
  <2>2. \E t : ArmedIn(events[Sender], KeyOf(e.message), t)
    BY <2>1, PromptNow DEF InTimeInv
  <2> QED BY <2>2, <1>0, ArmedItem
<1> QED BY <1>1, <1>2

(***************************************************************************)
(* While an acknowledgement is under way, nothing it could acknowledge is. *)
(***************************************************************************)
LEMMA AckAlone ==
  ASSUME PromptInv, NEW n \in Nodes, NEW a \in Items(ingress[n]), a.content.kind = "Ack"
  PROVE  /\ \A k \in Nodes : \A p \in Items(ingress[k]) :
              p.content.kind = "Message" => KeyOf(p.content) # a.content.message_id
         /\ \A e \in Items(events[Recipient]) : KeyOf(e.message) # a.content.message_id
         /\ AckStrat = "WholeMessage" =>
              \A e \in Items(events[Sender]) :
                e.kind = "Egress" => e.packet.content.fragment_set # a.content.message_id
<1> DEFINE id == a.content.message_id
<1>1. /\ AckStrat = "PerFragment" =>
           \A m \in Live : m.id = id => Arrived(m.fragment_set, m.fragment_index)
      /\ AckStrat = "WholeMessage" =>
           \A e \in Items(events[Sender]) :
             e \in Pending /\ MessageOf(e).fragment_set = id =>
               \A i \in 0..(NumFrags - 1) : Arrived(id, i)
  BY PromptNow DEF AckInv
<1> HIDE DEF id
<1>2. ASSUME NEW m \in Live, MessageOK(m), m.kind = "Message", KeyOf(m) = id,
             AckTimeout(KeyOf(m)) \in Items(events[Sender])
      PROVE  FragmentOf(m) \in fragments[Recipient]
  <2>1. CASE AckStrat = "PerFragment"
    BY <1>1, <1>2, <2>1 DEF KeyOf, AckKey, Arrived, FragmentOf
  <2>2. CASE AckStrat = "WholeMessage"
    <3>1. m.fragment_set = id
      BY <1>2, <2>2 DEF KeyOf, AckKey
    <3>2. StandsFor(AckTimeout(KeyOf(m)), m)
      BY <1>2, TimeoutStandsFor
    <3>3. Arrived(id, m.fragment_index)
      BY <1>1, <1>2, <2>2, <3>1, <3>2, ConfigAssumption DEF StandsFor, MessageOK, Messages
    <3> QED BY <3>1, <3>3 DEF Arrived, FragmentOf
  <2> QED BY <2>1, <2>2, ConfigAssumption
<1>3. ASSUME NEW k \in Nodes, NEW p \in Items(ingress[k]), p.content.kind = "Message",
             KeyOf(p.content) = id
      PROVE  FALSE
  <2>1. p.content \in Live /\ MessageOK(p.content)
    BY <1>3, NodeMessages
  <2> QED BY <1>2, <1>3, <2>1, TimeoutArmed, NotYetArrived
<1>4. ASSUME NEW e \in Items(events[Recipient]), KeyOf(e.message) = id
      PROVE  FALSE
  <2>1. e.message \in Live /\ MessageOK(e.message) /\ e.message.kind = "Message"
    BY RecipientMessages
  <2> QED BY <1>2, <1>4, <2>1, TimeoutArmed, NotYetArrived
<1>5. ASSUME AckStrat = "WholeMessage", NEW e \in Items(events[Sender]), e.kind = "Egress",
             e.packet.content.fragment_set = id
      PROVE  FALSE
  <2> DEFINE m == e.packet.content
  <2>1. e \in Pending /\ MessageOf(e) = m /\ MessageOK(m)
    BY <1>5, SenderMessages
  <2>2. Arrived(id, m.fragment_index)
    BY <1>1, <1>5, <2>1, ConfigAssumption DEF MessageOK, Messages
  <2>3. FragmentOf(m) \in fragments[Recipient]
    BY <1>5, <2>2 DEF Arrived, FragmentOf
  <2> QED BY <1>5, <2>3, NotYetArrived
<1> QED BY <1>3, <1>4, <1>5 DEF id

(***************************************************************************)
(* Packets that are queued leave before the clock moves.                   *)
(***************************************************************************)
LEMMA QueuedNow ==
  ASSUME PromptInv, timestamp' \in Nat, timestamp <= timestamp',
         DueFrom(events[Sender], UserEvents, timestamp'),
         NEW e \in Items(events[Sender]), e.kind = "Egress"
  PROVE  timestamp' = timestamp
<1> DEFINE q == events[Sender]
<1>1. PICK k \in 1..Len(q) : e = q[k].item
  BY DEF Items
<1>2. e \in Leaving
  BY SenderMessages DEF Outbound
<1>3. q[k].time <= timestamp
  BY <1>1, <1>2, PromptNow DEF PendingInv, NoneAfter
<1>4. timestamp' <= q[k].time /\ q[k].time \in Nat
  BY QueueEntries DEF DueFrom, NothingBefore
<1> QED BY <1>3, <1>4, PromptNow

-------------------------------------------------------------------------------
(***************************************************************************)
(* Steps that leave the sender and what was recorded alone.                *)
(***************************************************************************)
LEMMA SameQueued ==
  ASSUME PromptInv, timestamp' \in Nat, timestamp <= timestamp',
         DueFrom(events[Sender], UserEvents, timestamp'),
         events'[Sender] = events[Sender], original_messages' = original_messages
  PROVE  QueuedInv'
<1> SUFFICES ASSUME AckStrat = "WholeMessage", NEW e \in Items(events[Sender]), e.kind = "Egress",
                    e.packet.content.fragment_set \in DOMAIN original_messages[Sender],
                    NEW way \in Routes, NEW back \in Routes
             PROVE  ArmedIn(events[Sender], e.packet.content.fragment_set,
                            timestamp' + TotalDelay(way) + TotalDelay(back))
  BY DEF QueuedInv
<1>1. timestamp' = timestamp
  BY QueuedNow
<1>2. ArmedIn(events[Sender], e.packet.content.fragment_set,
              timestamp + TotalDelay(way) + TotalDelay(back))
  BY PromptNow DEF QueuedInv
<1> QED BY <1>1, <1>2

LEMMA SameActive ==
  ASSUME PromptInv, origin' = origin, Active' \subseteq Active
  PROVE  ActiveInv'
BY PromptNow DEF ActiveInv

LEMMA SameComplete ==
  ASSUME PromptInv, fragments'[Recipient] = fragments[Recipient], deliveries' = deliveries
  PROVE  CompleteInv' /\ Recorded' = Recorded
<1>1. Recorded' = Recorded
  BY DEF Recorded
<1> QED BY <1>1, PromptNow DEF CompleteInv

LEMMA SenderKept ==
  ASSUME PromptInv, timestamp' \in Nat, timestamp <= timestamp',
         DueFrom(events[Sender], UserEvents, timestamp'),
         events'[Sender] = events[Sender], original_messages' = original_messages,
         origin' = origin, deliveries' = deliveries, fragments' = fragments,
         \A id : Answered(ingress, id) => Answered(ingress', id)
  PROVE  QueuedInv' /\ AckedInv' /\ ActiveInv' /\ CompleteInv'
<1>1. Recorded' = Recorded /\ CompleteInv'
  BY SameComplete
<1>2. Active' \subseteq Active
  BY <1>1 DEF Active, MessageOf
<1>3. AckedInv'
  <2> SUFFICES ASSUME NEW e \in Items(events[Sender]), e.kind = "AckTimeout",
                      Settled(MessageOf(e))'
               PROVE  Answered(ingress', e.id)
    BY DEF AckedInv
  <2>1. Settled(MessageOf(e))
    BY <1>1 DEF Settled, MessageOf
  <2> QED BY <2>1, PromptNow DEF AckedInv
<1> QED BY <1>1, <1>2, <1>3, SameQueued, SameActive

(***************************************************************************)
(* A packet that is handed over had no other hop to pass.                  *)
(***************************************************************************)
LEMMA FrontEntry ==
  ASSUME PromptInv, NEW n \in Nodes, NodeTurn(n)
  PROVE  LET p == NextItem(ingress[n])
         IN  /\ timestamp' \in Nat /\ timestamp <= timestamp'
             /\ p \in Packets /\ p \in Items(ingress[n]) /\ ingress[n] # <<>>
             /\ Entries(ingress[n]) = Entries(Pop(ingress[n])) \cup {Entry(timestamp', p)}
             /\ Items(ingress[n]) = Items(Pop(ingress[n])) \cup {p}
             /\ \A k \in Nodes : DueFrom(ingress[k], Packets, timestamp')
             /\ DueFrom(Pop(ingress[n]), Packets, timestamp')
             /\ \A u \in Users : DueFrom(events[u], UserEvents, timestamp')
             /\ ArmedIn(events[Sender], KeyOf(p.content),
                        timestamp' + TotalDelay(Tail(p.hops)) + BackDelay(p.content))
             /\ Len(p.hops) = 1 => TotalDelay(Tail(p.hops)) = 0
<1> DEFINE q == ingress[n]
           p == NextItem(q)
<1>1. q # <<>> /\ timestamp' = NextTime(q)
  BY DEF NodeTurn
<1>2. DueFrom(q, Packets, timestamp)
  BY PromptNow
<1>3. Entries(q) = Entries(Pop(q)) \cup {Entry(timestamp', p)} /\ Items(q) = Items(Pop(q)) \cup {p}
  BY <1>1, <1>2, EntriesPop, PopProperties DEF DueFrom
<1>4. /\ timestamp' \in Nat /\ timestamp <= timestamp' /\ p \in Packets /\ p \in Items(q)
      /\ \A k \in Nodes : DueFrom(ingress[k], Packets, timestamp')
      /\ DueFrom(Pop(q), Packets, timestamp')
      /\ \A u \in Users : DueFrom(events[u], UserEvents, timestamp')
  BY PromptNow, NodeFront
<1>5. Len(p.hops) = 1 => TotalDelay(Tail(p.hops)) = 0
  BY <1>4, PacketHops, LastHop
<1>6. Entry(timestamp', p) \in Entries(ingress[n])
  BY <1>3
<1> HIDE DEF q, p
<1>7. Entry(timestamp', p).time = timestamp' /\ Entry(timestamp', p).item = p
  BY EntryFields
<1>8. ArmedIn(events[Sender], KeyOf(p.content),
              timestamp' + TotalDelay(Tail(p.hops)) + BackDelay(p.content))
  BY <1>6, <1>7, PromptNow DEF InTimeInv
<1> QED BY <1>1, <1>3, <1>4, <1>5, <1>8 DEF q, p

(***************************************************************************)
(* What popping a packet leaves of the copies and acknowledgements.        *)
(***************************************************************************)
LEMMA PoppedCopies ==
  ASSUME PromptInv, NEW n \in Nodes, NodeTurn(n), NEW f \in Nat \X Nat
  PROVE  LET p == NextItem(ingress[n])
             nodes == [ingress EXCEPT ![n] = Pop(ingress[n])]
         IN  /\ IsFiniteSet(Transit(nodes, Carried(f)))
             /\ Cardinality(Transit(nodes, Carried(f)))
                  = IF p \in Carried(f) THEN Cardinality(Transit(ingress, Carried(f))) - 1
                                        ELSE Cardinality(Transit(ingress, Carried(f)))
<1>1. ingress[n] \in Queues(Packets) /\ ingress[n] # <<>> /\ DOMAIN ingress = Nodes
  BY PromptNow DEF DueFrom, NodeTurn
<1>2. IsFiniteSet(Transit(ingress, Carried(f)))
  BY CopiesNow
<1> QED BY <1>1, <1>2, TransitPopped

LEMMA PoppedAcks ==
  ASSUME PromptInv, NEW n \in Nodes, NodeTurn(n), NEW id \in Nat
  PROVE  LET p == NextItem(ingress[n])
             nodes == [ingress EXCEPT ![n] = Pop(ingress[n])]
             t == Cardinality(Transit(ingress, AcksOf(id)))
         IN  /\ IsFiniteSet(Transit(nodes, AcksOf(id))) /\ t \in Nat /\ t <= 1
             /\ Cardinality(Transit(nodes, AcksOf(id))) \in Nat
             /\ Cardinality(Transit(nodes, AcksOf(id))) = IF p \in AcksOf(id) THEN t - 1 ELSE t
<1>1. ingress[n] \in Queues(Packets) /\ ingress[n] # <<>> /\ DOMAIN ingress = Nodes
  BY PromptNow DEF DueFrom, NodeTurn
<1>2. /\ IsFiniteSet(Transit(ingress, AcksOf(id)))
      /\ Cardinality(Transit(ingress, AcksOf(id))) <= 1
  BY PromptNow DEF AcksInv
<1> QED BY <1>1, <1>2, TransitPopped, FS_CardinalityType

-------------------------------------------------------------------------------
(***************************************************************************)
(* A message is handed to its recipient.                                   *)
(***************************************************************************)
LEMMA NodeMessageOnTime ==
  ASSUME PromptInv, NEW n \in Nodes, NodeMessage(n)
  PROVE  OnTimeInv'
<1> DEFINE p == NextItem(ingress[n])
           m == p.content
           q == events[Recipient]
           x == MessageEvent(m)
<1>1. /\ timestamp' \in Nat /\ timestamp <= timestamp'
      /\ p \in Packets /\ p \in Items(ingress[n])
      /\ Entries(ingress[n]) = Entries(Pop(ingress[n])) \cup {Entry(timestamp', p)}
      /\ Items(ingress[n]) = Items(Pop(ingress[n])) \cup {p}
      /\ \A u \in Users : DueFrom(events[u], UserEvents, timestamp')
      /\ ArmedIn(events[Sender], KeyOf(m), timestamp' + TotalDelay(Tail(p.hops)) + BackDelay(m))
      /\ TotalDelay(Tail(p.hops)) = 0
  BY FrontEntry DEF NodeMessage
<1>2. NodeTurn(n) /\ m.kind = "Message"
  BY DEF NodeMessage
<1>3. /\ m \in Live /\ MessageOK(m) /\ m \in Messages /\ m.recipient = Recipient
      /\ m.ack.hops \in Routes
  BY <1>1, <1>2, NodeMessages DEF MessageOK
<1>4. /\ ingress' = [ingress EXCEPT ![n] = Pop(ingress[n])]
      /\ events' = [events EXCEPT ![Recipient] = Insert(q, timestamp', x)]
      /\ UNCHANGED <<fragments, original_messages, deliveries, origin>>
  BY <1>3 DEF NodeMessage
<1>5. x \in UserEvents /\ x.kind = "Message" /\ x.message = m /\ x \in Arriving
  BY <1>3 DEF MessageEvent, UserEvents, Arriving
<1>6. /\ events'[Sender] = events[Sender]
      /\ events'[Recipient] = Insert(q, timestamp', x)
      /\ \A k \in Nodes : ingress'[k] = IF k = n THEN Pop(ingress[n]) ELSE ingress[k]
  BY <1>4, PromptNow, UsersDiffer
<1>7. DueFrom(q, UserEvents, timestamp')
  BY <1>1, UsersDiffer
<1>8. InTimeInv'
  <2>1. ASSUME NEW k \in Nodes, NEW e \in Entries(ingress'[k])
        PROVE  ArmedIn(events'[Sender], KeyOf(e.item.content),
                       e.time + TotalDelay(Tail(e.item.hops)) + BackDelay(e.item.content))
    <3>1. e \in Entries(ingress[k])
      BY <1>1, <1>6, <2>1
    <3> QED BY <3>1, <1>6, PromptNow DEF InTimeInv
  <2>2. ASSUME NEW e \in Entries(events'[Recipient])
        PROVE  ArmedIn(events'[Sender], KeyOf(e.item.message), e.time + BackDelay(e.item.message))
    <3>1. Entries(events'[Recipient]) = Entries(q) \cup {Entry(timestamp', x)}
      BY <1>1, <1>5, <1>6, <1>7, EntriesInsert
    <3>2. CASE e \in Entries(q)
      BY <3>2, <1>6, PromptNow DEF InTimeInv
    <3>3. CASE e = Entry(timestamp', x)
      <4>1. e.time = timestamp' /\ e.item.message = m
        BY <3>3, <1>5, EntryFields
      <4>2. timestamp' + TotalDelay(Tail(p.hops)) + BackDelay(m) = timestamp' + BackDelay(m)
        BY <1>1
      <4> QED BY <4>1, <4>2, <1>1, <1>6
    <3> QED BY <2>2, <3>1, <3>2, <3>3
  <2> QED BY <2>1, <2>2 DEF InTimeInv
<1>9. CopiesInv'
  <2> SUFFICES ASSUME NEW f \in Nat \X Nat
               PROVE  IsFiniteSet(Transit(ingress', Carried(f))) /\ Copies(f)' <= 1
    BY DEF CopiesInv
  <2> DEFINE o == Count(events[Sender], Outbound(f))
             t == Cardinality(Transit(ingress, Carried(f)))
             i == Count(q, Inbound(f))
             t2 == Cardinality(Transit(ingress', Carried(f)))
             i2 == Count(events'[Recipient], Inbound(f))
             here == IF f \in fragments[Recipient] THEN 1 ELSE 0
  <2>1. p \in Carried(f) <=> x \in Inbound(f)
    BY <1>1, <1>2, <1>5 DEF Carried, Inbound, Carrying
  <2>2. IsFiniteSet(Transit(ingress', Carried(f))) /\ t2 = IF p \in Carried(f) THEN t - 1 ELSE t
    BY <1>2, <1>4, PoppedCopies
  <2>3. i2 = i + (IF x \in Inbound(f) THEN 1 ELSE 0)
    BY <1>1, <1>5, <1>6, <1>7, CountInsert DEF DueFrom
  <2>4. Copies(f)' = o + t2 + i2 + here
    BY <1>4, <1>6 DEF Copies
  <2>5. o \in Nat /\ t \in Nat /\ i \in Nat /\ o + t + i + here <= 1
    BY CopiesNow
  <2>6. here \in Nat
    OBVIOUS
  <2> HIDE DEF o, t, i, t2, i2, here
  <2>7. o + t2 + i2 + here <= 1
    BY <2>1, <2>2, <2>3, <2>5, <2>6
  <2> QED BY <2>2, <2>4, <2>7
<1>10. AcksInv'
  <2> SUFFICES ASSUME NEW id \in Nat
               PROVE  /\ IsFiniteSet(Transit(ingress', AcksOf(id)))
                      /\ Cardinality(Transit(ingress', AcksOf(id))) <= 1
    BY DEF AcksInv
  <2>1. p \notin AcksOf(id)
    BY <1>2 DEF AcksOf
  <2> QED BY <1>2, <1>4, <2>1, PoppedAcks
<1>11. ASSUME NEW id, Answered(ingress, id) PROVE Answered(ingress', id)
  <2>0. PICK k \in Nodes : \E a \in Items(ingress[k]) : a.content = Ack(id, Sender)
    BY <1>11 DEF Answered
  <2>1. PICK a \in Items(ingress[k]) : a.content = Ack(id, Sender)
    BY <2>0
  <2>2. a # p
    BY <1>2, <2>1 DEF Ack
  <2>3. a \in Items(ingress'[k])
    BY <1>1, <1>6, <2>1, <2>2
  <2> QED BY <2>1, <2>3 DEF Answered
<1>12. QueuedInv' /\ AckedInv' /\ ActiveInv' /\ CompleteInv'
  <2>1. DueFrom(events[Sender], UserEvents, timestamp')
    BY <1>1, UsersDiffer
  <2> QED BY <1>1, <1>4, <1>6, <1>11, <2>1, SenderKept
<1> QED BY <1>8, <1>9, <1>10, <1>12 DEF OnTimeInv

(***************************************************************************)
(* A packet moves on: what its inner packet is late by, it was.            *)
(***************************************************************************)
LEMMA NodeForwardOnTime ==
  ASSUME PromptInv, NEW n \in Nodes, NodeForward(n)
  PROVE  OnTimeInv'
<1> DEFINE p == NextItem(ingress[n])
           c == p.content
           inner == Packet(Tail(p.hops), c)
           popped == [ingress EXCEPT ![n] = Pop(ingress[n])]
           new == Entry(timestamp' + Head(inner.hops).delay, inner)
<1>1. /\ timestamp' \in Nat /\ timestamp <= timestamp'
      /\ p \in Packets /\ p \in Items(ingress[n])
      /\ Entries(ingress[n]) = Entries(Pop(ingress[n])) \cup {Entry(timestamp', p)}
      /\ Items(ingress[n]) = Items(Pop(ingress[n])) \cup {p}
      /\ \A k \in Nodes : DueFrom(ingress[k], Packets, timestamp')
      /\ DueFrom(Pop(ingress[n]), Packets, timestamp')
      /\ \A u \in Users : DueFrom(events[u], UserEvents, timestamp')
      /\ ArmedIn(events[Sender], KeyOf(c), timestamp' + TotalDelay(Tail(p.hops)) + BackDelay(c))
  BY FrontEntry DEF NodeForward
<1>2. NodeTurn(n) /\ Len(p.hops) > 1
  BY DEF NodeForward
<1>3. inner \in Packets /\ inner.hops = Tail(p.hops) /\ inner.content = c
  <2>1. p.hops \in Path
    BY <1>1, PacketHops
  <2>2. Tail(p.hops) \in Path
    BY <1>2, <2>1, PathTail
  <2> QED BY <1>1, <2>2 DEF Packet, Packets, AckPackets, MessagePackets
<1>4. ingress' = SendTo(popped, timestamp', inner)
  BY DEF NodeForward
<1>5. UNCHANGED <<events, fragments, original_messages, deliveries, origin>>
  BY DEF NodeForward
<1>6. DOMAIN popped = Nodes /\ \A k \in Nodes : DueFrom(popped[k], Packets, timestamp')
  BY <1>1, PromptNow
<1>7. \A k \in Nodes : popped[k] = IF k = n THEN Pop(ingress[n]) ELSE ingress[k]
  BY PromptNow
<1> HIDE DEF p, c, inner, popped
<1>8. /\ \A k \in Nodes : /\ Entries(popped[k]) \subseteq Entries(ingress'[k])
                          /\ Entries(ingress'[k]) \subseteq Entries(popped[k]) \cup {new}
      /\ \E k \in Nodes : new \in Entries(ingress'[k])
  BY <1>1, <1>3, <1>4, <1>6, EntriesSendTo
<1>9. new.item = inner /\ new.time = timestamp' + Head(inner.hops).delay
  BY EntryFields
<1> HIDE DEF new
<1>10. InTimeInv'
  <2>1. ASSUME NEW k \in Nodes, NEW e \in Entries(ingress'[k])
        PROVE  ArmedIn(events[Sender], KeyOf(e.item.content),
                       e.time + TotalDelay(Tail(e.item.hops)) + BackDelay(e.item.content))
    <3>1. CASE e \in Entries(popped[k])
      <4>1. e \in Entries(ingress[k])
        BY <3>1, <1>1, <1>7 DEF p
      <4> QED BY <4>1, PromptNow DEF InTimeInv
    <3>2. CASE e = new
      <4>1. /\ TotalDelay(inner.hops) = Head(inner.hops).delay + TotalDelay(Tail(inner.hops))
            /\ TotalDelay(Tail(inner.hops)) \in Nat /\ Head(inner.hops).delay \in Nat
        BY <1>3, PacketHops
      <4> DEFINE a == Head(inner.hops).delay
                 b == TotalDelay(Tail(inner.hops))
                 d == TotalDelay(Tail(p.hops))
      <4>2. d = a + b /\ a \in Nat /\ b \in Nat /\ timestamp' \in Nat
        BY <1>1, <1>3, <4>1
      <4> HIDE DEF a, b, d
      <4>3. (timestamp' + a) + b = timestamp' + d
        BY <4>2
      <4> QED BY <3>2, <1>1, <1>3, <1>9, <4>3 DEF a, b, d
    <3> QED BY <1>8, <2>1, <3>1, <3>2
  <2>2. \A e \in Entries(events[Recipient]) :
          ArmedIn(events[Sender], KeyOf(e.item.message), e.time + BackDelay(e.item.message))
    BY PromptNow DEF InTimeInv
  <2> QED BY <1>5, <2>1, <2>2 DEF InTimeInv
<1>11. CopiesInv'
  <2> SUFFICES ASSUME NEW f \in Nat \X Nat
               PROVE  IsFiniteSet(Transit(ingress', Carried(f))) /\ Copies(f)' <= 1
    BY DEF CopiesInv
  <2> DEFINE t == Cardinality(Transit(ingress, Carried(f)))
             t1 == Cardinality(Transit(popped, Carried(f)))
             t2 == Cardinality(Transit(ingress', Carried(f)))
  <2>1. p \in Carried(f) <=> inner \in Carried(f)
    BY <1>1, <1>3 DEF Carried, Carrying, c
  <2>2. IsFiniteSet(Transit(popped, Carried(f))) /\ t1 = IF p \in Carried(f) THEN t - 1 ELSE t
    BY <1>2, PoppedCopies DEF popped, p
  <2>3. /\ IsFiniteSet(Transit(ingress', Carried(f)))
        /\ t2 = IF inner \in Carried(f) THEN t1 + 1 ELSE t1
    BY <1>1, <1>3, <1>4, <1>6, <2>2, TransitSendTo
  <2>4. t \in Nat
    BY CopiesNow
  <2> HIDE DEF t1
  <2>5. t2 = t
    <3> HIDE DEF t, t2
    <3> QED BY <2>1, <2>2, <2>3, <2>4
  <2>6. Copies(f)' = Copies(f)
    BY <1>5, <2>5 DEF Copies
  <2> QED BY <2>3, <2>6, CopiesNow
<1>12. AcksInv'
  <2> SUFFICES ASSUME NEW id \in Nat
               PROVE  /\ IsFiniteSet(Transit(ingress', AcksOf(id)))
                      /\ Cardinality(Transit(ingress', AcksOf(id))) <= 1
    BY DEF AcksInv
  <2> DEFINE t == Cardinality(Transit(ingress, AcksOf(id)))
             t1 == Cardinality(Transit(popped, AcksOf(id)))
             t2 == Cardinality(Transit(ingress', AcksOf(id)))
  <2>1. p \in AcksOf(id) <=> inner \in AcksOf(id)
    BY <1>1, <1>3 DEF AcksOf, c
  <2>2. /\ IsFiniteSet(Transit(popped, AcksOf(id))) /\ t \in Nat /\ t <= 1
        /\ t1 = IF p \in AcksOf(id) THEN t - 1 ELSE t
    BY <1>2, PoppedAcks DEF popped, p
  <2>3. /\ IsFiniteSet(Transit(ingress', AcksOf(id)))
        /\ t2 = IF inner \in AcksOf(id) THEN t1 + 1 ELSE t1
    BY <1>1, <1>3, <1>4, <1>6, <2>2, TransitSendTo
  <2> HIDE DEF t1, t, t2
  <2>4. t2 = t
    BY <2>1, <2>2, <2>3
  <2> QED BY <2>2, <2>3, <2>4 DEF t2
<1>13. ASSUME NEW id, Answered(ingress, id) PROVE Answered(ingress', id)
  <2>0. PICK k \in Nodes : \E a \in Items(ingress[k]) : a.content = Ack(id, Sender)
    BY <1>13 DEF Answered
  <2>1. PICK a \in Items(ingress[k]) : a.content = Ack(id, Sender)
    BY <2>0
  <2>2. CASE a = p
    <3>1. PICK j \in Nodes : new \in Entries(ingress'[j])
      BY <1>8
    <3>2. inner \in Items(ingress'[j])
      BY <1>9, <3>1 DEF Items, Entries
    <3> QED BY <1>3, <2>1, <2>2, <3>2 DEF Answered, c
  <2>3. CASE a # p
    <3>1. a \in Items(popped[k])
      BY <1>1, <1>7, <2>1, <2>3 DEF p
    <3>2. PICK e \in Entries(popped[k]) : e.item = a
      BY <3>1, <1>6, EntriesTyped
    <3>3. a \in Items(ingress'[k])
      BY <1>8, <3>2 DEF Items, Entries
    <3> QED BY <2>1, <3>3 DEF Answered
  <2> QED BY <2>2, <2>3
<1>14. QueuedInv' /\ AckedInv' /\ ActiveInv' /\ CompleteInv'
  <2>1. DueFrom(events[Sender], UserEvents, timestamp')
    BY <1>1, UsersDiffer
  <2> QED BY <1>1, <1>5, <1>13, <2>1, SenderKept
<1> QED BY <1>10, <1>11, <1>12, <1>14 DEF OnTimeInv

(***************************************************************************)
(* An acknowledgement is handed over: it cancels its own timeout, which    *)
(* nothing else under way needs.                                           *)
(***************************************************************************)
LEMMA NodeAckOnTime ==
  ASSUME PromptInv, NEW n \in Nodes, NodeAck(n)
  PROVE  OnTimeInv'
<1> DEFINE p == NextItem(ingress[n])
           id == p.content.message_id
           q == events[Sender]
           r == Cancel(q, AckTimeout(id))
<1>1. /\ timestamp' \in Nat /\ timestamp <= timestamp'
      /\ p \in Packets /\ p \in Items(ingress[n])
      /\ Entries(ingress[n]) = Entries(Pop(ingress[n])) \cup {Entry(timestamp', p)}
      /\ Items(ingress[n]) = Items(Pop(ingress[n])) \cup {p}
      /\ DueFrom(Pop(ingress[n]), Packets, timestamp')
      /\ \A u \in Users : DueFrom(events[u], UserEvents, timestamp')
  BY FrontEntry DEF NodeAck
<1>2. NodeTurn(n) /\ p.content.kind = "Ack"
  BY DEF NodeAck
<1>3. p.content.recipient = Sender /\ id \in Nat
  <2>1. p.content \in Acks
    BY <1>1, <1>2 DEF Packets, AckPackets, MessagePackets, Messages
  <2> QED BY <1>1, <1>2, <2>1, PromptNow DEF RolesInv, Acks
<1>4. /\ ingress' = [ingress EXCEPT ![n] = Pop(ingress[n])]
      /\ events' = [events EXCEPT ![Sender] = r]
      /\ UNCHANGED <<fragments, original_messages, deliveries, origin>>
  BY <1>3 DEF NodeAck
<1>5. /\ events'[Sender] = r /\ events'[Recipient] = events[Recipient]
      /\ \A k \in Nodes : ingress'[k] = IF k = n THEN Pop(ingress[n]) ELSE ingress[k]
  BY <1>4, PromptNow, UsersDiffer
<1>6. DueFrom(q, UserEvents, timestamp') /\ DueFrom(q, UserEvents, timestamp)
  BY <1>1, UsersDiffer, PromptNow
<1>7. /\ Entries(r) = {e \in Entries(q) : e.item # AckTimeout(id)}
      /\ Items(r) = Items(q) \ {AckTimeout(id)}
  BY <1>6, EntriesCancel, CancelProperties DEF DueFrom
<1>8. p \in AcksOf(id)
  BY <1>1, <1>2 DEF AcksOf
<1>9. \A k \in Nodes : Items(ingress'[k]) \cap AcksOf(id) = {}
  <2> DEFINE t2 == Cardinality(Transit(ingress', AcksOf(id)))
             t == Cardinality(Transit(ingress, AcksOf(id)))
  <2>1. /\ IsFiniteSet(Transit(ingress', AcksOf(id)))
        /\ t2 \in Nat /\ t \in Nat /\ t <= 1 /\ t2 = t - 1
    BY <1>2, <1>3, <1>4, <1>8, PoppedAcks
  <2>2. t2 = 0
    <3> HIDE DEF t2, t
    <3> QED BY <2>1
  <2> QED BY <2>1, <2>2, TransitNone
<1> HIDE DEF r, q
<1>10. \A key, t : key # id /\ ArmedIn(events[Sender], key, t) => ArmedIn(r, key, t)
  BY <1>6, ArmedCancel DEF r, q
<1>11. InTimeInv'
  <2>1. ASSUME NEW k \in Nodes, NEW e \in Entries(ingress'[k])
        PROVE  ArmedIn(r, KeyOf(e.item.content),
                       e.time + TotalDelay(Tail(e.item.hops)) + BackDelay(e.item.content))
    <3>1. e \in Entries(ingress[k])
      BY <1>1, <1>5, <2>1
    <3>2. DueFrom(ingress'[k], Packets, timestamp) /\ DueFrom(ingress[k], Packets, timestamp)
      <4>1. DueFrom(ingress[k], Packets, timestamp) /\ DueFrom(ingress[n], Packets, timestamp)
        BY PromptNow
      <4>2. DueFrom(Pop(ingress[n]), Packets, timestamp)
        BY <1>1, <4>1, PromptNow, QueueEntries DEF DueFrom, NothingBefore
      <4> QED BY <1>5, <4>1, <4>2
    <3>3. e.item \in Items(ingress'[k]) /\ e.item \in Items(ingress[k]) /\ e.item \in Packets
      BY <2>1, <3>1, <3>2, EntriesTyped
    <3>4. KeyOf(e.item.content) # id
      <4>1. CASE e.item.content.kind = "Message"
        BY <1>1, <1>2, <3>3, <4>1, AckAlone
      <4>2. CASE e.item.content.kind # "Message"
        <5>1. e.item.content.kind = "Ack"
          BY <3>3, <4>2 DEF Packets, AckPackets, MessagePackets, Acks, Messages
        <5>2. e.item \notin AcksOf(id)
          BY <1>9, <3>3
        <5> QED BY <3>3, <5>1, <5>2 DEF AcksOf, KeyOf
      <4> QED BY <4>1, <4>2
    <3>5. ArmedIn(events[Sender], KeyOf(e.item.content),
                  e.time + TotalDelay(Tail(e.item.hops)) + BackDelay(e.item.content))
      BY <3>1, PromptNow DEF InTimeInv
    <3> QED BY <1>10, <3>4, <3>5
  <2>2. ASSUME NEW e \in Entries(events[Recipient])
        PROVE  ArmedIn(r, KeyOf(e.item.message), e.time + BackDelay(e.item.message))
    <3>1. e.item \in Items(events[Recipient])
      BY PromptNow, UsersDiffer, EntriesTyped
    <3>2. KeyOf(e.item.message) # id
      BY <1>1, <1>2, <3>1, AckAlone
    <3>3. ArmedIn(events[Sender], KeyOf(e.item.message), e.time + BackDelay(e.item.message))
      BY PromptNow DEF InTimeInv
    <3> QED BY <1>10, <3>2, <3>3
  <2> QED BY <1>5, <2>1, <2>2 DEF InTimeInv
<1>12. CopiesInv'
  <2> SUFFICES ASSUME NEW f \in Nat \X Nat
               PROVE  IsFiniteSet(Transit(ingress', Carried(f))) /\ Copies(f)' <= 1
    BY DEF CopiesInv
  <2>1. p \notin Carried(f) /\ AckTimeout(id) \notin Outbound(f)
    BY <1>2 DEF Carried, Carrying, Outbound, Leaving, AckTimeout
  <2>2. /\ IsFiniteSet(Transit(ingress', Carried(f)))
        /\ Cardinality(Transit(ingress', Carried(f))) = Cardinality(Transit(ingress, Carried(f)))
    BY <1>2, <1>4, <2>1, PoppedCopies
  <2>3. Count(events'[Sender], Outbound(f)) = Count(events[Sender], Outbound(f))
    BY <1>5, <1>6, <2>1, CountCancel DEF DueFrom, q, r
  <2>4. Copies(f)' = Copies(f)
    BY <1>4, <1>5, <2>2, <2>3 DEF Copies
  <2> QED BY <2>2, <2>4, CopiesNow
<1>13. AcksInv'
  <2> SUFFICES ASSUME NEW k \in Nat
               PROVE  /\ IsFiniteSet(Transit(ingress', AcksOf(k)))
                      /\ Cardinality(Transit(ingress', AcksOf(k))) <= 1
    BY DEF AcksInv
  <2> DEFINE t2 == Cardinality(Transit(ingress', AcksOf(k)))
             t == Cardinality(Transit(ingress, AcksOf(k)))
  <2>1. /\ IsFiniteSet(Transit(ingress', AcksOf(k))) /\ t2 \in Nat /\ t \in Nat /\ t <= 1
        /\ t2 = IF p \in AcksOf(k) THEN t - 1 ELSE t
    BY <1>2, <1>4, PoppedAcks
  <2> HIDE DEF t2, t
  <2>2. t2 <= 1
    BY <2>1
  <2> QED BY <2>1, <2>2 DEF t2
<1>14. QueuedInv'
  <2> SUFFICES ASSUME AckStrat = "WholeMessage", NEW e \in Items(r), e.kind = "Egress",
                      e.packet.content.fragment_set \in DOMAIN original_messages[Sender],
                      NEW way \in Routes, NEW back \in Routes
               PROVE  ArmedIn(r, e.packet.content.fragment_set,
                              timestamp' + TotalDelay(way) + TotalDelay(back))
    BY <1>4, <1>5 DEF QueuedInv
  <2>1. e \in Items(events[Sender])
    BY <1>7 DEF q
  <2>2. timestamp' = timestamp
    BY <1>1, <1>6, <2>1, QueuedNow DEF q
  <2>3. ArmedIn(events[Sender], e.packet.content.fragment_set,
                timestamp + TotalDelay(way) + TotalDelay(back))
    BY <2>1, PromptNow DEF QueuedInv
  <2>4. e.packet.content.fragment_set # id
    BY <1>1, <1>2, <2>1, AckAlone
  <2> QED BY <1>10, <2>2, <2>3, <2>4
<1>15. Recorded' = Recorded /\ CompleteInv'
  BY <1>4, SameComplete
<1>16. AckedInv'
  <2> SUFFICES ASSUME NEW e \in Items(r), e.kind = "AckTimeout", Settled(MessageOf(e))'
               PROVE  Answered(ingress', e.id)
    BY <1>5 DEF AckedInv
  <2>1. e \in Items(events[Sender]) /\ e # AckTimeout(id) /\ e \in UserEvents
    BY <1>6, <1>7, ItemsTyped DEF q
  <2>2. e.id # id
    BY <2>1 DEF AckTimeout, UserEvents
  <2>3. Settled(MessageOf(e))
    BY <1>4, <1>15 DEF Settled, MessageOf
  <2>4. PICK k \in Nodes : \E a \in Items(ingress[k]) : a.content = Ack(e.id, Sender)
    BY <2>1, <2>3, PromptNow DEF AckedInv, Answered
  <2>5. PICK a \in Items(ingress[k]) : a.content = Ack(e.id, Sender)
    BY <2>4
  <2>6. a # p
    BY <2>2, <2>5 DEF Ack
  <2>7. a \in Items(ingress'[k])
    BY <1>1, <1>5, <2>5, <2>6
  <2> QED BY <2>5, <2>7 DEF Answered
<1>17. ActiveInv'
  <2>1. Active' \subseteq Active
    BY <1>4, <1>5, <1>7, <1>15 DEF Active, MessageOf, q
  <2> QED BY <1>4, <2>1, SameActive
<1> QED BY <1>11, <1>12, <1>13, <1>14, <1>15, <1>16, <1>17 DEF OnTimeInv

-------------------------------------------------------------------------------
(***************************************************************************)
(* What the recipient takes in and what it records and acknowledges.       *)
(***************************************************************************)
Takes(m, complete, d) ==
  /\ fragments'[Recipient] = fragments[Recipient] \cup {FragmentOf(m)}
  /\ complete <=> \A i \in 0..(NumFrags - 1) : <<m.fragment_set, i>> \in fragments'[Recipient]
  /\ d.fragment_set = m.fragment_set
  /\ deliveries' = IF complete THEN Append(deliveries, d) ELSE deliveries
  /\ Recorded' = IF complete THEN Recorded \cup {m.fragment_set} ELSE Recorded
  /\ ingress' = IF Acknowledges(complete) THEN SendTo(ingress, timestamp', m.ack) ELSE ingress

LEMMA ReceivedFront ==
  ASSUME PromptInv, NEW u \in Users, ReceiveMessage(u)
  PROVE  LET q == events[Recipient]
             m == NextItem(q).message
         IN  /\ u = Recipient /\ timestamp' \in Nat /\ timestamp <= timestamp'
             /\ NextItem(q) \in Items(q) /\ q # <<>>
             /\ Entries(q) = Entries(Pop(q)) \cup {Entry(timestamp', NextItem(q))}
             /\ DueFrom(Pop(q), UserEvents, timestamp')
             /\ \A k \in Nodes : DueFrom(ingress[k], Packets, timestamp')
             /\ DueFrom(events[Sender], UserEvents, timestamp')
             /\ events'[Sender] = events[Sender] /\ events'[Recipient] = Pop(q)
             /\ ArmedIn(events[Sender], KeyOf(m), timestamp' + BackDelay(m))
<1> DEFINE q == events[Recipient]
           e0 == NextItem(q)
<1>1. /\ timestamp' \in Nat /\ timestamp <= timestamp'
      /\ NextItem(events[u]) \in Items(events[u]) /\ NextItem(events[u]).kind = "Message"
      /\ events[u] # <<>>
      /\ DueFrom(Pop(events[u]), UserEvents, timestamp')
      /\ \A k \in Nodes : DueFrom(ingress[k], Packets, timestamp')
      /\ \A v \in Users : DueFrom(events[v], UserEvents, timestamp')
  BY PromptNow, UserFront DEF ReceiveMessage
<1>2. u = Recipient
  BY <1>1, PromptNow, UsersDiffer DEF RolesInv
<1>3. timestamp' = NextTime(q)
  BY <1>2 DEF ReceiveMessage, UserTurn
<1>4. Entries(q) = Entries(Pop(q)) \cup {Entry(timestamp', e0)}
  BY <1>1, <1>2, <1>3, EntriesPop
<1>5. events' = [events EXCEPT ![Recipient] = Pop(q)]
  BY <1>2 DEF ReceiveMessage
<1>6. events'[Sender] = events[Sender] /\ events'[Recipient] = Pop(q)
  BY <1>5, PromptNow, UsersDiffer
<1>7. Entry(timestamp', e0) \in Entries(events[Recipient])
  BY <1>4
<1> HIDE DEF q, e0
<1>8. Entry(timestamp', e0).time = timestamp' /\ Entry(timestamp', e0).item = e0
  BY EntryFields
<1>9. ArmedIn(events[Sender], KeyOf(e0.message), timestamp' + BackDelay(e0.message))
  BY <1>7, <1>8, PromptNow DEF InTimeInv
<1> QED BY <1>1, <1>2, <1>4, <1>6, <1>9, UsersDiffer DEF q, e0

LEMMA ReceivedRecord ==
  ASSUME PromptInv, ReceiveMessage(Recipient), NEW m, m = NextItem(events[Recipient]).message,
         MessageOK(m)
  PROVE  \E complete \in BOOLEAN : \E d : Takes(m, complete, d)
<1> DEFINE s        == m.fragment_set
           i        == m.fragment_index
           F        == fragments[Recipient] \cup {<<s, i>>}
           firsts   == t_first[Recipient]
           first    == IF s \in DOMAIN firsts THEN firsts ELSE Put(firsts, s, timestamp')
           d        == [fragment_set |-> s, delivery_time |-> timestamp' - m.sending_time,
                        first_to_last |-> timestamp' - first[s]]
           complete == Cardinality(FragmentsOf(Recipient, s) \cup {<<s, i>>}) = m.fragment_size
<1>1. s \in Nat /\ i \in Nat /\ i < NumFrags /\ m.fragment_size = NumFrags
  BY DEF MessageOK, Messages
<1>2. /\ fragments' = [fragments EXCEPT ![Recipient] = fragments[Recipient] \cup {<<s, i>>}]
      /\ deliveries' = IF complete THEN Append(deliveries, d) ELSE deliveries
      /\ ingress' = IF Acknowledges(complete) THEN SendTo(ingress, timestamp', m.ack) ELSE ingress
  BY DEF ReceiveMessage
<1>3. d.fragment_set = s
  OBVIOUS
<1> HIDE DEF d, s, i
<1>4. fragments'[Recipient] = F
  BY <1>2, PromptNow, UsersDiffer
<1>5. complete <=> \A j \in 0..(NumFrags - 1) : <<s, j>> \in F
  <2>1. F \in SUBSET (Nat \X Nat) /\ \A x \in F : x[2] < NumFrags
    BY <1>1, PromptNow DEF RolesInv
  <2>2. FragmentsOf(Recipient, s) \cup {<<s, i>>} = {x \in F : x[1] = s}
    BY DEF FragmentsOf
  <2> HIDE DEF F
  <2>3. Cardinality({x \in F : x[1] = s}) = NumFrags <=> \A j \in 0..(NumFrags - 1) : <<s, j>> \in F
    BY <1>1, <2>1, CompleteMeaning
  <2> QED BY <1>1, <2>2, <2>3
<1>6. complete => Recorded' = Recorded \cup {s}
  <2> SUFFICES ASSUME complete PROVE Recorded' = Recorded \cup {s}
    OBVIOUS
  <2>1. deliveries' = Append(deliveries, d)
    BY <1>2
  <2>2. deliveries \in Seq([fragment_set : Nat, delivery_time : Int, first_to_last : Int])
    BY PromptNow DEF SimInv, RecordsInv
  <2>3. /\ Len(deliveries) \in Nat /\ Len(deliveries') = Len(deliveries) + 1
        /\ \A j \in 1..Len(deliveries) : deliveries'[j] = deliveries[j]
        /\ deliveries'[Len(deliveries) + 1] = d
    BY <2>1, <2>2, LenProperties, AppendProperties
  <2> QED BY <1>3, <2>3 DEF Recorded
<1>7. ~complete => Recorded' = Recorded
  BY <1>2 DEF Recorded
<1>8. complete \in BOOLEAN
  OBVIOUS
<1> HIDE DEF complete, F
<1>9. Takes(m, complete, d)
  BY <1>2, <1>3, <1>4, <1>5, <1>6, <1>7 DEF Takes, FragmentOf, s, i, F
<1> QED BY <1>8, <1>9

(***************************************************************************)
(* A set that is recorded now was not recorded before.                     *)
(***************************************************************************)
LEMMA RecordedOnce ==
  ASSUME PromptInv, NEW m, MessageOK(m), FragmentOf(m) \notin fragments[Recipient],
         NEW complete \in BOOLEAN, NEW d, Takes(m, complete, d)
  PROVE  CompleteInv'
<1> DEFINE s == m.fragment_set
           l == Len(deliveries)
<1>1. s \notin Recorded
  <2>1. m.fragment_index \in 0..(NumFrags - 1)
    BY ConfigAssumption DEF MessageOK, Messages
  <2> QED BY <2>1, PromptNow DEF CompleteInv, FragmentOf
<1>2. \A t \in Recorded', i \in 0..(NumFrags - 1) : <<t, i>> \in fragments'[Recipient]
  BY PromptNow DEF CompleteInv, Takes
<1>3. /\ \A i \in 1..l : deliveries[i].fragment_set # s
      /\ \A i, j \in 1..l : deliveries[i].fragment_set = deliveries[j].fragment_set => i = j
  BY <1>1, PromptNow DEF Recorded, CompleteInv
<1>4. ASSUME complete
      PROVE  \A i, j \in 1..Len(deliveries') :
               deliveries'[i].fragment_set = deliveries'[j].fragment_set => i = j
  <2>1. deliveries' = Append(deliveries, d)
    BY <1>4 DEF Takes
  <2>2. deliveries \in Seq([fragment_set : Nat, delivery_time : Int, first_to_last : Int])
    BY PromptNow DEF SimInv, RecordsInv
  <2>3. /\ l \in Nat /\ Len(deliveries') = l + 1
        /\ \A j \in 1..l : deliveries'[j] = deliveries[j]
        /\ deliveries'[l + 1] = d
    BY <2>1, <2>2, LenProperties, AppendProperties
  <2>4. d.fragment_set = s
    BY DEF Takes
  <2> HIDE DEF l, s
  <2> QED BY <1>3, <2>3, <2>4
<1>5. CASE complete
  BY <1>2, <1>4, <1>5 DEF CompleteInv
<1>6. CASE ~complete
  <2>1. deliveries' = deliveries
    BY <1>6 DEF Takes
  <2> QED BY <1>2, <2>1, PromptNow DEF CompleteInv
<1> QED BY <1>5, <1>6

(***************************************************************************)
(* A fragment arrives; its acknowledgement is the only one of its key and  *)
(* will be back before the timeout.                                        *)
(***************************************************************************)
LEMMA ReceiveMessageOnTime ==
  ASSUME PromptInv, NEW u \in Users, ReceiveMessage(u)
  PROVE  OnTimeInv'
<1> DEFINE q  == events[Recipient]
           e0 == NextItem(q)
           m  == e0.message
           s  == m.fragment_set
           a  == m.ack
           x  == AckTimeout(KeyOf(m))
           new == Entry(timestamp' + Head(a.hops).delay, a)
<1>1. /\ u = Recipient /\ timestamp' \in Nat /\ timestamp <= timestamp'
      /\ e0 \in Items(q) /\ q # <<>>
      /\ Entries(q) = Entries(Pop(q)) \cup {Entry(timestamp', e0)}
      /\ DueFrom(Pop(q), UserEvents, timestamp')
      /\ \A k \in Nodes : DueFrom(ingress[k], Packets, timestamp')
      /\ DueFrom(events[Sender], UserEvents, timestamp')
      /\ events'[Sender] = events[Sender] /\ events'[Recipient] = Pop(q)
      /\ ArmedIn(events[Sender], KeyOf(m), timestamp' + BackDelay(m))
  BY ReceivedFront
<1>2. /\ m \in Live /\ MessageOK(m) /\ m \in Messages /\ FragmentOf(m) \in Nat \X Nat
      /\ e0 \in Inbound(FragmentOf(m)) /\ m.kind = "Message" /\ e0.kind = "Message"
      /\ FragmentOf(m) \notin fragments[Recipient]
  BY <1>1, RecipientMessages, NotYetArrived
<1>3. UNCHANGED <<original_messages, origin>>
  BY DEF ReceiveMessage
<1>4. /\ a \in Packets /\ a.content = Ack(KeyOf(m), Sender)
      /\ a.content.kind = "Ack" /\ a.content.message_id = KeyOf(m)
  BY <1>2 DEF MessageOK, Messages, Packets, Ack, KeyOf
<1>5. StandsFor(x, m) /\ s \in Active
      /\ \A f \in Items(events[Sender]) :
           f \in Pending /\ f.kind = "AckTimeout" /\ Unit(MessageOf(f)) = Unit(m) => f = x
  BY <1>1, <1>2, TimeoutArmed, TimeoutStandsFor
<1>6. \E complete \in BOOLEAN : \E d : Takes(m, complete, d)
  BY <1>1, <1>2, ReceivedRecord
<1>7. PICK complete \in BOOLEAN : \E d : Takes(m, complete, d)
  BY <1>6
<1>8. PICK d : Takes(m, complete, d)
  BY <1>7
<1>9. CompleteInv'
  BY <1>2, <1>8, RecordedOnce
<1> DEFINE answers == Acknowledges(complete)
<1>10. /\ ingress' = IF answers THEN SendTo(ingress, timestamp', a) ELSE ingress
       /\ fragments'[Recipient] = fragments[Recipient] \cup {FragmentOf(m)}
       /\ Recorded' = IF complete THEN Recorded \cup {s} ELSE Recorded
  BY <1>8 DEF Takes
<1>11. answers <=> AckStrat = "PerFragment" \/ complete
  BY DEF Acknowledges
<1> HIDE DEF q, e0, m, s, a, x, answers
<1>12. /\ \A k \in Nodes : /\ Entries(ingress[k]) \subseteq Entries(ingress'[k])
                           /\ Entries(ingress'[k]) \subseteq Entries(ingress[k]) \cup {new}
       /\ answers => \E k \in Nodes : new \in Entries(ingress'[k])
  <2>1. CASE answers
    BY <1>1, <1>4, <1>10, <2>1, PromptNow, EntriesSendTo
  <2>2. CASE ~answers
    BY <1>10, <2>2
  <2> QED BY <2>1, <2>2
<1>13. new.item = a /\ new.time = timestamp' + Head(a.hops).delay
  BY EntryFields
<1> HIDE DEF new
<1>14. InTimeInv'
  <2>1. ASSUME NEW k \in Nodes, NEW e \in Entries(ingress'[k])
        PROVE  ArmedIn(events[Sender], KeyOf(e.item.content),
                       e.time + TotalDelay(Tail(e.item.hops)) + BackDelay(e.item.content))
    <3>1. CASE e \in Entries(ingress[k])
      BY <3>1, PromptNow DEF InTimeInv
    <3>2. CASE e = new
      <4> DEFINE h == Head(a.hops).delay
                 t == TotalDelay(Tail(a.hops))
      <4>1. TotalDelay(a.hops) = h + t /\ t \in Nat /\ h \in Nat
        BY <1>4, PacketHops
      <4>2. BackDelay(m) = h + t
        BY <1>2, <4>1 DEF BackDelay, a
      <4>3. KeyOf(a.content) = KeyOf(m) /\ BackDelay(a.content) = 0
        BY <1>4 DEF KeyOf, BackDelay
      <4> HIDE DEF h, t
      <4>4. (timestamp' + h) + t + 0 = timestamp' + BackDelay(m)
        BY <1>1, <4>1, <4>2
      <4> QED BY <3>2, <1>1, <1>13, <4>3, <4>4 DEF h, t, q, m, e0
    <3> QED BY <1>12, <2>1, <3>1, <3>2
  <2>2. ASSUME NEW e \in Entries(events'[Recipient])
        PROVE  ArmedIn(events[Sender], KeyOf(e.item.message), e.time + BackDelay(e.item.message))
    <3>1. e \in Entries(events[Recipient])
      BY <1>1, <2>2 DEF q
    <3> QED BY <3>1, PromptNow DEF InTimeInv
  <2> QED BY <1>1, <2>1, <2>2 DEF InTimeInv
<1>15. CopiesInv'
  <2> SUFFICES ASSUME NEW f \in Nat \X Nat
               PROVE  IsFiniteSet(Transit(ingress', Carried(f))) /\ Copies(f)' <= 1
    BY DEF CopiesInv
  <2> DEFINE o == Count(events[Sender], Outbound(f))
             t == Cardinality(Transit(ingress, Carried(f)))
             i == Count(events[Recipient], Inbound(f))
             t2 == Cardinality(Transit(ingress', Carried(f)))
             i2 == Count(events'[Recipient], Inbound(f))
             here == IF f \in fragments[Recipient] THEN 1 ELSE 0
             here2 == IF f \in fragments'[Recipient] THEN 1 ELSE 0
  <2>1. e0 \in Inbound(f) <=> f = FragmentOf(m)
    BY <1>2 DEF Inbound, m
  <2>2. a \notin Carried(f)
    BY <1>4 DEF Carried, Carrying
  <2>3. IsFiniteSet(Transit(ingress', Carried(f))) /\ t2 = t
    <3>0. IsFiniteSet(Transit(ingress, Carried(f)))
      BY CopiesNow
    <3>1. CASE answers
      BY <1>1, <1>4, <1>10, <2>2, <3>0, <3>1, PromptNow, TransitSendTo
    <3>2. CASE ~answers
      BY <1>10, <3>0, <3>2
    <3> QED BY <3>1, <3>2
  <2>4. i = i2 + (IF e0 \in Inbound(f) THEN 1 ELSE 0) /\ i2 \in Nat
    <3>1. events[Recipient] \in Queues(UserEvents)
      BY PromptNow, UsersDiffer DEF DueFrom
    <3>2. i = Count(Pop(events[Recipient]), Inbound(f)) + (IF e0 \in Inbound(f) THEN 1 ELSE 0)
      BY <1>1, <3>1, CountPop DEF q, e0
    <3>3. i2 \in Nat
      BY <1>1, CountType DEF q
    <3> QED BY <1>1, <3>2, <3>3 DEF q
  <2>5. Copies(f)' = o + t2 + i2 + here2
    BY <1>1 DEF Copies
  <2>6. o \in Nat /\ t \in Nat /\ i \in Nat /\ o + t + i + here <= 1
    BY CopiesNow
  <2>7. here2 = IF f = FragmentOf(m) THEN here + 1 ELSE here
    BY <1>2, <1>10
  <2>8. here \in Nat
    OBVIOUS
  <2> HIDE DEF o, t, i, t2, i2, here, here2
  <2>9. o + t2 + i2 + here2 <= 1
    BY <2>1, <2>3, <2>4, <2>6, <2>7, <2>8
  <2> QED BY <2>3, <2>5, <2>9
<1>16. AcksInv'
  <2> SUFFICES ASSUME NEW id \in Nat
               PROVE  /\ IsFiniteSet(Transit(ingress', AcksOf(id)))
                      /\ Cardinality(Transit(ingress', AcksOf(id))) <= 1
    BY DEF AcksInv
  <2> DEFINE t == Cardinality(Transit(ingress, AcksOf(id)))
             t2 == Cardinality(Transit(ingress', AcksOf(id)))
  <2>1. IsFiniteSet(Transit(ingress, AcksOf(id))) /\ t <= 1
    BY PromptNow DEF AcksInv
  <2>2. CASE answers
    <3>1. /\ IsFiniteSet(Transit(ingress', AcksOf(id))) /\ t \in Nat
          /\ t2 = IF a \in AcksOf(id) THEN t + 1 ELSE t
      BY <1>1, <1>4, <1>10, <2>1, <2>2, PromptNow, TransitSendTo
    <3>2. a \in AcksOf(id) => t = 0
      <4>1. SUFFICES ASSUME id = KeyOf(m) PROVE \A n \in Nodes : Items(ingress[n]) \cap AcksOf(id) = {}
        BY <1>4, <2>1, TransitNone DEF AcksOf
      <4>2. ASSUME NEW n \in Nodes, NEW p \in Items(ingress[n]), p \in AcksOf(id) PROVE FALSE
        BY <1>1, <4>1, <4>2, AckAlone DEF AcksOf, m, q
      <4> QED BY <4>2
    <3> HIDE DEF t, t2
    <3>3. t2 <= 1
      BY <2>1, <3>1, <3>2
    <3> QED BY <3>1, <3>3 DEF t2
  <2>3. CASE ~answers
    BY <1>10, <2>1, <2>3
  <2> QED BY <2>2, <2>3
<1>17. ASSUME NEW id, Answered(ingress, id) PROVE Answered(ingress', id)
  <2>1. PICK k \in Nodes : \E b \in Items(ingress[k]) : b.content = Ack(id, Sender)
    BY <1>17 DEF Answered
  <2>2. PICK b \in Items(ingress[k]) : b.content = Ack(id, Sender)
    BY <2>1
  <2>3. PICK e \in Entries(ingress[k]) : e.item = b
    BY <1>1, <2>2, EntriesTyped
  <2>4. b \in Items(ingress'[k])
    BY <1>12, <2>3 DEF Items, Entries
  <2> QED BY <2>2, <2>4 DEF Answered
<1>18. answers => Answered(ingress', KeyOf(m))
  <2> SUFFICES ASSUME answers PROVE Answered(ingress', KeyOf(m))
    OBVIOUS
  <2>1. PICK k \in Nodes : new \in Entries(ingress'[k])
    BY <1>12
  <2>2. a \in Items(ingress'[k])
    BY <1>13, <2>1 DEF Items, Entries
  <2> QED BY <1>4, <2>2 DEF Answered
<1>19. AckedInv'
  <2> SUFFICES ASSUME NEW e \in Items(events[Sender]), e.kind = "AckTimeout", Settled(MessageOf(e))'
               PROVE  Answered(ingress', e.id)
    BY <1>1 DEF AckedInv
  <2> DEFINE o == MessageOf(e)
  <2>1. CASE Settled(o)
    BY <2>1, <1>17, PromptNow DEF AckedInv
  <2>2. CASE ~Settled(o)
    <3>1. MessageOf(e)' = o
      BY <1>3 DEF MessageOf
    <3>2. e \in UserEvents /\ e \in Pending
      BY <1>1, ItemsTyped DEF Pending
    <3>3. e.id = AckKey(o.id, o.fragment_set)
      BY <3>2, PromptNow, PendingLive
    <3> HIDE DEF o
    <3>4. CASE AckStrat = "PerFragment"
      <4>1. FragmentOf(o) = FragmentOf(m)
        BY <1>10, <2>2, <3>1, <3>4 DEF Settled
      <4>2. Unit(o) = Unit(m)
        BY <3>4, <4>1 DEF FragmentOf, Unit
      <4>3. e = x
        BY <1>5, <3>2, <4>2 DEF o
      <4>4. e.id = KeyOf(m)
        BY <4>3 DEF x, AckTimeout
      <4> QED BY <1>11, <1>18, <3>4, <4>4
    <3>5. CASE AckStrat # "PerFragment"
      <4>1. complete /\ o.fragment_set = s
        BY <1>10, <2>2, <3>1, <3>5 DEF Settled
      <4>2. e.id = KeyOf(m)
        BY <1>2, <3>3, <3>5, <4>1 DEF KeyOf, AckKey, s
      <4> QED BY <1>11, <1>18, <4>1, <4>2
    <3> QED BY <3>4, <3>5
  <2> QED BY <2>1, <2>2
<1>20. QueuedInv'
  BY <1>1, <1>3, SameQueued
<1>21. ActiveInv'
  <2>1. Active' \subseteq Active
    BY <1>1, <1>3, <1>5, <1>10 DEF Active, MessageOf
  <2> QED BY <1>3, <2>1, SameActive
<1> QED BY <1>9, <1>14, <1>15, <1>16, <1>19, <1>20, <1>21 DEF OnTimeInv

-------------------------------------------------------------------------------
(***************************************************************************)
(* The hypothesis: an acknowledgement that is not lost is back before the  *)
(* timeout of the packet it is for; per message, before the timeout that   *)
(* whichever packet of the set left first has armed.                       *)
(***************************************************************************)
Prompt ==
  \A way, other, back \in Routes :
    AckStrat = "WholeMessage" \/ other = way =>
      TotalDelay(other) + TotalDelay(back) < Timeout(way)

LEMMA PromptSum ==
  ASSUME Prompt, NEW t \in Nat, NEW way \in Routes, NEW other \in Routes, NEW back \in Routes,
         AckStrat = "WholeMessage" \/ other = way
  PROVE  t + TotalDelay(other) + TotalDelay(back) < t + Timeout(way)
<1> DEFINE a == TotalDelay(other)
           b == TotalDelay(back)
           c == Timeout(way)
<1>1. a \in Nat /\ b \in Nat /\ c \in Nat
  BY RouteAssumption, TotalDelaySum, TimeoutType
<1>2. a + b < c
  BY DEF Prompt
<1> HIDE DEF a, b, c
<1>3. t + a + b < t + c
  BY <1>1, <1>2
<1> QED BY <1>3 DEF a, b, c

(***************************************************************************)
(* What is left of the sender's queue, and what a packet adds to it.       *)
(***************************************************************************)
LeavesWith(p, armed) ==
  LET q == events[Sender]
      c == p.content
      x == AckTimeout(KeyOf(c))
      due == Entry(timestamp' + Timeout(p.hops), x)
  IN  /\ Entries(events'[Sender]) = Entries(Pop(q)) \cup (IF armed THEN {due} ELSE {})
      /\ Items(events'[Sender]) = Items(Pop(q)) \cup (IF armed THEN {x} ELSE {})
      /\ original_messages'[Sender] = IF armed THEN Put(original_messages[Sender], KeyOf(c), c)
                                               ELSE original_messages[Sender]

LEMMA EgressFront ==
  ASSUME PromptInv, NEW u \in Users, NEW dropped \in BOOLEAN, EgressPacket(u, dropped)
  PROVE  LET q == events[Sender]
             e0 == NextItem(q)
             p == e0.packet
             c == p.content
         IN  /\ timestamp' \in Nat /\ timestamp <= timestamp'
             /\ e0 \in Items(q) /\ e0.kind = "Egress" /\ q # <<>>
             /\ Entries(q) = Entries(Pop(q)) \cup {Entry(timestamp', e0)}
             /\ Items(q) = Items(Pop(q)) \cup {e0}
             /\ DueFrom(q, UserEvents, timestamp') /\ DueFrom(Pop(q), UserEvents, timestamp')
             /\ \A k \in Nodes : DueFrom(ingress[k], Packets, timestamp')
             /\ events'[Recipient] = events[Recipient]
             /\ LeavesWith(p, Arms(Sender, KeyOf(c)))
             /\ AckTimeout(KeyOf(c)) \in UserEvents
             /\ \A f : Count(events'[Sender], Outbound(f)) = Count(Pop(q), Outbound(f))
             /\ ingress' = IF dropped THEN ingress ELSE SendTo(ingress, timestamp', p)
             /\ UNCHANGED <<fragments, deliveries, origin>>
<1> DEFINE q   == events[Sender]
           e0  == NextItem(q)
           r   == Pop(q)
           p   == e0.packet
           c   == p.content
           id  == AckKey(c.id, c.fragment_set)
           due == timestamp' + Timeout(p.hops)
           x   == AckTimeout(id)
           stored == original_messages[Sender]
           armed  == Arms(Sender, id)
<1>1. /\ u = Sender /\ timestamp' \in Nat /\ timestamp <= timestamp'
      /\ e0 \in UserEvents /\ e0.kind = "Egress"
      /\ Items(q) = Items(r) \cup {e0}
      /\ DueFrom(r, UserEvents, timestamp')
      /\ \A n \in Nodes : DueFrom(ingress[n], Packets, timestamp')
  BY PromptNow, SenderFront DEF EgressPacket
<1>2. q # <<>> /\ timestamp' = NextTime(q)
  BY <1>1 DEF EgressPacket, UserTurn
<1>3. DueFrom(q, UserEvents, timestamp')
  BY <1>1, PromptNow, UserFront DEF EgressPacket
<1>4. Entries(q) = Entries(r) \cup {Entry(timestamp', e0)}
  BY <1>2, <1>3, EntriesPop
<1>5. p.hops \in Routes /\ c \in Messages /\ c.kind = "Message"
  BY <1>1 DEF UserEvents, Messages
<1>6. KeyOf(c) = id
  BY <1>5 DEF KeyOf
<1>7. due \in Nat /\ x \in UserEvents
  <2>1. id \in Nat
    BY <1>5, AckKeyType DEF Messages
  <2>2. Timeout(p.hops) \in Nat
    BY <1>5, TimeoutType
  <2> QED BY <1>1, <2>1, <2>2 DEF AckTimeout, UserEvents
<1>8. /\ events' = [events EXCEPT ![Sender] = IF armed THEN Insert(r, due, x) ELSE r]
      /\ original_messages' = [original_messages EXCEPT ![Sender] =
                                 IF armed THEN Put(stored, id, c) ELSE stored]
      /\ ingress' = IF dropped THEN ingress ELSE SendTo(ingress, timestamp', p)
      /\ UNCHANGED <<fragments, deliveries, origin>>
  BY <1>1 DEF EgressPacket
<1>9. ~(x \in Leaving)
  BY DEF AckTimeout, Leaving
<1>10. e0 \in Items(q)
  BY <1>1
<1> HIDE DEF q, e0, r, p, c, id, due, x, stored, armed
<1>11. /\ events'[Sender] = IF armed THEN Insert(r, due, x) ELSE r
       /\ events'[Recipient] = events[Recipient]
       /\ original_messages'[Sender] = IF armed THEN Put(stored, id, c) ELSE stored
  BY <1>8, PromptNow, UsersDiffer DEF RolesInv
<1>12. Entries(Insert(r, due, x)) = Entries(r) \cup {Entry(due, x)} /\ Items(Insert(r, due, x)) = Items(r) \cup {x}
  BY <1>1, <1>7, EntriesInsert, ItemsInsert
<1>13. LeavesWith(p, armed)
  BY <1>6, <1>11, <1>12 DEF LeavesWith, q, r, due, x, stored, c
<1>14. ASSUME NEW f PROVE Count(events'[Sender], Outbound(f)) = Count(r, Outbound(f))
  <2>1. x \notin Outbound(f)
    BY <1>9 DEF Outbound
  <2>2. r \in Queues(UserEvents) /\ SortedByTime(r) /\ Count(r, Outbound(f)) \in Nat
    BY <1>1, CountType
  <2>3. Count(Insert(r, due, x), Outbound(f)) = Count(r, Outbound(f)) + (IF x \in Outbound(f) THEN 1 ELSE 0)
    BY <1>7, <2>2, CountInsert
  <2> QED BY <1>11, <2>1, <2>2, <2>3
<1> QED BY <1>1, <1>2, <1>3, <1>4, <1>6, <1>7, <1>8, <1>10, <1>11, <1>13, <1>14
        DEF q, e0, r, p, c, x, id, armed

(***************************************************************************)
(* A timeout that outlasts the way there and back is armed for a packet    *)
(* that leaves, by itself or by the first packet of its set.               *)
(***************************************************************************)
LEMMA TimeoutsStay ==
  ASSUME PromptInv, NEW u \in Users, NEW dropped \in BOOLEAN, EgressPacket(u, dropped),
         NEW key, NEW t, ArmedIn(events[Sender], key, t)
  PROVE  ArmedIn(events'[Sender], key, t)
<1> DEFINE q == events[Sender]
           e0 == NextItem(q)
<1>1. /\ Entries(q) = Entries(Pop(q)) \cup {Entry(timestamp', e0)} /\ e0.kind = "Egress"
      /\ Entries(Pop(q)) \subseteq Entries(events'[Sender])
  BY EgressFront DEF LeavesWith
<1>2. Entry(timestamp', e0).item = e0 /\ e0 # AckTimeout(key)
  BY <1>1, EntryFields DEF AckTimeout
<1> HIDE DEF q, e0
<1>3. \A e \in Entries(q) : e.item = AckTimeout(key) => e \in Entries(events'[Sender])
  BY <1>1, <1>2
<1> QED BY <1>3, ArmedKept DEF q

LEMMA PacketArmed ==
  ASSUME PromptInv, Prompt, NEW u \in Users, NEW dropped \in BOOLEAN, EgressPacket(u, dropped)
  PROVE  LET p == NextItem(events[Sender]).packet
             c == p.content
         IN  /\ ArmedIn(events'[Sender], KeyOf(c),
                        timestamp' + TotalDelay(p.hops) + TotalDelay(c.ack.hops))
             /\ Arms(Sender, KeyOf(c)) /\ AckStrat = "WholeMessage" =>
                  \A way, back \in Routes :
                    ArmedIn(events'[Sender], KeyOf(c), timestamp' + TotalDelay(way) + TotalDelay(back))
<1> DEFINE e0 == NextItem(events[Sender])
           p == e0.packet
           c == p.content
           x == AckTimeout(KeyOf(c))
           new == Entry(timestamp' + Timeout(p.hops), x)
<1>1. /\ timestamp' \in Nat /\ timestamp <= timestamp'
      /\ e0 \in Items(events[Sender]) /\ e0.kind = "Egress"
      /\ DueFrom(events[Sender], UserEvents, timestamp')
      /\ LeavesWith(p, Arms(Sender, KeyOf(c)))
  BY EgressFront
<1>2. p.hops \in Routes /\ c.ack.hops \in Routes /\ c.kind = "Message" /\ c \in Messages
  BY <1>1, SenderMessages DEF MessageOK, Messages
<1> HIDE DEF e0, p, c, x
<1>3. new.item = x /\ new.time = timestamp' + Timeout(p.hops)
  BY EntryFields
<1> HIDE DEF new
<1>4. CASE Arms(Sender, KeyOf(c))
  <2>1. new \in Entries(events'[Sender])
    BY <1>1, <1>4 DEF LeavesWith, new, x, c
  <2>2. ASSUME NEW way \in Routes, NEW back \in Routes, AckStrat = "WholeMessage" \/ way = p.hops
        PROVE  ArmedIn(events'[Sender], KeyOf(c), timestamp' + TotalDelay(way) + TotalDelay(back))
    <3>1. timestamp' + TotalDelay(way) + TotalDelay(back) < timestamp' + Timeout(p.hops)
      BY <1>1, <1>2, <2>2, PromptSum
    <3> QED BY <1>3, <2>1, <3>1 DEF ArmedIn, x
  <2> QED BY <1>2, <2>2 DEF c, p, e0
<1>5. CASE ~Arms(Sender, KeyOf(c))
  <2>1. AckStrat = "WholeMessage" /\ KeyOf(c) = c.fragment_set
        /\ c.fragment_set \in DOMAIN original_messages[Sender]
    BY <1>2, <1>5, ConfigAssumption DEF Arms, KeyOf, AckKey
  <2>2. timestamp' = timestamp
    BY <1>1, QueuedNow
  <2>3. ArmedIn(events[Sender], c.fragment_set,
                timestamp + TotalDelay(p.hops) + TotalDelay(c.ack.hops))
    BY <1>1, <1>2, <2>1, PromptNow DEF QueuedInv, c, p
  <2>4. ArmedIn(events'[Sender], c.fragment_set,
                timestamp + TotalDelay(p.hops) + TotalDelay(c.ack.hops))
    BY <2>3, TimeoutsStay
  <2> QED BY <1>5, <2>1, <2>2, <2>4 DEF c, p, e0
<1> QED BY <1>4, <1>5

(***************************************************************************)
(* A packet leaves the sender.                                             *)
(***************************************************************************)
LEMMA EgressOnTime ==
  ASSUME PromptInv, Prompt, NEW u \in Users, NEW dropped \in BOOLEAN, EgressPacket(u, dropped)
  PROVE  OnTimeInv'
<1> DEFINE q == events[Sender]
           r == Pop(q)
           e0 == NextItem(q)
           p == e0.packet
           c == p.content
           x == AckTimeout(KeyOf(c))
           armed == Arms(Sender, KeyOf(c))
           new == Entry(timestamp' + Head(p.hops).delay, p)
<1>1. /\ timestamp' \in Nat /\ timestamp <= timestamp'
      /\ e0 \in Items(q) /\ e0.kind = "Egress" /\ q # <<>>
      /\ Items(q) = Items(r) \cup {e0}
      /\ DueFrom(q, UserEvents, timestamp') /\ DueFrom(r, UserEvents, timestamp')
      /\ \A k \in Nodes : DueFrom(ingress[k], Packets, timestamp')
      /\ events'[Recipient] = events[Recipient]
      /\ LeavesWith(p, armed) /\ x \in UserEvents
      /\ \A f : Count(events'[Sender], Outbound(f)) = Count(r, Outbound(f))
      /\ ingress' = IF dropped THEN ingress ELSE SendTo(ingress, timestamp', p)
      /\ UNCHANGED <<fragments, deliveries, origin>>
  BY EgressFront
<1>2. /\ MessageOK(c) /\ c \in Messages /\ c.kind = "Message" /\ FragmentOf(c) \in Nat \X Nat
      /\ e0 \in Outbound(FragmentOf(c)) /\ e0 \in Pending /\ MessageOf(e0) = c
      /\ p.hops \in Routes /\ p \in Packets /\ c \in Live
      /\ FragmentOf(c) \notin fragments[Recipient]
  <2>1. /\ MessageOK(c) /\ c \in Messages /\ FragmentOf(c) \in Nat \X Nat /\ c \in Live
        /\ e0 \in Outbound(FragmentOf(c)) /\ e0 \in Pending /\ MessageOf(e0) = c
        /\ p.hops \in Routes /\ e0 \in UserEvents
    BY <1>1, SenderMessages
  <2>2. c.kind = "Message" /\ p \in Packets
    BY <1>1, <2>1, RouteAssumption DEF UserEvents, Packets, MessagePackets, Messages
  <2> QED BY <1>1, <2>1, <2>2, NotYetArrived
<1>3. /\ Items(events'[Sender]) = Items(r) \cup (IF armed THEN {x} ELSE {})
      /\ original_messages'[Sender] = IF armed THEN Put(original_messages[Sender], KeyOf(c), c)
                                               ELSE original_messages[Sender]
  BY <1>1 DEF LeavesWith
<1>4. /\ ArmedIn(events'[Sender], KeyOf(c), timestamp' + TotalDelay(p.hops) + TotalDelay(c.ack.hops))
      /\ armed /\ AckStrat = "WholeMessage" =>
           \A way, back \in Routes :
             ArmedIn(events'[Sender], KeyOf(c), timestamp' + TotalDelay(way) + TotalDelay(back))
  BY PacketArmed
<1>5. \A key, t : ArmedIn(events[Sender], key, t) => ArmedIn(events'[Sender], key, t)
  BY TimeoutsStay
<1>6. x.kind = "AckTimeout" /\ x.id = KeyOf(c)
  BY DEF AckTimeout
<1>7. /\ armed => original_messages'[Sender][KeyOf(c)] = c
      /\ \A k \in DOMAIN original_messages[Sender] :
           k # KeyOf(c) => original_messages'[Sender][k] = original_messages[Sender][k]
      /\ DOMAIN original_messages'[Sender] = DOMAIN original_messages[Sender]
                                             \cup (IF armed THEN {KeyOf(c)} ELSE {})
  BY <1>3 DEF Put
<1>8. AckStrat = "WholeMessage" => KeyOf(c) = c.fragment_set
  BY <1>2 DEF KeyOf, AckKey
<1>9. ~armed => original_messages'[Sender] = original_messages[Sender]
  BY <1>3
<1> HIDE DEF q, r, e0, p, c, x, armed
<1>10. Recorded' = Recorded /\ CompleteInv'
  BY <1>1, SameComplete
<1>11. /\ \A k \in Nodes : /\ Entries(ingress[k]) \subseteq Entries(ingress'[k])
                           /\ Entries(ingress'[k]) \subseteq Entries(ingress[k]) \cup {new}
  <2>1. CASE dropped
    BY <1>1, <2>1
  <2>2. CASE ~dropped
    BY <1>1, <1>2, <2>2, PromptNow, EntriesSendTo
  <2> QED BY <2>1, <2>2
<1>12. new.item = p /\ new.time = timestamp' + Head(p.hops).delay
  BY EntryFields
<1> HIDE DEF new
<1>13. InTimeInv'
  <2>1. ASSUME NEW k \in Nodes, NEW e \in Entries(ingress'[k])
        PROVE  ArmedIn(events'[Sender], KeyOf(e.item.content),
                       e.time + TotalDelay(Tail(e.item.hops)) + BackDelay(e.item.content))
    <3>1. CASE e \in Entries(ingress[k])
      <4>1. ArmedIn(events[Sender], KeyOf(e.item.content),
                    e.time + TotalDelay(Tail(e.item.hops)) + BackDelay(e.item.content))
        BY <3>1, PromptNow DEF InTimeInv
      <4> QED BY <4>1, <1>5
    <3>2. CASE e = new
      <4> DEFINE h == Head(p.hops).delay
                 t == TotalDelay(Tail(p.hops))
                 b == TotalDelay(c.ack.hops)
      <4>1. TotalDelay(p.hops) = h + t /\ t \in Nat /\ h \in Nat
        BY <1>2, PacketHops
      <4>2. BackDelay(c) = b /\ b \in Nat
        <5>1. c.ack \in Packets
          BY <1>2 DEF Messages, Packets
        <5> QED BY <1>2, <5>1, PacketHops DEF BackDelay
      <4> HIDE DEF h, t, b
      <4>3. (timestamp' + h) + t + b = timestamp' + (h + t) + b
        BY <1>1, <4>1, <4>2
      <4>4. e.time + TotalDelay(Tail(e.item.hops)) + BackDelay(e.item.content)
              = timestamp' + TotalDelay(p.hops) + TotalDelay(c.ack.hops)
        BY <3>2, <1>12, <4>1, <4>2, <4>3 DEF h, t, b, c
      <4>5. KeyOf(e.item.content) = KeyOf(c)
        BY <3>2, <1>12 DEF c
      <4> QED BY <4>4, <4>5, <1>4
    <3> QED BY <1>11, <2>1, <3>1, <3>2
  <2>2. ASSUME NEW e \in Entries(events'[Recipient])
        PROVE  ArmedIn(events'[Sender], KeyOf(e.item.message), e.time + BackDelay(e.item.message))
    <3>1. ArmedIn(events[Sender], KeyOf(e.item.message), e.time + BackDelay(e.item.message))
      BY <1>1, <2>2, PromptNow DEF InTimeInv
    <3> QED BY <3>1, <1>5
  <2> QED BY <2>1, <2>2 DEF InTimeInv
<1>14. CopiesInv'
  <2> SUFFICES ASSUME NEW f \in Nat \X Nat
               PROVE  IsFiniteSet(Transit(ingress', Carried(f))) /\ Copies(f)' <= 1
    BY DEF CopiesInv
  <2> DEFINE o == Count(events[Sender], Outbound(f))
             t == Cardinality(Transit(ingress, Carried(f)))
             i == Count(events[Recipient], Inbound(f))
             o2 == Count(events'[Sender], Outbound(f))
             t2 == Cardinality(Transit(ingress', Carried(f)))
             here == IF f \in fragments[Recipient] THEN 1 ELSE 0
  <2>1. e0 \in Outbound(f) <=> f = FragmentOf(c)
    BY <1>2 DEF Outbound, c, p
  <2>2. p \in Carried(f) <=> f = FragmentOf(c)
    BY <1>2 DEF Carried, Carrying, c
  <2>3. /\ IsFiniteSet(Transit(ingress', Carried(f)))
        /\ t2 = IF p \in Carried(f) /\ ~dropped THEN t + 1 ELSE t
    <3>0. IsFiniteSet(Transit(ingress, Carried(f)))
      BY CopiesNow
    <3>1. CASE ~dropped
      BY <1>1, <1>2, <3>0, <3>1, PromptNow, TransitSendTo
    <3>2. CASE dropped
      BY <1>1, <3>0, <3>2
    <3> QED BY <3>1, <3>2
  <2>4. o = o2 + (IF e0 \in Outbound(f) THEN 1 ELSE 0) /\ o2 \in Nat
    <3>1. Count(r, Outbound(f)) \in Nat /\ q \in Queues(UserEvents)
      BY <1>1, CountType DEF DueFrom
    <3>2. Count(q, Outbound(f)) = Count(r, Outbound(f)) + (IF e0 \in Outbound(f) THEN 1 ELSE 0)
      BY <1>1, <3>1, CountPop DEF r, e0
    <3> QED BY <1>1, <3>1, <3>2 DEF q
  <2>5. Copies(f)' = o2 + t2 + i + here
    BY <1>1 DEF Copies
  <2>6. o \in Nat /\ t \in Nat /\ i \in Nat /\ o + t + i + here <= 1
    BY CopiesNow
  <2>7. here \in Nat
    OBVIOUS
  <2> HIDE DEF o, t, i, t2, o2, here
  <2>8. o2 + t2 + i + here <= 1
    BY <2>1, <2>2, <2>3, <2>4, <2>6, <2>7
  <2> QED BY <2>3, <2>5, <2>8
<1>15. AcksInv'
  <2> SUFFICES ASSUME NEW id \in Nat
               PROVE  /\ IsFiniteSet(Transit(ingress', AcksOf(id)))
                      /\ Cardinality(Transit(ingress', AcksOf(id))) <= 1
    BY DEF AcksInv
  <2>1. /\ IsFiniteSet(Transit(ingress, AcksOf(id)))
        /\ Cardinality(Transit(ingress, AcksOf(id))) <= 1
    BY PromptNow DEF AcksInv
  <2>2. p \notin AcksOf(id)
    BY <1>2 DEF AcksOf, c
  <2>3. CASE ~dropped
    BY <1>1, <1>2, <2>1, <2>2, <2>3, PromptNow, TransitSendTo
  <2>4. CASE dropped
    BY <1>1, <2>1, <2>4
  <2> QED BY <2>3, <2>4
<1>16. QueuedInv'
  <2> SUFFICES ASSUME AckStrat = "WholeMessage", NEW e \in Items(events'[Sender]), e.kind = "Egress",
                      e.packet.content.fragment_set \in DOMAIN original_messages'[Sender],
                      NEW way \in Routes, NEW back \in Routes
               PROVE  ArmedIn(events'[Sender], e.packet.content.fragment_set,
                              timestamp' + TotalDelay(way) + TotalDelay(back))
    BY DEF QueuedInv
  <2> DEFINE s == e.packet.content.fragment_set
  <2>1. e \in Items(events[Sender])
    BY <1>1, <1>3, <1>6 DEF q
  <2>2. CASE s \in DOMAIN original_messages[Sender]
    <3>1. ArmedIn(events[Sender], s, timestamp + TotalDelay(way) + TotalDelay(back))
      BY <2>1, <2>2, PromptNow DEF QueuedInv
    <3>2. timestamp' = timestamp
      BY <1>1, <2>1, QueuedNow DEF q
    <3> QED BY <1>5, <3>1, <3>2
  <2>3. CASE s \notin DOMAIN original_messages[Sender]
    <3>1. armed /\ s = KeyOf(c)
      BY <1>7, <2>3
    <3> QED BY <1>4, <3>1
  <2> QED BY <2>2, <2>3
<1>17. ASSUME NEW e \in Items(events'[Sender]), e \in Pending
       PROVE  \/ armed /\ e = x /\ MessageOf(e)' = c
              \/ e \in Items(events[Sender]) /\ MessageOf(e)' = MessageOf(e)
  <2>1. CASE armed /\ e = x
    BY <1>6, <1>7, <2>1 DEF MessageOf
  <2>2. CASE ~(armed /\ e = x)
    <3>1. e \in Items(events[Sender])
      BY <1>1, <1>3, <1>17, <2>2 DEF q
    <3>2. CASE e.kind = "Egress"
      BY <3>1, <3>2 DEF MessageOf
    <3>3. CASE e.kind # "Egress"
      <4>1. e.kind = "AckTimeout" /\ e = AckTimeout(e.id) /\ e.id \in DOMAIN original_messages[Sender]
        BY <1>17, <3>1, <3>3, PromptNow, PendingLive
      <4>2. original_messages'[Sender][e.id] = original_messages[Sender][e.id]
        BY <1>7, <1>9, <2>2, <4>1 DEF x
      <4> QED BY <3>1, <4>1, <4>2 DEF MessageOf
    <3> QED BY <3>2, <3>3
  <2> QED BY <2>1, <2>2
<1>18. AckedInv'
  <2> SUFFICES ASSUME NEW e \in Items(events'[Sender]), e.kind = "AckTimeout", Settled(MessageOf(e))'
               PROVE  Answered(ingress', e.id)
    BY DEF AckedInv
  <2>1. ~Settled(c)
    <3>1. CASE AckStrat = "PerFragment"
      BY <1>2, <3>1 DEF Settled
    <3>2. CASE AckStrat # "PerFragment"
      <4>1. c.fragment_index \in 0..(NumFrags - 1)
        BY <1>2, ConfigAssumption DEF MessageOK, Messages
      <4> QED BY <1>2, <3>2, <4>1, PromptNow DEF Settled, CompleteInv, FragmentOf
    <3> QED BY <3>1, <3>2
  <2>2. \A m : Settled(m)' <=> Settled(m)
    BY <1>1, <1>10 DEF Settled
  <2>3. e \in Pending
    <3>1. e \in UserEvents
      BY <1>1, <1>3, ItemsTyped
    <3> QED BY <3>1 DEF Pending
  <2>4. e \in Items(events[Sender]) /\ MessageOf(e)' = MessageOf(e)
    <3>1. Settled(MessageOf(e)')
      BY <2>2 DEF Settled
    <3> QED BY <1>17, <2>1, <2>3, <3>1
  <2>5. Settled(MessageOf(e))
    BY <1>1, <1>10, <2>4 DEF Settled
  <2>6. Answered(ingress, e.id)
    BY <2>4, <2>5, PromptNow DEF AckedInv
  <2>7. PICK k \in Nodes : \E b \in Items(ingress[k]) : b.content = Ack(e.id, Sender)
    BY <2>6 DEF Answered
  <2>8. PICK b \in Items(ingress[k]) : b.content = Ack(e.id, Sender)
    BY <2>7
  <2>9. PICK d \in Entries(ingress[k]) : d.item = b
    BY <1>1, <2>8, EntriesTyped
  <2>10. b \in Items(ingress'[k])
    BY <1>11, <2>9 DEF Items, Entries
  <2> QED BY <2>8, <2>10 DEF Answered
<1>19. ActiveInv'
  <2>1. ASSUME NEW e \in Items(events'[Sender]), e \in Pending
        PROVE  MessageOf(e)'.fragment_set \in Active
    <3>1. c.fragment_set \in Active
      BY <1>1, <1>2 DEF Active, q
    <3> QED BY <1>17, <2>1, <3>1 DEF Active
  <2>2. Active' \subseteq Active
    BY <1>10, <2>1 DEF Active, Pending
  <2> QED BY <1>1, <2>2, SameActive
<1> QED BY <1>10, <1>13, <1>14, <1>15, <1>16, <1>18, <1>19 DEF OnTimeInv

-------------------------------------------------------------------------------
(***************************************************************************)
(* The sender's turn, when it is to send messages: what is under way has a *)
(* timeout that is not due yet.                                            *)
(***************************************************************************)
LEMMA BackDelayType ==
  /\ \A m \in Messages : BackDelay(m) \in Nat
  /\ \A p \in Packets : BackDelay(p.content) \in Nat
<1>1. ASSUME NEW m \in Messages PROVE BackDelay(m) \in Nat
  <2>1. m.ack \in Packets /\ m.kind = "Message"
    BY DEF Messages, Packets
  <2> QED BY <2>1, PacketHops DEF BackDelay
<1>2. ASSUME NEW p \in Packets PROVE BackDelay(p.content) \in Nat
  <2>1. p.content \in Messages \/ p.content.kind = "Ack"
    BY DEF Packets, AckPackets, MessagePackets, Acks
  <2> QED BY <1>1, <2>1 DEF BackDelay
<1> QED BY <1>1, <1>2

LEMMA SenderTurn ==
  ASSUME PromptInv, NEW kind \in {"SendMessage", "AckTimeout"}, UserTurn(Sender, kind)
  PROVE  LET q == events[Sender]
             e0 == NextItem(q)
         IN  /\ timestamp' \in Nat /\ timestamp <= timestamp'
             /\ e0 \in Items(q) /\ e0 \in UserEvents /\ e0.kind = kind /\ q # <<>>
             /\ Entries(q) = Entries(Pop(q)) \cup {Entry(timestamp', e0)}
             /\ Items(q) = Items(Pop(q)) \cup {e0}
             /\ DueFrom(q, UserEvents, timestamp') /\ DueFrom(Pop(q), UserEvents, timestamp')
             /\ DueFrom(events[Recipient], UserEvents, timestamp')
             /\ \A k \in Nodes : DueFrom(ingress[k], Packets, timestamp')
             /\ \A f \in Items(Pop(q)) : <<e0, f>> \notin Clashes
<1>1. /\ timestamp' \in Nat /\ timestamp <= timestamp'
      /\ DueFrom(Pop(events[Sender]), UserEvents, timestamp')
      /\ NextItem(events[Sender]) \in Items(events[Sender])
      /\ \A k \in Nodes : DueFrom(ingress[k], Packets, timestamp')
      /\ \A v \in Users : DueFrom(events[v], UserEvents, timestamp')
  BY PromptNow, UsersDiffer, UserFront
<1>2. /\ NextItem(events[Sender]) \in UserEvents /\ NextItem(events[Sender]).kind = kind
      /\ Items(events[Sender]) = Items(Pop(events[Sender])) \cup {NextItem(events[Sender])}
      /\ \A f \in Items(Pop(events[Sender])) : <<NextItem(events[Sender]), f>> \notin Clashes
  BY PromptNow, UsersDiffer, SenderFront
<1>3. events[Sender] # <<>> /\ timestamp' = NextTime(events[Sender])
  BY DEF UserTurn
<1>4. Entries(events[Sender]) = Entries(Pop(events[Sender]))
                                \cup {Entry(timestamp', NextItem(events[Sender]))}
  BY <1>1, <1>3, UsersDiffer, EntriesPop
<1> QED BY <1>1, <1>2, <1>3, <1>4, UsersDiffer

LEMMA ArmedLater ==
  ASSUME PromptInv, NEW kind \in {"SendMessage", "AckTimeout"}, UserTurn(Sender, kind),
         NEW key, NEW t \in Nat, timestamp' <= t, ArmedIn(events[Sender], key, t),
         NEW r, Entries(Pop(events[Sender])) \subseteq Entries(r)
  PROVE  ArmedIn(r, key, t)
<1> DEFINE q == events[Sender]
           e0 == NextItem(q)
<1>1. /\ Entries(q) = Entries(Pop(q)) \cup {Entry(timestamp', e0)} /\ timestamp' \in Nat
      /\ DueFrom(q, UserEvents, timestamp')
  BY SenderTurn
<1>2. Entry(timestamp', e0).time = timestamp'
  BY EntryFields
<1> HIDE DEF q, e0
<1>3. PICK e \in Entries(q) : e.item = AckTimeout(key) /\ t < e.time
  BY DEF ArmedIn, q
<1>4. e.time \in Nat
  BY <1>1, <1>3, EntriesTyped
<1>5. e \in Entries(Pop(q))
  BY <1>1, <1>2, <1>3, <1>4
<1> QED BY <1>3, <1>5 DEF ArmedIn, q

(***************************************************************************)
(* When what is under way would need the timeout at the least.             *)
(***************************************************************************)
LEMMA NeededLater ==
  ASSUME PromptInv, NEW kind \in {"SendMessage", "AckTimeout"}, UserTurn(Sender, kind)
  PROVE  /\ \A n \in Nodes : \A e \in Entries(ingress[n]) :
              LET t == e.time + TotalDelay(Tail(e.item.hops)) + BackDelay(e.item.content)
              IN  t \in Nat /\ timestamp' <= t /\ ArmedIn(events[Sender], KeyOf(e.item.content), t)
         /\ \A e \in Entries(events[Recipient]) :
              LET t == e.time + BackDelay(e.item.message)
              IN  t \in Nat /\ timestamp' <= t /\ ArmedIn(events[Sender], KeyOf(e.item.message), t)
<1>0. /\ timestamp' \in Nat
      /\ DueFrom(events[Recipient], UserEvents, timestamp')
      /\ \A k \in Nodes : DueFrom(ingress[k], Packets, timestamp')
  BY SenderTurn
<1>1. ASSUME NEW n \in Nodes, NEW e \in Entries(ingress[n])
      PROVE  LET t == e.time + TotalDelay(Tail(e.item.hops)) + BackDelay(e.item.content)
             IN  t \in Nat /\ timestamp' <= t /\ ArmedIn(events[Sender], KeyOf(e.item.content), t)
  <2> DEFINE d == TotalDelay(Tail(e.item.hops))
             b == BackDelay(e.item.content)
             t == e.time + d + b
  <2>1. e.time \in Nat /\ timestamp' <= e.time /\ e.item \in Packets
    BY <1>0, EntriesTyped
  <2>2. d \in Nat /\ b \in Nat
    BY <2>1, PacketHops, BackDelayType
  <2>3. ArmedIn(events[Sender], KeyOf(e.item.content), t)
    BY PromptNow DEF InTimeInv
  <2> HIDE DEF d, b
  <2>4. t \in Nat /\ timestamp' <= t
    BY <1>0, <2>1, <2>2
  <2> QED BY <2>3, <2>4 DEF d, b
<1>2. ASSUME NEW e \in Entries(events[Recipient])
      PROVE  LET t == e.time + BackDelay(e.item.message)
             IN  t \in Nat /\ timestamp' <= t /\ ArmedIn(events[Sender], KeyOf(e.item.message), t)
  <2> DEFINE b == BackDelay(e.item.message)
             t == e.time + b
  <2>1. e.time \in Nat /\ timestamp' <= e.time /\ e.item \in Items(events[Recipient])
    BY <1>0, EntriesTyped
  <2>2. b \in Nat
    BY <2>1, RecipientMessages, BackDelayType
  <2>3. ArmedIn(events[Sender], KeyOf(e.item.message), t)
    BY PromptNow DEF InTimeInv
  <2> HIDE DEF b
  <2>4. t \in Nat /\ timestamp' <= t
    BY <1>0, <2>1, <2>2
  <2> QED BY <2>3, <2>4 DEF b
<1> QED BY <1>1, <1>2

LEMMA SenderInTime ==
  ASSUME PromptInv, NEW kind \in {"SendMessage", "AckTimeout"}, UserTurn(Sender, kind),
         ingress' = ingress, events'[Recipient] = events[Recipient],
         Entries(Pop(events[Sender])) \subseteq Entries(events'[Sender])
  PROVE  InTimeInv' /\ AcksInv'
<1>1. ASSUME NEW n \in Nodes, NEW e \in Entries(ingress[n])
      PROVE  ArmedIn(events'[Sender], KeyOf(e.item.content),
                     e.time + TotalDelay(Tail(e.item.hops)) + BackDelay(e.item.content))
  BY NeededLater, ArmedLater
<1>2. ASSUME NEW e \in Entries(events[Recipient])
      PROVE  ArmedIn(events'[Sender], KeyOf(e.item.message), e.time + BackDelay(e.item.message))
  BY NeededLater, ArmedLater
<1>3. AcksInv'
  BY PromptNow DEF AcksInv
<1> QED BY <1>1, <1>2, <1>3 DEF InTimeInv

(***************************************************************************)
(* The other timeouts and what they stand for stay.                        *)
(***************************************************************************)
LEMMA SenderAcked ==
  ASSUME PromptInv, RetransmissionInv', ingress' = ingress, Recorded' = Recorded,
         \A e \in Items(events'[Sender]) : e.kind = "AckTimeout" => e \in Items(events[Sender]),
         \A id \in DOMAIN original_messages'[Sender] :
           original_messages'[Sender][id] = original_messages[Sender][id],
         AckStrat = "PerFragment" => fragments'[Recipient] \subseteq fragments[Recipient]
  PROVE  AckedInv'
<1> SUFFICES ASSUME NEW e \in Items(events'[Sender]), e.kind = "AckTimeout", Settled(MessageOf(e))'
             PROVE  Answered(ingress, e.id)
  BY DEF AckedInv
<1>1. e \in Items(events[Sender]) /\ e.id \in DOMAIN original_messages'[Sender]
  BY DEF RetransmissionInv, PendingInv
<1>2. MessageOf(e)' = MessageOf(e)
  BY <1>1 DEF MessageOf
<1>3. Settled(MessageOf(e))
  BY <1>2 DEF Settled
<1> QED BY <1>1, <1>3, PromptNow DEF AckedInv

(***************************************************************************)
(* A timeout fires only when nothing it was for is left: no fragment and   *)
(* no acknowledgement is under way, and what it stands for did not arrive. *)
(***************************************************************************)
LEMMA TimeoutFires ==
  ASSUME PromptInv, UserTurn(Sender, "AckTimeout")
  PROVE  LET e0 == NextItem(events[Sender])
         IN  /\ e0 \in Pending /\ e0 = AckTimeout(e0.id) /\ e0.kind = "AckTimeout"
             /\ MessageOf(e0) \in Live /\ MessageOK(MessageOf(e0)) /\ MessageOf(e0).fragment_set \in Active
             /\ MessageOf(e0) = original_messages[Sender][e0.id]
             /\ e0.id = AckKey(MessageOf(e0).id, MessageOf(e0).fragment_set)
             /\ e0 \notin Items(Pop(events[Sender]))
             /\ \A n \in Nodes : \A p \in Items(ingress[n]) : KeyOf(p.content) # e0.id
             /\ \A e \in Items(events[Recipient]) : KeyOf(e.message) # e0.id
             /\ ~Settled(MessageOf(e0))
<1> DEFINE q == events[Sender]
           e0 == NextItem(q)
           id == e0.id
<1>1. /\ timestamp' \in Nat /\ e0 \in Items(q) /\ e0 \in UserEvents /\ e0.kind = "AckTimeout"
      /\ Entries(q) = Entries(Pop(q)) \cup {Entry(timestamp', e0)}
      /\ DueFrom(Pop(q), UserEvents, timestamp')
      /\ DueFrom(events[Recipient], UserEvents, timestamp')
      /\ \A k \in Nodes : DueFrom(ingress[k], Packets, timestamp')
      /\ \A f \in Items(Pop(q)) : <<e0, f>> \notin Clashes
  BY SenderTurn
<1>2. e0 \in Pending
  BY <1>1 DEF Pending
<1>3. /\ MessageOf(e0) \in Live /\ MessageOK(MessageOf(e0)) /\ e0 = AckTimeout(id)
      /\ id = AckKey(MessageOf(e0).id, MessageOf(e0).fragment_set)
  BY <1>1, <1>2, PromptNow, PendingLive
<1>4. MessageOf(e0) = original_messages[Sender][id] /\ MessageOf(e0).fragment_set \in Active
  BY <1>1, <1>2 DEF MessageOf, Active
<1> HIDE DEF q, e0, id
<1>5. e0 \notin Items(Pop(q))
  BY <1>1, <1>2, ClashesMeaning
<1>6. ASSUME NEW t \in Nat, timestamp' <= t, ArmedIn(events[Sender], id, t) PROVE FALSE
  <2>1. ArmedIn(Pop(q), id, t)
    BY <1>6, ArmedLater DEF q
  <2>2. PICK e \in Entries(Pop(q)) : e.item = AckTimeout(id)
    BY <2>1 DEF ArmedIn
  <2>3. e.item \in Items(Pop(q))
    BY <1>1, <2>2, EntriesTyped
  <2> QED BY <1>3, <1>5, <2>2, <2>3
<1>7. ASSUME NEW n \in Nodes, NEW p \in Items(ingress[n]) PROVE KeyOf(p.content) # id
  <2>1. PICK e \in Entries(ingress[n]) : e.item = p
    BY <1>1, EntriesTyped
  <2>2. \E t \in Nat : timestamp' <= t /\ ArmedIn(events[Sender], KeyOf(p.content), t)
    BY <2>1, NeededLater
  <2> QED BY <1>6, <2>2
<1>8. ASSUME NEW e \in Items(events[Recipient]) PROVE KeyOf(e.message) # id
  <2>1. PICK f \in Entries(events[Recipient]) : f.item = e
    BY <1>1, EntriesTyped
  <2>2. \E t \in Nat : timestamp' <= t /\ ArmedIn(events[Sender], KeyOf(e.message), t)
    BY <2>1, NeededLater
  <2> QED BY <1>6, <2>2
<1>9. ~Settled(MessageOf(e0))
  <2> SUFFICES ASSUME Settled(MessageOf(e0)) PROVE FALSE
    OBVIOUS
  <2>1. Answered(ingress, id)
    BY <1>1, PromptNow DEF AckedInv, q, id
  <2>2. PICK n \in Nodes : \E a \in Items(ingress[n]) : a.content = Ack(id, Sender)
    BY <2>1 DEF Answered
  <2>3. PICK a \in Items(ingress[n]) : a.content = Ack(id, Sender)
    BY <2>2
  <2>4. KeyOf(a.content) = id
    BY <2>3 DEF KeyOf, Ack
  <2> QED BY <1>7, <2>4
<1> QED BY <1>1, <1>2, <1>3, <1>4, <1>5, <1>7, <1>8, <1>9 DEF q, e0, id

-------------------------------------------------------------------------------
(***************************************************************************)
(* A fragment that is sent again is nowhere else.                          *)
(***************************************************************************)
LEMMA FragmentGone ==
  ASSUME PromptInv, AckStrat = "PerFragment", UserTurn(Sender, "AckTimeout")
  PROVE  Copies(FragmentOf(MessageOf(NextItem(events[Sender])))) = 0
<1> DEFINE e0 == NextItem(events[Sender])
           m  == MessageOf(e0)
           f  == FragmentOf(m)
<1>1. /\ e0 \in Pending /\ e0 = AckTimeout(e0.id) /\ e0.kind = "AckTimeout"
      /\ MessageOK(m)
      /\ \A n \in Nodes : \A p \in Items(ingress[n]) : KeyOf(p.content) # e0.id
      /\ \A e \in Items(events[Recipient]) : KeyOf(e.message) # e0.id
      /\ ~Settled(m)
  BY TimeoutFires
<1>2. /\ e0 \in Items(events[Sender])
      /\ Items(events[Sender]) = Items(Pop(events[Sender])) \cup {e0}
      /\ \A e \in Items(Pop(events[Sender])) : <<e0, e>> \notin Clashes
  BY SenderTurn
<1>3. f \in Nat \X Nat
  BY <1>1 DEF FragmentOf, MessageOK, Messages
<1> HIDE DEF e0, m, f
<1>4. ASSUME NEW o \in Messages, FragmentOf(o) = f PROVE Unit(o) = Unit(m)
  BY <1>4 DEF Unit, FragmentOf, f
<1>5. f \notin fragments[Recipient]
  BY <1>1 DEF Settled, f
<1>6. ASSUME NEW e \in Items(events[Sender]), e \in Outbound(f) PROVE FALSE
  <2>1. e.kind = "Egress" /\ FragmentOf(e.packet.content) = f
    BY <1>6 DEF Outbound, Leaving
  <2>2. e \in Pending /\ MessageOf(e) = e.packet.content /\ e.packet.content \in Messages
    BY <2>1, SenderMessages
  <2>3. Unit(MessageOf(e)) = Unit(MessageOf(e0))
    BY <1>4, <2>1, <2>2 DEF m
  <2>4. <<e0, e>> \in Clashes
    BY <1>1, <2>2, <2>3, ClashesMeaning
  <2>5. e # e0
    BY <1>1, <2>1
  <2> QED BY <1>2, <1>6, <2>4, <2>5
<1>7. ASSUME NEW o \in Live, o \in Messages, o.kind = "Message", FragmentOf(o) = f,
             AckTimeout(KeyOf(o)) \in Items(events[Sender])
      PROVE  KeyOf(o) = e0.id
  <2>1. Unit(MessageOf(e0)) = Unit(o)
    BY <1>4, <1>7 DEF m
  <2>2. e0 = AckTimeout(KeyOf(o))
    BY <1>1, <1>2, <1>7, <2>1, TimeoutStandsFor
  <2> QED BY <2>2 DEF AckTimeout
<1>8. ASSUME NEW n \in Nodes, NEW p \in Items(ingress[n]), p \in Carried(f) PROVE FALSE
  <2>1. p.content.kind = "Message" /\ FragmentOf(p.content) = f
    BY <1>8 DEF Carried, Carrying
  <2>2. p.content \in Live /\ p.content \in Messages
    BY <2>1, NodeMessages
  <2> QED BY <1>1, <1>7, <2>1, <2>2, TimeoutArmed
<1>9. ASSUME NEW e \in Items(events[Recipient]), e \in Inbound(f) PROVE FALSE
  <2>1. /\ FragmentOf(e.message) = f /\ e.message \in Live /\ e.message \in Messages
        /\ e.message.kind = "Message"
    BY <1>9, RecipientMessages DEF Inbound
  <2> QED BY <1>1, <1>7, <2>1, TimeoutArmed
<1>10. /\ Items(events[Sender]) \cap Outbound(f) = {}
       /\ \A n \in Nodes : Items(ingress[n]) \cap Carried(f) = {}
       /\ Items(events[Recipient]) \cap Inbound(f) = {}
  BY <1>6, <1>8, <1>9
<1>11. /\ Count(events[Sender], Outbound(f)) = 0 /\ Cardinality(Transit(ingress, Carried(f))) = 0
       /\ Count(events[Recipient], Inbound(f)) = 0
  BY <1>3, <1>10, CopiesNow
<1>12. Copies(f) = 0
  BY <1>3, <1>5, <1>11, CopiesNow
<1> QED BY <1>12 DEF f, m, e0

LEMMA Retransmitted ==
  ASSUME NEW m \in Messages, NEW way \in Routes, NEW back \in Routes, next_message_id \in Nat
  PROVE  LET x == Egress(Retransmission(Sender, m, way, back))
         IN  /\ x \in UserEvents /\ x.kind = "Egress"
             /\ FragmentOf(x.packet.content) = FragmentOf(m)
             /\ x.packet.content.fragment_set = m.fragment_set
<1> DEFINE x == Egress(Retransmission(Sender, m, way, back))
           ack == Packet(back, Ack(next_message_id, Sender))
           d   == [m EXCEPT !.id = next_message_id, !.ack = ack]
<1>1. ack \in AckPackets
  BY UsersDiffer, RouteAssumption DEF Packet, AckPackets, Ack, Acks
<1>2. x = Egress(Packet(way, d))
  BY DEF Retransmission
<1> HIDE DEF ack, x
<1>3. d \in Messages /\ d.fragment_set = m.fragment_set /\ d.fragment_index = m.fragment_index
  BY <1>1 DEF Messages
<1> HIDE DEF d
<1>4. Packet(way, d) \in [hops : Routes, content : Messages] /\ Packet(way, d).content = d
  BY <1>3 DEF Packet
<1>5. x.kind = "Egress" /\ x.packet = Packet(way, d) /\ x \in UserEvents
  BY <1>2, <1>4 DEF Egress, UserEvents
<1> QED BY <1>3, <1>4, <1>5 DEF FragmentOf, x

LEMMA ResendFragmentOnTime ==
  ASSUME PromptInv, RetransmissionInv', NEW u \in Users, ResendFragment(u)
  PROVE  OnTimeInv'
<1> DEFINE q  == events[Sender]
           e0 == NextItem(q)
           r  == Pop(q)
           m  == MessageOf(e0)
           stored == original_messages[Sender]
<1>1. u = Sender /\ UserTurn(Sender, "AckTimeout") /\ AckStrat = "PerFragment"
  BY PromptNow, SenderFront DEF ResendFragment
<1>2. /\ timestamp' \in Nat /\ e0 \in Items(q) /\ q # <<>> /\ e0.kind = "AckTimeout"
      /\ Items(q) = Items(r) \cup {e0}
      /\ DueFrom(q, UserEvents, timestamp') /\ DueFrom(r, UserEvents, timestamp')
  BY <1>1, SenderTurn
<1>3. /\ MessageOK(m) /\ m \in Messages /\ m.fragment_set \in Active /\ m = stored[e0.id]
      /\ e0 \notin Items(r)
  BY <1>1, TimeoutFires DEF MessageOK
<1>4. PICK way \in Drawable, back \in Drawable :
        events' = [events EXCEPT ![Sender] =
                     Insert(r, timestamp', Egress(Retransmission(Sender, m, way, back)))]
  BY <1>1, <1>3 DEF ResendFragment
<1> DEFINE x == Egress(Retransmission(Sender, m, way, back))
           c == x.packet.content
<1>5. /\ original_messages' = [original_messages EXCEPT ![Sender] = Restrict(@, DOMAIN @ \ {e0.id})]
      /\ UNCHANGED <<ingress, fragments, deliveries, origin>>
  BY <1>1 DEF ResendFragment
<1>6. /\ x \in UserEvents /\ x.kind = "Egress" /\ FragmentOf(c) = FragmentOf(m)
      /\ c.fragment_set = m.fragment_set
  <2>1. way \in Routes /\ back \in Routes
    BY <1>4, RouteAssumption DEF Drawable
  <2> QED BY <1>3, <2>1, PromptNow, Retransmitted
<1> HIDE DEF q, e0, r, m, stored, x
<1>7. events'[Sender] = Insert(r, timestamp', x) /\ events'[Recipient] = events[Recipient]
  BY <1>4, PromptNow, UsersDiffer DEF x
<1>8. /\ Items(events'[Sender]) = Items(r) \cup {x}
      /\ Entries(events'[Sender]) = Entries(r) \cup {Entry(timestamp', x)}
  BY <1>2, <1>6, <1>7, ItemsInsert, EntriesInsert
<1>9. \A id \in DOMAIN original_messages'[Sender] : original_messages'[Sender][id] = stored[id]
  <2>1. original_messages'[Sender] = Restrict(stored, DOMAIN stored \ {e0.id})
    BY <1>5, PromptNow, UsersDiffer DEF RolesInv, stored
  <2> QED BY <2>1 DEF Restrict
<1>10. Recorded' = Recorded /\ CompleteInv'
  BY <1>5, SameComplete
<1>11. InTimeInv' /\ AcksInv'
  BY <1>1, <1>5, <1>7, <1>8, SenderInTime DEF r, q
<1>12. AckedInv'
  <2>1. \A e \in Items(events'[Sender]) : e.kind = "AckTimeout" => e \in Items(events[Sender])
    BY <1>2, <1>6, <1>8 DEF q
  <2> QED BY <1>5, <1>9, <1>10, <2>1, SenderAcked DEF stored
<1>13. QueuedInv'
  BY <1>1 DEF QueuedInv
<1>14. ActiveInv'
  <2>1. ASSUME NEW e \in Items(events'[Sender]), e \in Pending
        PROVE  MessageOf(e)'.fragment_set \in Active
    <3>1. CASE e = x
      <4>1. MessageOf(e)' = c
        BY <1>6, <3>1 DEF MessageOf
      <4> HIDE DEF c
      <4> QED BY <1>3, <1>6, <4>1
    <3>2. CASE e \in Items(r)
      <4>1. MessageOf(e)' = MessageOf(e)
        <5>1. CASE e.kind = "Egress"
          BY <5>1 DEF MessageOf
        <5>2. CASE e.kind # "Egress"
          <6>1. e.kind = "AckTimeout"
            BY <2>1, <5>2 DEF Pending
          <6>2. e.id \in DOMAIN original_messages'[Sender]
            BY <2>1, <6>1 DEF RetransmissionInv, PendingInv
          <6> QED BY <1>9, <5>2, <6>2 DEF MessageOf, stored
        <5> QED BY <5>1, <5>2
      <4> QED BY <1>2, <2>1, <3>2, <4>1 DEF Active, q
    <3> QED BY <1>8, <2>1, <3>1, <3>2
  <2>2. Active' \subseteq Active
    BY <1>10, <2>1 DEF Active, Pending
  <2> QED BY <1>5, <2>2, SameActive
<1>15. CopiesInv'
  <2> SUFFICES ASSUME NEW f \in Nat \X Nat
               PROVE  IsFiniteSet(Transit(ingress, Carried(f))) /\ Copies(f)' <= 1
    BY <1>5 DEF CopiesInv
  <2> DEFINE o == Count(events[Sender], Outbound(f))
             o2 == Count(events'[Sender], Outbound(f))
             t == Cardinality(Transit(ingress, Carried(f)))
             i == Count(events[Recipient], Inbound(f))
             here == IF f \in fragments[Recipient] THEN 1 ELSE 0
  <2>1. x \in Outbound(f) <=> f = FragmentOf(m)
    <3>1. x \in Leaving
      BY <1>6 DEF Leaving
    <3>2. x \in Outbound(f) <=> FragmentOf(c) = f
      BY <3>1 DEF Outbound
    <3> HIDE DEF c
    <3> QED BY <1>6, <3>2
  <2>2. o2 = o + (IF x \in Outbound(f) THEN 1 ELSE 0)
    <3>1. q \in Queues(UserEvents) /\ r \in Queues(UserEvents) /\ SortedByTime(r) /\ Count(r, Outbound(f)) \in Nat
      BY <1>2, CountType
    <3>2. Count(q, Outbound(f)) = Count(r, Outbound(f)) + (IF e0 \in Outbound(f) THEN 1 ELSE 0)
      BY <1>2, <3>1, CountPop DEF r, e0
    <3>3. e0 \notin Outbound(f)
      BY <1>2 DEF Outbound, Leaving
    <3>4. Count(Insert(r, timestamp', x), Outbound(f))
            = Count(r, Outbound(f)) + (IF x \in Outbound(f) THEN 1 ELSE 0)
      BY <1>2, <1>6, <3>1, CountInsert
    <3>5. o = Count(r, Outbound(f))
      BY <3>1, <3>2, <3>3 DEF q
    <3> QED BY <1>7, <3>4, <3>5
  <2>3. Copies(f)' = o2 + t + i + here
    BY <1>5, <1>7 DEF Copies
  <2>4. o \in Nat /\ t \in Nat /\ i \in Nat /\ o + t + i + here <= 1
    BY CopiesNow
  <2>5. f = FragmentOf(m) => o + t + i + here = 0
    BY <1>1, FragmentGone DEF Copies, m, e0, q
  <2>6. here \in Nat
    OBVIOUS
  <2> HIDE DEF o, o2, t, i, here
  <2>7. o2 + t + i + here <= 1
    BY <2>1, <2>2, <2>4, <2>5, <2>6
  <2>8. IsFiniteSet(Transit(ingress, Carried(f)))
    BY CopiesNow
  <2> QED BY <2>3, <2>7, <2>8
<1> QED BY <1>10, <1>11, <1>12, <1>13, <1>14, <1>15 DEF OnTimeInv

-------------------------------------------------------------------------------
(***************************************************************************)
(* The sets known so far are those below next_fragment_set.                *)
(***************************************************************************)
LEMMA SetsKnown ==
  ASSUME PromptInv
  PROVE  /\ \A m \in Live : m.fragment_set \in DOMAIN origin
         /\ \A t \in Active : t \in DOMAIN origin
         /\ AckStrat = "WholeMessage" => DOMAIN original_messages[Sender] \subseteq DOMAIN origin
         /\ \A f : f[1] \notin DOMAIN origin /\ f \in Nat \X Nat => Copies(f) = 0
         /\ next_fragment_set \notin DOMAIN origin
<1>1. ASSUME NEW m \in Live PROVE m.fragment_set \in DOMAIN origin
  BY PromptNow DEF MessagesInv, MessageOK
<1>2. Recorded \subseteq DOMAIN origin /\ \A x \in fragments[Recipient] : x[1] \in DOMAIN origin
  BY PromptNow DEF RecordInv
<1>3. ASSUME NEW e \in Items(events[Sender]), e \in Pending
      PROVE  MessageOf(e).fragment_set \in DOMAIN origin
  BY <1>1, <1>3, PromptNow, PendingLive
<1>4. ASSUME NEW t \in Active PROVE t \in DOMAIN origin
  BY <1>2, <1>3, <1>4 DEF Active
<1>5. ASSUME AckStrat = "WholeMessage", NEW s \in DOMAIN original_messages[Sender]
      PROVE  s \in DOMAIN origin
  <2> DEFINE x == AckTimeout(s)
  <2>1. x \in Items(events[Sender]) \/ s \in Recorded
    BY <1>5, PromptNow DEF ArmedInv
  <2>2. CASE x \in Items(events[Sender])
    <3>1. x \in UserEvents /\ x.kind = "AckTimeout" /\ x.id = s
      BY <2>2, PromptNow, UsersDiffer, ItemsTyped DEF AckTimeout
    <3>2. x \in Pending
      BY <3>1 DEF Pending
    <3>3. s = MessageOf(x).fragment_set
      BY <1>5, <2>2, <3>1, <3>2, PromptNow, PendingLive DEF AckKey
    <3> QED BY <1>3, <2>2, <3>2, <3>3
  <2> QED BY <1>2, <2>1, <2>2
<1>6. ASSUME NEW f \in Nat \X Nat, f[1] \notin DOMAIN origin PROVE Copies(f) = 0
  <2>0. \A m \in Live : FragmentOf(m) # f
    BY <1>1, <1>6 DEF FragmentOf
  <2>1. ASSUME NEW e \in Items(events[Sender]), e \in Outbound(f) PROVE FALSE
    BY <2>0, <2>1, SenderMessages DEF Outbound, Leaving
  <2>2. ASSUME NEW n \in Nodes, NEW p \in Items(ingress[n]), p \in Carried(f) PROVE FALSE
    BY <2>0, <2>2, NodeMessages DEF Carried, Carrying
  <2>3. ASSUME NEW e \in Items(events[Recipient]), e \in Inbound(f) PROVE FALSE
    BY <2>0, <2>3, RecipientMessages DEF Inbound
  <2>4. /\ Items(events[Sender]) \cap Outbound(f) = {}
        /\ \A n \in Nodes : Items(ingress[n]) \cap Carried(f) = {}
        /\ Items(events[Recipient]) \cap Inbound(f) = {}
    BY <2>1, <2>2, <2>3
  <2>5. /\ Count(events[Sender], Outbound(f)) = 0 /\ Cardinality(Transit(ingress, Carried(f))) = 0
        /\ Count(events[Recipient], Inbound(f)) = 0 /\ f \notin fragments[Recipient]
    BY <1>2, <1>6, <2>4, CopiesNow
  <2> QED BY <2>5, CopiesNow
<1>7. next_fragment_set \notin DOMAIN origin
  BY PromptNow DEF OriginInv
<1> QED BY <1>1, <1>4, <1>5, <1>6, <1>7

(***************************************************************************)
(* The sets that would be active without the event in turn.                *)
(***************************************************************************)
Others == Recorded \cup {MessageOf(e).fragment_set : e \in Items(Pop(events[Sender])) \cap Pending}

(***************************************************************************)
(* A new set is queued whose root no other active set has.                 *)
(***************************************************************************)
LEMMA NewSetOnTime ==
  ASSUME PromptInv, RetransmissionInv',
         NEW kind \in {"SendMessage", "AckTimeout"}, UserTurn(Sender, kind),
         NEW sent \in Nat, QueueMessages(Sender, Sender, Recipient, NumFrags, sent),
         NEW from, origin' = Put(origin, next_fragment_set, from),
         \A t \in Others : origin[t].root # from.root,
         ingress' = ingress, deliveries' = deliveries,
         DOMAIN original_messages'[Sender] \subseteq DOMAIN original_messages[Sender],
         \A id \in DOMAIN original_messages'[Sender] :
           original_messages'[Sender][id] = original_messages[Sender][id],
         fragments'[Recipient] \subseteq fragments[Recipient],
         \A s \in Recorded, i \in 0..(NumFrags - 1) :
           <<s, i>> \in fragments[Recipient] => <<s, i>> \in fragments'[Recipient]
  PROVE  OnTimeInv'
<1> DEFINE q  == events[Sender]
           e0 == NextItem(q)
           r  == Pop(q)
           n  == next_fragment_set
<1>1. /\ timestamp' \in Nat /\ timestamp <= timestamp' /\ e0 \in Items(q) /\ q # <<>>
      /\ e0.kind = kind /\ Items(q) = Items(r) \cup {e0}
      /\ DueFrom(q, UserEvents, timestamp') /\ DueFrom(r, UserEvents, timestamp')
  BY SenderTurn
<1>2. PICK xs : /\ EgressOfSet(xs, sent)
                /\ events' = [events EXCEPT ![Sender] = InsertAll(r, timestamp', xs)]
  BY PromptNow, QueuedMessages
<1>3. /\ xs \in Seq(UserEvents) /\ Len(xs) = NumFrags /\ NumFrags \in Nat
      /\ \A k \in 1..NumFrags : /\ xs[k].kind = "Egress" /\ xs[k] \in UserEvents
                                /\ FragmentOf(xs[k].packet.content) = <<n, k - 1>>
                                /\ xs[k].packet.content.fragment_set = n
  BY <1>2, ConfigAssumption DEF EgressOfSet, FragmentOfSet, FragmentOf
<1>4. /\ n \notin DOMAIN origin
      /\ \A t \in Active : t \in DOMAIN origin
      /\ AckStrat = "WholeMessage" => DOMAIN original_messages[Sender] \subseteq DOMAIN origin
      /\ \A f : f[1] \notin DOMAIN origin /\ f \in Nat \X Nat => Copies(f) = 0
  BY SetsKnown
<1> HIDE DEF q, e0, r, n
<1>5. events'[Sender] = InsertAll(r, timestamp', xs) /\ events'[Recipient] = events[Recipient]
  BY <1>2, PromptNow, UsersDiffer
<1>6. /\ Items(events'[Sender]) = Items(r) \cup {xs[k] : k \in 1..Len(xs)}
      /\ Entries(r) \subseteq Entries(events'[Sender])
  <2>1. Items(InsertAll(r, timestamp', xs)) = Items(r) \cup {xs[k] : k \in 1..Len(xs)}
    BY <1>1, <1>3, ItemsInsertAll
  <2>2. Entries(r) \subseteq Entries(InsertAll(r, timestamp', xs))
    BY <1>1, <1>3, EntriesStay
  <2> QED BY <1>5, <2>1, <2>2
<1>7. Recorded' = Recorded
  BY DEF Recorded
<1>8. CompleteInv'
  BY <1>7, PromptNow DEF CompleteInv
<1>9. InTimeInv' /\ AcksInv'
  BY <1>5, <1>6, SenderInTime DEF r, q
<1>10. AckedInv'
  <2>1. \A e \in Items(events'[Sender]) : e.kind = "AckTimeout" => e \in Items(events[Sender])
    BY <1>1, <1>3, <1>6 DEF q
  <2> QED BY <1>7, <2>1, SenderAcked
<1>11. QueuedInv'
  <2> SUFFICES ASSUME AckStrat = "WholeMessage", NEW e \in Items(events'[Sender]), e.kind = "Egress",
                      e.packet.content.fragment_set \in DOMAIN original_messages'[Sender],
                      NEW way \in Routes, NEW back \in Routes
               PROVE  ArmedIn(events'[Sender], e.packet.content.fragment_set,
                              timestamp' + TotalDelay(way) + TotalDelay(back))
    BY DEF QueuedInv
  <2> DEFINE s == e.packet.content.fragment_set
             t == timestamp' + TotalDelay(way) + TotalDelay(back)
  <2>1. s \in DOMAIN original_messages[Sender] /\ s # n
    BY <1>4
  <2>2. e \in Items(events[Sender])
    BY <1>1, <1>3, <1>6, <2>1 DEF q
  <2>3. timestamp' = timestamp
    BY <1>1, <2>2, QueuedNow DEF q
  <2>4. ArmedIn(events[Sender], s, t)
    BY <2>1, <2>2, <2>3, PromptNow DEF QueuedInv
  <2>5. t \in Nat /\ timestamp' <= t
    <3> DEFINE a == TotalDelay(way)
               b == TotalDelay(back)
    <3>1. a \in Nat /\ b \in Nat
      BY RouteAssumption, TotalDelaySum
    <3> HIDE DEF a, b
    <3>2. ASSUME NEW k \in Nat PROVE k + a + b \in Nat /\ k <= k + a + b
      BY <3>1
    <3>3. timestamp' \in Nat
      BY <1>1
    <3>4. timestamp' + a + b \in Nat /\ timestamp' <= timestamp' + a + b
      BY <3>2, <3>3
    <3> QED BY <3>4 DEF a, b
  <2> HIDE DEF s, t
  <2>6. ArmedIn(events'[Sender], s, t)
    BY <1>6, <2>4, <2>5, ArmedLater DEF r, q
  <2> QED BY <2>6 DEF s, t
<1>12. ActiveInv'
  <2>1. ASSUME NEW e \in Items(events'[Sender]), e \in Pending
        PROVE  MessageOf(e)'.fragment_set \in Others \cup {n}
    <3>1. CASE e \in Items(r)
      <4>1. MessageOf(e)' = MessageOf(e)
        <5>1. CASE e.kind = "Egress"
          BY <5>1 DEF MessageOf
        <5>2. CASE e.kind # "Egress"
          <6>1. e.kind = "AckTimeout"
            BY <2>1, <5>2 DEF Pending
          <6>2. e.id \in DOMAIN original_messages'[Sender]
            BY <2>1, <6>1 DEF RetransmissionInv, PendingInv
          <6> QED BY <5>2, <6>2 DEF MessageOf
        <5> QED BY <5>1, <5>2
      <4> QED BY <2>1, <3>1, <4>1 DEF Others, r, q
    <3>2. CASE e \notin Items(r)
      <4>1. PICK k \in 1..NumFrags : e = xs[k]
        BY <1>3, <1>6, <3>2
      <4>2. MessageOf(e)' = xs[k].packet.content
        BY <1>3, <4>1 DEF MessageOf
      <4> QED BY <1>3, <4>2
    <3> QED BY <3>1, <3>2
  <2>2. Active' \subseteq Others \cup {n}
    BY <1>7, <2>1 DEF Active, Others, Pending
  <2>3. Others \subseteq Active
    BY <1>1 DEF Others, Active, r, q
  <2>4. /\ origin'[n] = from
        /\ \A t \in Others : t # n /\ origin'[t] = origin[t]
    BY <1>4, <2>3 DEF Put, n
  <2> HIDE DEF Others
  <2>5. \A s, t \in Others : origin[s].root = origin[t].root => s = t
    BY <2>3, PromptNow DEF ActiveInv
  <2>6. ASSUME NEW s \in Active', NEW t \in Active', origin'[s].root = origin'[t].root
        PROVE  s = t
    <3>1. s \in Others \cup {n} /\ t \in Others \cup {n}
      BY <2>2
    <3> QED BY <2>4, <2>5, <2>6, <3>1
  <2> QED BY <2>6 DEF ActiveInv
<1>13. CopiesInv'
  <2> SUFFICES ASSUME NEW f \in Nat \X Nat
               PROVE  IsFiniteSet(Transit(ingress, Carried(f))) /\ Copies(f)' <= 1
    BY DEF CopiesInv
  <2> DEFINE o == Count(events[Sender], Outbound(f))
             ro == Count(r, Outbound(f))
             o2 == Count(events'[Sender], Outbound(f))
             P == {k \in 1..Len(xs) : xs[k] \in Outbound(f)}
             j == Cardinality(P)
             t == Cardinality(Transit(ingress, Carried(f)))
             i == Count(events[Recipient], Inbound(f))
             here == IF f \in fragments[Recipient] THEN 1 ELSE 0
             here2 == IF f \in fragments'[Recipient] THEN 1 ELSE 0
  <2>1. ASSUME NEW k \in P PROVE f = <<n, k - 1>>
    BY <1>3 DEF Outbound
  <2>2. j <= 1 /\ IsFiniteSet(P) /\ j \in Nat
    <3>1. P \subseteq 1..NumFrags
      BY <1>3
    <3>2. \A k, l \in P : k = l
      <4> SUFFICES ASSUME NEW k \in P, NEW l \in P PROVE k = l
        OBVIOUS
      <4>1. k \in Int /\ l \in Int
        BY <3>1, <1>3
      <4>2. k - 1 = l - 1
        BY <2>1
      <4> HIDE DEF P
      <4> QED BY <4>1, <4>2
    <3> HIDE DEF P
    <3>3. IsFiniteSet(P)
      BY <1>3, <3>1, InitialSegment, FS_Subset
    <3> QED BY <1>3, <3>1, <3>2, <3>3, AtMostOne, FS_CardinalityType
  <2>3. f[1] # n => j = 0
    <3> SUFFICES ASSUME f[1] # n PROVE j = 0
      OBVIOUS
    <3>1. P = {}
      BY <2>1
    <3> HIDE DEF P
    <3> QED BY <3>1, FS_EmptySet
  <2> HIDE DEF P, j
  <2>4. o2 = ro + j /\ ro \in Nat
    <3>1. r \in Queues(UserEvents) /\ SortedByTime(r) /\ Count(r, Outbound(f)) \in Nat
      BY <1>1, CountType
    <3> QED BY <1>1, <1>3, <1>5, <3>1, CountInsertAll DEF P, j
  <2>5. ro <= o
    <3>1. q \in Queues(UserEvents)
      BY <1>1 DEF DueFrom
    <3>2. Count(q, Outbound(f)) = Count(r, Outbound(f)) + (IF e0 \in Outbound(f) THEN 1 ELSE 0)
      BY <1>1, <3>1, CountPop DEF r, e0
    <3> HIDE DEF ro
    <3>3. o = ro + (IF e0 \in Outbound(f) THEN 1 ELSE 0)
      BY <3>2 DEF ro, q
    <3> HIDE DEF o
    <3> QED BY <2>4, <3>3
  <2>6. Copies(f)' = o2 + t + i + here2
    BY <1>5 DEF Copies
  <2>7. o \in Nat /\ t \in Nat /\ i \in Nat /\ o + t + i + here <= 1
    BY CopiesNow
  <2>8. f[1] = n => o + t + i + here = 0
    BY <1>4 DEF Copies
  <2>9. here \in Nat /\ here2 \in Nat /\ here2 <= here
    OBVIOUS
  <2> HIDE DEF o, ro, o2, t, i, here, here2
  <2>10. o2 + t + i + here2 <= 1
    BY <2>2, <2>3, <2>4, <2>5, <2>7, <2>8, <2>9
  <2>11. IsFiniteSet(Transit(ingress, Carried(f)))
    BY CopiesNow
  <2> QED BY <2>6, <2>10, <2>11
<1> QED BY <1>8, <1>9, <1>10, <1>11, <1>12, <1>13 DEF OnTimeInv

-------------------------------------------------------------------------------
LEMMA StartSendOnTime ==
  ASSUME PromptInv, RetransmissionInv', NEW u \in Users, StartSend(u)
  PROVE  OnTimeInv'
<1> DEFINE e0 == NextItem(events[Sender])
           s == next_fragment_set
           from == [root |-> s, sent |-> timestamp']
<1>1. /\ u = Sender /\ UserTurn(Sender, "SendMessage")
      /\ e0 \in Items(events[Sender]) /\ e0.kind = "SendMessage" /\ timestamp' \in Nat
      /\ Items(events[Sender]) = Items(Pop(events[Sender])) \cup {e0}
  BY PromptNow, SenderFront DEF StartSend
<1>2. e0.num_frags = NumFrags
  BY <1>1, PromptNow DEF RolesInv
<1>3. /\ QueueMessages(Sender, Sender, Recipient, NumFrags, timestamp')
      /\ origin' = Put(origin, next_fragment_set, from)
      /\ UNCHANGED <<ingress, fragments, original_messages, deliveries>>
  BY <1>1, <1>2 DEF StartSend
<1>4. from.root = s
  OBVIOUS
<1> HIDE DEF from, e0
<1>5. ASSUME NEW t \in Others PROVE origin[t].root # from.root
  <2>1. t \in Active
    BY <1>1 DEF Others, Active
  <2>2. t \in DOMAIN origin
    BY <2>1, SetsKnown
  <2>3. t \in 0..(s - 1) /\ origin[t].root \in Nat /\ origin[t].root <= t /\ s \in Nat
    BY <2>2, PromptNow DEF OriginInv
  <2> QED BY <1>4, <2>3
<1> QED BY <1>1, <1>3, <1>5, NewSetOnTime

(***************************************************************************)
(* A set that is sent again was not recorded, and nothing else is of its   *)
(* message.                                                                *)
(***************************************************************************)
LEMMA ResendMessageOnTime ==
  ASSUME PromptInv, RetransmissionInv', NEW u \in Users, ResendMessage(u)
  PROVE  OnTimeInv'
<1> DEFINE q  == events[Sender]
           e0 == NextItem(q)
           id == e0.id
           stored == original_messages[Sender]
           m  == stored[id]
           from == origin[m.fragment_set]
<1>1. u = Sender /\ UserTurn(Sender, "AckTimeout") /\ AckStrat = "WholeMessage"
  BY PromptNow, SenderFront DEF ResendMessage
<1>2. /\ e0 \in Items(q) /\ Items(q) = Items(Pop(q)) \cup {e0}
      /\ \A e \in Items(Pop(q)) : <<e0, e>> \notin Clashes
  BY <1>1, SenderTurn
<1>3. /\ e0 \in Pending /\ e0.kind = "AckTimeout" /\ MessageOf(e0) = m
      /\ MessageOK(m) /\ m.fragment_set \in Active /\ ~Settled(m)
  BY <1>1, TimeoutFires
<1>4. /\ QueueMessages(Sender, m.sender, m.recipient, m.fragment_size, m.sending_time)
      /\ original_messages' = [original_messages EXCEPT ![Sender] = Restrict(@, DOMAIN @ \ {id})]
      /\ fragments' = [fragments EXCEPT ![m.recipient] = @ \ FragmentsOf(m.recipient, m.fragment_set)]
      /\ origin' = Put(origin, next_fragment_set, from)
      /\ ingress' = ingress /\ deliveries' = deliveries
  BY <1>1 DEF ResendMessage
<1>5. /\ m.sender = Sender /\ m.recipient = Recipient /\ m.fragment_size = NumFrags
      /\ m.sending_time \in Nat
  BY <1>3 DEF MessageOK, Messages
<1>6. /\ DOMAIN original_messages'[Sender] \subseteq DOMAIN stored
      /\ \A k \in DOMAIN original_messages'[Sender] : original_messages'[Sender][k] = stored[k]
  <2>1. original_messages'[Sender] = Restrict(stored, DOMAIN stored \ {id})
    BY <1>4, PromptNow, UsersDiffer DEF RolesInv
  <2> HIDE DEF stored, id
  <2> QED BY <2>1 DEF Restrict
<1>7. m.fragment_set \notin Recorded
  BY <1>1, <1>3 DEF Settled
<1> HIDE DEF q, e0, id, m, stored, from
<1>8. fragments'[Recipient] = fragments[Recipient] \ FragmentsOf(Recipient, m.fragment_set)
  BY <1>4, <1>5, PromptNow, UsersDiffer
<1>9. /\ fragments'[Recipient] \subseteq fragments[Recipient]
      /\ \A s \in Recorded, i \in 0..(NumFrags - 1) :
           <<s, i>> \in fragments[Recipient] => <<s, i>> \in fragments'[Recipient]
  BY <1>7, <1>8 DEF FragmentsOf
<1>10. ASSUME NEW t \in Others PROVE origin[t].root # from.root
  <2> SUFFICES ASSUME origin[t].root = origin[m.fragment_set].root PROVE FALSE
    BY DEF from
  <2>1. t \in Active
    BY <1>2 DEF Others, Active, q
  <2>2. t = m.fragment_set
    BY <1>3, <2>1, PromptNow DEF ActiveInv
  <2>3. PICK e \in Items(Pop(q)) \cap Pending : MessageOf(e).fragment_set = m.fragment_set
    BY <1>7, <2>2 DEF Others, q
  <2>4. Unit(MessageOf(e0)) = Unit(MessageOf(e))
    BY <1>1, <1>3, <2>3 DEF Unit, Root
  <2>5. <<e0, e>> \in Clashes
    BY <1>3, <2>3, <2>4, ClashesMeaning
  <2> QED BY <1>2, <2>3, <2>5
<1>11. QueueMessages(Sender, Sender, Recipient, NumFrags, m.sending_time)
  BY <1>4, <1>5
<1> QED BY <1>1, <1>4, <1>5, <1>6, <1>9, <1>10, <1>11, NewSetOnTime DEF stored

-------------------------------------------------------------------------------
LEMMA InitOnTime == Init => OnTimeInv
<1> SUFFICES ASSUME Init PROVE OnTimeInv
  OBVIOUS
<1> DEFINE q == [i \in 1..NumSends |-> Entry(0, SendMessage(NumFrags))]
<1>1. /\ events[Sender] = q /\ events[Recipient] = <<>>
      /\ \A n \in Nodes : ingress[n] = <<>>
      /\ deliveries = <<>> /\ fragments[Recipient] = {}
  BY UsersDiffer DEF Init
<1>2. Len(q) = NumSends /\ \A i \in 1..Len(q) : q[i].item = SendMessage(NumFrags)
  BY ConfigAssumption DEF Entry
<1> HIDE DEF q
<1>3. \A e \in Items(q) : e.kind = "SendMessage"
  BY <1>2 DEF Items, SendMessage
<1>4. /\ \A K : Places(<<>>, K) = {}
      /\ Items(<<>>) = {} /\ Entries(<<>>) = {}
  BY DEF Places, Items, Entries
<1>5. ASSUME NEW K PROVE IsFiniteSet(Transit(ingress, K)) /\ Cardinality(Transit(ingress, K)) = 0
  <2>1. Transit(ingress, K) = {}
    BY <1>1, <1>4 DEF Transit
  <2> QED BY <2>1, FS_EmptySet
<1>6. Recorded = {}
  BY <1>1 DEF Recorded
<1>7. CopiesInv
  <2> SUFFICES ASSUME NEW f \in Nat \X Nat
               PROVE  IsFiniteSet(Transit(ingress, Carried(f))) /\ Copies(f) <= 1
    BY DEF CopiesInv
  <2>1. Places(q, Outbound(f)) = {}
    BY <1>3 DEF Places, Items, Outbound, Leaving
  <2>2. Count(events[Sender], Outbound(f)) = 0 /\ Count(events[Recipient], Inbound(f)) = 0
    BY <1>1, <1>4, <2>1, FS_EmptySet DEF Count
  <2> QED BY <1>1, <1>5, <2>2 DEF Copies
<1>8. AcksInv
  BY <1>5 DEF AcksInv
<1>9. InTimeInv
  BY <1>1, <1>4 DEF InTimeInv
<1>10. QueuedInv /\ AckedInv
  BY <1>1, <1>3 DEF QueuedInv, AckedInv
<1>11. Active = {}
  BY <1>1, <1>3, <1>6 DEF Active, Pending
<1>12. ActiveInv /\ CompleteInv
  BY <1>1, <1>6, <1>11 DEF ActiveInv, CompleteInv
<1> QED BY <1>7, <1>8, <1>9, <1>10, <1>12 DEF OnTimeInv

LEMMA StutterOnTime ==
  ASSUME OnTimeInv, UNCHANGED vars
  PROVE  OnTimeInv'
<1>1. /\ events' = events /\ original_messages' = original_messages /\ ingress' = ingress
      /\ origin' = origin /\ timestamp' = timestamp /\ deliveries' = deliveries
      /\ fragments' = fragments
  BY DEF vars, simVars
<1>2. \A e : MessageOf(e)' = MessageOf(e) /\ Settled(MessageOf(e))' = Settled(MessageOf(e))
  BY <1>1 DEF MessageOf, Settled, Recorded
<1>3. Recorded' = Recorded /\ Active' = Active
  BY <1>1, <1>2 DEF Active, Recorded, Pending
<1>4. CopiesInv' /\ AcksInv'
  BY <1>1 DEF OnTimeInv, CopiesInv, Copies, AcksInv
<1>5. InTimeInv' /\ QueuedInv'
  BY <1>1 DEF OnTimeInv, InTimeInv, QueuedInv
<1>6. AckedInv' /\ ActiveInv' /\ CompleteInv'
  BY <1>1, <1>2, <1>3 DEF OnTimeInv, AckedInv, ActiveInv, CompleteInv
<1> QED BY <1>4, <1>5, <1>6 DEF OnTimeInv

LEMMA NextPrompt ==
  ASSUME Prompt, PromptInv, [Next]_vars
  PROVE  PromptInv'
<1>1. TransferInv' /\ RetransmissionInv'
  BY NextTransfer DEF PromptInv, TransferInv
<1>2. ASSUME NEW n \in Nodes, NodeMessage(n) PROVE OnTimeInv'
  BY <1>2, NodeMessageOnTime
<1>3. ASSUME NEW n \in Nodes, NodeAck(n) PROVE OnTimeInv'
  BY <1>3, NodeAckOnTime
<1>4. ASSUME NEW n \in Nodes, NodeForward(n) PROVE OnTimeInv'
  BY <1>4, NodeForwardOnTime
<1>5. ASSUME NEW u \in Users, ReceiveMessage(u) PROVE OnTimeInv'
  BY <1>5, ReceiveMessageOnTime
<1>6. ASSUME NEW u \in Users, NEW dropped \in BOOLEAN, EgressPacket(u, dropped) PROVE OnTimeInv'
  BY <1>6, EgressOnTime
<1>7. ASSUME NEW u \in Users, StartSend(u) PROVE OnTimeInv'
  BY <1>1, <1>7, StartSendOnTime
<1>8. ASSUME NEW u \in Users, ResendFragment(u) PROVE OnTimeInv'
  BY <1>1, <1>8, ResendFragmentOnTime
<1>9. ASSUME NEW u \in Users, ResendMessage(u) PROVE OnTimeInv'
  BY <1>1, <1>9, ResendMessageOnTime
<1>10. ASSUME UNCHANGED vars PROVE OnTimeInv'
  BY <1>10, StutterOnTime DEF PromptInv
<1>11. OnTimeInv'
  BY <1>2, <1>3, <1>4, <1>5, <1>6, <1>7, <1>8, <1>9, <1>10 DEF Next, Step, Stop
<1> QED BY <1>1, <1>11 DEF PromptInv

LEMMA PromptMeans == PromptInv => DeliveredOnce
<1> SUFFICES ASSUME PromptInv, NEW i \in 1..Len(deliveries), NEW j \in 1..Len(deliveries),
                    origin[deliveries[i].fragment_set].root = origin[deliveries[j].fragment_set].root
             PROVE  i = j
  BY DEF DeliveredOnce
<1>1. deliveries[i].fragment_set \in Active /\ deliveries[j].fragment_set \in Active
  BY DEF Active, Recorded
<1>2. deliveries[i].fragment_set = deliveries[j].fragment_set
  BY <1>1, PromptNow DEF ActiveInv
<1> QED BY <1>2, PromptNow DEF CompleteInv

(***************************************************************************)
(* If an acknowledgement that is not lost is always back before the        *)
(* timeout it is for, no message is recorded as delivered twice, whatever  *)
(* else is lost and however often a part of it is sent again: the averages *)
(* the evaluation takes over deliveries count every message once.          *)
(***************************************************************************)
THEOREM DeliveredOnceIfPrompt ==
  ASSUME Prompt
  PROVE  Spec => []DeliveredOnce
<1>1. Init => PromptInv
  BY InitTransfer, InitOnTime DEF PromptInv
<1>2. PromptInv /\ [Next]_vars => PromptInv'
  BY NextPrompt
<1>3. PromptInv => DeliveredOnce
  BY PromptMeans
<1> QED BY <1>1, <1>2, <1>3, PTL DEF Spec

-------------------------------------------------------------------------------
(***************************************************************************)
(* What run() queued at time 0 is still to be sent or was sent: the first  *)
(* sets are those of the messages of run().                                *)
(***************************************************************************)
AllSentInv ==
  /\ NumSends <= next_fragment_set + Count(events[Sender], Unsent)
  /\ \A k \in 0..(NumSends - 1) : k < next_fragment_set => k \in SentTransfers

CompletingInv == TransferInv /\ AllSentInv

SentTyped == next_fragment_set \in Nat /\ Count(events[Sender], Unsent) \in Nat

LEMMA SentNow ==
  ASSUME TransferInv
  PROVE  /\ RetransmissionInv /\ SimInv /\ RolesInv /\ PendingInv /\ UnsentInv
         /\ next_fragment_set \in Nat /\ NumSends \in Nat
         /\ Count(events[Sender], Unsent) \in Nat
         /\ events[Sender] \in Queues(UserEvents) /\ SortedByTime(events[Sender])
         /\ DOMAIN events = Users
         /\ Count(events[Sender], Unsent) = 0 <=> Items(events[Sender]) \cap Unsent = {}
         /\ SentTyped
<1>1. /\ RetransmissionInv /\ SimInv /\ RolesInv /\ PendingInv /\ UnsentInv
      /\ next_fragment_set \in Nat /\ NumSends \in Nat
      /\ events[Sender] \in Queues(UserEvents) /\ SortedByTime(events[Sender])
      /\ DOMAIN events = Users
  BY UsersDiffer, ConfigAssumption
     DEF TransferInv, RetransmissionInv, SimInv, QueuesInv, RecordsInv, DueFrom
<1>2. /\ Count(events[Sender], Unsent) \in Nat
      /\ Count(events[Sender], Unsent) = 0 <=> Items(events[Sender]) \cap Unsent = {}
  BY <1>1, CountNone
<1> QED BY <1>1, <1>2 DEF SentTyped

(***************************************************************************)
(* A step that sends nothing for the first time leaves it so.              *)
(***************************************************************************)
LEMMA SentStays ==
  ASSUME CompletingInv, TransferInv', SentTransfers \subseteq SentTransfers',
         \/ /\ next_fragment_set' = next_fragment_set
            /\ Count(events'[Sender], Unsent) = Count(events[Sender], Unsent)
         \/ /\ NumSends <= next_fragment_set /\ next_fragment_set <= next_fragment_set'
  PROVE  AllSentInv'
<1> DEFINE c == Count(events[Sender], Unsent)
           d == Count(events'[Sender], Unsent)
<1>1. c \in Nat /\ next_fragment_set \in Nat /\ NumSends \in Nat
  BY SentNow DEF CompletingInv
<1>2. d \in Nat /\ next_fragment_set' \in Nat
  <2>1. SentTyped'
    BY SentNow, PTL
  <2> QED BY <2>1 DEF SentTyped
<1>3. NumSends <= next_fragment_set + c
  BY DEF CompletingInv, AllSentInv
<1> HIDE DEF c, d
<1>4. NumSends <= next_fragment_set' + d
  BY <1>1, <1>2, <1>3 DEF c, d
<1>5. ASSUME NEW k \in 0..(NumSends - 1), k < next_fragment_set' PROVE k \in SentTransfers'
  <2>1. k < next_fragment_set
    BY <1>1, <1>5
  <2> QED BY <1>5, <2>1 DEF CompletingInv, AllSentInv
<1> QED BY <1>4, <1>5 DEF AllSentInv, d

(***************************************************************************)
(* A packet leaves, or something is sent again, only after everything was  *)
(* sent once.                                                              *)
(***************************************************************************)
LEMMA SentBefore ==
  ASSUME CompletingInv, NEW u \in Users, NEW kind \in {"Egress", "AckTimeout"}, UserTurn(u, kind)
  PROVE  NumSends <= next_fragment_set
<1> DEFINE q == events[Sender]
<1>1. TransferInv
  BY DEF CompletingInv
<1>2. /\ u = Sender /\ NextItem(q) \in UserEvents /\ NextItem(q).kind = kind
      /\ Items(q) = Items(Pop(q)) \cup {NextItem(q)} /\ Items(q) \subseteq UserEvents
  BY <1>1, SentNow, SenderFront
<1>3. \A f \in Items(Pop(q)) : <<NextItem(q), f>> \notin Overtaking
  BY <1>1, <1>2, SentNow, PopOrder DEF UnsentInv, UserTurn
<1> HIDE DEF q
<1>4. NextItem(q) \notin Unsent
  BY <1>2 DEF Unsent
<1>5. Items(q) \cap Unsent = {}
  BY <1>2, <1>3, <1>4 DEF Overtaking
<1>6. Count(events[Sender], Unsent) = 0
  BY <1>1, <1>5, SentNow DEF q
<1> QED BY <1>1, <1>6, SentNow DEF CompletingInv, AllSentInv

(***************************************************************************)
(* A message of run() is sent: the next set is its.                        *)
(***************************************************************************)
LEMMA StartSendSends ==
  ASSUME CompletingInv, TransferInv', SentTransfers \subseteq SentTransfers',
         NEW u \in Users, StartSend(u)
  PROVE  AllSentInv'
<1> DEFINE q  == events[Sender]
           e0 == NextItem(q)
           r  == Pop(q)
           s  == next_fragment_set
           from == [root |-> s, sent |-> timestamp']
<1>0. TransferInv
  BY DEF CompletingInv
<1>1. /\ u = Sender /\ UserTurn(Sender, "SendMessage") /\ timestamp' \in Nat
      /\ e0 \in UserEvents /\ e0.kind = "SendMessage" /\ e0 \in Items(q)
      /\ DueFrom(r, UserEvents, timestamp')
  BY <1>0, SentNow, SenderFront DEF StartSend
<1>2. e0.num_frags = NumFrags
  BY <1>0, <1>1, SentNow DEF RolesInv
<1>3. /\ QueueMessages(Sender, Sender, Recipient, NumFrags, timestamp')
      /\ origin' = Put(origin, next_fragment_set, from)
  BY <1>1, <1>2 DEF StartSend
<1>4. from.root = s
  OBVIOUS
<1>5. q # <<>>
  BY <1>1 DEF UserTurn
<1> HIDE DEF q, e0, r, from
<1>6. PICK xs : /\ EgressOfSet(xs, timestamp')
                /\ events' = [events EXCEPT ![Sender] = InsertAll(r, timestamp', xs)]
  BY <1>0, <1>1, <1>3, SentNow, QueuedMessages DEF r, q
<1>7. next_fragment_set' = s + 1
  BY <1>0, <1>1, <1>3, SentNow, QueuedMessages
<1>8. /\ xs \in Seq(UserEvents)
      /\ \A k \in 1..Len(xs) : xs[k] \notin Unsent
  BY <1>6 DEF EgressOfSet, Unsent
<1>9. Count(events'[Sender], Unsent) = Count(r, Unsent)
  <2> DEFINE N == {k \in 1..Len(xs) : xs[k] \in Unsent}
  <2>1. N = {}
    BY <1>8
  <2> HIDE DEF N
  <2>2. Cardinality(N) = 0
    BY <2>1, FS_EmptySet
  <2>3. r \in Queues(UserEvents) /\ SortedByTime(r) /\ Count(r, Unsent) \in Nat
    BY <1>1, CountType
  <2>4. Count(InsertAll(r, timestamp', xs), Unsent) = Count(r, Unsent) + Cardinality(N)
    BY <1>1, <1>8, <2>3, CountInsertAll DEF N
  <2>5. events'[Sender] = InsertAll(r, timestamp', xs)
    BY <1>0, <1>6, SentNow, UsersDiffer
  <2> QED BY <2>2, <2>3, <2>4, <2>5
<1>10. Count(q, Unsent) = Count(r, Unsent) + 1 /\ Count(r, Unsent) \in Nat
  <2>1. q \in Queues(UserEvents)
    BY <1>0, SentNow DEF q
  <2>2. Count(q, Unsent) = Count(r, Unsent) + (IF e0 \in Unsent THEN 1 ELSE 0)
    BY <1>5, <2>1, CountPop DEF e0, r
  <2>3. Count(r, Unsent) \in Nat
    BY <1>1, CountType
  <2>4. e0 \in Unsent
    BY <1>1 DEF Unsent
  <2> QED BY <2>2, <2>3, <2>4
<1> DEFINE c == Count(r, Unsent)
<1>11. NumSends <= s + (c + 1) /\ s \in Nat /\ NumSends \in Nat
  BY <1>0, <1>10, SentNow DEF CompletingInv, AllSentInv, q
<1> HIDE DEF c
<1>12. NumSends <= next_fragment_set' + c
  BY <1>7, <1>10, <1>11 DEF c
<1>13. s \in SentTransfers'
  <2>1. s \in DOMAIN origin' /\ origin'[s] = from
    BY <1>3 DEF Put
  <2> QED BY <1>4, <2>1 DEF SentTransfers
<1>14. ASSUME NEW k \in 0..(NumSends - 1), k < next_fragment_set' PROVE k \in SentTransfers'
  <2>1. CASE k = s
    BY <1>13, <2>1
  <2>2. CASE k # s
    <3>1. k < s
      BY <1>7, <1>11, <1>14, <2>2
    <3> QED BY <1>14, <3>1 DEF CompletingInv, AllSentInv
  <2> QED BY <2>1, <2>2
<1> QED BY <1>9, <1>12, <1>14 DEF AllSentInv, c

LEMMA InitSends == Init => AllSentInv
<1> SUFFICES ASSUME Init PROVE AllSentInv
  OBVIOUS
<1> DEFINE q == [i \in 1..NumSends |-> Entry(0, SendMessage(NumFrags))]
<1>1. events[Sender] = q /\ next_fragment_set = 0
  BY UsersDiffer DEF Init
<1>2. NumSends \in Nat /\ Len(q) = NumSends /\ \A i \in 1..Len(q) : q[i].item = SendMessage(NumFrags)
  BY ConfigAssumption DEF Entry
<1>3. SendMessage(NumFrags) \in Unsent
  BY ConfigAssumption DEF SendMessage, UserEvents, Unsent
<1> HIDE DEF q
<1>4. Places(q, Unsent) = 1..NumSends
  BY <1>2, <1>3 DEF Places
<1>5. Cardinality(1..NumSends) = NumSends
  BY <1>2, InitialSegment
<1>6. Count(events[Sender], Unsent) = NumSends
  BY <1>1, <1>4, <1>5 DEF Count
<1> QED BY <1>1, <1>2, <1>6 DEF AllSentInv

LEMMA NextSends == CompletingInv /\ [Next]_vars => AllSentInv'
<1> SUFFICES ASSUME CompletingInv, [Next]_vars PROVE AllSentInv'
  OBVIOUS
<1> DEFINE q == events[Sender]
<1>1. TransferInv /\ TransferInv' /\ [Transfer!Next]_Transfer!vars
  BY NextTransfer DEF CompletingInv
<1>2. SentTransfers \subseteq SentTransfers'
  BY <1>1 DEF Transfer!Next, Transfer!vars, Transfer!Send, Transfer!Deliver, Transfer!Settle
<1>3. next_fragment_set \in Nat /\ next_fragment_set' \in Nat
  <2>1. SentTyped /\ SentTyped'
    BY <1>1, SentNow, PTL
  <2> QED BY <2>1 DEF SentTyped
<1> HIDE DEF q
<1>4. ASSUME next_fragment_set' = next_fragment_set, events'[Sender] = events[Sender]
      PROVE  AllSentInv'
  BY <1>1, <1>2, <1>4, SentStays
<1>5. ASSUME NumSends <= next_fragment_set, next_fragment_set <= next_fragment_set'
      PROVE  AllSentInv'
  BY <1>1, <1>2, <1>5, SentStays
<1>6. ASSUME NEW n \in Nodes, NodeMessage(n) PROVE AllSentInv'
  <2> DEFINE p == NextItem(ingress[n])
  <2>1. p \in Items(ingress[n]) /\ p.content.kind = "Message"
    BY <1>1, <1>6, NodeFront DEF NodeMessage, TransferInv, RetransmissionInv
  <2>2. p.content \in Live
    BY <2>1, MessagesInWhere DEF Live
  <2>3. p.content.recipient = Recipient
    BY <1>1, <2>2 DEF TransferInv, RetransmissionInv, MessagesInv, MessageOK
  <2>4. events'[Sender] = events[Sender] /\ next_fragment_set' = next_fragment_set
    BY <1>1, <1>6, <2>3, SentNow, UsersDiffer DEF NodeMessage
  <2> QED BY <1>4, <2>4
<1>7. ASSUME NEW n \in Nodes, NodeAck(n) PROVE AllSentInv'
  <2> DEFINE p == NextItem(ingress[n])
             x == AckTimeout(p.content.message_id)
  <2>1. p \in Items(ingress[n]) /\ p.content.kind = "Ack"
    BY <1>1, <1>7, NodeFront DEF NodeAck, TransferInv, RetransmissionInv
  <2>2. p.content.recipient = Sender
    BY <1>1, <2>1, SentNow DEF RolesInv
  <2>3. x \notin Unsent
    BY DEF AckTimeout, Unsent
  <2>4. /\ events' = [events EXCEPT ![p.content.recipient] = Cancel(events[p.content.recipient], x)]
        /\ next_fragment_set' = next_fragment_set
    BY <1>7 DEF NodeAck
  <2> HIDE DEF x, p
  <2>5. events'[Sender] = Cancel(events[Sender], x)
    BY <1>1, <2>2, <2>4, SentNow, UsersDiffer
  <2>6. Count(events'[Sender], Unsent) = Count(events[Sender], Unsent)
    BY <1>1, <2>3, <2>5, SentNow, CountCancel
  <2> QED BY <1>1, <1>2, <2>4, <2>6, SentStays
<1>8. ASSUME NEW n \in Nodes, NodeForward(n) PROVE AllSentInv'
  BY <1>4, <1>8 DEF NodeForward
<1>9. ASSUME NEW u \in Users, ReceiveMessage(u) PROVE AllSentInv'
  <2>1. NextItem(events[u]) \in Items(events[u]) /\ NextItem(events[u]).kind = "Message"
    BY <1>1, <1>9, UserFront DEF ReceiveMessage, TransferInv, RetransmissionInv
  <2>2. u = Recipient
    BY <1>1, <2>1, SentNow, UsersDiffer DEF RolesInv
  <2>3. events'[Sender] = events[Sender] /\ next_fragment_set' = next_fragment_set
    BY <1>1, <1>9, <2>2, SentNow, UsersDiffer DEF ReceiveMessage
  <2> QED BY <1>4, <2>3
<1>10. ASSUME NEW u \in Users, NEW dropped \in BOOLEAN, EgressPacket(u, dropped) PROVE AllSentInv'
  <2>1. NumSends <= next_fragment_set
    BY <1>10, SentBefore DEF EgressPacket
  <2>2. next_fragment_set' = next_fragment_set
    BY <1>10 DEF EgressPacket
  <2> QED BY <1>3, <1>5, <2>1, <2>2
<1>11. ASSUME NEW u \in Users, StartSend(u) PROVE AllSentInv'
  BY <1>1, <1>2, <1>11, StartSendSends
<1>12. ASSUME NEW u \in Users, ResendFragment(u) PROVE AllSentInv'
  <2>1. NumSends <= next_fragment_set
    BY <1>12, SentBefore DEF ResendFragment
  <2>2. next_fragment_set' = next_fragment_set
    BY <1>12 DEF ResendFragment
  <2> QED BY <1>3, <1>5, <2>1, <2>2
<1>13. ASSUME NEW u \in Users, ResendMessage(u) PROVE AllSentInv'
  <2>1. NumSends <= next_fragment_set
    BY <1>13, SentBefore DEF ResendMessage
  <2>2. next_fragment_set' = next_fragment_set + 1
    BY <1>13 DEF ResendMessage, QueueMessages
  <2>3. next_fragment_set <= next_fragment_set'
    BY <1>3, <2>2
  <2> QED BY <1>5, <2>1, <2>3
<1>14. CASE UNCHANGED vars
  BY <1>4, <1>14 DEF vars, simVars
<1> QED BY <1>6, <1>7, <1>8, <1>9, <1>10, <1>11, <1>12, <1>13, <1>14 DEF Next, Step, Stop

LEMMA CompletingKept ==
  /\ Init => CompletingInv
  /\ CompletingInv /\ [Next]_vars => CompletingInv'
<1>1. Init => CompletingInv
  BY InitTransfer, InitSends DEF CompletingInv
<1>2. CompletingInv /\ [Next]_vars => CompletingInv'
  BY NextTransfer, NextSends DEF CompletingInv
<1> QED BY <1>1, <1>2

(***************************************************************************)
(* When no event is left, all messages were sent, none is pending, and so  *)
(* all were delivered.                                                     *)
(***************************************************************************)
LEMMA CompleteIf == CompletingInv => (Finished => AllDelivered)
<1> SUFFICES ASSUME CompletingInv, Finished PROVE DeliveredTransfers = 0..(NumSends - 1)
  BY DEF AllDelivered
<1>1. TransferInv /\ Mapped /\ NoneLost
  BY StateMapped, SentIsSettled DEF CompletingInv, TransferInv
<1>2. Items(events[Sender]) = {}
  BY UsersDiffer DEF Finished, Items
<1>3. NumSends <= next_fragment_set /\ next_fragment_set \in Nat /\ NumSends \in Nat
  <2>1. Count(events[Sender], Unsent) = 0
    BY <1>1, <1>2, SentNow
  <2> QED BY <1>1, <2>1, SentNow DEF CompletingInv, AllSentInv
<1>4. 0..(NumSends - 1) \subseteq SentTransfers
  <2> SUFFICES ASSUME NEW k \in 0..(NumSends - 1) PROVE k \in SentTransfers
    OBVIOUS
  <2>1. k < next_fragment_set
    BY <1>3
  <2> QED BY <2>1 DEF CompletingInv, AllSentInv
<1>5. PendingRoots = {}
  BY <1>2 DEF PendingRoots
<1>6. RecordedRoots \subseteq 0..(NumSends - 1)
  BY <1>1 DEF TransferInv, RecordInv, RecordedRoots
<1> QED BY <1>1, <1>4, <1>5, <1>6 DEF Mapped, NoneLost

(***************************************************************************)
(* Whatever was lost or late, when run() leaves its loop every message has *)
(* been sent and delivered: the simulation does not run dry with something *)
(* still missing, and the statistics have a record of every message.       *)
(***************************************************************************)
THEOREM CompleteWhenFinished == Spec => [](Finished => AllDelivered)
BY CompletingKept, CompleteIf, PTL DEF Spec

(***************************************************************************)
(* Records that each stand for a message of their own and together for all *)
(* messages are as many as there are messages.                             *)
(***************************************************************************)
LEMMA OneRecordEach ==
  ASSUME TransferInv, DeliveredOnce, AllDelivered
  PROVE  Len(deliveries) = NumSends
<1> DEFINE n == Len(deliveries)
           f == [i \in 1..n |-> origin[deliveries[i].fragment_set].root]
<1>1. n \in Nat /\ NumSends \in Nat
  BY LenProperties, ConfigAssumption DEF TransferInv, RetransmissionInv, SimInv, RecordsInv
<1>2. \A y \in 0..(NumSends - 1) : \E i \in 1..n : f[i] = y
  BY DEF AllDelivered, DeliveredTransfers
<1>3. f \in [1..n -> 0..(NumSends - 1)]
  BY DEF AllDelivered, DeliveredTransfers
<1>4. \A i, j \in 1..n : f[i] = f[j] => i = j
  BY DEF DeliveredOnce
<1> HIDE DEF n, f
<1>5. IsFiniteSet(1..n) /\ Cardinality(1..n) = n
  BY <1>1, InitialSegment
<1>6. Cardinality(0..(NumSends - 1)) = Cardinality(1..n)
  BY <1>2, <1>3, <1>4, <1>5, SameSize
<1>7. Cardinality(0..(NumSends - 1)) = NumSends
  BY <1>1, FS_Interval
<1> QED BY <1>5, <1>6, <1>7 DEF n

(***************************************************************************)
(* With prompt acknowledgements the averages and quantiles of the          *)
(* evaluation are over exactly one record of each message.                 *)
(***************************************************************************)
THEOREM OneRecordEachIfPrompt ==
  ASSUME Prompt
  PROVE  Spec => [](Finished => Len(deliveries) = NumSends)
<1>1. Init => PromptInv
  BY InitTransfer, InitOnTime DEF PromptInv
<1>2. PromptInv /\ [Next]_vars => PromptInv'
  BY NextPrompt
<1>3. PromptInv /\ CompletingInv => (Finished => Len(deliveries) = NumSends)
  BY PromptMeans, CompleteIf, OneRecordEach DEF CompletingInv
<1> QED BY <1>1, <1>2, <1>3, CompletingKept, PTL DEF Spec

===============================================================================
