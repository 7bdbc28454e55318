----------------------------- MODULE SphinxChannel -----------------------------
(***************************************************************************)
(* What makes Sphinx correct: the properties of SphinxNetwork, and the     *)
(* channel that it implements.                                             *)
(***************************************************************************)
EXTENDS SphinxNetwork

(***************************************************************************)
(* Types.  Headers and payloads have the length of the code's array types, *)
(* however long the route is and wherever on it they are.                  *)
(***************************************************************************)
TypeOK ==
  /\ \A m \in Messages : built[m] = None \/
       (built[m].request \in Requests /\ built[m].error \in {"none", "InvalidPayload", "panic"})
  /\ \A r \in Replies : surbs[r] = None \/
       (/\ surbs[r].request \in SurbRequests
        /\ surbs[r].error \in {"none", "InvalidPayload", "InvalidSURB", "panic"})
  /\ \A p \in packets :
       /\ p.item \in Items /\ p.at \in Nodes /\ p.hop \in 1..MaxRoute
       /\ Len(p.bytes.header) = HeaderLength
       /\ Len(p.bytes.payload.text) \in (IF p.damage.kind = "cut" THEN Cuts ELSE {PayloadSize})
  /\ lost \subseteq Items

(***************************************************************************)
(* Wherever a packet has got to, process() there succeeds and finds what   *)
(* was meant for that hop: the next address with the delay of this node,   *)
(* or at the end destination and identifier.  So it does if only the       *)
(* payload has changed.                                                    *)
(***************************************************************************)
PeelsAsBuilt ==
  \A p \in packets : p.damage.kind \in {"none", "payload"} =>
    LET outcome == Computed(p.at, p.bytes)
        route   == p.request.route
    IN  /\ p.at = route[p.hop]
        /\ IF p.hop < Len(route)
           THEN /\ outcome.kind = "ForwardHop"
                /\ outcome.address = Address(route[p.hop + 1])
                /\ outcome.delay = Delay(p.request.delays[p.hop])
           ELSE /\ outcome.kind = "FinalHop"
                /\ outcome.address = {Destination(p.item).address}
                /\ outcome.identifier = {Destination(p.item).identifier}

(***************************************************************************)
(* A node that a packet is not at rejects it by its MAC, also with the     *)
(* routing keys it remembers of other packets.                             *)
(***************************************************************************)
OnlyForItsNode ==
  \A p \in packets : PacketFromBytes(p.bytes).error = "none" =>
    \A n \in Nodes \ {p.at} :
      /\ Computed(n, p.bytes) = Rejected("integrity MAC")
      /\ \A c \in caches[n] : Recalled(p.bytes, c) = Rejected("integrity MAC")

(***************************************************************************)
(* What a node remembers of one packet serves for every later one made     *)
(* from the same initial secret, whatever its route and whatever happened  *)
(* to it: the outcome is that of process(), except that a forward hop, of  *)
(* which process() complains about the payload at most, is refused if the  *)
(* packet remembered was at its last hop and left no blinded secret.       *)
(***************************************************************************)
RecallAgrees ==
  \A p \in packets : \A c \in caches[p.at] :
    LET computed == Computed(p.at, p.bytes)
        recalled == Recalled(p.bytes, c)
    IN  (PacketFromBytes(p.bytes).error = "none" /\ c.shared_secret = SecretOf(p.bytes)) =>
          \/ recalled = computed
          \/ /\ computed.kind = "ForwardHop" \/ computed = Rejected("InvalidPayload")
             /\ ~c.secret.known
             /\ recalled = Rejected("without blinded secret")

TooShort(length) == length < Overhead \/ length < CipherBlock

(***************************************************************************)
(* Every refusal has its reason, and comes where that shows.  A changed    *)
(* header is refused by its MAC at once.  A changed payload travels on and *)
(* is refused only after the last node.  So is a packet that is cut,       *)
(* unless it is cut so short that it cannot be parsed or deciphered, which *)
(* is refused at once.  Whatever was done to it, a packet can be refused   *)
(* for a remembered last hop, if its initial secret was used before.       *)
(* Nothing panics.                                                         *)
(***************************************************************************)
RefusedForAReason ==
  \A r \in refused :
    LET route == IF r.item \in Messages THEN built[r.item].request.route
                 ELSE surbs[r.item].request.route
    IN  \/ /\ r.damage.kind = "header"
           /\ r.error = "integrity MAC" /\ r.hop = r.damage.hop
        \/ /\ r.damage.kind = "payload" \/ (r.damage.kind = "cut" /\ ~TooShort(r.length))
           /\ r.error = "InvalidPayload" /\ r.hop = Len(route)
        \/ /\ r.damage.kind = "cut" /\ TooShort(r.length)
           /\ r.error \in {"InvalidPacket", "InvalidPayload"} /\ r.hop = r.damage.hop
        \/ /\ r.damage.kind # "header"
           /\ r.error = "without blinded secret" /\ r.hop < Len(route)
           /\ r.item \in Messages /\ built[r.item].request.shared
           /\ \E m \in Messages \ {r.item} : built[m] # None /\ built[m].request.shared

(***************************************************************************)
(* A relay leaves no part of a packet as it was.                           *)
(***************************************************************************)
NothingRecognisable ==
  [][\A p \in packets, q \in packets' :
       (q.item = p.item /\ q.hop = p.hop + 1) =>
         /\ Range(q.bytes.header) \cap Range(p.bytes.header) = {}
         /\ Read(q.bytes.payload) # Read(p.bytes.payload)]_vars

-------------------------------------------------------------------------------
Arrival(i, plaintext) ==
  [address |-> {Destination(i).address}, identifier |-> {Destination(i).identifier},
   plaintext |-> plaintext]

AllPlaintexts == {r.plaintext : r \in Requests} \cup Plaintexts

SentMessage(m) ==
  IF built[m] # None /\ built[m].error = "none" THEN Arrival(m, built[m].request.plaintext) ELSE None

SentReply(r) ==
  IF surbs[r] # None /\ surbs[r].error = "none" /\ surbs[r].plaintext # None
  THEN Arrival(r, surbs[r].plaintext) ELSE None

(***************************************************************************)
(* None is nothing that a call returns, is given, or that somebody gets.   *)
(***************************************************************************)
ASSUME NoneAssumption ==
  /\ None \notin Plaintexts
  /\ \A request \in Requests, error \in {"none", "InvalidPayload", "panic"} :
       None # [request |-> request, error |-> error]
  /\ \A r \in Replies, request \in SurbRequests, t \in Plaintexts, error \in {"none", "InvalidPayload"} :
       None # [Created(r, request) EXCEPT !.plaintext = t, !.error = error]
  /\ \A i \in Items, t \in AllPlaintexts : None # Arrival(i, t)

Channel == INSTANCE MessageChannel WITH
  Contents <- {Arrival(i, t) : i \in Items, t \in AllPlaintexts},
  Nothing  <- None,
  sent     <- [i \in Items |-> IF i \in Messages THEN SentMessage(i) ELSE SentReply(i)],
  received <- received,
  lost     <- lost \cup {r.item : r \in refused}

(***************************************************************************)
(* Every message and every reply arrives at its destination exactly as it  *)
(* was sent, or it is lost or refused, and one of them happens.            *)
(***************************************************************************)
ImplementsChannel == Channel!Spec /\ Channel!Settles

===============================================================================
