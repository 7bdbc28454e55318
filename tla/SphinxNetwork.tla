----------------------------- MODULE SphinxNetwork -----------------------------
(***************************************************************************)
(* Sphinx at work: senders build packets, some of them from an initial     *)
(* secret they use again, reply blocks travel as bytes and are used once,  *)
(* and nodes process what reaches them in any order, computing the keys or *)
(* taking those they remember for the secret in the header.  A packet can  *)
(* be lost, cut short, or change on its way.                               *)
(***************************************************************************)
EXTENDS SphinxPacket, SequencesExt

CONSTANTS Nodes,
          Messages,      \* packets, by what builds them
          Replies,       \* reply blocks, by what creates them
          Requests,      \* for packets: route, delays, plaintext, shared
          SurbRequests,  \* for reply blocks: route, delays
          Plaintexts,    \* what a reply block is used with
          PayloadSize,
          Reused,        \* an initial secret used for several packets
          Damages,       \* what can happen to a packet on the way
          Spots,         \* blocks of a header that can change
          Cuts,          \* lengths to which a payload can be cut
          None

ASSUME SphinxAssumption ==
  /\ \A r \in Requests \cup SurbRequests : r.route \in Seq(Nodes)
  /\ \A t \in {r.plaintext : r \in Requests} \cup Plaintexts : t \in Seq({Byte(b) : b \in 0..255})
  /\ PayloadSize \in Nat
  /\ Spots \subseteq 1..HeaderLength
  /\ Cuts \subseteq 0..(PayloadSize - 1)

Items == Messages \cup Replies

ASSUME ItemAssumption == Messages \cap Replies = {} /\ Reused \notin Items

VARIABLES built,     \* what every build_packet() was given and returned
          surbs,     \* what every SURB::new() was given and returned, as bytes
          packets,   \* packets under way, as bytes
          caches,    \* the routing keys that nodes remember
          received,  \* what was recovered from every packet and reply
          refused,   \* packets that parsing, processing or recovering failed on
          lost       \* packets and replies that were lost

vars == <<built, surbs, packets, caches, received, refused, lost>>

Destination(i) == [address |-> <<"destination", i>>, identifier |-> <<"identifier", i>>]

Init ==
  /\ built = [m \in Messages |-> None]
  /\ surbs = [r \in Replies |-> None]
  /\ packets = {}
  /\ caches = [n \in Nodes |-> {}]
  /\ received = [i \in Items |-> None]
  /\ refused = {}
  /\ lost = {}

(***************************************************************************)
(* A packet at node "at", which is the hop-th of its route, and what has   *)
(* been done to it on the way.                                             *)
(***************************************************************************)
Under(item, request, hop, at, packet, damage) ==
  [item |-> item, request |-> request, hop |-> hop, at |-> at, bytes |-> PacketToBytes(packet),
   damage |-> damage]

Intact == [kind |-> "none", hop |-> 0]

Build(m, request) ==
  LET secret == IF request.shared THEN Reused ELSE m
      made   == BuildPacket(m, secret, request.plaintext, PayloadSize, request.route,
                            Destination(m), request.delays)
  IN  /\ built[m] = None
      /\ built' = [built EXCEPT ![m] = [request |-> request, error |-> made.error]]
      /\ packets' = IF made.error = "none"
                    THEN packets \cup {Under(m, request, 1, request.route[1], made.packet, Intact)}
                    ELSE packets
      /\ UNCHANGED <<surbs, caches, received, refused, lost>>

Created(r, request) ==
  LET made == NewSurb(r, r, request.route, request.delays, Destination(r))
  IN  [request |-> request, error |-> made.error, plaintext |-> None,
       bytes |-> IF made.error = "none" THEN SurbToBytes(made.surb) ELSE <<>>]

CreateSurb(r, request) ==
  /\ surbs[r] = None
  /\ surbs' = [surbs EXCEPT ![r] = Created(r, request)]
  /\ UNCHANGED <<built, packets, caches, received, refused, lost>>

(***************************************************************************)
(* Whoever holds a reply block knows it by its bytes only, and uses it up. *)
(***************************************************************************)
Answer(r, plaintext) ==
  LET parsed == SurbFromBytes(surbs[r].bytes)
      used   == UseSurb(parsed.surb, plaintext, PayloadSize)
  IN  /\ surbs[r] # None
      /\ surbs[r].error = "none"
      /\ surbs[r].plaintext = None
      /\ parsed.error = "none"
      /\ surbs' = [surbs EXCEPT ![r].plaintext = plaintext, ![r].error = used.error]
      /\ IF used.error = "none"
         THEN \E n \in Nodes : /\ used.address = Address(n)
                               /\ packets' = packets \cup {Under(r, surbs[r].request, 1, n, used.packet, Intact)}
         ELSE UNCHANGED packets
      /\ UNCHANGED <<built, caches, received, refused, lost>>

-------------------------------------------------------------------------------
(***************************************************************************)
(* What a node can remember of a packet it processed: the routing keys,    *)
(* and ProcessedPacket::shared_secret(), which there is for a relay only.  *)
(* Mutation: the secret that came in is remembered, not the one going out. *)
(***************************************************************************)
RememberedAsCame(n, shared_secret, outcome) ==
  [shared_secret |-> shared_secret, keys |-> ComputeRoutingKeys(shared_secret, n),
   secret |-> IF outcome.kind = "ForwardHop" THEN Known(shared_secret) ELSE NoSecret]

Remembered(n, shared_secret, outcome) ==
  [shared_secret |-> shared_secret, keys |-> ComputeRoutingKeys(shared_secret, n),
   secret |-> IF outcome.kind = "ForwardHop" THEN Known(outcome.packet.header.shared_secret)
              ELSE NoSecret]

Relayed(p, outcome) ==
  /\ outcome.kind = "ForwardHop"
  /\ \E n \in Nodes :
       /\ outcome.address = Address(n)
       /\ packets' = (packets \ {p}) \cup {Under(p.item, p.request, p.hop + 1, n, outcome.packet, p.damage)}
  /\ UNCHANGED <<received, refused>>

Refusal(p, error) ==
  [item |-> p.item, hop |-> p.hop, damage |-> p.damage, length |-> Len(p.bytes.payload.text),
   error |-> error]

Recovered(p, outcome) ==
  LET recovered == RecoverPlaintext(outcome.payload)
  IN  /\ outcome.kind = "FinalHop"
      /\ packets' = packets \ {p}
      /\ IF recovered.error = "none"
         THEN /\ received' = [received EXCEPT ![p.item] =
                   [address |-> outcome.address, identifier |-> outcome.identifier,
                    plaintext |-> recovered.plaintext]]
              /\ UNCHANGED refused
         ELSE /\ refused' = refused \cup {Refusal(p, recovered.error)}
              /\ UNCHANGED received

Refuse(p, outcome) ==
  /\ outcome.kind = "error"
  /\ packets' = packets \ {p}
  /\ refused' = refused \cup {Refusal(p, outcome.error)}
  /\ UNCHANGED received

Handle(p, outcome) == Relayed(p, outcome) \/ Recovered(p, outcome) \/ Refuse(p, outcome)

(***************************************************************************)
(* What node n makes of the bytes it has, computing the keys, and what it  *)
(* makes of them with keys that it remembers.                              *)
(***************************************************************************)
SecretOf(bytes) == PacketFromBytes(bytes).packet.header.shared_secret

Computed(n, bytes) ==
  LET parsed == PacketFromBytes(bytes)
  IN  IF parsed.error = "none" THEN ProcessPacket(n, parsed.packet) ELSE Rejected(parsed.error)

Recalled(bytes, c) ==
  LET parsed == PacketFromBytes(bytes)
  IN  IF parsed.error = "none" THEN ProcessPacketWith(parsed.packet, c.keys, c.secret)
      ELSE Rejected(parsed.error)

Compute(p) ==
  LET outcome == Computed(p.at, p.bytes)
  IN  /\ Handle(p, outcome)
      /\ caches' = IF outcome.kind = "error" THEN caches
                   ELSE [caches EXCEPT ![p.at] = @ \cup {Remembered(p.at, SecretOf(p.bytes), outcome)}]
      /\ UNCHANGED <<built, surbs, lost>>

Recall(p) ==
  /\ PacketFromBytes(p.bytes).error = "none"
  /\ \E c \in caches[p.at] :
       /\ c.shared_secret = SecretOf(p.bytes)
       /\ Handle(p, Recalled(p.bytes, c))
  /\ UNCHANGED <<built, surbs, caches, lost>>

(***************************************************************************)
(* The network, which is not part of the code, may lose a packet.          *)
(***************************************************************************)
Lose(p) ==
  /\ packets' = packets \ {p}
  /\ lost' = lost \cup {p.item}
  /\ UNCHANGED <<built, surbs, caches, received, refused>>

(***************************************************************************)
(* A packet is damaged at most once: a block of its header changes, its    *)
(* payload does, or it is cut short.  A changed payload is as good as one  *)
(* with a layer more, which nobody takes off.                              *)
(***************************************************************************)
Changed(bytes, spot) == [bytes EXCEPT !.header[spot] = SymDiff(@, {<<"noise">>})]

Garbled(bytes) == [bytes EXCEPT !.payload = Encrypt(<<"noise">>, @)]

CutTo(bytes, length) ==
  LET cut == [bytes.payload EXCEPT !.text = SubSeq(@, 1, length)]
  IN  [bytes EXCEPT !.payload = Encrypt(<<"noise">>, cut)]

Damaged(p, kind, bytes) ==
  /\ kind \in Damages
  /\ p.damage = Intact
  /\ packets' = (packets \ {p})
                \cup {[p EXCEPT !.bytes = bytes, !.damage = [kind |-> kind, hop |-> p.hop]]}
  /\ UNCHANGED <<built, surbs, caches, received, refused, lost>>

ChangeHeader(p) == \E spot \in Spots : Damaged(p, "header", Changed(p.bytes, spot))
ChangePayload(p) == Damaged(p, "payload", Garbled(p.bytes))
CutShort(p) == \E length \in Cuts : Damaged(p, "cut", CutTo(p.bytes, length))

Next ==
  \/ \E m \in Messages, request \in Requests : Build(m, request)
  \/ \E r \in Replies, request \in SurbRequests : CreateSurb(r, request)
  \/ \E r \in Replies, plaintext \in Plaintexts : Answer(r, plaintext)
  \/ \E p \in packets : Compute(p)
  \/ \E p \in packets : Recall(p)
  \/ \E p \in packets : Lose(p)
  \/ \E p \in packets : ChangeHeader(p)
  \/ \E p \in packets : ChangePayload(p)
  \/ \E p \in packets : CutShort(p)

Spec == Init /\ [][Next]_vars

(***************************************************************************)
(* Whoever has a packet processes it.  Processing always has an outcome,   *)
(* so this is weak fairness of Compute and Recall, with their enabling     *)
(* condition and their effect on packets written out.                      *)
(***************************************************************************)
Handled ==
  /\ lost' = lost
  /\ \E p \in packets : \A q \in packets' : q.item # p.item \/ q.hop # p.hop

FairSpec == Spec /\ ([]<>(packets = {}) \/ []<><<Handled>>_vars)

===============================================================================
