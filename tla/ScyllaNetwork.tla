----------------------------- MODULE ScyllaNetwork -----------------------------
(***************************************************************************)
(* Scylla at work, as its tests drive it: senders fragment messages and    *)
(* send the onions off, nodes process what reaches them in any order, the  *)
(* recipient tries the fragments of a set every time another one arrives,  *)
(* and reply blocks are handed out, used once, and read when they return.  *)
(***************************************************************************)
EXTENDS ScyllaMessage, FiniteSets

CONSTANTS Nodes,
          Sets,        \* calls of create_onions(), by the set id each draws
          Replies,     \* calls of create_surb(), by the reply id each is given
          Requests,    \* arguments of create_onions(): paths and fragment sizes
          ReplyPaths,  \* arguments of create_surb()
          TextSize,    \* of a reply, in blocks
          Repeated,    \* sets whose onions the network may deliver twice
          None

Paths == BoundedSeq(Nodes, MaxPathLength) \ {<<>>}

ASSUME RequestAssumption ==
  /\ ReplyPaths \subseteq Paths
  /\ \A r \in Requests : r.paths \in Seq(Paths) /\ r.sizes \in Seq(Nat)
  /\ TextSize \in Nat

ASSUME ItemAssumption == Sets \cap Replies = {}

VARIABLES asked,      \* what every call of create_onions() was given and returned
          surbs,      \* reply blocks, and the secrets their makers keep
          packets,    \* onions under way
          fragments,  \* what the nodes keep of incomplete and complete sets
          messages,   \* what defrag() last made of every set
          texts,      \* what was read from every reply
          lost        \* sets and replies some onion of which was lost

vars == <<asked, surbs, packets, fragments, messages, texts, lost>>

Indices == UNION {DOMAIN r.paths : r \in Requests}

Destination(set) == {<<"destination", set>>}

Content(set, sizes) ==
  [k \in DOMAIN sizes |-> [j \in 1..sizes[k] |-> {<<"content", set, k, j>>}]]

Text(reply) == [j \in 1..TextSize |-> {<<"text", reply, j>>}]

Init ==
  /\ asked = [s \in Sets |-> None]
  /\ surbs = [r \in Replies |-> None]
  /\ packets = {}
  /\ fragments = [n \in Nodes |-> [s \in Sets |-> <<>>]]
  /\ messages = [s \in Sets |-> None]
  /\ texts = [r \in Replies |-> None]
  /\ lost = {}

(***************************************************************************)
(* An onion at node "at", which is the hop-th of its route.                *)
(***************************************************************************)
Under(item, k, route, hop, at, onion) ==
  [item |-> item, index |-> k, route |-> route, hop |-> hop, at |-> at, onion |-> onion]

Send(s, request) ==
  LET made == CreateOnions(s, request.paths, Destination(s), Content(s, request.sizes))
  IN  /\ asked[s] = None
      /\ asked' = [asked EXCEPT ![s] = [request |-> request, error |-> made.error]]
      /\ packets' = packets \cup
           {Under(s, k, request.paths[k], 1, request.paths[k][1], made.onions[k]) : k \in DOMAIN made.onions}
      /\ UNCHANGED <<surbs, fragments, messages, texts, lost>>

HandedOut(r, path, used) ==
  LET made == CreateSurb(r, path)
  IN  [path |-> path, secrets |-> made.secrets, onion |-> made.onion, used |-> used]

HandOut(r, path) ==
  /\ surbs[r] = None
  /\ surbs' = [surbs EXCEPT ![r] = HandedOut(r, path, FALSE)]
  /\ UNCHANGED <<asked, packets, fragments, messages, texts, lost>>

Answer(r) ==
  /\ surbs[r] # None
  /\ ~surbs[r].used
  /\ surbs' = [surbs EXCEPT ![r].used = TRUE]
  /\ packets' = packets \cup
       {Under(r, 1, surbs[r].path, 1, surbs[r].path[1], UseSurb(surbs[r].onion, Text(r)))}
  /\ UNCHANGED <<asked, fragments, messages, texts, lost>>

-------------------------------------------------------------------------------
(***************************************************************************)
(* The three outcomes of process() at the node where an onion is.          *)
(***************************************************************************)
Forward(p) ==
  LET outcome == Process(p.at, p.onion)
  IN  /\ outcome.kind = "Relay"
      /\ \E n \in Nodes :
           /\ outcome.next = Address(n)
           /\ packets' = (packets \ {p}) \cup
                {[p EXCEPT !.at = n, !.hop = @ + 1, !.onion = outcome.onion]}
      /\ UNCHANGED <<asked, surbs, fragments, messages, texts, lost>>

(***************************************************************************)
(* Sorting by the index leaves fragments with the same index in the order  *)
(* they came in: each goes behind all those that are to come before it.    *)
(***************************************************************************)
Rank(s, j) ==
  Cardinality({i \in DOMAIN s : \/ s[i].index < s[j].index
                                \/ s[i].index = s[j].index /\ i <= j})

Sorted(s) == [k \in DOMAIN s |-> s[CHOOSE j \in DOMAIN s : Rank(s, j) = k]]

(***************************************************************************)
(* A new fragment goes behind the others of its set, which are then sorted *)
(* by their index.  Mutation: they are not.                                *)
(***************************************************************************)
KeepUnsorted(kept, k, data) == Append(kept, [index |-> k, data |-> data])

Keep(kept, k, data) == Sorted(Append(kept, [index |-> k, data |-> data]))

(***************************************************************************)
(* Nobody remembers which onions were there before.  One that the network  *)
(* delivers twice, which makes a difference only to the recipient, is      *)
(* still under way after the first time.                                   *)
(***************************************************************************)
Kept(p) == p.item \in Sets /\ \E f \in Range(fragments[p.at][p.item]) : f.index = p.index

Collect(p) ==
  LET outcome == Process(p.at, p.onion)
  IN  /\ outcome.kind = "Fragment"
      /\ \E s \in Sets, k \in Indices :
           LET kept   == Keep(fragments[p.at][s], k, Read(outcome.data))
               result == Defrag([i \in DOMAIN kept |-> kept[i].data])
           IN  /\ outcome.reference = {FragmentReference(s, k)}
               /\ fragments' = [fragments EXCEPT ![p.at][s] = kept]
               /\ messages' = IF result.error = "none"
                              THEN [messages EXCEPT ![s] = [destination |-> result.destination,
                                                            data |-> result.data]]
                              ELSE messages
      /\ \/ packets' = packets \ {p}
         \/ p.item \in Repeated /\ ~Kept(p) /\ UNCHANGED packets
      /\ UNCHANGED <<asked, surbs, texts, lost>>

ReadReply(p) ==
  LET outcome == Process(p.at, p.onion)
  IN  /\ outcome.kind = "Reply"
      /\ \E r \in Replies :
           /\ outcome.reference = {<<"reply", r>>}
           /\ texts' = [texts EXCEPT ![r] = Read(UnwrapReply(surbs[r].secrets, outcome.data))]
      /\ packets' = packets \ {p}
      /\ UNCHANGED <<asked, surbs, fragments, messages, lost>>

(***************************************************************************)
(* The network, which is not part of the code, may lose an onion, but what *)
(* it has delivered once is not lost.                                      *)
(***************************************************************************)
Lose(p) ==
  /\ packets' = packets \ {p}
  /\ lost' = IF Kept(p) THEN lost ELSE lost \cup {p.item}
  /\ UNCHANGED <<asked, surbs, fragments, messages, texts>>

Handle(p) == Forward(p) \/ Collect(p) \/ ReadReply(p)

Next ==
  \/ \E s \in Sets, request \in Requests : Send(s, request)
  \/ \E r \in Replies, path \in ReplyPaths : HandOut(r, path)
  \/ \E r \in Replies : Answer(r)
  \/ \E p \in packets : Handle(p)
  \/ \E p \in packets : Lose(p)

Spec == Init /\ [][Next]_vars

(***************************************************************************)
(* Whoever has an onion processes it: the loop of the tests runs until     *)
(* none is left.  This is weak fairness of Handle, with its enabling       *)
(* condition and its effect written out, which TLC evaluates faster.       *)
(***************************************************************************)
Ready == \E p \in packets : Process(p.at, p.onion).kind \in {"Relay", "Fragment", "Reply"}

Handled == lost' = lost /\ (~(packets \subseteq packets') \/ fragments' # fragments)

FairSpec == Spec /\ ([]<>~Ready \/ []<><<Handled>>_vars)

===============================================================================
