----------------------------- MODULE ScyllaChannel -----------------------------
(***************************************************************************)
(* What makes Scylla correct: the properties of ScyllaNetwork, and the     *)
(* channel that it implements.                                             *)
(***************************************************************************)
EXTENDS ScyllaNetwork

MessageOf(s, request) ==
  [destination |-> Destination(s), data |-> FlattenSeq(Content(s, request.sizes))]

AcceptedSet(s) == asked[s] # None /\ asked[s].error = "none" /\ asked[s].request.paths # <<>>

Errors == {"none", "InvalidPathCount", "InvalidFragmentSize", "DivergingPaths"}

(***************************************************************************)
(* Types.  What a node keeps of a set is sorted by index and every         *)
(* fragment fills its payload, which is what defrag() relies on.  An onion *)
(* does not tell by its size how long its path is, how far it has come, or *)
(* which fragment it carries: create_onions() accepts only fragments that  *)
(* fill their payload, wrap() pads, process() appends what it takes off,   *)
(* and the assertions on the lengths in both never fail.                   *)
(***************************************************************************)
TypeOK ==
  /\ \A s \in Sets : asked[s] = None \/
       (asked[s].request \in Requests /\ asked[s].error \in Errors)
  /\ \A r \in Replies : surbs[r] = None \/ (surbs[r].path \in ReplyPaths /\ surbs[r].used \in BOOLEAN)
  /\ \A p \in packets :
       /\ p.item \in Sets \cup Replies /\ p.at \in Nodes /\ p.hop \in 1..MaxPathLength
       /\ Len(p.onion.beta) = HeaderLength
       /\ Len(p.onion.delta.text) = (IF p.item \in Sets THEN PayloadSize ELSE TextSize)
  /\ \A n \in Nodes, s \in Sets : LET kept == fragments[n][s] IN
       /\ \A i \in DOMAIN kept : kept[i].index \in Indices /\ Len(kept[i].data) = PayloadSize
       /\ \A i, j \in DOMAIN kept : i < j => kept[i].index <= kept[j].index
  /\ lost \subseteq Sets \cup Replies

(***************************************************************************)
(* Wherever an onion has got to, process() there succeeds and finds what   *)
(* wrap() meant for that hop: the next node on its path, or at the end the *)
(* fragment's set and index, or the reply it answers.                      *)
(***************************************************************************)
PeelsAsWrapped ==
  \A p \in packets :
    LET outcome == Process(p.at, p.onion)
    IN  /\ p.at = p.route[p.hop]
        /\ IF p.hop < Len(p.route)
           THEN outcome.kind = "Relay" /\ outcome.next = Address(p.route[p.hop + 1])
           ELSE IF p.item \in Sets
           THEN outcome.kind = "Fragment" /\ outcome.reference = {FragmentReference(p.item, p.index)}
           ELSE outcome.kind = "Reply" /\ outcome.reference = {<<"reply", p.item>>}

(***************************************************************************)
(* A node that an onion was not made for rejects it by its MAC and learns  *)
(* neither a next hop nor a fragment from it.                              *)
(***************************************************************************)
OnlyForItsNode ==
  \A p \in packets : \A n \in Nodes \ {p.at} : Process(n, p.onion) = MacMismatch

(***************************************************************************)
(* A relay leaves no part of an onion as it was: the group element, every  *)
(* routing block in every position, the MAC and the payload all change, so *)
(* what enters and what leaves a node cannot be matched.  wrap() and       *)
(* process() would agree with each other without any of it.                *)
(***************************************************************************)
NothingRecognisable ==
  [][\A p \in packets, q \in packets' :
       (q.item = p.item /\ q.index = p.index /\ q.hop = p.hop + 1) =>
         /\ q.onion.alpha # p.onion.alpha
         /\ Range(q.onion.beta) \cap Range(p.onion.beta) = {}
         /\ q.onion.gamma # p.onion.gamma
         /\ Read(q.onion.delta) # Read(p.onion.delta)]_vars

(***************************************************************************)
(* The indexes that node n has fragments of, and whether some of them came *)
(* twice, which nobody checks for.                                         *)
(***************************************************************************)
Arrived(n, s) == {f.index : f \in Range(fragments[n][s])}

Complete(n, s) == AcceptedSet(s) /\ Arrived(n, s) = DOMAIN asked[s].request.paths

Repetitive(n, s) == Len(fragments[n][s]) > Cardinality(Arrived(n, s))

(***************************************************************************)
(* defrag() makes nothing but the whole message, and only out of a set     *)
(* that is complete at one node; whatever is missing and in whatever order *)
(* fragments arrive, also twice, it reports MissingFragments.  It does     *)
(* make the message of a complete set without a repetition.                *)
(***************************************************************************)
AllOrNothing ==
  \A s \in Sets :
    /\ messages[s] # None =>
         messages[s] = MessageOf(s, asked[s].request) /\ \E n \in Nodes : Complete(n, s)
    /\ (\E n \in Nodes : Complete(n, s) /\ ~Repetitive(n, s)) => messages[s] # None

(***************************************************************************)
(* No piece of the mask covers two blocks of a set: aont() and aont_inv()  *)
(* advance in the mask with every fragment.  Both going back to its start  *)
(* would go unnoticed by whoever transforms and inverts.                   *)
(***************************************************************************)
MaskUsedOnce ==
  \A n \in Nodes, s \in Sets :
    \A f, g \in Range(fragments[n][s]) : \A i \in DOMAIN f.data, j \in DOMAIN g.data :
      (f.index # g.index \/ i # j) =>
        {a \in f.data[i] : a[1] = "mask"} \cap {a \in g.data[j] : a[1] = "mask"} = {}

-------------------------------------------------------------------------------
Messages == {MessageOf(s, r) : s \in Sets, r \in Requests}
Texts == {[text |-> Text(r)] : r \in Replies}

SentMessage(i) == IF AcceptedSet(i) THEN MessageOf(i, asked[i].request) ELSE None
SentText(i) == IF surbs[i] # None /\ surbs[i].used THEN [text |-> Text(i)] ELSE None
ReceivedText(i) == IF texts[i] # None THEN [text |-> texts[i]] ELSE None

(***************************************************************************)
(* A fragment that comes twice before the set is complete spoils it.       *)
(***************************************************************************)
Spoiled(s) == messages[s] = None /\ \E n \in Nodes : Repetitive(n, s)

(***************************************************************************)
(* None is nothing that a call returns or that somebody receives.          *)
(***************************************************************************)
ASSUME NoneAssumption ==
  /\ \A request \in Requests, error \in Errors : None # [request |-> request, error |-> error]
  /\ \A r \in Replies, path \in ReplyPaths, used \in BOOLEAN : None # HandedOut(r, path, used)
  /\ \A r \in Replies : None # Text(r)
  /\ None \notin Messages \cup Texts

Channel == INSTANCE MessageChannel WITH
  Items    <- Sets \cup Replies,
  Contents <- Messages \cup Texts,
  Nothing  <- None,
  sent     <- [i \in Sets \cup Replies |-> IF i \in Sets THEN SentMessage(i) ELSE SentText(i)],
  received <- [i \in Sets \cup Replies |-> IF i \in Sets THEN messages[i] ELSE ReceivedText(i)],
  lost     <- lost \cup {s \in Sets : Spoiled(s)}

(***************************************************************************)
(* Every message and every reply is received whole and as it was sent, or  *)
(* part of it was lost, or came twice before the rest; one of them happens *)
(* once it was sent, and a message of which a part was lost is never made  *)
(* up from the rest.                                                       *)
(***************************************************************************)
ImplementsChannel == Channel!Spec /\ Channel!Settles

===============================================================================
