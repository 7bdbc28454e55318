----------------------------- MODULE ScyllaMessage -----------------------------
(***************************************************************************)
(* What a sender makes of a message with create_onions() and               *)
(* create_surb(), and what a recipient makes of it again with defrag() and *)
(* unwrap_reply().  Seeds stand for the random draws: no two calls share   *)
(* one.                                                                    *)
(***************************************************************************)
EXTENDS ScyllaOnion, Aont

(***************************************************************************)
(* The first fragment leaves room for the masked r, the zeros that tell    *)
(* that the set is complete, and the destination.                          *)
(***************************************************************************)
Overhead == 3

Refused(error) == [error |-> error, onions |-> <<>>]
Accepted(onions) == [error |-> "none", onions |-> onions]

(***************************************************************************)
(* All fragments fill their payloads, and all paths end at the same node.  *)
(* Mutations: only the first fragment is measured; any paths will do.      *)
(***************************************************************************)
FragmentsFitFirst(fragments) == Len(fragments[1]) + Overhead = PayloadSize

FragmentsFit(fragments) ==
  /\ Len(fragments[1]) + Overhead = PayloadSize
  /\ \A k \in 2..Len(fragments) : Len(fragments[k]) = PayloadSize

ConvergeAlways(paths) == TRUE

Converge(paths) == \A k \in 2..Len(paths) : Last(paths[k]) = Last(paths[1])

FragmentReference(set, k) == <<"fragment", set, k>>

CreateOnions(set, paths, destination, fragments) ==
  LET first       == <<{}, destination>> \o fragments[1]
      transformed == Transform({<<"r", set>>}, [fragments EXCEPT ![1] = first])
  IN  IF Len(fragments) # Len(paths) THEN Refused("InvalidPathCount")
      ELSE IF fragments = <<>> THEN Accepted(<<>>)
      ELSE IF ~FragmentsFit(fragments) THEN Refused("InvalidFragmentSize")
      ELSE IF ~Converge(paths) THEN Refused("DivergingPaths")
      ELSE Accepted([k \in DOMAIN paths |->
             Wrap(<<set, k>>, paths[k], FinalInfo("Fragment", FragmentReference(set, k)),
                  Payload(transformed[k])).onion])

(***************************************************************************)
(* The fragments of a set, in order, made into destination and data.       *)
(***************************************************************************)
MissingFragments == [error |-> "MissingFragments"]

Defrag(fragments) ==
  LET data == FlattenSeq(Inverted(fragments))
  IN  IF data = <<>> \/ data[1] # {} THEN MissingFragments
      ELSE [error |-> "none", destination |-> data[2], data |-> Drop(data, 2)]

-------------------------------------------------------------------------------
(***************************************************************************)
(* A reply block is an onion without a payload, to which the replier       *)
(* appends one; every relay then takes away a layer that was never put on, *)
(* and the initiator puts them back.  Mutation: in the order of the path.  *)
(***************************************************************************)
CreateSurb(reply, path) == Wrap(reply, path, FinalInfo("Deliver", <<"reply", reply>>), Payload(<<>>))

UseSurb(surb, text) == [surb EXCEPT !.delta = Payload(text)]

UnwrapReplyForward(secrets, d) ==
  LET p[i \in 0..Len(secrets)] == IF i = 0 THEN d ELSE Pi(secrets[i], p[i - 1])
  IN  p[Len(secrets)]

UnwrapReply(secrets, d) == Layered(secrets, d)

===============================================================================
