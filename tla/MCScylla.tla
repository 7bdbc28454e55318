------------------------------- MODULE MCScylla -------------------------------
(***************************************************************************)
(* Instances of Scylla for TLC, on three nodes and paths of at most three  *)
(* hops.  The requests that create_onions() accepts have paths of          *)
(* different lengths, one of which visits a node twice, a single hop, and  *)
(* no fragment at all; of the others each has one thing wrong.  Three and  *)
(* four fragments are sent alone, for the orders in which they can arrive. *)
(***************************************************************************)
EXTENDS ScyllaChannel

CONSTANTS A, B, C

TwoFragments == [paths |-> <<<<A, B, A>>, <<B, A>>>>, sizes |-> <<1, 4>>]
SingleHop == [paths |-> <<<<C>>>>, sizes |-> <<1>>]
NoFragment == [paths |-> <<>>, sizes |-> <<>>]

MissingPath == [TwoFragments EXCEPT !.paths = <<<<A, B, A>>>>]
ShortFragment == [TwoFragments EXCEPT !.sizes = <<1, 3>>]
Diverging == [TwoFragments EXCEPT !.paths = <<<<A, B, C>>, <<B, A>>>>]

AllRequests == {TwoFragments, SingleHop, NoFragment, MissingPath, ShortFragment, Diverging}
ThreeFragments == [paths |-> <<<<A, B, A>>, <<B, A>>, <<C, B, A>>>>, sizes |-> <<1, 4, 4>>]
FourFragments == [paths |-> <<<<A>>, <<B, A>>, <<A>>, <<C, A>>>>, sizes |-> <<1, 4, 4, 4>>]
LongRequests == {ThreeFragments, FourFragments}

AllReplyPaths == {<<A, B, C>>, <<B>>}

===============================================================================
