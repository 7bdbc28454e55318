--------------------------------- MODULE Aont ---------------------------------
(***************************************************************************)
(* The all-or-nothing transform of scylla/src/lib.rs, which makes the      *)
(* fragments of a message unreadable unless all of them are there: a       *)
(* random value r seeds the mask of all fragments and travels masked with  *)
(* the hash of what they became, in front of the first.  A fragment is a   *)
(* sequence of blocks.                                                     *)
(***************************************************************************)
EXTENDS Blocks, SequencesExt

Mask(r, n) == [i \in 1..n |-> {<<"mask", r, i>>}]

(***************************************************************************)
(* How much of the mask the fragments before the k-th have used.           *)
(* Mutation: every fragment starts with the beginning of the mask.         *)
(***************************************************************************)
UsedNothing(fragments, k) == 0

Used(fragments, k) == Len(FlattenSeq(SubSeq(fragments, 1, k - 1)))

Masked(r, fragments) ==
  LET mask == Mask(r, Len(FlattenSeq(fragments)))
  IN  [k \in DOMAIN fragments |-> Xor(fragments[k], Drop(mask, Used(fragments, k)))]

(***************************************************************************)
(* What masks r.  Mutation: the hash stops after the first fragment.       *)
(***************************************************************************)
RMaskOfFirst(fragments) == {<<"hash", fragments[1]>>}

RMask(fragments) == {<<"hash", FlattenSeq(fragments)>>}

Transform(r, fragments) ==
  LET masked == Masked(r, fragments)
  IN  [masked EXCEPT ![1] = <<SymDiff(r, RMask(masked))>> \o @]

Inverted(fragments) ==
  LET t    == Head(fragments[1])
      rest == [fragments EXCEPT ![1] = Tail(@)]
  IN  Masked(SymDiff(t, RMask(rest)), rest)

===============================================================================
