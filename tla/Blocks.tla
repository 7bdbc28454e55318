-------------------------------- MODULE Blocks --------------------------------
(***************************************************************************)
(* The bytes of packets, as far as the packet formats compute with them.   *)
(* A block is a field of fixed size and is the exclusive or of atoms: what *)
(* the sender wrote, a piece of a key stream, a MAC, a hash.  It is        *)
(* modelled as the set of these atoms, so that XOR is symmetric difference *)
(* and the zero field is {}.  An atom is a tuple that starts with a tag    *)
(* and holds everything the value it stands for is computed from; two      *)
(* computed values are taken to be equal only if they are computed alike.  *)
(***************************************************************************)
EXTENDS Naturals, Sequences, FiniteSetsExt

(***************************************************************************)
(* The exclusive or of two sequences of blocks ends with the shorter one.  *)
(***************************************************************************)
Xor(s, t) == [i \in 1..(IF Len(s) <= Len(t) THEN Len(s) ELSE Len(t)) |-> SymDiff(s[i], t[i])]

Zeros(n) == [i \in 1..n |-> {}]

(***************************************************************************)
(* The first n blocks of the key stream that a secret seeds.               *)
(***************************************************************************)
KeyStream(secret, n) == [i \in 1..n |-> {<<"stream", secret, i>>}]

Drop(s, n) == SubSeq(s, n + 1, Len(s))

(***************************************************************************)
(* The MAC of a sequence of blocks under a key derived from a secret.      *)
(***************************************************************************)
Mac(secret, s) == {<<"mac", secret, s>>}

-------------------------------------------------------------------------------
(***************************************************************************)
(* The wide-block cipher (Lioness), which turns a payload as a whole: it   *)
(* is the text and the layers on it, the last applied being the last of    *)
(* the sequence.  Encryption and decryption undo each other under the same *)
(* key, whichever comes first.                                             *)
(***************************************************************************)
Payload(text) == [text |-> text, layers |-> <<>>]

Turn(d, layer, undone) ==
  IF d.layers # <<>> /\ d.layers[Len(d.layers)] = undone
  THEN [d EXCEPT !.layers = SubSeq(@, 1, Len(@) - 1)]
  ELSE [d EXCEPT !.layers = Append(@, layer)]

Encrypt(secret, d) == Turn(d, <<"enc", secret>>, <<"dec", secret>>)

Decrypt(secret, d) == Turn(d, <<"dec", secret>>, <<"enc", secret>>)

(***************************************************************************)
(* What a payload reads as: its text, or noise while there is a layer.     *)
(***************************************************************************)
Read(d) == IF d.layers = <<>> THEN d.text
           ELSE [i \in 1..Len(d.text) |-> {<<"noise", d, i>>}]

-------------------------------------------------------------------------------
(***************************************************************************)
(* A group element is the set of the scalars the generator is multiplied   *)
(* with; their order does not matter, which is what Diffie-Hellman needs.  *)
(***************************************************************************)
Generator == {}

Multiply(element, scalar) == element \cup {scalar}

===============================================================================
