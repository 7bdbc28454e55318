-------------------------------- MODULE MCSphinx --------------------------------
(***************************************************************************)
(* An instance of Sphinx for TLC, on three nodes and routes of at most     *)
(* three hops.  Packets made from the reused secret all start at node A,   *)
(* where one ends, so that A remembers keys with and without a secret to   *)
(* pass on.  Plaintexts are empty, end with the byte that marks the end,   *)
(* consist of zeros, or are one byte too long.  Requests that make the     *)
(* program panic are there too: an empty route, one too long, and delays   *)
(* that do not match.                                                      *)
(***************************************************************************)
EXTENDS SphinxChannel

CONSTANTS A, B, C

Request(route, plaintext, shared) ==
  [route |-> route, delays |-> [i \in 1..Len(route) |-> 10 * i], plaintext |-> plaintext,
   shared |-> shared]

Ones == <<Byte(1), Byte(1)>>
TooLong == <<Byte(2), Byte(0), Byte(1)>>

AllRequests ==
  {Request(<<A, B, A>>, Ones, TRUE), Request(<<A, C>>, <<>>, TRUE), Request(<<A>>, Ones, TRUE),
   Request(<<B, C>>, <<Byte(0), Byte(0)>>, FALSE), Request(<<C>>, TooLong, FALSE),
   Request(<<>>, Ones, FALSE), Request(<<A, B, C, A>>, Ones, FALSE),
   [Request(<<B, C>>, Ones, FALSE) EXCEPT !.delays = <<10>>]}

AllSurbRequests ==
  {[route |-> <<A, B, C>>, delays |-> <<10, 20, 30>>], [route |-> <<B>>, delays |-> <<>>],
   [route |-> <<>>, delays |-> <<>>], [route |-> <<A, B, C, A>>, delays |-> <<10, 20, 30, 40>>]}

ReplyPlaintexts == {Ones, TooLong}

(***************************************************************************)
(* Where packets are damaged, all of them share a secret.                  *)
(***************************************************************************)
SharedRequests ==
  {Request(<<A, B, A>>, Ones, TRUE), Request(<<A, C>>, <<>>, TRUE), Request(<<A>>, Ones, TRUE)}

===============================================================================
