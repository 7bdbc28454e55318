----------------------------- MODULE SphinxPayload -----------------------------
(***************************************************************************)
(* The Sphinx payload of sphinx-benchmarks/src/payload: zeros in front, by *)
(* which a wrongly decrypted payload is noticed, the message, a byte 1 and *)
(* as many zeros as fill it.  A byte is a block, the byte 0 the empty one. *)
(***************************************************************************)
EXTENDS Blocks

CONSTANTS LeadingZeros,  \* SECURITY_PARAMETER
          CipherBlock    \* lioness::DIGEST_RESULT_SIZE

ASSUME PayloadAssumption == LeadingZeros \in Nat /\ CipherBlock \in Nat

Byte(b) == IF b = 0 THEN {} ELSE {<<"byte", b>>}

Overhead == LeadingZeros + 1

(***************************************************************************)
(* Mutation: the marker is forgotten.                                      *)
(***************************************************************************)
ValidWithoutMarker(payload_size, length) ==
  /\ payload_size >= CipherBlock
  /\ length <= payload_size - LeadingZeros

Valid(payload_size, length) ==
  /\ payload_size >= Overhead
  /\ payload_size >= CipherBlock
  /\ length <= payload_size - Overhead

SetFinalPayload(message, payload_size) ==
  SubSeq(Zeros(LeadingZeros) \o message \o <<Byte(1)>> \o Zeros(payload_size), 1, payload_size)

AddEncryptionLayer(payload, key) == Encrypt(key, payload)

LayersAdded(payload, keys) ==
  LET p[i \in 1..(Len(keys) + 1)] ==
        IF i > Len(keys) THEN payload ELSE AddEncryptionLayer(p[i + 1], keys[i])
  IN  p

Encapsulate(message, keys, payload_size) ==
  LayersAdded(Payload(SetFinalPayload(message, payload_size)), keys)[1]

(***************************************************************************)
(* Payload::unwrap(): the cipher turns no text shorter than its block.     *)
(* Mutation: its error is ignored.                                         *)
(***************************************************************************)
UnwrapUnchecked(payload, key) == [error |-> "none", payload |-> Decrypt(key, payload)]

UnwrapPayload(payload, key) ==
  IF Len(payload.text) < CipherBlock THEN [error |-> "InvalidPayload"]
  ELSE [error |-> "none", payload |-> Decrypt(key, payload)]

PayloadFromBytes(bytes) ==
  IF Len(bytes.text) < Overhead THEN [error |-> "InvalidPayload"]
  ELSE [error |-> "none", payload |-> bytes]

(***************************************************************************)
(* The marker is the last 1 of a payload.  Mutation: the first.            *)
(***************************************************************************)
MarkerFirst(ones) == Min(ones)

Marker(ones) == Max(ones)

RecoverPlaintext(payload) ==
  LET bytes == Read(payload)
      rest  == Drop(bytes, LeadingZeros)
      ones  == {i \in DOMAIN rest : rest[i] = Byte(1)}
  IN  IF SubSeq(bytes, 1, LeadingZeros) # Zeros(LeadingZeros) \/ ones = {}
      THEN [error |-> "InvalidPayload", plaintext |-> <<>>]
      ELSE [error |-> "none", plaintext |-> SubSeq(rest, 1, Marker(ones) - 1)]

===============================================================================
