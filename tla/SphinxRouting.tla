----------------------------- MODULE SphinxRouting -----------------------------
(***************************************************************************)
(* The routing information of a Sphinx header, as header/routing and       *)
(* header/filler.rs build it from the last node to the first and as every  *)
(* node takes off its layer.  What a relay is told takes four blocks (flag *)
(* with version, address, delay, MAC), what the last node is told takes    *)
(* three (flag with version, destination, identifier); random padding      *)
(* makes up the difference.  A node's routing keys are the record that     *)
(* RoutingKeys::derive() returns.                                          *)
(***************************************************************************)
EXTENDS Blocks

CONSTANT MaxRoute  \* MAX_PATH_LENGTH

ASSUME MaxRouteAssumption == MaxRoute \in Nat \ {0}

StepBlocks == 4    \* NODE_META_INFO_SIZE + HEADER_INTEGRITY_MAC_SIZE
FinalBlocks == 3   \* FINAL_NODE_META_INFO_LENGTH

InfoLength == StepBlocks * MaxRoute          \* ENCRYPTED_ROUTING_INFO_SIZE
StreamLength == StepBlocks * (MaxRoute + 1)  \* STREAM_CIPHER_OUTPUT_LENGTH

Flag(f) == {<<"flag", f>>}
Address(n) == {<<"address", n>>}
Delay(d) == {<<"delay", d>>}

(***************************************************************************)
(* generate_pseudorandom_bytes(), always of the full length, and the MAC.  *)
(***************************************************************************)
Pseudorandom(keys) == KeyStream(keys.stream_cipher_key, StreamLength)

ComputeMac(keys, info) == Mac(keys.header_integrity_hmac_key, info)

EncapsulateWithMac(info, keys) == [integrity_mac |-> ComputeMac(keys, info), info |-> info]

(***************************************************************************)
(* Mutation: the MAC is not looked at.                                     *)
(***************************************************************************)
VerifiesAlways(routing_info, keys) == TRUE

Verifies(routing_info, keys) == routing_info.integrity_mac = ComputeMac(keys, routing_info.info)

-------------------------------------------------------------------------------
(***************************************************************************)
(* Every step extends the filler and encrypts all of it with the end of    *)
(* the key stream.  Mutation: with what follows the header.                *)
(***************************************************************************)
FillerTail(stream, i) == SubSeq(stream, InfoLength + 1, StreamLength)

FillerStream(stream, i) == Drop(stream, StreamLength - i * StepBlocks)

Fillers(routing_keys) ==
  LET f[i \in 0..Len(routing_keys)] ==
        IF i = 0 THEN <<>>
        ELSE Xor(f[i - 1] \o Zeros(StepBlocks), FillerStream(Pseudorandom(routing_keys[i]), i))
  IN  f

Filler(routing_keys) == Fillers(routing_keys)[Len(routing_keys)]

-------------------------------------------------------------------------------
(***************************************************************************)
(* For the last node of a route of n nodes: its information padded to the  *)
(* length that the filler leaves, encrypted, and followed by the filler,   *)
(* which only then gets under the MAC.  The seed stands for the random     *)
(* bytes.  Mutation: the padding takes the information of the last node    *)
(* for that of a relay.                                                    *)
(***************************************************************************)
FinalRoutingInformation(destination) ==
  <<Flag("final"), {destination.address}, {destination.identifier}>>

PaddingUnadjusted(seed, n) ==
  [j \in 1..(InfoLength - StepBlocks * n) |-> {<<"padding", seed, j>>}]

Padding(seed, n) ==
  [j \in 1..(InfoLength - StepBlocks * (n - 1) - FinalBlocks) |-> {<<"padding", seed, j>>}]

EncryptFinal(padded, keys) == Xor(padded, SubSeq(Pseudorandom(keys), 1, Len(padded)))

ForFinalHop(seed, destination, keys, filler, n) ==
  EncapsulateWithMac(
    EncryptFinal(FinalRoutingInformation(destination) \o Padding(seed, n), keys) \o filler, keys)

(***************************************************************************)
(* For a relay: the address of the next node, its own delay, and what the  *)
(* next node gets with its MAC, cut to make room.                          *)
(***************************************************************************)
Truncate(info) == SubSeq(info, 1, InfoLength - StepBlocks)

RoutingInformation(address, delay, next) ==
  <<Flag("forward"), Address(address), Delay(delay), next.integrity_mac>> \o Truncate(next.info)

EncryptForward(info, keys) == Xor(info, SubSeq(Pseudorandom(keys), 1, InfoLength))

(***************************************************************************)
(* The route is folded from the inside: the i-th node gets the address of  *)
(* the next node with the keys and the delay of its own.  Mutation: with   *)
(* the delay of the next.                                                  *)
(***************************************************************************)
DelayOfNext(delays, i) == delays[i + 1]

DelayOf(delays, i) == delays[i]

ForForwardHop(address, delay, next, keys) ==
  EncapsulateWithMac(EncryptForward(RoutingInformation(address, delay, next), keys), keys)

Encapsulated(final, delays, route, routing_keys) ==
  LET n == Len(route)
      encapsulated[i \in 1..n] ==
        IF i = n THEN final
        ELSE ForForwardHop(route[i + 1], DelayOf(delays, i), encapsulated[i + 1], routing_keys[i])
  IN  encapsulated

ForForwardHops(final, delays, route, routing_keys) == Encapsulated(final, delays, route, routing_keys)[1]

NewRouting(seed, route, destination, delays, routing_keys, filler) ==
  LET n == Len(route)
  IN  ForForwardHops(ForFinalHop(seed, destination, routing_keys[n], filler, n),
                     delays, route, routing_keys)

(***************************************************************************)
(* The assertions and length computations on the way.  An empty route has  *)
(* no filler, the padding of one that is too long a negative length.       *)
(***************************************************************************)
Panics(route, delays) ==
  \/ route = <<>>
  \/ Len(route) > MaxRoute
  \/ Len(delays) # Len(route)

-------------------------------------------------------------------------------
(***************************************************************************)
(* What a node reads.  It appends zeros before it decrypts, so that what   *)
(* it passes on has the size of what it got.  Mutation: after decrypting.  *)
(***************************************************************************)
AddZeroPadding(info) == info \o Zeros(StepBlocks)

DecryptPadded(padded, keys) == Xor(padded, Pseudorandom(keys))

RawThenPadded(info, keys) == AddZeroPadding(DecryptPadded(info, keys))

Raw(info, keys) == DecryptPadded(AddZeroPadding(info), keys)

ParseAsForwardHop(raw) ==
  [kind |-> "ForwardHop", address |-> raw[2], delay |-> raw[3],
   next |-> [integrity_mac |-> raw[4], info |-> SubSeq(raw, StepBlocks + 1, StepBlocks + InfoLength)]]

ParseAsFinalHop(raw) == [kind |-> "FinalHop", address |-> raw[2], identifier |-> raw[3]]

Parse(raw) ==
  CASE raw[1] = Flag("forward") -> ParseAsForwardHop(raw)
    [] raw[1] = Flag("final")   -> ParseAsFinalHop(raw)
    [] OTHER                    -> [kind |-> "unknown routing flag"]

Unwrap(info, keys) == Parse(Raw(info, keys))

-------------------------------------------------------------------------------
RoutingToBytes(routing_info) == <<routing_info.integrity_mac>> \o routing_info.info

RoutingFromBytes(bytes) ==
  IF Len(bytes) # 1 + InfoLength THEN [error |-> "InvalidRouting"]
  ELSE [error |-> "none", routing_info |-> [integrity_mac |-> bytes[1], info |-> Drop(bytes, 1)]]

===============================================================================
