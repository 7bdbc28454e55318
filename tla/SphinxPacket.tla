------------------------------ MODULE SphinxPacket ------------------------------
(***************************************************************************)
(* Sphinx packets and single-use reply blocks: a header and a payload,     *)
(* processed together, and the bytes in which they travel.                 *)
(***************************************************************************)
EXTENDS SphinxHeader, SphinxPayload

Failure(error) == [error |-> error]

(***************************************************************************)
(* build_packet(): the header is made, or panics, before the message is    *)
(* measured.                                                               *)
(***************************************************************************)
BuildPacket(seed, secret, message, payload_size, route, destination, delays) ==
  LET made == NewHeader(seed, secret, route, delays, destination)
  IN  IF Panics(route, delays) THEN Failure("panic")
      ELSE IF ~Valid(payload_size, Len(message)) THEN Failure("InvalidPayload")
      ELSE [error   |-> "none",
            packet  |-> [header  |-> made.header,
                         payload |-> Encapsulate(message, made.payload_keys, payload_size)]]

NewSurb(seed, secret, route, delays, destination) ==
  LET made == NewHeader(seed, secret, route, delays, destination)
  IN  IF route = <<>> \/ Len(route) # Len(delays) THEN Failure("InvalidSURB")
      ELSE IF Panics(route, delays) THEN Failure("panic")
      ELSE [error |-> "none",
            surb  |-> [header |-> made.header, first_hop |-> Address(route[1]),
                       payload_keys |-> made.payload_keys]]

UseSurb(surb, message, payload_size) ==
  IF ~Valid(payload_size, Len(message)) THEN Failure("InvalidPayload")
  ELSE [error   |-> "none",
        packet  |-> [header  |-> surb.header,
                     payload |-> Encapsulate(message, surb.payload_keys, payload_size)],
        address |-> surb.first_hop]

(***************************************************************************)
(* Packets and reply blocks as sequences of blocks, and back.  The payload *)
(* of a packet stays apart, being turned as a whole.                       *)
(***************************************************************************)
PacketToBytes(packet) == [header |-> HeaderToBytes(packet.header), payload |-> packet.payload]

PacketFromBytes(bytes) ==
  LET header  == HeaderFromBytes(bytes.header)
      payload == PayloadFromBytes(bytes.payload)
  IN  IF Len(bytes.header) + Len(bytes.payload.text) < HeaderLength + Overhead
      THEN Failure("InvalidPacket")
      ELSE IF header.error # "none" THEN header
      ELSE IF payload.error # "none" THEN payload
      ELSE [error  |-> "none", packet |-> [header |-> header.header, payload |-> payload.payload]]

SurbToBytes(surb) == HeaderToBytes(surb.header) \o <<surb.first_hop>> \o surb.payload_keys

(***************************************************************************)
(* Mutation: the first payload key is taken for part of the header.        *)
(***************************************************************************)
KeysOfSurbLate(bytes) == Drop(bytes, HeaderLength + 2)

KeysOfSurb(bytes) == Drop(bytes, HeaderLength + 1)

(***************************************************************************)
(* A payload key is one block, so that no bytes are a part of a key only.  *)
(***************************************************************************)
SurbFromBytes(bytes) ==
  LET header == HeaderFromBytes(SubSeq(bytes, 1, HeaderLength))
  IN  IF Len(bytes) < HeaderLength + 2 THEN Failure("InvalidSURB")
      ELSE IF header.error # "none" THEN header
      ELSE [error |-> "none",
            surb  |-> [header       |-> header.header,
                       first_hop    |-> bytes[HeaderLength + 1],
                       payload_keys |-> KeysOfSurb(bytes)]]

(***************************************************************************)
(* One layer of the payload comes off with one of the header.              *)
(***************************************************************************)
Processed(header_outcome, payload) ==
  LET unwrapped == UnwrapPayload(payload, header_outcome.payload_key)
  IN  CASE header_outcome.kind = "error" -> header_outcome
        [] header_outcome.kind # "error" /\ unwrapped.error # "none" -> Rejected(unwrapped.error)
        [] header_outcome.kind = "ForwardHop" /\ unwrapped.error = "none" ->
             [kind |-> "ForwardHop", address |-> header_outcome.address, delay |-> header_outcome.delay,
              packet |-> [header |-> header_outcome.header, payload |-> unwrapped.payload]]
        [] header_outcome.kind = "FinalHop" /\ unwrapped.error = "none" ->
             [kind |-> "FinalHop", address |-> header_outcome.address,
              identifier |-> header_outcome.identifier, payload |-> unwrapped.payload]

ProcessPacket(n, packet) == Processed(Process(n, packet.header), packet.payload)

ProcessPacketWith(packet, keys, secret) ==
  Processed(ProcessWith(packet.header, keys, secret), packet.payload)

===============================================================================
