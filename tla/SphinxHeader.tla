------------------------------ MODULE SphinxHeader ------------------------------
(***************************************************************************)
(* The Sphinx header of sphinx-benchmarks/src/header: a shared secret, of  *)
(* which sender and node compute the same routing keys in different ways,  *)
(* and the routing information that these keys encrypt.                    *)
(***************************************************************************)
EXTENDS SphinxRouting

(***************************************************************************)
(* A private key is the set of the scalars it is the product of, a public  *)
(* key the group element that the generator becomes with them.             *)
(***************************************************************************)
DiffieHellman(private, public) == public \cup private

NodeKey(n) == {<<"key", n>>}

PublicKey(private) == DiffieHellman(private, Generator)

(***************************************************************************)
(* RoutingKeys::derive() cuts its output into four keys.                   *)
(***************************************************************************)
Derive(shared_key) ==
  [stream_cipher_key         |-> <<"cipher key", shared_key>>,
   header_integrity_hmac_key |-> <<"hmac key", shared_key>>,
   payload_key               |-> <<"payload key", shared_key>>,
   blinding_factor           |-> {<<"blinding", shared_key>>}]

ComputeRoutingKeys(shared_secret, n) == Derive(DiffieHellman(NodeKey(n), shared_secret))

(***************************************************************************)
(* Mutation: a secret is passed on as it came.                             *)
(***************************************************************************)
BlindNot(shared_secret, blinding_factor) == shared_secret

Blind(shared_secret, blinding_factor) == DiffieHellman(blinding_factor, shared_secret)

(***************************************************************************)
(* KeyMaterial::derive(), whose accumulator is a private key that is       *)
(* multiplied with a blinding factor after every node.  Mutation: it is    *)
(* not multiplied.                                                         *)
(***************************************************************************)
Secret(secret) == {<<"secret", secret>>}

AccumulatedNot(accumulator, keys) == accumulator

Accumulated(accumulator, keys) == accumulator \cup keys.blinding_factor

KeysOf(accumulator, n) == Derive(DiffieHellman(accumulator, PublicKey(NodeKey(n))))

Accumulators(route, initial_secret) ==
  LET accumulator[i \in 1..Len(route)] ==
        IF i = 1 THEN initial_secret
        ELSE Accumulated(accumulator[i - 1], KeysOf(accumulator[i - 1], route[i - 1]))
  IN  accumulator

KeyMaterial(route, initial_secret) ==
  [i \in 1..Len(route) |-> KeysOf(Accumulators(route, initial_secret)[i], route[i])]

NewHeader(seed, secret, route, delays, destination) ==
  LET routing_keys == KeyMaterial(route, Secret(secret))
      filler       == Filler(SubSeq(routing_keys, 1, Len(route) - 1))
  IN  [header       |-> [shared_secret |-> PublicKey(Secret(secret)),
                         routing_info  |-> NewRouting(seed, route, destination, delays,
                                                      routing_keys, filler)],
       payload_keys |-> [i \in 1..Len(route) |-> routing_keys[i].payload_key]]

-------------------------------------------------------------------------------
Rejected(error) == [kind |-> "error", error |-> error]

NoSecret == [blinded |-> {}, known |-> FALSE]
Known(shared_secret) == [blinded |-> shared_secret, known |-> TRUE]

ForwardHop(shared_secret, parsed, keys) ==
  [kind |-> "ForwardHop", address |-> parsed.address, delay |-> parsed.delay,
   header |-> [shared_secret |-> shared_secret, routing_info |-> parsed.next],
   payload_key |-> keys.payload_key]

FinalHop(parsed, keys) ==
  [kind |-> "FinalHop", address |-> parsed.address, identifier |-> parsed.identifier,
   payload_key |-> keys.payload_key]

(***************************************************************************)
(* process_with_derived_keys(): with routing keys and, unless the node is  *)
(* the last, a blinded secret that were computed before.  It panics where  *)
(* process() returns the error of Parse.                                   *)
(***************************************************************************)
ProcessWith(header, keys, secret) ==
  LET parsed == Unwrap(header.routing_info.info, keys)
  IN  IF ~Verifies(header.routing_info, keys) THEN Rejected("integrity MAC")
      ELSE CASE parsed.kind = "FinalHop" -> FinalHop(parsed, keys)
             [] parsed.kind = "ForwardHop" ->
                  IF secret.known THEN ForwardHop(secret.blinded, parsed, keys)
                  ELSE Rejected("without blinded secret")
             [] parsed.kind = "unknown routing flag" -> Rejected("panic")

Process(n, header) ==
  LET keys   == ComputeRoutingKeys(header.shared_secret, n)
      parsed == Unwrap(header.routing_info.info, keys)
  IN  IF ~Verifies(header.routing_info, keys) THEN Rejected("integrity MAC")
      ELSE CASE parsed.kind = "FinalHop" -> FinalHop(parsed, keys)
             [] parsed.kind = "ForwardHop" ->
                  ForwardHop(Blind(header.shared_secret, keys.blinding_factor), parsed, keys)
             [] parsed.kind = "unknown routing flag" -> Rejected(parsed.kind)

-------------------------------------------------------------------------------
(***************************************************************************)
(* The bytes of a header: the secret, the MAC and the routing information. *)
(***************************************************************************)
HeaderLength == 2 + InfoLength

HeaderToBytes(header) == <<header.shared_secret>> \o RoutingToBytes(header.routing_info)

HeaderFromBytes(bytes) ==
  LET routing == RoutingFromBytes(Drop(bytes, 1))
  IN  IF Len(bytes) # HeaderLength THEN [error |-> "InvalidHeader"]
      ELSE IF routing.error # "none" THEN routing
      ELSE [error  |-> "none",
            header |-> [shared_secret |-> bytes[1], routing_info |-> routing.routing_info]]

===============================================================================
