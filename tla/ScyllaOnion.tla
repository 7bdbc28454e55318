------------------------------ MODULE ScyllaOnion ------------------------------
(***************************************************************************)
(* The Scylla packet format of scylla/src/lib.rs.  An onion is its four    *)
(* parts alpha (a group element), beta (the routing blocks), gamma (the    *)
(* MAC of beta) and delta (the payload).  Relay information takes three    *)
(* blocks (flag, address, MAC) and the information of the last hop two     *)
(* (flag, reference): the two differ in size, as they do in the code, so   *)
(* that the last layer is not aligned with the others.                     *)
(***************************************************************************)
EXTENDS Blocks

CONSTANTS MaxPathLength,  \* Scylla::max_path_length
          PayloadSize     \* Scylla::payload_size, in blocks

ASSUME SizeAssumption == MaxPathLength \in Nat \ {0} /\ PayloadSize \in Nat

HopBlocks == 3
FinalBlocks == 2

HeaderLength == HopBlocks * (MaxPathLength - 1) + FinalBlocks

Flag(f) == {<<"flag", f>>}
Address(n) == {<<"address", n>>}
FinalInfo(flag, reference) == <<Flag(flag), {reference}>>

PrivateKey(n) == <<"key", n>>

-------------------------------------------------------------------------------
(***************************************************************************)
(* The secret that node n shares with whoever made alpha, and the alpha    *)
(* that n passes on.  Mutation: it passes on the one it received.          *)
(***************************************************************************)
SharedSecret(alpha, n) == Multiply(alpha, PrivateKey(n))

BlindedNot(alpha, secret) == alpha

Blinded(alpha, secret) == Multiply(alpha, <<"h_b", alpha, secret>>)

SharedSecrets(alpha, path) ==
  LET a[i \in 1..Len(path)] ==
        IF i = 1 THEN alpha ELSE Blinded(a[i - 1], SharedSecret(a[i - 1], path[i - 1]))
  IN  [i \in 1..Len(path) |-> SharedSecret(a[i], path[i])]

(***************************************************************************)
(* What the zeros appended by the relays before the last have become when  *)
(* the onion arrives there.  Mutation: each relay's key stream is read one *)
(* hop too late.                                                           *)
(***************************************************************************)
FillerLate(secrets) ==
  LET f[i \in 0..(Len(secrets) - 1)] ==
        IF i = 0 THEN <<>>
        ELSE Xor(f[i - 1] \o Zeros(HopBlocks),
                 Drop(KeyStream(secrets[i], HeaderLength + HopBlocks),
                      HeaderLength - i * HopBlocks))
  IN  f[Len(secrets) - 1]

Filler(secrets) ==
  LET f[i \in 0..(Len(secrets) - 1)] ==
        IF i = 0 THEN <<>>
        ELSE Xor(f[i - 1] \o Zeros(HopBlocks),
                 Drop(KeyStream(secrets[i], HeaderLength + HopBlocks),
                      HeaderLength - (i - 1) * HopBlocks))
  IN  f[Len(secrets) - 1]

Padding(seed, path) ==
  [j \in 1..((MaxPathLength - Len(path)) * HopBlocks) |-> {<<"padding", seed, j>>}]

(***************************************************************************)
(* The routing blocks for the last hop, and around them those for the hops *)
(* before it, innermost first.                                             *)
(***************************************************************************)
Betas(seed, path, final_info, secrets) ==
  LET n == Len(path)
      last == Xor(final_info, KeyStream(secrets[n], FinalBlocks))
              \o Padding(seed, path) \o Filler(secrets)
      b[i \in 1..n] ==
        IF i = n THEN last
        ELSE Xor(<<Flag("Relay"), Address(path[i + 1]), Mac(secrets[i + 1], b[i + 1])>> \o b[i + 1],
                 KeyStream(secrets[i], HeaderLength))
  IN  b

(***************************************************************************)
(* pi() and pi_inv() leave an empty payload alone.                         *)
(***************************************************************************)
Pi(secret, d) == IF d.text = <<>> THEN d ELSE Encrypt(secret, d)
PiInv(secret, d) == IF d.text = <<>> THEN d ELSE Decrypt(secret, d)

Layered(secrets, d) ==
  LET p[i \in 1..(Len(secrets) + 1)] ==
        IF i > Len(secrets) THEN d ELSE Pi(secrets[i], p[i + 1])
  IN  p[1]

Wrap(seed, path, final_info, d) ==
  LET alpha   == Multiply(Generator, <<"secret", seed>>)
      secrets == SharedSecrets(alpha, path)
      beta    == Betas(seed, path, final_info, secrets)[1]
  IN  [secrets |-> secrets,
       onion   |-> [alpha |-> alpha, beta |-> beta, gamma |-> Mac(secrets[1], beta),
                    delta |-> Layered(secrets, d)]]

-------------------------------------------------------------------------------
Relay(reference, onion) == [kind |-> "Relay", next |-> reference, onion |-> onion]
Fragment(reference, data) == [kind |-> "Fragment", reference |-> reference, data |-> data]
Reply(reference, data) == [kind |-> "Reply", reference |-> reference, data |-> data]
MacMismatch == [kind |-> "MacMismatch"]
InvalidHeaderFlag == [kind |-> "InvalidHeaderFlag"]

(***************************************************************************)
(* The routing blocks that a relay reads: the zeros it appends let it pass *)
(* on as many blocks as it received.  Mutation: nothing is appended.       *)
(***************************************************************************)
RoutingUnextended(beta, secret) == Xor(beta, KeyStream(secret, HeaderLength + HopBlocks))

Routing(beta, secret) ==
  Xor(beta \o Zeros(HopBlocks), KeyStream(secret, HeaderLength + HopBlocks))

(***************************************************************************)
(* The MAC that arrived is that of the routing blocks that arrived.        *)
(* Mutation: it is not looked at.                                          *)
(***************************************************************************)
VerifiesAlways(secret, onion) == TRUE

Verifies(secret, onion) == onion.gamma = Mac(secret, onion.beta)

Process(n, onion) ==
  LET secret  == SharedSecret(onion.alpha, n)
      routing == Routing(onion.beta, secret)
      delta   == PiInv(secret, onion.delta)
  IN  IF ~Verifies(secret, onion) THEN MacMismatch
      ELSE IF routing[1] = Flag("Relay")
      THEN Relay(routing[2], [alpha |-> Blinded(onion.alpha, secret),
                              beta  |-> Drop(routing, HopBlocks),
                              gamma |-> routing[3],
                              delta |-> delta])
      ELSE IF routing[1] = Flag("Fragment") THEN Fragment(routing[2], delta)
      ELSE IF routing[1] = Flag("Deliver") THEN Reply(routing[2], delta)
      ELSE InvalidHeaderFlag

===============================================================================
