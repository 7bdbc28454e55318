-------------------------- MODULE SphinxNetworkProofs --------------------------
(***************************************************************************)
(* Proofs about Sphinx at work, for any nodes, requests, routes, reply     *)
(* blocks and damages: SphinxNetwork's inductive invariant says of every   *)
(* packet under way that its header is the one that SphinxProofs says the  *)
(* node it is at is meant to get, or that header with one block changed,   *)
(* and of everything a node remembers that it would compute it again.      *)
(***************************************************************************)
EXTENDS SphinxChannel, SphinxProofs

(***************************************************************************)
(* A header by its three parts, and its bytes and back.                    *)
(***************************************************************************)
HeaderOf(secret, mac, info) ==
  [shared_secret |-> secret, routing_info |-> [integrity_mac |-> mac, info |-> info]]

InfoOf(bytes) == Drop(Drop(bytes, 1), 1)

LEMMA HeaderParses ==
  ASSUME NEW b, IsSeq(b, HeaderLength)
  PROVE  /\ HeaderFromBytes(b) = [error |-> "none", header |-> HeaderOf(b[1], b[2], InfoOf(b))]
         /\ IsSeq(InfoOf(b), InfoLength)
         /\ \A i \in 1..InfoLength : InfoOf(b)[i] = b[i + 2]
<1> DEFINE l == InfoLength
           one == 1
           m == l + 1
           h == l + 2
           s == Drop(b, one)
           t == Drop(s, one)
<1>1. l \in Nat /\ m \in Nat /\ h \in Nat /\ one \in 0..h /\ one \in 0..m /\ h - one = m /\ m - one = l
      /\ HeaderLength = h /\ one = 1 /\ m = l + 1 /\ h = l + 2 /\ m = 1 + l
  BY Lengths DEF HeaderLength
<1>2. IsSeq(b, h) /\ Len(b) = h
  BY <1>1, SeqOfElements
<1> HIDE DEF one, m, h, l
<1>3. IsSeq(s, m) /\ \A i \in 1..m : s[i] = b[one + i]
  BY <1>1, <1>2, DropElements DEF s
<1> HIDE DEF s
<1>4. IsSeq(t, l) /\ \A i \in 1..l : t[i] = s[one + i]
  BY <1>1, <1>3, DropElements DEF t
<1> HIDE DEF t
<1>5. \A i \in 1..l : t[i] = b[i + 2]
  <2> SUFFICES ASSUME NEW i \in 1..l PROVE t[i] = b[i + 2]
    OBVIOUS
  <2>1. one + i \in 1..m /\ one + (one + i) = i + 2
    BY <1>1
  <2> QED BY <1>3, <1>4, <2>1
<1>6. s[1] = b[2] /\ Len(s) = m
  <2>1. 1 \in 1..m /\ one + 1 = 2
    BY <1>1
  <2> QED BY <1>3, <2>1, SeqOfElements
<1>7. RoutingFromBytes(s) = [error |-> "none", routing_info |-> [integrity_mac |-> b[2], info |-> t]]
  BY <1>1, <1>6 DEF RoutingFromBytes, t, one, l
<1>8. HeaderFromBytes(b) = [error |-> "none", header |-> HeaderOf(b[1], b[2], t)]
  BY <1>1, <1>2, <1>7 DEF HeaderFromBytes, HeaderOf, s, one
<1>9. InfoOf(b) = t
  BY DEF InfoOf, t, s, one
<1> QED BY <1>4, <1>5, <1>8, <1>9 DEF l

IsHeader(h) ==
  /\ h = HeaderOf(h.shared_secret, h.routing_info.integrity_mac, h.routing_info.info)
  /\ IsSeq(h.routing_info.info, InfoLength)

LEMMA HeaderBytes ==
  ASSUME NEW h, IsHeader(h), NEW b, b = HeaderToBytes(h)
  PROVE  /\ IsSeq(b, HeaderLength)
         /\ b[1] = h.shared_secret /\ b[2] = h.routing_info.integrity_mac
         /\ InfoOf(b) = h.routing_info.info
         /\ HeaderFromBytes(b) = [error |-> "none", header |-> h]
<1> DEFINE l == InfoLength
           a == h.shared_secret
           c == h.routing_info.integrity_mac
           s == h.routing_info.info
           r == <<c>> \o s
           one == 1
           m == one + l
           n == one + m
<1>1. l \in Nat /\ one = 1 /\ m = 1 + l /\ n = 2 + l /\ HeaderLength = n /\ 1 \in 1..one
      /\ m \in Nat /\ n \in Nat
  BY Lengths DEF HeaderLength
<1>2. /\ IsSeq(<<a>>, one) /\ <<a>>[1] = a
      /\ IsSeq(<<c>>, one) /\ <<c>>[1] = c
  BY DEF IsSeq
<1>3. b = <<a>> \o r
  BY DEF HeaderToBytes, RoutingToBytes
<1>4. IsSeq(s, l)
  BY DEF IsHeader
<1> HIDE DEF one, m, n, l, s, a, c
<1>5. IsConcat(r, <<c>>, one, s, l)
  BY <1>2, <1>4, ConcatElements
<1>6. IsSeq(r, m) /\ r[1] = c /\ \A i \in (one + 1)..(one + l) : r[i] = s[i - one]
  BY <1>1, <1>2, <1>5 DEF IsConcat, m
<1> HIDE DEF r
<1>7. IsConcat(b, <<a>>, one, r, m)
  BY <1>2, <1>3, <1>6, ConcatElements
<1>8. IsSeq(b, n) /\ b[1] = a /\ \A i \in (one + 1)..(one + m) : b[i] = r[i - one]
  BY <1>1, <1>2, <1>7 DEF IsConcat, n
<1>9. b[2] = c
  <2>1. 2 \in (one + 1)..(one + m) /\ 2 - one = 1
    BY <1>1
  <2> QED BY <1>6, <1>8, <2>1
<1>10. \A i \in 1..l : b[i + 2] = s[i]
  <2> SUFFICES ASSUME NEW i \in 1..l PROVE b[i + 2] = s[i]
    OBVIOUS
  <2>1. i + 2 \in (one + 1)..(one + m) /\ (i + 2) - one = i + 1
        /\ i + 1 \in (one + 1)..(one + l) /\ (i + 1) - one = i
    BY <1>1
  <2> QED BY <1>6, <1>8, <2>1
<1>11. IsSeq(b, HeaderLength)
  BY <1>1, <1>8
<1>12. /\ HeaderFromBytes(b) = [error |-> "none", header |-> HeaderOf(b[1], b[2], InfoOf(b))]
       /\ IsSeq(InfoOf(b), l)
       /\ \A i \in 1..l : InfoOf(b)[i] = b[i + 2]
  BY <1>11, HeaderParses DEF l
<1>13. InfoOf(b) = s
  BY <1>4, <1>10, <1>12, SameElements
<1>14. h = HeaderOf(a, c, s)
  BY DEF IsHeader, a, c, s
<1> QED BY <1>8, <1>9, <1>11, <1>12, <1>13, <1>14 DEF a, c, s

(***************************************************************************)
(* A reply block and its bytes.                                            *)
(***************************************************************************)
SurbOf(h, hop, keys) == [header |-> h, first_hop |-> hop, payload_keys |-> keys]

LEMMA SurbParses ==
  ASSUME NEW h, IsHeader(h), NEW hop, NEW n \in Nat \ {0}, NEW keys, IsSeq(keys, n)
  PROVE  SurbFromBytes(SurbToBytes(SurbOf(h, hop, keys)))
           = [error |-> "none", surb |-> SurbOf(h, hop, keys)]
<1> DEFINE l == HeaderLength
           b == HeaderToBytes(h)
           x == b \o <<hop>>
           y == x \o keys
           one == 1
           c == l + one
           d == c + n
<1>1. l \in Nat /\ c \in Nat /\ d \in Nat /\ one = 1 /\ c = l + 1 /\ n \in Nat /\ n >= 1 /\ d = c + n /\ l >= 1
  BY Lengths DEF HeaderLength
<1>2. IsSeq(b, l) /\ HeaderFromBytes(b) = [error |-> "none", header |-> h]
  BY HeaderBytes
<1>3. IsSeq(<<hop>>, one) /\ <<hop>>[1] = hop
  BY DEF IsSeq
<1>4. SurbToBytes(SurbOf(h, hop, keys)) = y
  BY DEF SurbToBytes, SurbOf
<1> HIDE DEF l, b, one, c, d
<1>5. IsConcat(x, b, l, <<hop>>, one)
  BY <1>2, <1>3, ConcatElements
<1>6. IsSeq(x, c) /\ (\A i \in 1..l : x[i] = b[i]) /\ x[c] = hop
  <2>1. IsSeq(x, c) /\ (\A i \in 1..l : x[i] = b[i])
        /\ \A i \in (l + 1)..(l + one) : x[i] = <<hop>>[i - l]
    BY <1>5 DEF IsConcat, c
  <2>2. c \in (l + 1)..(l + one) /\ c - l = 1
    BY <1>1
  <2> QED BY <1>3, <2>1, <2>2
<1> HIDE DEF x
<1>7. IsConcat(y, x, c, keys, n)
  BY <1>6, ConcatElements
<1>8. IsSeq(y, d) /\ (\A i \in 1..c : y[i] = x[i]) /\ \A i \in (c + 1)..(c + n) : y[i] = keys[i - c]
  BY <1>7 DEF IsConcat, d
<1>9. Len(y) = d
  BY <1>8, SeqOfElements
<1> HIDE DEF y
<1>10. SubSeq(y, 1, l) = b
  <2>1. 1 \in Nat \ {0} /\ l \in 0..d /\ 1 <= l + 1
    BY <1>1
  <2>2. IsPart(SubSeq(y, 1, l), y, 1, l)
    BY <1>8, <2>1, PartElements
  <2>3. l - 1 + 1 = l /\ \A i \in 1..l : 1 + i - 1 = i
    BY <1>1
  <2>4. IsSeq(SubSeq(y, 1, l), l) /\ \A i \in 1..l : SubSeq(y, 1, l)[i] = y[i]
    BY <2>2, <2>3 DEF IsPart
  <2>5. \A i \in 1..l : y[i] = b[i]
    BY <1>1, <1>6, <1>8
  <2> DEFINE s == SubSeq(y, 1, l)
  <2>6. IsSeq(s, l) /\ \A i \in 1..l : s[i] = b[i]
    BY <2>4, <2>5
  <2> HIDE DEF s
  <2>7. s = b
    BY <1>2, <2>6, SameElements
  <2> QED BY <2>7 DEF s
<1>11. KeysOfSurb(y) = keys
  <2>1. c \in 0..d /\ d - c = n
    BY <1>1
  <2> DEFINE s == Drop(y, c)
  <2>2. IsSeq(s, n) /\ \A i \in 1..n : s[i] = y[c + i]
    BY <1>8, <2>1, DropElements
  <2>3. \A i \in 1..n : c + i \in (c + 1)..(c + n) /\ (c + i) - c = i
    BY <1>1
  <2>4. \A i \in 1..n : s[i] = keys[i]
    BY <1>8, <2>2, <2>3
  <2> HIDE DEF s
  <2>5. s = keys
    BY <2>2, <2>4, SameElements
  <2> QED BY <1>1, <2>5 DEF KeysOfSurb, s, l
<1>12. y[HeaderLength + 1] = hop
  <2>1. c \in 1..c
    BY <1>1
  <2> QED BY <1>1, <1>6, <1>8, <2>1 DEF l
<1>13. ~(Len(y) < HeaderLength + 2)
  BY <1>1, <1>9 DEF l
<1> DEFINE header == HeaderFromBytes(SubSeq(y, 1, HeaderLength))
<1>14. header = [error |-> "none", header |-> h]
  BY <1>2, <1>10 DEF l
<1>15. header.error = "none" /\ header.header = h
  BY <1>14
<1> HIDE DEF header
<1>16. SurbFromBytes(y) = [error |-> "none",
         surb |-> [header |-> header.header, first_hop |-> y[HeaderLength + 1], payload_keys |-> KeysOfSurb(y)]]
  BY <1>13, <1>15 DEF SurbFromBytes, header
<1> QED BY <1>4, <1>11, <1>12, <1>15, <1>16 DEF SurbOf

-------------------------------------------------------------------------------
(***************************************************************************)
(* The secret of a header: no node's own key is part of it, nor what a     *)
(* change on the way makes of it.                                          *)
(***************************************************************************)
Clean(secret) == <<"noise">> \notin secret /\ \A n : <<"key", n>> \notin secret

LEMMA SecretsAreClean ==
  ASSUME NEW route, NEW n \in Nat, Len(route) = n, NEW secret, NEW i \in 1..n
  PROVE  Clean(Accumulators(route, Secret(secret))[i])
<1> DEFINE A == Accumulators(route, Secret(secret))
           S == {k \in Nat : k \in 1..n => Clean(A[k])}
<1>0. /\ A[1] = Secret(secret)
      /\ \A k \in 1..(n - 1) : A[k + 1] = Accumulated(A[k], KeysOf(A[k], route[k]))
  BY AccumulatorsDefined
<1> HIDE DEF A
<1>1. \A x, y : <<"secret", x>> # <<"key", y>> /\ <<"blinding", x>> # <<"key", y>>
  OBVIOUS
<1>2. \A x : <<"secret", x>> # <<"noise">> /\ <<"blinding", x>> # <<"noise">>
  <2> SUFFICES ASSUME NEW x PROVE <<"secret", x>> # <<"noise">> /\ <<"blinding", x>> # <<"noise">>
    OBVIOUS
  <2>1. Len(<<"secret", x>>) = 2 /\ Len(<<"blinding", x>>) = 2 /\ Len(<<"noise">>) = 1
    OBVIOUS
  <2> QED BY <2>1
<1>3. Clean(Secret(secret))
  BY <1>1, <1>2 DEF Clean, Secret
<1>4. \A accumulator, m : Clean(accumulator) => Clean(Accumulated(accumulator, KeysOf(accumulator, m)))
  BY <1>1, <1>2 DEF Clean, Accumulated, KeysOf, Derive
<1>5. 0 \in S
  OBVIOUS
<1>6. ASSUME NEW k \in Nat, k \in S PROVE k + 1 \in S
  <2> SUFFICES ASSUME k + 1 \in 1..n PROVE Clean(A[k + 1])
    OBVIOUS
  <2>1. CASE k = 0
    BY <1>0, <1>3, <2>1
  <2>2. CASE k # 0
    <3>1. k \in 1..(n - 1) /\ k \in 1..n
      BY <2>2
    <3>2. Clean(A[k])
      BY <1>6, <3>1
    <3> QED BY <1>0, <1>4, <3>1, <3>2
  <2> QED BY <2>1, <2>2
<1> HIDE DEF S
<1>7. Nat \subseteq S
  BY <1>5, <1>6, NatSetInduction
<1>8. i \in S /\ i \in 1..n
  BY <1>7
<1> QED BY <1>8 DEF S, A

(***************************************************************************)
(* What the proofs about the network need to know of the headers along a   *)
(* route.                                                                  *)
(***************************************************************************)
GoodHeader(h, n) ==
  /\ IsHeader(h) /\ Clean(h.shared_secret)
  /\ Verifies(h.routing_info, ComputeRoutingKeys(h.shared_secret, n))

LEMMA MeantHeadersAreGood ==
  ASSUME NEW seed, NEW secret, NEW route, NEW delays, NEW destination, NEW n \in 1..MaxRoute,
         Len(route) = n, NEW i \in 1..n
  PROVE  GoodHeader(MeantHeader(seed, secret, route, delays, destination, i), route[i])
<1> DEFINE initial == Secret(secret)
           A == Accumulators(route, initial)
           K == KeyMaterial(route, initial)
           E == MeantRouting(seed, route, destination, delays, K)
           h == MeantHeader(seed, secret, route, delays, destination, i)
<1>1. n \in Nat
  BY Lengths
<1>2. K = [j \in 1..n |-> KeysOf(A[j], route[j])]
  BY DEF KeyMaterial
<1>3. h = [shared_secret |-> A[i], routing_info |-> E[i]]
  BY DEF MeantHeader
<1>4. Clean(A[i])
  BY <1>1, SecretsAreClean
<1> HIDE DEF A
<1>5. IsSeq(K, n) /\ K[i] = KeysOf(A[i], route[i])
  BY <1>1, <1>2 DEF IsSeq
<1> HIDE DEF K
<1>6. E = MeantRouting(seed, route, destination, delays, K)
  OBVIOUS
<1> HIDE DEF E
<1>7. UnwrapsAlong(E, n, route, destination, delays, K)
  BY <1>5, <1>6, RouteUnwraps
<1>8. /\ Verifies(E[i], K[i]) /\ IsSeq(E[i].info, InfoLength)
      /\ E[i] = [integrity_mac |-> E[i].integrity_mac, info |-> E[i].info]
  BY <1>7 DEF UnwrapsAlong
<1>9. ComputeRoutingKeys(A[i], route[i]) = K[i]
  BY <1>5, KeysAgree
<1>10. h.shared_secret = A[i] /\ h.routing_info = E[i]
  BY <1>3
<1> HIDE DEF h
<1>11. IsHeader(h)
  BY <1>3, <1>8, <1>10 DEF IsHeader, HeaderOf
<1>12. Verifies(h.routing_info, ComputeRoutingKeys(h.shared_secret, route[i]))
  BY <1>8, <1>9, <1>10
<1> QED BY <1>4, <1>10, <1>11, <1>12 DEF h, GoodHeader

(***************************************************************************)
(* MACs are equal only under the same key and on the same information, and *)
(* MAC keys only for the same Diffie-Hellman secret.                       *)
(***************************************************************************)
LEMMA MacsDiffer ==
  ASSUME NEW s, NEW m, NEW t, NEW n, NEW x, NEW y,
         ComputeMac(ComputeRoutingKeys(s, m), x) = ComputeMac(ComputeRoutingKeys(t, n), y)
  PROVE  x = y /\ s \cup {<<"key", m>>} = t \cup {<<"key", n>>}
<1> DEFINE j == <<"hmac key", s \cup {<<"key", m>>}>>
           k == <<"hmac key", t \cup {<<"key", n>>}>>
<1>1. /\ ComputeRoutingKeys(s, m).header_integrity_hmac_key = j
      /\ ComputeRoutingKeys(t, n).header_integrity_hmac_key = k
  BY DEF ComputeRoutingKeys, Derive, DiffieHellman, NodeKey
<1>2. j = k => s \cup {<<"key", m>>} = t \cup {<<"key", n>>}
  OBVIOUS
<1> HIDE DEF j, k
<1>3. {<<"mac", j, x>>} = {<<"mac", k, y>>}
  BY <1>1 DEF ComputeMac, Mac
<1>4. <<"mac", j, x>> = <<"mac", k, y>>
  BY <1>3
<1>5. j = k /\ x = y
  BY <1>4
<1> QED BY <1>2, <1>5

(***************************************************************************)
(* A header does not verify at another node, whatever secret it is taken   *)
(* with there.                                                             *)
(***************************************************************************)
LEMMA OnlyAtItsNode ==
  ASSUME NEW h, NEW n, GoodHeader(h, n), NEW m, m # n, NEW t, Clean(t)
  PROVE  ~Verifies(h.routing_info, ComputeRoutingKeys(t, m))
<1> SUFFICES ASSUME Verifies(h.routing_info, ComputeRoutingKeys(t, m)) PROVE FALSE
  OBVIOUS
<1> DEFINE s == h.shared_secret
           x == h.routing_info.info
<1>1. ComputeMac(ComputeRoutingKeys(s, n), x) = ComputeMac(ComputeRoutingKeys(t, m), x)
  BY DEF GoodHeader, Verifies
<1> HIDE DEF s, x
<1>2. s \cup {<<"key", n>>} = t \cup {<<"key", m>>}
  BY <1>1, MacsDiffer
<1>3. <<"key", n>> \notin t
  BY DEF Clean
<1>4. <<"key", n>> = <<"key", m>>
  BY <1>2, <1>3
<1> QED BY <1>4

(***************************************************************************)
(* What noise does to a block.                                             *)
(***************************************************************************)
Noisy(block) == SymDiff(block, {<<"noise">>})

ChangedAt(header, spot) == [header EXCEPT ![spot] = Noisy(@)]

LEMMA NoiseShows ==
  ASSUME NEW x
  PROVE  Noisy(x) # x /\ (<<"noise">> \notin x => <<"noise">> \in Noisy(x))
BY DEF Noisy, SymDiff

(***************************************************************************)
(* A header of which any one block has changed verifies nowhere: neither   *)
(* with the secret that it then has nor, where it belongs not, with any    *)
(* other.                                                                  *)
(***************************************************************************)
VerifiesNowhere(b, g, n) ==
  /\ IsSeq(b, HeaderLength)
  /\ HeaderFromBytes(b) = [error |-> "none", header |-> g]
  /\ \A m : ~Verifies(g.routing_info, ComputeRoutingKeys(g.shared_secret, m))
  /\ \A m, t : m # n /\ Clean(t) => ~Verifies(g.routing_info, ComputeRoutingKeys(t, m))

LEMMA ChangedHeader ==
  ASSUME NEW h, NEW n, GoodHeader(h, n), NEW spot \in 1..HeaderLength,
         NEW b, b = ChangedAt(HeaderToBytes(h), spot),
         NEW g, g = HeaderOf(b[1], b[2], InfoOf(b))
  PROVE  VerifiesNowhere(b, g, n)
<1> DEFINE a == HeaderToBytes(h)
           s == h.shared_secret
           x == h.routing_info.info
           y == InfoOf(b)
<1>1. /\ IsSeq(a, HeaderLength) /\ a[1] = s /\ a[2] = ComputeMac(ComputeRoutingKeys(s, n), x)
      /\ InfoOf(a) = x
  <2>1. IsHeader(h) /\ h.routing_info.integrity_mac = ComputeMac(ComputeRoutingKeys(s, n), x)
    BY DEF GoodHeader, Verifies
  <2> QED BY <2>1, HeaderBytes
<1>2. Clean(s)
  BY DEF GoodHeader
<1>3. HeaderLength = InfoLength + 2 /\ InfoLength \in Nat
  BY Lengths DEF HeaderLength
<1>4. /\ g.shared_secret = b[1] /\ g.routing_info.integrity_mac = b[2] /\ g.routing_info.info = y
  BY DEF HeaderOf
<1>5. b = [a EXCEPT ![spot] = Noisy(a[spot])]
  BY DEF ChangedAt
<1> HIDE DEF a, s, x, y
<1>6. IsSeq(b, HeaderLength)
  BY <1>1, <1>3, <1>5 DEF IsSeq
<1>7. b[spot] = Noisy(a[spot]) /\ \A i \in 1..HeaderLength : i # spot => b[i] = a[i]
  BY <1>1, <1>3, <1>5 DEF IsSeq
<1>8. /\ HeaderFromBytes(b) = [error |-> "none", header |-> g]
      /\ IsSeq(y, InfoLength)
      /\ \A i \in 1..InfoLength : y[i] = b[i + 2]
  BY <1>6, HeaderParses DEF y
<1>9. IsSeq(x, InfoLength) /\ \A i \in 1..InfoLength : x[i] = a[i + 2]
  BY <1>1, HeaderParses
<1>10. ASSUME NEW m, NEW t, Verifies(g.routing_info, ComputeRoutingKeys(t, m)),
              t = g.shared_secret \/ (m # n /\ Clean(t))
       PROVE  FALSE
  <2>1. b[2] = ComputeMac(ComputeRoutingKeys(t, m), y)
    BY <1>4, <1>10 DEF Verifies
  <2>2. CASE spot = 2
    <3>1. <<"noise">> \notin a[2]
      <4>1. \A k : <<"noise">> # <<"mac", k, x>>
        <5> SUFFICES ASSUME NEW k PROVE <<"noise">> # <<"mac", k, x>>
          OBVIOUS
        <5>1. Len(<<"noise">>) = 1 /\ Len(<<"mac", k, x>>) = 3
          OBVIOUS
        <5> QED BY <5>1
      <4> QED BY <1>1, <4>1 DEF ComputeMac, Mac
    <3>2. <<"noise">> \in b[2]
      BY <1>7, <2>2, <3>1, NoiseShows
    <3>3. \A k : <<"noise">> # <<"mac", k, y>>
      <4> SUFFICES ASSUME NEW k PROVE <<"noise">> # <<"mac", k, y>>
        OBVIOUS
      <4>1. Len(<<"noise">>) = 1 /\ Len(<<"mac", k, y>>) = 3
        OBVIOUS
      <4> QED BY <4>1
    <3> QED BY <2>1, <3>2, <3>3 DEF ComputeMac, Mac
  <2>3. CASE spot # 2
    <3>1. b[2] = a[2]
      BY <1>3, <1>7, <2>3
    <3>2. x = y /\ s \cup {<<"key", n>>} = t \cup {<<"key", m>>}
      <4>1. ComputeMac(ComputeRoutingKeys(s, n), x) = ComputeMac(ComputeRoutingKeys(t, m), y)
        BY <1>1, <2>1, <3>1
      <4> QED BY <4>1, MacsDiffer
    <3>3. CASE spot = 1
      <4>1. <<"noise">> \notin s /\ \A k : <<"key", k>> \notin s
        BY <1>2 DEF Clean
      <4>2. t = g.shared_secret
        <5>1. CASE m # n /\ Clean(t)
          <6>1. <<"key", n>> \in t \cup {<<"key", m>>} /\ <<"key", n>> \notin t
            BY <3>2, <5>1 DEF Clean
          <6>2. <<"key", n>> = <<"key", m>>
            BY <6>1
          <6> QED BY <5>1, <6>2
        <5> QED BY <1>10, <5>1
      <4>3. <<"noise">> \in t
        BY <1>1, <1>4, <1>7, <3>3, <4>1, <4>2, NoiseShows
      <4>4. <<"noise">> # <<"key", n>>
        <5>1. Len(<<"noise">>) = 1 /\ Len(<<"key", n>>) = 2
          OBVIOUS
        <5> QED BY <5>1
      <4> QED BY <3>2, <4>1, <4>3, <4>4
    <3>4. CASE spot # 1
      <4> DEFINE i == spot - 2
      <4>1. i \in 1..InfoLength /\ i + 2 = spot
        BY <1>3, <2>3, <3>4
      <4> HIDE DEF i
      <4>2. x[i] = a[spot] /\ y[i] = b[spot]
        BY <1>8, <1>9, <4>1
      <4> QED BY <1>7, <3>2, <4>2, NoiseShows
    <3> QED BY <3>3, <3>4
  <2> QED BY <2>2, <2>3
<1> QED BY <1>6, <1>8, <1>10 DEF VerifiesNowhere

-------------------------------------------------------------------------------
(***************************************************************************)
(* What processing a header, and with it a packet, can come to.            *)
(***************************************************************************)
ComesTo(n, h, keys, parsed, secret) ==
  /\ parsed.kind \in {"ForwardHop", "FinalHop", "unknown routing flag"}
  /\ ~Verifies(h.routing_info, keys) =>
       /\ Process(n, h) = Rejected("integrity MAC")
       /\ ProcessWith(h, keys, secret) = Rejected("integrity MAC")
  /\ Verifies(h.routing_info, keys) /\ parsed.kind = "FinalHop" =>
       /\ Process(n, h) = FinalHop(parsed, keys)
       /\ ProcessWith(h, keys, secret) = Process(n, h)
  /\ Verifies(h.routing_info, keys) /\ parsed.kind = "ForwardHop" =>
       /\ Process(n, h) = ForwardHop(Blind(h.shared_secret, keys.blinding_factor), parsed, keys)
       /\ ProcessWith(h, keys, secret)
            = IF secret.known THEN Process(n, h) ELSE Rejected("without blinded secret")
  /\ Verifies(h.routing_info, keys) /\ parsed.kind = "unknown routing flag" =>
       Process(n, h).kind = "error"

LEMMA ProcessCases ==
  ASSUME NEW n, NEW h,
         NEW keys, keys = ComputeRoutingKeys(h.shared_secret, n),
         NEW parsed, parsed = Unwrap(h.routing_info.info, keys),
         NEW secret, secret.known => secret.blinded = Blind(h.shared_secret, keys.blinding_factor)
  PROVE  ComesTo(n, h, keys, parsed, secret)
<1>1. parsed.kind \in {"ForwardHop", "FinalHop", "unknown routing flag"}
  <2> DEFINE raw == Raw(h.routing_info.info, keys)
  <2>1. parsed = Parse(raw)
    BY DEF Unwrap
  <2> HIDE DEF raw
  <2>2. ParseAsForwardHop(raw).kind = "ForwardHop" /\ ParseAsFinalHop(raw).kind = "FinalHop"
    BY DEF ParseAsForwardHop, ParseAsFinalHop
  <2>3. Flag("forward") # Flag("final")
    <3>1. "forward" # "final"
      OBVIOUS
    <3> QED BY <3>1, FlagsDiffer
  <2> DEFINE forward == ParseAsForwardHop(raw)
             final == ParseAsFinalHop(raw)
             other == [kind |-> "unknown routing flag"]
  <2>4. forward.kind = "ForwardHop" /\ final.kind = "FinalHop" /\ other.kind = "unknown routing flag"
    BY <2>2
  <2>5. parsed = CASE raw[1] = Flag("forward") -> forward
                   [] raw[1] = Flag("final")   -> final
                   [] OTHER                    -> other
    BY <2>1 DEF Parse
  <2> HIDE DEF forward, final, other
  <2>6. parsed \in {forward, final, other}
    BY <2>3, <2>5
  <2> QED BY <2>4, <2>6
<1>2. ~Verifies(h.routing_info, keys) =>
        /\ Process(n, h) = Rejected("integrity MAC")
        /\ ProcessWith(h, keys, secret) = Rejected("integrity MAC")
  BY DEF Process, ProcessWith
<1>3. Verifies(h.routing_info, keys) /\ parsed.kind = "FinalHop" =>
        /\ Process(n, h) = FinalHop(parsed, keys)
        /\ ProcessWith(h, keys, secret) = Process(n, h)
  BY DEF Process, ProcessWith
<1>4. Verifies(h.routing_info, keys) /\ parsed.kind = "ForwardHop" =>
        /\ Process(n, h) = ForwardHop(Blind(h.shared_secret, keys.blinding_factor), parsed, keys)
        /\ ProcessWith(h, keys, secret)
             = IF secret.known THEN Process(n, h) ELSE Rejected("without blinded secret")
  BY DEF Process, ProcessWith
<1>5. Verifies(h.routing_info, keys) /\ parsed.kind = "unknown routing flag" => Process(n, h).kind = "error"
  BY DEF Process, Rejected
<1> QED BY <1>1, <1>2, <1>3, <1>4, <1>5 DEF ComesTo

LEMMA ProcessedCases ==
  ASSUME NEW o, NEW d
  PROVE  /\ o.kind = "error" => Processed(o, d) = o
         /\ o.kind = "ForwardHop" /\ Len(d.text) < CipherBlock => Processed(o, d) = Rejected("InvalidPayload")
         /\ o.kind = "FinalHop" /\ Len(d.text) < CipherBlock => Processed(o, d) = Rejected("InvalidPayload")
         /\ o.kind = "ForwardHop" /\ ~(Len(d.text) < CipherBlock) =>
              Processed(o, d) =
                [kind |-> "ForwardHop", address |-> o.address, delay |-> o.delay,
                 packet |-> [header |-> o.header, payload |-> Decrypt(o.payload_key, d)]]
         /\ o.kind = "FinalHop" /\ ~(Len(d.text) < CipherBlock) =>
              Processed(o, d) =
                [kind |-> "FinalHop", address |-> o.address, identifier |-> o.identifier,
                 payload |-> Decrypt(o.payload_key, d)]
<1> DEFINE u == UnwrapPayload(d, o.payload_key)
<1>1. Len(d.text) < CipherBlock => u.error = "InvalidPayload"
  BY DEF UnwrapPayload
<1>2. ~(Len(d.text) < CipherBlock) => u.error = "none" /\ u.payload = Decrypt(o.payload_key, d)
  BY DEF UnwrapPayload
<1>3. /\ o.kind = "error" => Processed(o, d) = o
      /\ o.kind \in {"ForwardHop", "FinalHop"} /\ u.error # "none" => Processed(o, d) = Rejected(u.error)
      /\ o.kind = "ForwardHop" /\ u.error = "none" =>
              Processed(o, d) =
                [kind |-> "ForwardHop", address |-> o.address, delay |-> o.delay,
                 packet |-> [header |-> o.header, payload |-> u.payload]]
      /\ o.kind = "FinalHop" /\ u.error = "none" =>
              Processed(o, d) =
                [kind |-> "FinalHop", address |-> o.address, identifier |-> o.identifier,
                 payload |-> u.payload]
  <2> HIDE DEF u
  <2> QED BY DEF Processed, u
<1> HIDE DEF u
<1> QED BY <1>1, <1>2, <1>3

LEMMA PacketParses ==
  ASSUME NEW b, IsSeq(b.header, HeaderLength), NEW h,
         HeaderFromBytes(b.header) = [error |-> "none", header |-> h],
         NEW l \in Nat, Len(b.payload.text) = l
  PROVE  PacketFromBytes(b) =
           IF l < Overhead THEN Failure("InvalidPacket")
           ELSE [error |-> "none", packet |-> [header |-> h, payload |-> b.payload]]
<1> DEFINE header == HeaderFromBytes(b.header)
           payload == PayloadFromBytes(b.payload)
<1>1. header.error = "none" /\ header.header = h
  OBVIOUS
<1>2. Len(b.header) = HeaderLength /\ HeaderLength \in Nat /\ Overhead \in Nat
  <2>1. Len(b.header) = HeaderLength
    BY SeqOfElements
  <2> QED BY <2>1, Lengths, PayloadAssumption DEF Overhead, HeaderLength
<1>3. ~(l < Overhead) => payload.error = "none" /\ payload.payload = b.payload
  BY DEF PayloadFromBytes
<1>4. Len(b.header) + Len(b.payload.text) < HeaderLength + Overhead <=> l < Overhead
  BY <1>2
<1> HIDE DEF header, payload
<1> QED BY <1>1, <1>3, <1>4 DEF PacketFromBytes, header, payload

-------------------------------------------------------------------------------
(***************************************************************************)
(* What is true of every packet under way.  Its bytes have the sizes of    *)
(* the code's arrays, its header is the one meant for the node it is at,   *)
(* made from some initial secret, or that header with a block changed.     *)
(***************************************************************************)
RequestOK(q) == /\ Len(q.route) \in 1..MaxRoute /\ q.route \in Seq(Nodes)
                /\ Len(q.delays) = Len(q.route)

MeantAt(p, secret, hop) ==
  MeantHeader(p.item, secret, p.request.route, p.request.delays, Destination(p.item), hop)

HeaderOK(p) ==
  \E secret :
    \/ p.damage.kind # "header" /\ p.bytes.header = HeaderToBytes(MeantAt(p, secret, p.hop))
    \/ /\ p.damage.kind = "header"
       /\ \E spot \in Spots :
            p.bytes.header = ChangedAt(HeaderToBytes(MeantAt(p, secret, p.hop)), spot)

PayloadOK(d, lengths) ==
  \E l \in lengths : IsSeq(d.text, l) /\ d = [text |-> d.text, layers |-> d.layers]

TextLengths(kind) == IF kind = "cut" THEN Cuts ELSE {PayloadSize}

PacketOK(p) ==
  /\ p = [item |-> p.item, request |-> p.request, hop |-> p.hop, at |-> p.at, bytes |-> p.bytes,
          damage |-> p.damage]
  /\ p.bytes = [header |-> p.bytes.header, payload |-> p.bytes.payload]
  /\ p.item \in Items /\ RequestOK(p.request)
  /\ p.hop \in 1..Len(p.request.route) /\ p.at = p.request.route[p.hop]
  /\ HeaderOK(p)
  /\ PayloadOK(p.bytes.payload, TextLengths(p.damage.kind))
  /\ PayloadSize >= Overhead /\ PayloadSize >= CipherBlock

(***************************************************************************)
(* What a node can take the bytes of such a packet for.                    *)
(***************************************************************************)
NotFor(h, m) ==
  /\ ~Verifies(h.routing_info, ComputeRoutingKeys(h.shared_secret, m))
  /\ \A t : Clean(t) => ~Verifies(h.routing_info, ComputeRoutingKeys(t, m))

HeaderAt(p, h) ==
  /\ IsSeq(p.bytes.header, HeaderLength)
  /\ HeaderFromBytes(p.bytes.header) = [error |-> "none", header |-> h]
  /\ \A m : m # p.at => NotFor(h, m)
  /\ \/ /\ p.damage.kind = "header"
        /\ \A m : ~Verifies(h.routing_info, ComputeRoutingKeys(h.shared_secret, m))
     \/ /\ p.damage.kind # "header"
        /\ Clean(h.shared_secret)
        /\ \E secret : h = MeantAt(p, secret, p.hop)

LEMMA HeaderOfPacket ==
  ASSUME NEW p, PacketOK(p)
  PROVE  \E h : HeaderAt(p, h)
<1> DEFINE n == Len(p.request.route)
<1>1. n \in 1..MaxRoute /\ p.hop \in 1..n /\ p.at = p.request.route[p.hop] /\ Len(p.request.route) = n
  BY DEF PacketOK, RequestOK
<1> HIDE DEF n
<1>2. \A secret : GoodHeader(MeantAt(p, secret, p.hop), p.at)
  BY <1>1, MeantHeadersAreGood DEF MeantAt
<1>3. CASE p.damage.kind # "header"
  <2>1. PICK secret : p.bytes.header = HeaderToBytes(MeantAt(p, secret, p.hop))
    BY <1>3 DEF PacketOK, HeaderOK
  <2> DEFINE h == MeantAt(p, secret, p.hop)
  <2>2. GoodHeader(h, p.at) /\ p.bytes.header = HeaderToBytes(h)
    BY <1>2, <2>1
  <2>3. h = MeantAt(p, secret, p.hop)
    OBVIOUS
  <2> HIDE DEF h
  <2>4. IsHeader(h) /\ Clean(h.shared_secret)
    BY <2>2 DEF GoodHeader
  <2>5. IsSeq(p.bytes.header, HeaderLength) /\ HeaderFromBytes(p.bytes.header) = [error |-> "none", header |-> h]
    BY <2>2, <2>4, HeaderBytes
  <2>6. ASSUME NEW m, m # p.at PROVE NotFor(h, m)
    <3> DEFINE at == p.at
    <3>1. GoodHeader(h, at) /\ m # at
      BY <2>2, <2>6
    <3> HIDE DEF at
    <3>2. \A t : Clean(t) => ~Verifies(h.routing_info, ComputeRoutingKeys(t, m))
      BY <3>1, OnlyAtItsNode
    <3> QED BY <2>4, <3>2 DEF NotFor
  <2>7. HeaderAt(p, h)
    BY <1>3, <2>3, <2>4, <2>5, <2>6 DEF HeaderAt
  <2> QED BY <2>7
<1>4. CASE p.damage.kind = "header"
  <2>1. \E secret : \E spot \in Spots :
           p.bytes.header = ChangedAt(HeaderToBytes(MeantAt(p, secret, p.hop)), spot)
    BY <1>4 DEF PacketOK, HeaderOK
  <2> PICK secret : \E spot \in Spots :
           p.bytes.header = ChangedAt(HeaderToBytes(MeantAt(p, secret, p.hop)), spot)
    BY <2>1
  <2> PICK spot \in Spots : p.bytes.header = ChangedAt(HeaderToBytes(MeantAt(p, secret, p.hop)), spot)
    OBVIOUS
  <2> DEFINE h == MeantAt(p, secret, p.hop)
             b == p.bytes.header
             g == HeaderOf(b[1], b[2], InfoOf(b))
  <2>2. GoodHeader(h, p.at) /\ b = ChangedAt(HeaderToBytes(h), spot)
    BY <1>2
  <2>3. spot \in 1..HeaderLength
    BY SphinxAssumption
  <2>4. g = HeaderOf(b[1], b[2], InfoOf(b))
    OBVIOUS
  <2> HIDE DEF h, g
  <2> HIDE DEF b
  <2>5. VerifiesNowhere(b, g, p.at)
    BY <2>2, <2>3, <2>4, ChangedHeader
  <2>6. HeaderAt(p, g)
    BY <1>4, <2>5 DEF HeaderAt, NotFor, VerifiesNowhere, b
  <2> QED BY <2>6
<1> QED BY <1>3, <1>4

LEMMA PayloadLengths ==
  ASSUME NEW p, PacketOK(p)
  PROVE  /\ Len(p.bytes.payload.text) \in Nat
         /\ p.damage.kind \in {"none", "payload"} =>
              ~(Len(p.bytes.payload.text) < CipherBlock) /\ ~(Len(p.bytes.payload.text) < Overhead)
<1>1. PICK l \in TextLengths(p.damage.kind) : IsSeq(p.bytes.payload.text, l)
  BY DEF PacketOK, PayloadOK
<1>2. Len(p.bytes.payload.text) = l /\ l \in Nat
  BY <1>1, SeqOfElements
<1>3. CASE p.damage.kind \in {"none", "payload"}
  <2>1. l = PayloadSize
    BY <1>1, <1>3 DEF TextLengths
  <2> QED BY <1>2, <2>1, PayloadAssumption DEF PacketOK, Overhead
<1> QED BY <1>2, <1>3

LEMMA OutcomeOfBytes ==
  ASSUME NEW p, PacketOK(p), NEW h, HeaderAt(p, h), NEW l, l = Len(p.bytes.payload.text), NEW n, NEW c
  PROVE  /\ l < Overhead =>
              /\ PacketFromBytes(p.bytes).error = "InvalidPacket"
              /\ Computed(n, p.bytes) = Rejected("InvalidPacket")
         /\ ~(l < Overhead) =>
              /\ PacketFromBytes(p.bytes).error = "none" /\ SecretOf(p.bytes) = h.shared_secret
              /\ Computed(n, p.bytes) = Processed(Process(n, h), p.bytes.payload)
              /\ Recalled(p.bytes, c) = Processed(ProcessWith(h, c.keys, c.secret), p.bytes.payload)
<1> DEFINE b == p.bytes
           d == PacketFromBytes(b)
           packet == [header |-> h, payload |-> b.payload]
<1>1. l \in Nat
  BY PayloadLengths
<1>2. d = IF l < Overhead THEN Failure("InvalidPacket") ELSE [error |-> "none", packet |-> packet]
  BY <1>1, PacketParses DEF HeaderAt
<1>3. packet.header = h /\ packet.payload = b.payload
  OBVIOUS
<1> HIDE DEF packet
<1>4. CASE l < Overhead
  <2>1. d.error = "InvalidPacket"
    BY <1>2, <1>4 DEF Failure
  <2> HIDE DEF d
  <2>2. Computed(n, b) = Rejected("InvalidPacket")
    BY <2>1 DEF Computed, d
  <2> QED BY <1>4, <2>1, <2>2 DEF d
<1>5. CASE ~(l < Overhead)
  <2>1. d.error = "none" /\ d.packet = packet
    BY <1>2, <1>5
  <2> HIDE DEF d
  <2>2. Computed(n, b) = ProcessPacket(n, packet)
    BY <2>1 DEF Computed, d
  <2>3. Recalled(b, c) = ProcessPacketWith(packet, c.keys, c.secret)
    BY <2>1 DEF Recalled, d
  <2>4. SecretOf(b) = h.shared_secret
    BY <1>3, <2>1 DEF SecretOf, d
  <2> QED BY <1>3, <1>5, <2>1, <2>2, <2>3, <2>4 DEF ProcessPacket, ProcessPacketWith, d
<1> QED BY <1>4, <1>5

(***************************************************************************)
(* What process() makes of the header at the node it is for.               *)
(***************************************************************************)
Meets(p, secret, h) ==
  LET route == p.request.route
  IN  /\ h = MeantAt(p, secret, p.hop)
      /\ p.hop < Len(route) =>
           Process(p.at, h) =
             [kind |-> "ForwardHop", address |-> Address(route[p.hop + 1]),
              delay |-> Delay(p.request.delays[p.hop]), header |-> MeantAt(p, secret, p.hop + 1),
              payload_key |-> PayloadKey(secret, route, p.hop)]
      /\ p.hop = Len(route) =>
           Process(p.at, h) =
             [kind |-> "FinalHop", address |-> {Destination(p.item).address},
              identifier |-> {Destination(p.item).identifier},
              payload_key |-> PayloadKey(secret, route, p.hop)]

LEMMA MeetsMeant ==
  ASSUME NEW p, PacketOK(p), NEW secret, NEW h, h = MeantAt(p, secret, p.hop)
  PROVE  Meets(p, secret, h)
<1> DEFINE route == p.request.route
           n == Len(route)
           k == p.hop
<1>1. h = MeantAt(p, secret, p.hop)
  OBVIOUS
<1>2. n \in 1..MaxRoute /\ Len(route) = n /\ k \in 1..n /\ p.at = route[k] /\ n \in Nat
  BY Lengths DEF PacketOK, RequestOK
<1> HIDE DEF n, route, k
<1>3. ProcessesAlong(p.item, secret, route, p.request.delays, Destination(p.item), n)
  BY <1>2, RouteProcesses
<1>4. CASE k < n
  <2>1. k \in 1..(n - 1) /\ k # n
    BY <1>2, <1>4
  <2> QED BY <1>1, <1>2, <1>3, <2>1 DEF ProcessesAlong, Meets, MeantAt, route, k, n
<1>5. CASE k = n
  <2>1. ~(k < n)
    BY <1>2, <1>5
  <2> QED BY <1>1, <1>2, <1>3, <1>5, <2>1 DEF ProcessesAlong, Meets, MeantAt, route, k, n
<1> QED BY <1>2, <1>4, <1>5

LEMMA AtItsNode ==
  ASSUME NEW p, PacketOK(p), NEW h, HeaderAt(p, h), p.damage.kind # "header"
  PROVE  \E secret : Meets(p, secret, h)
BY MeetsMeant DEF HeaderAt

LEMMA MeetsKind ==
  ASSUME NEW p, PacketOK(p), NEW secret, NEW h, Meets(p, secret, h)
  PROVE  Process(p.at, h).kind \in {"ForwardHop", "FinalHop"}
<1> DEFINE route == p.request.route
           n == Len(route)
           q == Process(p.at, h)
<1>1. n \in 1..MaxRoute /\ p.hop \in 1..n
  BY DEF PacketOK, RequestOK
<1>2. p.hop < n \/ p.hop = n
  <2> HIDE DEF n
  <2> QED BY <1>1, Lengths
<1>3. CASE p.hop < n
  <2>1. q = [kind |-> "ForwardHop", address |-> Address(route[p.hop + 1]),
             delay |-> Delay(p.request.delays[p.hop]), header |-> MeantAt(p, secret, p.hop + 1),
             payload_key |-> PayloadKey(secret, route, p.hop)]
    BY <1>3 DEF Meets
  <2> HIDE DEF q
  <2> QED BY <2>1 DEF q
<1>4. CASE p.hop = n
  <2>1. q = [kind |-> "FinalHop", address |-> {Destination(p.item).address},
             identifier |-> {Destination(p.item).identifier}, payload_key |-> PayloadKey(secret, route, p.hop)]
    BY <1>4 DEF Meets
  <2> HIDE DEF q
  <2> QED BY <2>1 DEF q
<1> QED BY <1>2, <1>3, <1>4

(***************************************************************************)
(* A packet that is not yet at its last node, with a whole header and a    *)
(* payload that can be read, goes to the next; at the last node it is      *)
(* delivered.  With too short a payload it is an error.                    *)
(***************************************************************************)
LEMMA OutcomeAtItsNode ==
  ASSUME NEW p, PacketOK(p), NEW h, HeaderAt(p, h), NEW secret, Meets(p, secret, h),
         NEW l, l = Len(p.bytes.payload.text),
         NEW o, o = Computed(p.at, p.bytes)
  PROVE  /\ l < Overhead \/ l < CipherBlock => o.kind = "error"
         /\ ~(l < Overhead) /\ ~(l < CipherBlock) /\ p.hop < Len(p.request.route) =>
              o = [kind |-> "ForwardHop", address |-> Address(p.request.route[p.hop + 1]),
                   delay |-> Delay(p.request.delays[p.hop]),
                   packet |-> [header  |-> MeantAt(p, secret, p.hop + 1),
                               payload |-> Decrypt(PayloadKey(secret, p.request.route, p.hop), p.bytes.payload)]]
         /\ ~(l < Overhead) /\ ~(l < CipherBlock) /\ p.hop = Len(p.request.route) =>
              o = [kind |-> "FinalHop", address |-> {Destination(p.item).address},
                   identifier |-> {Destination(p.item).identifier},
                   payload |-> Decrypt(PayloadKey(secret, p.request.route, p.hop), p.bytes.payload)]
<1> DEFINE q == Process(p.at, h)
           d == p.bytes.payload
           key == PayloadKey(secret, p.request.route, p.hop)
<1>1. CASE l < Overhead
  <2>1. o = Rejected("InvalidPacket")
    BY <1>1, OutcomeOfBytes
  <2> QED BY <1>1, <2>1 DEF Rejected
<1>2. CASE ~(l < Overhead)
  <2>1. o = Processed(q, d)
    BY <1>2, OutcomeOfBytes
  <2>2. p.hop < Len(p.request.route) \/ p.hop = Len(p.request.route)
    <3> DEFINE n == Len(p.request.route)
    <3>1. n \in 1..MaxRoute /\ p.hop \in 1..n
      BY DEF PacketOK, RequestOK
    <3> HIDE DEF n
    <3>2. p.hop < n \/ p.hop = n
      BY <3>1, Lengths
    <3> QED BY <3>2 DEF n
  <2>3. CASE p.hop < Len(p.request.route)
    <3>1. q = [kind |-> "ForwardHop", address |-> Address(p.request.route[p.hop + 1]),
               delay |-> Delay(p.request.delays[p.hop]), header |-> MeantAt(p, secret, p.hop + 1),
               payload_key |-> key]
      BY <2>3 DEF Meets
    <3>2. q.kind = "ForwardHop" /\ q.address = Address(p.request.route[p.hop + 1])
          /\ q.delay = Delay(p.request.delays[p.hop]) /\ q.header = MeantAt(p, secret, p.hop + 1)
          /\ q.payload_key = key
      BY <3>1
    <3>3. p.hop # Len(p.request.route)
      <4>1. p.hop \in Int /\ Len(p.request.route) \in Int
        BY Lengths DEF PacketOK, RequestOK
      <4> QED BY <2>3, <4>1
    <3> HIDE DEF q, key, d
    <3>4. CASE l < CipherBlock
      <4>1. o = Rejected("InvalidPayload")
        BY <2>1, <3>2, <3>4, ProcessedCases DEF d
      <4> QED BY <1>2, <3>4, <4>1 DEF Rejected
    <3>5. CASE ~(l < CipherBlock)
      <4>1. o = [kind |-> "ForwardHop", address |-> q.address, delay |-> q.delay,
                 packet |-> [header |-> q.header, payload |-> Decrypt(q.payload_key, d)]]
        BY <2>1, <3>2, <3>5, ProcessedCases DEF d
      <4> QED BY <1>2, <3>2, <3>3, <3>5, <4>1 DEF key, d
    <3> QED BY <3>4, <3>5
  <2>4. CASE p.hop = Len(p.request.route)
    <3>1. q = [kind |-> "FinalHop", address |-> {Destination(p.item).address},
               identifier |-> {Destination(p.item).identifier}, payload_key |-> key]
      BY <2>4 DEF Meets
    <3>2. q.kind = "FinalHop" /\ q.address = {Destination(p.item).address}
          /\ q.identifier = {Destination(p.item).identifier} /\ q.payload_key = key
      BY <3>1
    <3>3. ~(p.hop < Len(p.request.route))
      <4>1. p.hop \in Int /\ Len(p.request.route) \in Int
        BY Lengths DEF PacketOK, RequestOK
      <4> QED BY <2>4, <4>1
    <3> HIDE DEF q, key, d
    <3>4. CASE l < CipherBlock
      <4>1. o = Rejected("InvalidPayload")
        BY <2>1, <3>2, <3>4, ProcessedCases DEF d
      <4> QED BY <1>2, <3>4, <4>1 DEF Rejected
    <3>5. CASE ~(l < CipherBlock)
      <4>1. o = [kind |-> "FinalHop", address |-> q.address, identifier |-> q.identifier,
                 payload |-> Decrypt(q.payload_key, d)]
        BY <2>1, <3>2, <3>5, ProcessedCases DEF d
      <4> QED BY <1>2, <3>2, <3>3, <3>5, <4>1 DEF key, d
    <3> QED BY <3>4, <3>5
  <2> QED BY <2>2, <2>3, <2>4
<1> QED BY <1>1, <1>2

LEMMA ChangedHeaderFails ==
  ASSUME NEW p, PacketOK(p), p.damage.kind = "header"
  PROVE  Computed(p.at, p.bytes).kind = "error"
<1> DEFINE l == Len(p.bytes.payload.text)
<1>1. PICK h : HeaderAt(p, h)
  BY HeaderOfPacket
<1>2. ~Verifies(h.routing_info, ComputeRoutingKeys(h.shared_secret, p.at))
  BY <1>1 DEF HeaderAt
<1>3. Process(p.at, h) = Rejected("integrity MAC")
  BY <1>2 DEF Process
<1>4. \A e : Rejected(e).kind = "error"
  BY DEF Rejected
<1>5. CASE l < Overhead
  BY <1>1, <1>4, <1>5, OutcomeOfBytes
<1>6. CASE ~(l < Overhead)
  <2> DEFINE q == Process(p.at, h)
  <2>1. Computed(p.at, p.bytes) = Processed(q, p.bytes.payload)
    BY <1>1, <1>6, OutcomeOfBytes
  <2>2. q.kind = "error"
    BY <1>3, <1>4
  <2> HIDE DEF q
  <2>3. Processed(q, p.bytes.payload) = q
    BY <2>2, ProcessedCases
  <2> QED BY <2>1, <2>2, <2>3
<1> QED BY <1>5, <1>6

(***************************************************************************)
(* What the property PeelsAsBuilt says of a packet follows.                *)
(***************************************************************************)
LEMMA PacketPeels ==
  ASSUME NEW p, PacketOK(p), p.damage.kind \in {"none", "payload"},
         NEW o, o = Computed(p.at, p.bytes)
  PROVE  /\ p.at = p.request.route[p.hop]
         /\ IF p.hop < Len(p.request.route)
            THEN /\ o.kind = "ForwardHop"
                 /\ o.address = Address(p.request.route[p.hop + 1])
                 /\ o.delay = Delay(p.request.delays[p.hop])
            ELSE /\ o.kind = "FinalHop"
                 /\ o.address = {Destination(p.item).address}
                 /\ o.identifier = {Destination(p.item).identifier}
<1> DEFINE l == Len(p.bytes.payload.text)
           n == Len(p.request.route)
<1>1. PICK h : HeaderAt(p, h)
  BY HeaderOfPacket
<1>2. PICK secret : Meets(p, secret, h)
  BY <1>1, AtItsNode
<1>3. ~(l < Overhead) /\ ~(l < CipherBlock)
  BY PayloadLengths
<1>4. p.hop < n \/ (p.hop = n /\ ~(p.hop < n))
  <2>1. n \in 1..MaxRoute /\ p.hop \in 1..n
    BY DEF PacketOK, RequestOK
  <2> HIDE DEF n
  <2> QED BY <2>1, Lengths
<1>5. p.at = p.request.route[p.hop]
  BY DEF PacketOK
<1> DEFINE d == Decrypt(PayloadKey(secret, p.request.route, p.hop), p.bytes.payload)
<1>6. CASE p.hop < n
  <2>1. o = [kind |-> "ForwardHop", address |-> Address(p.request.route[p.hop + 1]),
             delay |-> Delay(p.request.delays[p.hop]),
             packet |-> [header |-> MeantAt(p, secret, p.hop + 1), payload |-> d]]
    BY <1>1, <1>2, <1>3, <1>6, OutcomeAtItsNode
  <2> QED BY <1>5, <1>6, <2>1
<1>7. CASE p.hop = n /\ ~(p.hop < n)
  <2>1. o = [kind |-> "FinalHop", address |-> {Destination(p.item).address},
             identifier |-> {Destination(p.item).identifier}, payload |-> d]
    BY <1>1, <1>2, <1>3, <1>7, OutcomeAtItsNode
  <2> HIDE DEF d
  <2> QED BY <1>5, <1>7, <2>1
<1> QED BY <1>4, <1>6, <1>7

(***************************************************************************)
(* A packet that a node makes of one that is right is right.  Processing   *)
(* takes a layer off the payload, which leaves its size.                   *)
(***************************************************************************)
LEMMA TurnKeepsText ==
  ASSUME NEW d, d = [text |-> d.text, layers |-> d.layers], NEW layer, NEW undone,
         NEW e, e = Turn(d, layer, undone)
  PROVE  e = [text |-> e.text, layers |-> e.layers] /\ e.text = d.text
<1> DEFINE f(s) == [d EXCEPT !.layers = s]
<1>1. \A s : f(s) = [text |-> d.text, layers |-> s]
  OBVIOUS
<1>2. \E s : e = f(s)
  <2>1. CASE d.layers # <<>> /\ d.layers[Len(d.layers)] = undone
    <3>1. e = f(SubSeq(d.layers, 1, Len(d.layers) - 1))
      BY <2>1 DEF Turn
    <3> QED BY <3>1
  <2>2. CASE ~(d.layers # <<>> /\ d.layers[Len(d.layers)] = undone)
    <3>1. e = f(Append(d.layers, layer))
      BY <2>2 DEF Turn
    <3> QED BY <3>1
  <2> QED BY <2>1, <2>2
<1> HIDE DEF f
<1>3. PICK s : e = [text |-> d.text, layers |-> s]
  BY <1>1, <1>2
<1> QED BY <1>3

LEMMA PayloadKept ==
  ASSUME NEW d, NEW lengths, PayloadOK(d, lengths), NEW key
  PROVE  PayloadOK(Encrypt(key, d), lengths) /\ PayloadOK(Decrypt(key, d), lengths)
BY TurnKeepsText DEF PayloadOK, Encrypt, Decrypt

LEMMA RelayedPacket ==
  ASSUME NEW p, PacketOK(p), NEW o, o = Computed(p.at, p.bytes), o.kind = "ForwardHop",
         NEW m, o.address = Address(m),
         NEW q, q = Under(p.item, p.request, p.hop + 1, m, o.packet, p.damage)
  PROVE  PacketOK(q)
<1> DEFINE l == Len(p.bytes.payload.text)
           n == Len(p.request.route)
           route == p.request.route
<1>1. PICK h : HeaderAt(p, h)
  BY HeaderOfPacket
<1>2. p.damage.kind # "header"
  BY ChangedHeaderFails
<1>3. PICK secret : Meets(p, secret, h)
  BY <1>1, <1>2, AtItsNode
<1>4. n \in 1..MaxRoute /\ p.hop \in 1..n /\ n \in Nat
  BY Lengths DEF PacketOK, RequestOK
<1> DEFINE next == MeantAt(p, secret, p.hop + 1)
           d == Decrypt(PayloadKey(secret, route, p.hop), p.bytes.payload)
<1>5. ~(l < Overhead) /\ ~(l < CipherBlock)
  BY <1>1, <1>3, OutcomeAtItsNode
<1>6. p.hop # n
  <2> SUFFICES ASSUME p.hop = n PROVE FALSE
    OBVIOUS
  <2>1. o = [kind |-> "FinalHop", address |-> {Destination(p.item).address},
             identifier |-> {Destination(p.item).identifier}, payload |-> d]
    BY <1>1, <1>3, <1>5, OutcomeAtItsNode
  <2>2. o.kind = "FinalHop"
    BY <2>1
  <2> QED BY <2>2
<1>7. p.hop < n
  BY <1>4, <1>6
<1>8. o = [kind |-> "ForwardHop", address |-> Address(route[p.hop + 1]),
           delay |-> Delay(p.request.delays[p.hop]), packet |-> [header |-> next, payload |-> d]]
  BY <1>1, <1>3, <1>5, <1>7, OutcomeAtItsNode
<1>9. o.address = Address(route[p.hop + 1]) /\ o.packet.header = next /\ o.packet.payload = d
  BY <1>8
<1>10. m = route[p.hop + 1]
  <2>1. <<"address", m>> = <<"address", route[p.hop + 1]>>
    BY <1>9 DEF Address
  <2> QED BY <2>1
<1>11. /\ q = [item |-> p.item, request |-> p.request, hop |-> p.hop + 1, at |-> m,
               bytes |-> [header |-> HeaderToBytes(next), payload |-> d], damage |-> p.damage]
  BY <1>9 DEF Under, PacketToBytes
<1>12. PayloadOK(d, TextLengths(p.damage.kind))
  BY PayloadKept DEF PacketOK
<1> HIDE DEF next, d
<1>13. /\ q.item = p.item /\ q.request = p.request /\ q.hop = p.hop + 1 /\ q.at = m
       /\ q.bytes = [header |-> HeaderToBytes(next), payload |-> d] /\ q.damage = p.damage
       /\ q.bytes.header = HeaderToBytes(next) /\ q.bytes.payload = d
  BY <1>11
<1>14. HeaderOK(q)
  <2>1. MeantAt(q, secret, q.hop) = next
    BY <1>13 DEF next, MeantAt
  <2> QED BY <1>2, <1>13, <2>1 DEF HeaderOK
<1>15. q.hop \in 1..n
  BY <1>4, <1>7, <1>13
<1>16. q = [item |-> q.item, request |-> q.request, hop |-> q.hop, at |-> q.at, bytes |-> q.bytes,
            damage |-> q.damage]
  BY <1>11, <1>13
<1>17. q.bytes = [header |-> q.bytes.header, payload |-> q.bytes.payload]
  BY <1>13
<1> QED BY <1>10, <1>12, <1>13, <1>14, <1>15, <1>16, <1>17 DEF PacketOK

-------------------------------------------------------------------------------
(***************************************************************************)
(* What is true of everything that a node n remembers.                     *)
(***************************************************************************)
CacheOK(n, c) ==
  /\ c.keys = ComputeRoutingKeys(c.shared_secret, n)
  /\ Clean(c.shared_secret)
  /\ c.secret.known => c.secret.blinded = Blind(c.shared_secret, c.keys.blinding_factor)

LEMMA RememberedIsOK ==
  ASSUME NEW p, PacketOK(p), NEW o, o = Computed(p.at, p.bytes), o.kind # "error"
  PROVE  CacheOK(p.at, Remembered(p.at, SecretOf(p.bytes), o))
<1> DEFINE l == Len(p.bytes.payload.text)
           s == SecretOf(p.bytes)
           c == Remembered(p.at, s, o)
           keys == ComputeRoutingKeys(s, p.at)
<1>1. PICK h : HeaderAt(p, h)
  BY HeaderOfPacket
<1>2. p.damage.kind # "header"
  BY ChangedHeaderFails
<1>3. PICK secret : Meets(p, secret, h)
  BY <1>1, <1>2, AtItsNode
<1>4. ~(l < Overhead) /\ ~(l < CipherBlock)
  BY <1>1, <1>3, OutcomeAtItsNode
<1>5. s = h.shared_secret /\ o = Processed(Process(p.at, h), p.bytes.payload)
  BY <1>1, <1>4, OutcomeOfBytes
<1>6. Clean(s)
  BY <1>1, <1>2, <1>5 DEF HeaderAt
<1>7. o.kind = "ForwardHop" => o.packet.header.shared_secret = Blind(s, keys.blinding_factor)
  <2> SUFFICES ASSUME o.kind = "ForwardHop"
               PROVE  o.packet.header.shared_secret = Blind(s, keys.blinding_factor)
    OBVIOUS
  <2> DEFINE q == Process(p.at, h)
             parsed == Unwrap(h.routing_info.info, keys)
  <2> HIDE DEF q, l, keys
  <2>1. /\ q.kind = "error" => o = q
        /\ q.kind = "ForwardHop" => o.packet.header = q.header
        /\ q.kind = "FinalHop" => o.kind = "FinalHop"
    BY <1>4, <1>5, ProcessedCases DEF q, l
  <2>2. keys = ComputeRoutingKeys(h.shared_secret, p.at)
    BY <1>5 DEF keys
  <2>3. parsed = Unwrap(h.routing_info.info, keys) /\ (NoSecret.known => NoSecret.blinded = Blind(h.shared_secret, keys.blinding_factor))
    BY DEF NoSecret
  <2> HIDE DEF parsed
  <2>4. /\ parsed.kind \in {"ForwardHop", "FinalHop", "unknown routing flag"}
        /\ ~Verifies(h.routing_info, keys) => q = Rejected("integrity MAC")
        /\ Verifies(h.routing_info, keys) /\ parsed.kind = "FinalHop" => q = FinalHop(parsed, keys)
        /\ Verifies(h.routing_info, keys) /\ parsed.kind = "ForwardHop" =>
             q = ForwardHop(Blind(h.shared_secret, keys.blinding_factor), parsed, keys)
        /\ Verifies(h.routing_info, keys) /\ parsed.kind = "unknown routing flag" => q.kind = "error"
    <3>1. ComesTo(p.at, h, keys, parsed, NoSecret)
      BY <2>2, <2>3, ProcessCases
    <3> QED BY <3>1 DEF ComesTo, q
  <2>5. /\ Rejected("integrity MAC").kind = "error" /\ FinalHop(parsed, keys).kind = "FinalHop"
        /\ \A t : /\ ForwardHop(t, parsed, keys).kind = "ForwardHop"
                  /\ ForwardHop(t, parsed, keys).header.shared_secret = t
    BY DEF Rejected, FinalHop, ForwardHop
  <2>6. q = ForwardHop(Blind(h.shared_secret, keys.blinding_factor), parsed, keys)
    BY <2>1, <2>4, <2>5
  <2> QED BY <1>5, <2>1, <2>5, <2>6
<1>8. /\ c.shared_secret = s /\ c.keys = keys
      /\ c.secret = IF o.kind = "ForwardHop" THEN Known(o.packet.header.shared_secret) ELSE NoSecret
  BY DEF Remembered
<1>9. c.secret.known => c.secret.blinded = Blind(s, keys.blinding_factor)
  <2> HIDE DEF c, s, keys
  <2>1. ~NoSecret.known /\ \A t : Known(t).blinded = t
    BY DEF NoSecret, Known
  <2> QED BY <1>7, <1>8, <2>1
<1> HIDE DEF c, s, keys
<1> QED BY <1>6, <1>8, <1>9 DEF CacheOK, c, s, keys

(***************************************************************************)
(* What RecallAgrees says of an outcome computed and of one recalled.      *)
(***************************************************************************)
Agrees(c, computed, recalled) ==
  \/ recalled = computed
  \/ /\ computed.kind = "ForwardHop" \/ computed = Rejected("InvalidPayload")
     /\ ~c.secret.known
     /\ recalled = Rejected("without blinded secret")

(***************************************************************************)
(* What the property RecallAgrees says of a packet and of keys remembered  *)
(* for its secret follows.                                                 *)
(***************************************************************************)
LEMMA RecallingAgrees ==
  ASSUME NEW p, PacketOK(p), NEW c, CacheOK(p.at, c),
         PacketFromBytes(p.bytes).error = "none", c.shared_secret = SecretOf(p.bytes),
         NEW computed, computed = Computed(p.at, p.bytes),
         NEW recalled, recalled = Recalled(p.bytes, c)
  PROVE  Agrees(c, computed, recalled)
<1> DEFINE l == Len(p.bytes.payload.text)
           d == p.bytes.payload
           keys == c.keys
           secret == c.secret
           at == p.at
<1>1. PICK h : HeaderAt(p, h)
  BY HeaderOfPacket
<1> DEFINE q == Process(at, h)
           r == ProcessWith(h, keys, secret)
           parsed == Unwrap(h.routing_info.info, keys)
<1>2. ~(l < Overhead)
  BY <1>1, OutcomeOfBytes
<1>3. h.shared_secret = c.shared_secret /\ computed = Processed(q, d) /\ recalled = Processed(r, d)
  BY <1>1, <1>2, OutcomeOfBytes
<1>4. /\ keys = ComputeRoutingKeys(h.shared_secret, at)
      /\ secret.known => secret.blinded = Blind(h.shared_secret, keys.blinding_factor)
      /\ parsed = Unwrap(h.routing_info.info, keys)
  BY <1>3 DEF CacheOK
<1> DEFINE verified == Verifies(h.routing_info, keys)
<1> HIDE DEF keys, parsed, secret, at
<1>5. /\ parsed.kind \in {"ForwardHop", "FinalHop", "unknown routing flag"}
      /\ ~verified => q = Rejected("integrity MAC") /\ r = Rejected("integrity MAC")
      /\ verified /\ parsed.kind = "FinalHop" => r = q
      /\ verified /\ parsed.kind = "ForwardHop" =>
           /\ q = ForwardHop(Blind(h.shared_secret, keys.blinding_factor), parsed, keys)
           /\ r = IF secret.known THEN q ELSE Rejected("without blinded secret")
      /\ verified /\ parsed.kind = "unknown routing flag" => q.kind = "error"
  <2>1. ComesTo(at, h, keys, parsed, secret)
    BY <1>4, ProcessCases
  <2> QED BY <2>1 DEF ComesTo
<1>6. verified => parsed.kind # "unknown routing flag"
  <2> SUFFICES ASSUME verified, parsed.kind = "unknown routing flag" PROVE FALSE
    OBVIOUS
  <2>1. p.damage.kind # "header"
    BY <1>1, <1>4 DEF HeaderAt, at
  <2>2. PICK s : Meets(p, s, h)
    BY <1>1, <2>1, AtItsNode
  <2>3. q.kind \in {"ForwardHop", "FinalHop"}
    BY <2>2, MeetsKind DEF at
  <2> QED BY <1>5, <2>3
<1> HIDE DEF q, r, verified, d
<1>7. CASE r = q
  BY <1>3, <1>7 DEF Agrees
<1>8. CASE /\ q = ForwardHop(Blind(h.shared_secret, keys.blinding_factor), parsed, keys)
           /\ ~secret.known /\ r = Rejected("without blinded secret")
  <2>1. q.kind = "ForwardHop" /\ r.kind = "error"
    BY <1>8 DEF ForwardHop, Rejected
  <2>2. recalled = r
    BY <1>3, <2>1, ProcessedCases
  <2>3. computed = Rejected("InvalidPayload") \/ computed.kind = "ForwardHop"
    BY <1>3, <2>1, ProcessedCases
  <2> QED BY <1>8, <2>2, <2>3 DEF secret, Agrees
<1> QED BY <1>5, <1>6, <1>7, <1>8

-------------------------------------------------------------------------------
(***************************************************************************)
(* What senders make is right: a packet that is built, a reply block, and  *)
(* the packet that is made of a reply block's bytes.                       *)
(***************************************************************************)
LEMMA EncapsulatedText ==
  ASSUME NEW message, NEW len, IsSeq(message, len), NEW size \in Nat, Valid(size, len),
         NEW keys, NEW n \in Nat, Len(keys) = n
  PROVE  PayloadOK(Encapsulate(message, keys, size), {size})
<1> DEFINE text == SetFinalPayload(message, size)
           P == LayersAdded(Payload(text), keys)
<1>1. LeadingZeros + len + 1 <= size
  <2>1. LeadingZeros \in Nat /\ len \in Nat
    BY PayloadAssumption DEF IsSeq
  <2> QED BY <2>1 DEF Valid, Overhead
<1>2. IsSeq(text, size)
  BY <1>1, FinalPayloadElements
<1>3. Encapsulate(message, keys, size) = P[1]
  BY DEF Encapsulate
<1> HIDE DEF text
<1>4. \A i \in 1..(n + 1) : P[i].text = text /\ Enciphered(P[i], text)
  BY LayersComeOff
<1>5. 1 \in 1..(n + 1)
  OBVIOUS
<1> HIDE DEF P
<1>6. P[1].text = text /\ P[1] = [text |-> text, layers |-> P[1].layers]
  BY <1>4, <1>5 DEF Enciphered, Covered
<1> QED BY <1>2, <1>3, <1>6 DEF PayloadOK

FirstBytes(i, secret, q) ==
  HeaderToBytes(MeantHeader(i, secret, q.route, q.delays, Destination(i), 1))

LEMMA FirstPacket ==
  ASSUME NEW i \in Items, NEW q, RequestOK(q), NEW secret, NEW n, n = q.route[1],
         NEW packet, HeaderToBytes(packet.header) = FirstBytes(i, secret, q),
         PayloadOK(packet.payload, {PayloadSize}), PayloadSize >= Overhead, PayloadSize >= CipherBlock,
         NEW p, p = Under(i, q, 1, n, packet, Intact)
  PROVE  PacketOK(p)
<1>1. p = [item |-> i, request |-> q, hop |-> 1, at |-> n,
           bytes |-> [header |-> FirstBytes(i, secret, q), payload |-> packet.payload],
           damage |-> [kind |-> "none", hop |-> 0]]
  BY DEF Under, PacketToBytes, Intact
<1>2. /\ p.item = i /\ p.request = q /\ p.hop = 1 /\ p.at = n
      /\ p.bytes = [header |-> FirstBytes(i, secret, q), payload |-> packet.payload]
      /\ p.bytes.header = FirstBytes(i, secret, q) /\ p.bytes.payload = packet.payload
      /\ p.damage = [kind |-> "none", hop |-> 0] /\ p.damage.kind = "none"
  BY <1>1
<1>3. HeaderOK(p)
  <2>1. p.bytes.header = HeaderToBytes(MeantAt(p, secret, p.hop))
    BY <1>2 DEF MeantAt, FirstBytes
  <2>2. p.damage.kind # "header"
    BY <1>2
  <2> QED BY <2>1, <2>2 DEF HeaderOK
<1>4. PayloadOK(p.bytes.payload, TextLengths(p.damage.kind))
  BY <1>2 DEF TextLengths
<1>5. p.hop \in 1..Len(p.request.route)
  BY <1>2, Lengths DEF RequestOK
<1>6. p = [item |-> p.item, request |-> p.request, hop |-> p.hop, at |-> p.at, bytes |-> p.bytes,
           damage |-> p.damage]
  BY <1>1, <1>2
<1>7. p.bytes = [header |-> p.bytes.header, payload |-> p.bytes.payload]
  BY <1>2
<1> QED BY <1>2, <1>3, <1>4, <1>5, <1>6, <1>7 DEF PacketOK

LEMMA PlaintextsAreSeqs ==
  ASSUME NEW t, t \in {r.plaintext : r \in Requests} \cup Plaintexts
  PROVE  IsSeq(t, Len(t))
<1>1. t \in Seq({Byte(b) : b \in 0..255})
  BY SphinxAssumption
<1> QED BY <1>1, SeqIsSeq

LEMMA NotPanicking ==
  ASSUME NEW q \in Requests \cup SurbRequests, ~Panics(q.route, q.delays)
  PROVE  RequestOK(q)
<1> DEFINE n == Len(q.route)
<1>1. q.route \in Seq(Nodes)
  BY SphinxAssumption
<1>2. n \in Nat /\ (n = 0 => q.route = <<>>)
  BY <1>1, LenProperties, EmptySeq
<1>3. q.route # <<>> /\ ~(n > MaxRoute) /\ Len(q.delays) = Len(q.route)
  BY DEF Panics
<1>4. n \in 1..MaxRoute
  <2> HIDE DEF n
  <2> QED BY <1>2, <1>3, Lengths
<1> QED BY <1>1, <1>3, <1>4 DEF RequestOK

LEMMA BuiltPacket ==
  ASSUME NEW m \in Messages, NEW q \in Requests, NEW secret,
         NEW made, made = BuildPacket(m, secret, q.plaintext, PayloadSize, q.route, Destination(m), q.delays)
  PROVE  /\ made.error \in {"none", "InvalidPayload", "panic"}
         /\ made.error = "none" => PacketOK(Under(m, q, 1, q.route[1], made.packet, Intact))
<1> DEFINE h == NewHeader(m, secret, q.route, q.delays, Destination(m))
           len == Len(q.plaintext)
           n == Len(q.route)
           packet == [header  |-> h.header, payload |-> Encapsulate(q.plaintext, h.payload_keys, PayloadSize)]
<1>1. CASE Panics(q.route, q.delays) \/ ~Valid(PayloadSize, len)
  <2>1. made \in {Failure("panic"), Failure("InvalidPayload")}
    BY <1>1 DEF BuildPacket
  <2>2. \A e : Failure(e).error = e
    BY DEF Failure
  <2> QED BY <2>1, <2>2
<1>2. CASE ~Panics(q.route, q.delays) /\ Valid(PayloadSize, len)
  <2>1. made = [error |-> "none", packet |-> packet]
    BY <1>2 DEF BuildPacket
  <2>2. made.error = "none" /\ made.packet.header = h.header
        /\ made.packet.payload = Encapsulate(q.plaintext, h.payload_keys, PayloadSize)
    BY <2>1
  <2>3. RequestOK(q)
    BY <1>2, NotPanicking
  <2>4. n \in 1..MaxRoute /\ Len(q.route) = n /\ n \in Nat
    BY <2>3, Lengths DEF RequestOK
  <2> HIDE DEF n
  <2>5. ProcessesAlong(m, secret, q.route, q.delays, Destination(m), n)
    BY <2>4, RouteProcesses
  <2>6. HeaderToBytes(h.header) = FirstBytes(m, secret, q)
        /\ h.payload_keys = [i \in 1..n |-> PayloadKey(secret, q.route, i)]
    BY <2>5 DEF ProcessesAlong, FirstBytes
  <2>7. Len(h.payload_keys) = n
    <3> DEFINE keys == [i \in 1..n |-> PayloadKey(secret, q.route, i)]
    <3>1. IsSeq(keys, n)
      BY <2>4 DEF IsSeq
    <3> HIDE DEF keys
    <3>2. Len(keys) = n
      BY <3>1, SeqOfElements
    <3> QED BY <2>6, <3>2 DEF keys
  <2>8. IsSeq(q.plaintext, len) /\ PayloadSize \in Nat
    BY PlaintextsAreSeqs, SphinxAssumption
  <2> HIDE DEF h, len
  <2>9. PayloadOK(made.packet.payload, {PayloadSize})
    BY <1>2, <2>2, <2>4, <2>7, <2>8, EncapsulatedText
  <2>10. PayloadSize >= Overhead /\ PayloadSize >= CipherBlock
    BY <1>2 DEF Valid
  <2>11. m \in Items /\ HeaderToBytes(made.packet.header) = FirstBytes(m, secret, q)
    BY <2>2, <2>6 DEF Items
  <2>12. PacketOK(Under(m, q, 1, q.route[1], made.packet, Intact))
    BY <2>3, <2>9, <2>10, <2>11, FirstPacket
  <2> QED BY <2>2, <2>12
<1> QED BY <1>1, <1>2

SurbOK(r, s) ==
  /\ s = [request |-> s.request, error |-> s.error, plaintext |-> s.plaintext, bytes |-> s.bytes]
  /\ s.request \in SurbRequests
  /\ s.error \in {"none", "InvalidPayload", "InvalidSURB", "panic"}
  /\ s.error = "none" =>
       /\ RequestOK(s.request)
       /\ s.bytes = SurbToBytes(
            SurbOf(MeantHeader(r, r, s.request.route, s.request.delays, Destination(r), 1),
                   Address(s.request.route[1]),
                   [i \in 1..Len(s.request.route) |-> PayloadKey(r, s.request.route, i)]))

LEMMA NewSurbIsOK ==
  ASSUME NEW r \in Replies, NEW q \in SurbRequests,
         NEW made, made = NewSurb(r, r, q.route, q.delays, Destination(r)),
         NEW bytes, made.error = "none" => bytes = SurbToBytes(made.surb)
  PROVE  SurbOK(r, [request |-> q, error |-> made.error, plaintext |-> None, bytes |-> bytes])
<1> DEFINE h == NewHeader(r, r, q.route, q.delays, Destination(r))
           s == [request |-> q, error |-> made.error, plaintext |-> None, bytes |-> bytes]
           n == Len(q.route)
           ok == ~(q.route = <<>> \/ Len(q.route) # Len(q.delays)) /\ ~Panics(q.route, q.delays)
<1>1. CASE ~ok
  <2>1. made \in {Failure("panic"), Failure("InvalidSURB")}
    BY <1>1 DEF NewSurb
  <2>2. \A e : Failure(e).error = e
    BY DEF Failure
  <2>3. made.error \in {"panic", "InvalidSURB"}
    BY <2>1, <2>2
  <2> QED BY <2>3 DEF SurbOK
<1>2. CASE ok
  <2>1. made = [error |-> "none", surb |-> SurbOf(h.header, Address(q.route[1]), h.payload_keys)]
    BY <1>2 DEF NewSurb, SurbOf
  <2>2. made.error = "none" /\ made.surb = SurbOf(h.header, Address(q.route[1]), h.payload_keys)
    BY <2>1
  <2>3. RequestOK(q)
    BY <1>2, NotPanicking
  <2>4. n \in 1..MaxRoute /\ Len(q.route) = n /\ n \in Nat
    BY <2>3, Lengths DEF RequestOK
  <2> HIDE DEF n
  <2>5. ProcessesAlong(r, r, q.route, q.delays, Destination(r), n)
    BY <2>4, RouteProcesses
  <2>6. /\ h.header = MeantHeader(r, r, q.route, q.delays, Destination(r), 1)
        /\ h.payload_keys = [i \in 1..n |-> PayloadKey(r, q.route, i)]
    BY <2>5 DEF ProcessesAlong
  <2>7. bytes = SurbToBytes(SurbOf(MeantHeader(r, r, q.route, q.delays, Destination(r), 1),
                                   Address(q.route[1]), [i \in 1..n |-> PayloadKey(r, q.route, i)]))
    BY <2>2, <2>6
  <2>8. s.request = q /\ s.error = "none" /\ s.bytes = bytes
        /\ s = [request |-> s.request, error |-> s.error, plaintext |-> s.plaintext, bytes |-> s.bytes]
    BY <2>2
  <2> HIDE DEF s
  <2>9. SurbOK(r, s)
    BY <2>3, <2>4, <2>7, <2>8 DEF SurbOK
  <2> QED BY <2>9 DEF s
<1> QED BY <1>1, <1>2

LEMMA AnsweredPacket ==
  ASSUME NEW r \in Replies, NEW s, SurbOK(r, s), s.error = "none", NEW t \in Plaintexts,
         NEW used, used = UseSurb(SurbFromBytes(s.bytes).surb, t, PayloadSize)
  PROVE  /\ used.error \in {"none", "InvalidPayload"}
         /\ \A n : used.error = "none" /\ used.address = Address(n) =>
              PacketOK(Under(r, s.request, 1, n, used.packet, Intact))
<1> DEFINE q == s.request
           l == Len(q.route)
           h == MeantHeader(r, r, q.route, q.delays, Destination(r), 1)
           keys == [i \in 1..l |-> PayloadKey(r, q.route, i)]
           hop == Address(q.route[1])
           len == Len(t)
<1>1. RequestOK(q) /\ s.bytes = SurbToBytes(SurbOf(h, hop, keys))
  BY DEF SurbOK
<1>2. l \in 1..MaxRoute /\ Len(q.route) = l /\ l \in Nat \ {0} /\ l \in Nat /\ 1 \in 1..l
  BY <1>1, Lengths DEF RequestOK
<1> HIDE DEF l, q
<1>3. IsHeader(h)
  BY <1>2, MeantHeadersAreGood DEF GoodHeader
<1>4. IsSeq(keys, l)
  BY <1>2 DEF IsSeq
<1> HIDE DEF h, keys
<1>5. SurbFromBytes(s.bytes).surb = SurbOf(h, hop, keys)
  <2>1. SurbFromBytes(s.bytes) = [error |-> "none", surb |-> SurbOf(h, hop, keys)]
    BY <1>1, <1>2, <1>3, <1>4, SurbParses
  <2> QED BY <2>1
<1>6. CASE ~Valid(PayloadSize, len)
  <2>1. used = Failure("InvalidPayload")
    BY <1>6 DEF UseSurb
  <2>2. used.error = "InvalidPayload"
    BY <2>1 DEF Failure
  <2> QED BY <2>2
<1>7. CASE Valid(PayloadSize, len)
  <2> DEFINE packet == [header |-> h, payload |-> Encapsulate(t, keys, PayloadSize)]
  <2>1. used = [error |-> "none", packet |-> packet, address |-> hop]
    BY <1>5, <1>7 DEF UseSurb, SurbOf
  <2>2. used.error = "none" /\ used.address = hop /\ used.packet.header = h
        /\ used.packet.payload = Encapsulate(t, keys, PayloadSize)
    BY <2>1
  <2>3. IsSeq(t, len) /\ PayloadSize \in Nat
    BY PlaintextsAreSeqs, SphinxAssumption
  <2>4. Len(keys) = l
    BY <1>4, SeqOfElements
  <2> HIDE DEF len
  <2>5. PayloadOK(used.packet.payload, {PayloadSize})
    BY <1>2, <1>7, <2>2, <2>3, <2>4, EncapsulatedText
  <2>6. PayloadSize >= Overhead /\ PayloadSize >= CipherBlock
    BY <1>7 DEF Valid
  <2>7. r \in Items /\ HeaderToBytes(used.packet.header) = FirstBytes(r, r, q)
    BY <2>2 DEF Items, FirstBytes, h
  <2>8. ASSUME NEW n, used.address = Address(n) PROVE PacketOK(Under(r, q, 1, n, used.packet, Intact))
    <3>1. <<"address", n>> = <<"address", q.route[1]>>
      BY <2>2, <2>8 DEF Address
    <3>2. n = q.route[1]
      BY <3>1
    <3> QED BY <1>1, <2>5, <2>6, <2>7, <3>2, FirstPacket
  <2> QED BY <2>2, <2>8 DEF q
<1> QED BY <1>6, <1>7

-------------------------------------------------------------------------------
(***************************************************************************)
(* A packet that is damaged on the way is as the invariant allows.         *)
(***************************************************************************)
LEMMA DamagedPacket ==
  ASSUME NEW p, PacketOK(p), p.damage = Intact, NEW kind, NEW bytes,
         bytes = [header |-> bytes.header, payload |-> bytes.payload],
         PayloadOK(bytes.payload, TextLengths(kind)),
         \/ kind # "header" /\ bytes.header = p.bytes.header
         \/ kind = "header" /\ \E spot \in Spots : bytes.header = ChangedAt(p.bytes.header, spot),
         NEW q, q = [p EXCEPT !.bytes = bytes, !.damage = [kind |-> kind, hop |-> p.hop]]
  PROVE  PacketOK(q)
<1>1. p = [item |-> p.item, request |-> p.request, hop |-> p.hop, at |-> p.at, bytes |-> p.bytes,
           damage |-> p.damage]
  BY DEF PacketOK
<1>2. q = [item |-> p.item, request |-> p.request, hop |-> p.hop, at |-> p.at, bytes |-> bytes,
           damage |-> [kind |-> kind, hop |-> p.hop]]
  BY <1>1
<1>3. /\ q.item = p.item /\ q.request = p.request /\ q.hop = p.hop /\ q.at = p.at /\ q.bytes = bytes
      /\ q.damage = [kind |-> kind, hop |-> p.hop] /\ q.damage.kind = kind
  BY <1>2
<1>4. p.damage.kind # "header"
  BY DEF Intact
<1>5. PICK secret : p.bytes.header = HeaderToBytes(MeantAt(p, secret, p.hop))
  BY <1>4 DEF PacketOK, HeaderOK
<1>6. MeantAt(q, secret, q.hop) = MeantAt(p, secret, p.hop)
  BY <1>3 DEF MeantAt
<1>7. HeaderOK(q)
  BY <1>3, <1>5, <1>6 DEF HeaderOK
<1>8. q = [item |-> q.item, request |-> q.request, hop |-> q.hop, at |-> q.at, bytes |-> q.bytes,
           damage |-> q.damage]
  BY <1>2, <1>3
<1> QED BY <1>3, <1>7, <1>8 DEF PacketOK

LEMMA HeaderChanges ==
  ASSUME NEW p, PacketOK(p), NEW spot \in Spots, NEW bytes, bytes = Changed(p.bytes, spot)
  PROVE  /\ bytes = [header |-> bytes.header, payload |-> bytes.payload]
         /\ p.damage = Intact => PayloadOK(bytes.payload, TextLengths("header"))
         /\ \E s \in Spots : bytes.header = ChangedAt(p.bytes.header, s)
<1> DEFINE b == p.bytes
<1>1. b = [header |-> b.header, payload |-> b.payload] /\ PayloadOK(b.payload, TextLengths(p.damage.kind))
  BY DEF PacketOK
<1> HIDE DEF b
<1>2. bytes = [b EXCEPT !.header = ChangedAt(b.header, spot)]
  BY <1>1 DEF Changed, ChangedAt, Noisy, b
<1>3. bytes = [header |-> ChangedAt(b.header, spot), payload |-> b.payload]
  BY <1>1, <1>2
<1>4. bytes.header = ChangedAt(b.header, spot) /\ bytes.payload = b.payload
  BY <1>3
<1>5. p.damage = Intact => TextLengths(p.damage.kind) = TextLengths("header")
  BY DEF TextLengths, Intact
<1> QED BY <1>1, <1>3, <1>4, <1>5 DEF b

LEMMA PayloadChanges ==
  ASSUME NEW p, PacketOK(p), NEW bytes, bytes = Garbled(p.bytes)
  PROVE  /\ bytes = [header |-> bytes.header, payload |-> bytes.payload]
         /\ p.damage = Intact => PayloadOK(bytes.payload, TextLengths("payload"))
         /\ bytes.header = p.bytes.header
<1> DEFINE b == p.bytes
           d == Encrypt(<<"noise">>, b.payload)
<1>1. b = [header |-> b.header, payload |-> b.payload] /\ PayloadOK(b.payload, TextLengths(p.damage.kind))
  BY DEF PacketOK
<1>2. PayloadOK(d, TextLengths(p.damage.kind))
  BY <1>1, PayloadKept
<1> HIDE DEF b, d
<1>3. bytes = [b EXCEPT !.payload = d]
  BY DEF Garbled, b, d
<1>4. bytes = [header |-> b.header, payload |-> d]
  BY <1>1, <1>3
<1>5. bytes.header = b.header /\ bytes.payload = d
  BY <1>4
<1>6. p.damage = Intact => TextLengths(p.damage.kind) = TextLengths("payload")
  BY DEF TextLengths, Intact
<1> QED BY <1>2, <1>4, <1>5, <1>6 DEF b

LEMMA PacketIsCut ==
  ASSUME NEW p, PacketOK(p), p.damage = Intact, NEW length \in Cuts, NEW bytes, bytes = CutTo(p.bytes, length)
  PROVE  /\ bytes = [header |-> bytes.header, payload |-> bytes.payload]
         /\ PayloadOK(bytes.payload, TextLengths("cut"))
         /\ bytes.header = p.bytes.header
<1> DEFINE b == p.bytes
           c == b.payload
           s == SubSeq(c.text, 1, length)
           e == [text |-> s, layers |-> c.layers]
           d == Encrypt(<<"noise">>, e)
<1>1. b = [header |-> b.header, payload |-> c] /\ PayloadOK(c, TextLengths(p.damage.kind))
  BY DEF PacketOK
<1>2. TextLengths(p.damage.kind) = {PayloadSize} /\ TextLengths("cut") = Cuts
  BY DEF TextLengths, Intact
<1>3. IsSeq(c.text, PayloadSize) /\ c = [text |-> c.text, layers |-> c.layers]
  BY <1>1, <1>2 DEF PayloadOK
<1>4. IsSeq(s, length)
  <2>1. PayloadSize \in Nat /\ length \in 0..(PayloadSize - 1)
    BY SphinxAssumption
  <2>2. length \in 0..PayloadSize /\ length \in Nat /\ 1 \in Nat \ {0} /\ 1 <= length + 1 /\ length - 1 + 1 = length
    BY <2>1
  <2>3. IsPart(s, c.text, 1, length)
    BY <1>3, <2>2, PartElements
  <2> QED BY <2>2, <2>3 DEF IsPart
<1>5. [c EXCEPT !.text = s] = e
  <2> HIDE DEF c, s
  <2> QED BY <1>3 DEF c
<1>6. e.text = s /\ e.layers = c.layers
  OBVIOUS
<1>7. PayloadOK(e, Cuts)
  <2> HIDE DEF s, c
  <2>1. IsSeq(e.text, length) /\ e = [text |-> e.text, layers |-> e.layers]
    BY <1>4, <1>6
  <2> HIDE DEF e
  <2> QED BY <2>1 DEF PayloadOK
<1> HIDE DEF e
<1>8. PayloadOK(d, Cuts)
  BY <1>7, PayloadKept
<1>9. bytes = [b EXCEPT !.payload = d]
  <2> DEFINE f == [c EXCEPT !.text = SubSeq(c.text, 1, length)]
  <2>1. bytes = [b EXCEPT !.payload = Encrypt(<<"noise">>, f)]
    BY DEF CutTo
  <2>2. f = e
    BY <1>5
  <2> HIDE DEF f, b, c, s
  <2> QED BY <2>1, <2>2
<1> HIDE DEF b, d, c, s
<1>10. bytes = [header |-> b.header, payload |-> d]
  BY <1>1, <1>9
<1>11. bytes.header = b.header /\ bytes.payload = d
  BY <1>10
<1> QED BY <1>2, <1>8, <1>10, <1>11 DEF b

LEMMA PacketAtNode ==
  ASSUME NEW p, PacketOK(p)
  PROVE  p.at \in Nodes /\ p.hop \in 1..MaxRoute
<1> DEFINE route == p.request.route
           n == Len(route)
           hop == p.hop
<1>1. route \in Seq(Nodes) /\ n \in 1..MaxRoute /\ hop \in 1..n /\ p.at = route[hop]
  BY SphinxAssumption DEF PacketOK, RequestOK
<1>2. route[hop] \in Nodes
  BY <1>1, ElementOfSeq
<1> HIDE DEF n, hop
<1>3. hop \in 1..MaxRoute
  BY <1>1, Lengths
<1> QED BY <1>1, <1>2, <1>3 DEF hop

-------------------------------------------------------------------------------
(***************************************************************************)
(* The invariant.                                                          *)
(***************************************************************************)
BuiltOK(x) == x.request \in Requests /\ x.error \in {"none", "InvalidPayload", "panic"}

NetworkInv ==
  /\ built = [m \in Messages |-> built[m]]
  /\ \A m \in Messages : built[m] = None \/ BuiltOK(built[m])
  /\ surbs = [r \in Replies |-> surbs[r]]
  /\ \A r \in Replies : surbs[r] = None \/ SurbOK(r, surbs[r])
  /\ \A p \in packets : PacketOK(p)
  /\ caches = [n \in Nodes |-> caches[n]]
  /\ \A n \in Nodes : \A c \in caches[n] : CacheOK(n, c)
  /\ lost \subseteq Items

LEMMA NetworkInvInit == Init => NetworkInv
BY DEF Init, NetworkInv

LEMMA BuildKeeps ==
  ASSUME NetworkInv, NEW m \in Messages, NEW request \in Requests, Build(m, request)
  PROVE  NetworkInv'
<1> DEFINE secret == IF request.shared THEN Reused ELSE m
           made == BuildPacket(m, secret, request.plaintext, PayloadSize, request.route,
                               Destination(m), request.delays)
           p == Under(m, request, 1, request.route[1], made.packet, Intact)
           x == [request |-> request, error |-> made.error]
<1>1. /\ built' = [built EXCEPT ![m] = x]
      /\ packets' = IF made.error = "none" THEN packets \cup {p} ELSE packets
      /\ UNCHANGED <<surbs, caches, lost>>
  BY DEF Build
<1> HIDE DEF secret
<1>2. made.error \in {"none", "InvalidPayload", "panic"} /\ (made.error = "none" => PacketOK(p))
  BY BuiltPacket
<1>3. x.request = request /\ x.error = made.error
  OBVIOUS
<1> HIDE DEF made, p, x
<1>4. BuiltOK(x)
  BY <1>2, <1>3 DEF BuiltOK
<1>5. built' = [i \in Messages |-> built'[i]] /\ \A i \in Messages : built'[i] = None \/ BuiltOK(built'[i])
  BY <1>1, <1>4 DEF NetworkInv
<1>6. \A q \in packets' : PacketOK(q)
  BY <1>1, <1>2 DEF NetworkInv
<1> QED BY <1>1, <1>5, <1>6 DEF NetworkInv

LEMMA CreateSurbKeeps ==
  ASSUME NetworkInv, NEW r \in Replies, NEW request \in SurbRequests, CreateSurb(r, request)
  PROVE  NetworkInv'
<1> DEFINE made == NewSurb(r, r, request.route, request.delays, Destination(r))
           bytes == IF made.error = "none" THEN SurbToBytes(made.surb) ELSE <<>>
           x == [request |-> request, error |-> made.error, plaintext |-> None, bytes |-> bytes]
<1>1. surbs' = [surbs EXCEPT ![r] = x] /\ UNCHANGED <<built, packets, caches, lost>>
  BY DEF CreateSurb, Created
<1>2. made.error = "none" => bytes = SurbToBytes(made.surb)
  OBVIOUS
<1> HIDE DEF bytes
<1>3. SurbOK(r, x)
  BY <1>2, NewSurbIsOK
<1> HIDE DEF x
<1>4. surbs' = [i \in Replies |-> surbs'[i]] /\ \A i \in Replies : surbs'[i] = None \/ SurbOK(i, surbs'[i])
  BY <1>1, <1>3 DEF NetworkInv
<1> QED BY <1>1, <1>4 DEF NetworkInv

LEMMA AnswerKeeps ==
  ASSUME NetworkInv, NEW r \in Replies, NEW plaintext \in Plaintexts, Answer(r, plaintext)
  PROVE  NetworkInv'
<1> DEFINE s == surbs[r]
           used == UseSurb(SurbFromBytes(s.bytes).surb, plaintext, PayloadSize)
           x == [s EXCEPT !.plaintext = plaintext, !.error = used.error]
<1>1. /\ s # None /\ s.error = "none"
      /\ surbs' = [surbs EXCEPT ![r].plaintext = plaintext, ![r].error = used.error]
      /\ IF used.error = "none"
         THEN \E n \in Nodes : /\ used.address = Address(n)
                               /\ packets' = packets \cup {Under(r, s.request, 1, n, used.packet, Intact)}
         ELSE UNCHANGED packets
      /\ UNCHANGED <<built, caches, lost>>
  BY DEF Answer
<1>2. SurbOK(r, s)
  BY <1>1 DEF NetworkInv
<1> HIDE DEF s
<1>3. /\ used.error \in {"none", "InvalidPayload"}
      /\ \A n : used.error = "none" /\ used.address = Address(n) =>
           PacketOK(Under(r, s.request, 1, n, used.packet, Intact))
  BY <1>1, <1>2, AnsweredPacket
<1> HIDE DEF used
<1>4. \A q \in packets' : PacketOK(q)
  BY <1>1, <1>3 DEF NetworkInv
<1>5. x = [request |-> s.request, error |-> used.error, plaintext |-> plaintext, bytes |-> s.bytes]
  <2> HIDE DEF x
  <2>1. s = [request |-> s.request, error |-> s.error, plaintext |-> s.plaintext, bytes |-> s.bytes]
    BY <1>2 DEF SurbOK
  <2> DEFINE y == [s EXCEPT !.plaintext = plaintext]
  <2>2. y = [request |-> s.request, error |-> s.error, plaintext |-> plaintext, bytes |-> s.bytes]
    BY <2>1
  <2>3. x = [y EXCEPT !.error = used.error]
    BY <2>1 DEF x
  <2> HIDE DEF y
  <2> QED BY <2>2, <2>3
<1>6. x.request = s.request /\ x.error = used.error /\ x.plaintext = plaintext /\ x.bytes = s.bytes
  BY <1>5
<1>7. surbs' = [surbs EXCEPT ![r] = x]
  BY <1>1 DEF NetworkInv, s
<1> HIDE DEF x
<1>8. SurbOK(r, x)
  BY <1>1, <1>2, <1>3, <1>5, <1>6 DEF SurbOK
<1>9. surbs' = [i \in Replies |-> surbs'[i]] /\ \A i \in Replies : surbs'[i] = None \/ SurbOK(i, surbs'[i])
  BY <1>7, <1>8 DEF NetworkInv
<1> QED BY <1>1, <1>4, <1>9 DEF NetworkInv

LEMMA HandledPackets ==
  ASSUME NetworkInv, NEW p \in packets, NEW o, o.kind = "ForwardHop" => o = Computed(p.at, p.bytes),
         Handle(p, o)
  PROVE  \A q \in packets' : PacketOK(q)
<1>1. PacketOK(p) /\ \A q \in packets : PacketOK(q)
  BY DEF NetworkInv
<1>2. CASE Relayed(p, o)
  <2>1. o.kind = "ForwardHop" /\ o = Computed(p.at, p.bytes)
    BY <1>2 DEF Relayed
  <2>2. PICK n \in Nodes :
          /\ o.address = Address(n)
          /\ packets' = (packets \ {p}) \cup {Under(p.item, p.request, p.hop + 1, n, o.packet, p.damage)}
    BY <1>2 DEF Relayed
  <2>3. PacketOK(Under(p.item, p.request, p.hop + 1, n, o.packet, p.damage))
    BY <1>1, <2>1, <2>2, RelayedPacket
  <2> QED BY <1>1, <2>2, <2>3
<1>3. CASE Recovered(p, o)
  BY <1>1, <1>3 DEF Recovered
<1>4. CASE Refuse(p, o)
  BY <1>1, <1>4 DEF Refuse
<1> QED BY <1>2, <1>3, <1>4 DEF Handle

LEMMA ComputeKeeps ==
  ASSUME NetworkInv, NEW p \in packets, Compute(p)
  PROVE  NetworkInv'
<1> DEFINE o == Computed(p.at, p.bytes)
           c == Remembered(p.at, SecretOf(p.bytes), o)
           at == p.at
<1>1. /\ Handle(p, o)
      /\ caches' = IF o.kind = "error" THEN caches ELSE [caches EXCEPT ![at] = caches[at] \cup {c}]
      /\ UNCHANGED <<built, surbs, lost>>
  BY DEF Compute
<1>2. PacketOK(p)
  BY DEF NetworkInv
<1>3. \A q \in packets' : PacketOK(q)
  BY <1>1, HandledPackets
<1>4. o.kind # "error" => CacheOK(at, c)
  BY <1>2, RememberedIsOK
<1> HIDE DEF o, c, at
<1>5. caches' = [n \in Nodes |-> caches'[n]] /\ \A n \in Nodes : \A x \in caches'[n] : CacheOK(n, x)
  <2>1. caches = [n \in Nodes |-> caches[n]] /\ \A n \in Nodes : \A x \in caches[n] : CacheOK(n, x)
    BY DEF NetworkInv
  <2>2. CASE o.kind = "error"
    BY <1>1, <2>1, <2>2
  <2>3. CASE o.kind # "error"
    <3>1. caches' = [caches EXCEPT ![at] = caches[at] \cup {c}]
      BY <1>1, <2>3
    <3>2. caches' = [n \in Nodes |-> IF n = at THEN caches[at] \cup {c} ELSE caches[n]]
      BY <2>1, <3>1
    <3>3. \A n \in Nodes : caches'[n] = IF n = at THEN caches[at] \cup {c} ELSE caches[n]
      BY <3>2
    <3>4. caches' = [n \in Nodes |-> caches'[n]]
      BY <3>2, <3>3
    <3> QED BY <1>4, <2>1, <2>3, <3>3, <3>4
  <2> QED BY <2>2, <2>3
<1> QED BY <1>1, <1>3, <1>5 DEF NetworkInv

LEMMA RecallKeeps ==
  ASSUME NetworkInv, NEW p \in packets, Recall(p)
  PROVE  NetworkInv'
<1>1. PICK c \in caches[p.at] :
        PacketFromBytes(p.bytes).error = "none" /\ c.shared_secret = SecretOf(p.bytes)
        /\ Handle(p, Recalled(p.bytes, c))
  BY DEF Recall
<1>2. PacketOK(p) /\ p.at \in Nodes /\ CacheOK(p.at, c)
  <2>1. PacketOK(p)
    BY DEF NetworkInv
  <2>2. p.at \in Nodes
    BY <2>1, PacketAtNode
  <2> QED BY <2>1, <2>2 DEF NetworkInv
<1> DEFINE o == Recalled(p.bytes, c)
<1>3. o.kind = "ForwardHop" => o = Computed(p.at, p.bytes)
  <2>1. \/ o = Computed(p.at, p.bytes)
        \/ o = Rejected("without blinded secret")
    <3> DEFINE m == Computed(p.at, p.bytes)
    <3>1. PacketFromBytes(p.bytes).error = "none" /\ c.shared_secret = SecretOf(p.bytes)
      BY <1>1
    <3> HIDE DEF m, o
    <3>2. m = Computed(p.at, p.bytes) /\ o = Recalled(p.bytes, c)
      BY DEF m, o
    <3>3. Agrees(c, m, o)
      BY <1>2, <3>1, <3>2, RecallingAgrees
    <3> QED BY <3>3 DEF m, Agrees
  <2>2. Rejected("without blinded secret").kind = "error"
    BY DEF Rejected
  <2> HIDE DEF o
  <2> QED BY <2>1, <2>2
<1>4. \A q \in packets' : PacketOK(q)
  BY <1>1, <1>3, HandledPackets
<1>5. UNCHANGED <<built, surbs, caches, lost>>
  BY DEF Recall
<1> QED BY <1>4, <1>5 DEF NetworkInv

LEMMA LoseKeeps ==
  ASSUME NetworkInv, NEW p \in packets, Lose(p)
  PROVE  NetworkInv'
<1>1. /\ packets' = packets \ {p} /\ lost' = lost \cup {p.item}
      /\ UNCHANGED <<built, surbs, caches>>
  BY DEF Lose
<1>2. p.item \in Items
  BY DEF NetworkInv, PacketOK
<1> QED BY <1>1, <1>2 DEF NetworkInv

LEMMA DamageKeeps ==
  ASSUME NetworkInv, NEW p \in packets, NEW kind, NEW bytes, Damaged(p, kind, bytes),
         bytes = [header |-> bytes.header, payload |-> bytes.payload],
         PayloadOK(bytes.payload, TextLengths(kind)),
         \/ kind # "header" /\ bytes.header = p.bytes.header
         \/ kind = "header" /\ \E spot \in Spots : bytes.header = ChangedAt(p.bytes.header, spot)
  PROVE  NetworkInv'
<1> DEFINE q == [p EXCEPT !.bytes = bytes, !.damage = [kind |-> kind, hop |-> p.hop]]
<1>1. /\ packets' = (packets \ {p}) \cup {q} /\ p.damage = Intact
      /\ UNCHANGED <<built, surbs, caches, lost>>
  BY DEF Damaged
<1>2. PacketOK(p)
  BY DEF NetworkInv
<1>3. PacketOK(q)
  BY <1>1, <1>2, DamagedPacket
<1> HIDE DEF q
<1> QED BY <1>1, <1>3 DEF NetworkInv

LEMMA ChangeHeaderKeeps ==
  ASSUME NetworkInv, NEW p \in packets, ChangeHeader(p)
  PROVE  NetworkInv'
<1>1. PICK spot \in Spots : Damaged(p, "header", Changed(p.bytes, spot))
  BY DEF ChangeHeader
<1> DEFINE bytes == Changed(p.bytes, spot)
<1>2. PacketOK(p) /\ p.damage = Intact
  BY <1>1 DEF NetworkInv, Damaged
<1>3. /\ bytes = [header |-> bytes.header, payload |-> bytes.payload]
      /\ PayloadOK(bytes.payload, TextLengths("header"))
      /\ \E s \in Spots : bytes.header = ChangedAt(p.bytes.header, s)
  BY <1>2, HeaderChanges
<1>4. Damaged(p, "header", bytes)
  BY <1>1
<1> HIDE DEF bytes
<1> QED BY <1>3, <1>4, DamageKeeps

LEMMA ChangePayloadKeeps ==
  ASSUME NetworkInv, NEW p \in packets, ChangePayload(p)
  PROVE  NetworkInv'
<1> DEFINE bytes == Garbled(p.bytes)
<1>1. Damaged(p, "payload", bytes)
  BY DEF ChangePayload
<1>2. PacketOK(p) /\ p.damage = Intact
  BY <1>1 DEF NetworkInv, Damaged
<1>3. /\ bytes = [header |-> bytes.header, payload |-> bytes.payload]
      /\ PayloadOK(bytes.payload, TextLengths("payload"))
      /\ bytes.header = p.bytes.header
  BY <1>2, PayloadChanges
<1> HIDE DEF bytes
<1> QED BY <1>1, <1>3, DamageKeeps

LEMMA CutShortKeeps ==
  ASSUME NetworkInv, NEW p \in packets, CutShort(p)
  PROVE  NetworkInv'
<1>1. PICK length \in Cuts : Damaged(p, "cut", CutTo(p.bytes, length))
  BY DEF CutShort
<1> DEFINE bytes == CutTo(p.bytes, length)
<1>2. PacketOK(p) /\ p.damage = Intact
  BY <1>1 DEF NetworkInv, Damaged
<1>3. /\ bytes = [header |-> bytes.header, payload |-> bytes.payload]
      /\ PayloadOK(bytes.payload, TextLengths("cut"))
      /\ bytes.header = p.bytes.header
  BY <1>2, PacketIsCut
<1>4. Damaged(p, "cut", bytes)
  BY <1>1
<1> HIDE DEF bytes
<1> QED BY <1>3, <1>4, DamageKeeps

LEMMA NetworkInvKept == NetworkInv /\ [Next]_vars => NetworkInv'
<1> SUFFICES ASSUME NetworkInv, [Next]_vars PROVE NetworkInv'
  OBVIOUS
<1>1. CASE \E m \in Messages, request \in Requests : Build(m, request)
  BY <1>1, BuildKeeps
<1>2. CASE \E r \in Replies, request \in SurbRequests : CreateSurb(r, request)
  BY <1>2, CreateSurbKeeps
<1>3. CASE \E r \in Replies, plaintext \in Plaintexts : Answer(r, plaintext)
  BY <1>3, AnswerKeeps
<1>4. CASE \E p \in packets : Compute(p)
  BY <1>4, ComputeKeeps
<1>5. CASE \E p \in packets : Recall(p)
  BY <1>5, RecallKeeps
<1>6. CASE \E p \in packets : Lose(p)
  BY <1>6, LoseKeeps
<1>7. CASE \E p \in packets : ChangeHeader(p)
  BY <1>7, ChangeHeaderKeeps
<1>8. CASE \E p \in packets : ChangePayload(p)
  BY <1>8, ChangePayloadKeeps
<1>9. CASE \E p \in packets : CutShort(p)
  BY <1>9, CutShortKeeps
<1>10. CASE UNCHANGED vars
  BY <1>10 DEF vars, NetworkInv
<1> QED BY <1>1, <1>2, <1>3, <1>4, <1>5, <1>6, <1>7, <1>8, <1>9, <1>10 DEF Next

LEMMA NetworkInvAlways == Spec => []NetworkInv
BY NetworkInvInit, NetworkInvKept, PTL DEF Spec

-------------------------------------------------------------------------------
(***************************************************************************)
(* What the invariant says of every packet under way, for routes of any    *)
(* length, any number of nodes, packets and reply blocks, and packets      *)
(* damaged anywhere.                                                       *)
(***************************************************************************)
(***************************************************************************)
(* At every node of its route, process() finds what was meant for it.      *)
(***************************************************************************)
THEOREM PeelsAsBuiltAlways == Spec => []PeelsAsBuilt
<1>1. NetworkInv => PeelsAsBuilt
  <2> SUFFICES ASSUME NetworkInv, NEW p \in packets, p.damage.kind \in {"none", "payload"}
               PROVE  /\ p.at = p.request.route[p.hop]
                      /\ IF p.hop < Len(p.request.route)
                         THEN /\ Computed(p.at, p.bytes).kind = "ForwardHop"
                              /\ Computed(p.at, p.bytes).address = Address(p.request.route[p.hop + 1])
                              /\ Computed(p.at, p.bytes).delay = Delay(p.request.delays[p.hop])
                         ELSE /\ Computed(p.at, p.bytes).kind = "FinalHop"
                              /\ Computed(p.at, p.bytes).address = {Destination(p.item).address}
                              /\ Computed(p.at, p.bytes).identifier = {Destination(p.item).identifier}
    BY DEF PeelsAsBuilt
  <2>1. PacketOK(p)
    BY DEF NetworkInv
  <2> QED BY <2>1, PacketPeels
<1> QED BY <1>1, NetworkInvAlways, PTL

(***************************************************************************)
(* Routing keys that a node remembers for a packet's secret serve as those *)
(* that it would compute.                                                  *)
(***************************************************************************)
THEOREM RecallAgreesAlways == Spec => []RecallAgrees
<1>1. NetworkInv => RecallAgrees
  <2> SUFFICES ASSUME NetworkInv, NEW p \in packets, NEW c \in caches[p.at],
                      PacketFromBytes(p.bytes).error = "none", c.shared_secret = SecretOf(p.bytes)
               PROVE  Agrees(c, Computed(p.at, p.bytes), Recalled(p.bytes, c))
    BY DEF RecallAgrees, Agrees
  <2>1. PacketOK(p)
    BY DEF NetworkInv
  <2>2. p.at \in Nodes
    BY <2>1, PacketAtNode
  <2>3. CacheOK(p.at, c)
    BY <2>2 DEF NetworkInv
  <2> QED BY <2>1, <2>3, RecallingAgrees
<1> QED BY <1>1, NetworkInvAlways, PTL

(***************************************************************************)
(* A node that a packet is not at rejects it by its MAC, with the keys it  *)
(* computes and with any that it remembers.                                *)
(***************************************************************************)
LEMMA PacketOnlyForItsNode ==
  ASSUME NEW p, PacketOK(p), PacketFromBytes(p.bytes).error = "none", NEW n, n # p.at,
         NEW c, CacheOK(n, c)
  PROVE  /\ Computed(n, p.bytes) = Rejected("integrity MAC")
         /\ Recalled(p.bytes, c) = Rejected("integrity MAC")
<1>1. PICK h : HeaderAt(p, h)
  BY HeaderOfPacket
<1> DEFINE l == Len(p.bytes.payload.text)
           d == p.bytes.payload
           q == Process(n, h)
           r == ProcessWith(h, c.keys, c.secret)
           no == Rejected("integrity MAC")
<1>2. /\ ~(l < Overhead)
      /\ Computed(n, p.bytes) = Processed(q, d) /\ Recalled(p.bytes, c) = Processed(r, d)
  <2>1. ~(l < Overhead)
    <3>1. "InvalidPacket" # "none"
      OBVIOUS
    <3> QED BY <1>1, <3>1, OutcomeOfBytes
  <2> QED BY <1>1, <2>1, OutcomeOfBytes
<1>3. NotFor(h, n)
  BY <1>1 DEF HeaderAt
<1>4. ~Verifies(h.routing_info, ComputeRoutingKeys(h.shared_secret, n)) /\ ~Verifies(h.routing_info, c.keys)
  BY <1>3 DEF NotFor, CacheOK
<1>5. q = no /\ r = no
  BY <1>4 DEF Process, ProcessWith
<1>6. no.kind = "error"
  BY DEF Rejected
<1> HIDE DEF q, r, no, d
<1>7. Processed(no, d) = no
  BY <1>6, ProcessedCases
<1> QED BY <1>2, <1>5, <1>7 DEF no

THEOREM OnlyForItsNodeAlways == Spec => []OnlyForItsNode
<1>1. NetworkInv => OnlyForItsNode
  <2> SUFFICES ASSUME NetworkInv, NEW p \in packets, PacketFromBytes(p.bytes).error = "none",
                      NEW n \in Nodes \ {p.at}
               PROVE  /\ Computed(n, p.bytes) = Rejected("integrity MAC")
                      /\ \A c \in caches[n] : Recalled(p.bytes, c) = Rejected("integrity MAC")
    BY DEF OnlyForItsNode
  <2>1. PacketOK(p)
    BY DEF NetworkInv
  <2>2. \A c \in caches[n] : CacheOK(n, c)
    BY DEF NetworkInv
  <2>3. \A c \in caches[n] : Recalled(p.bytes, c) = Rejected("integrity MAC")
    BY <2>1, <2>2, PacketOnlyForItsNode
  <2>4. Computed(n, p.bytes) = Rejected("integrity MAC")
    <3> DEFINE c == [shared_secret |-> {}, keys |-> ComputeRoutingKeys({}, n), secret |-> NoSecret]
    <3>1. CacheOK(n, c)
      BY DEF CacheOK, NoSecret, Clean
    <3> HIDE DEF c
    <3> QED BY <2>1, <3>1, PacketOnlyForItsNode
  <2> QED BY <2>3, <2>4
<1> QED BY <1>1, NetworkInvAlways, PTL

(***************************************************************************)
(* Types: packets keep the lengths of the code's arrays.                   *)
(***************************************************************************)
THEOREM NetworkTypes == Spec => []TypeOK
<1>1. NetworkInv => TypeOK
  <2> SUFFICES ASSUME NetworkInv PROVE TypeOK
    OBVIOUS
  <2>1. \A m \in Messages : built[m] = None \/
          (built[m].request \in Requests /\ built[m].error \in {"none", "InvalidPayload", "panic"})
    BY DEF NetworkInv, BuiltOK
  <2>2. \A r \in Replies : surbs[r] = None \/
          (/\ surbs[r].request \in SurbRequests
           /\ surbs[r].error \in {"none", "InvalidPayload", "InvalidSURB", "panic"})
    BY DEF NetworkInv, SurbOK
  <2>3. ASSUME NEW p \in packets
        PROVE  /\ p.item \in Items /\ p.at \in Nodes /\ p.hop \in 1..MaxRoute
               /\ Len(p.bytes.header) = HeaderLength
               /\ Len(p.bytes.payload.text) \in (IF p.damage.kind = "cut" THEN Cuts ELSE {PayloadSize})
    <3>1. PacketOK(p)
      BY DEF NetworkInv
    <3>2. p.item \in Items /\ p.at \in Nodes /\ p.hop \in 1..MaxRoute
      BY <3>1, PacketAtNode DEF PacketOK
    <3>3. PICK h : HeaderAt(p, h)
      BY <3>1, HeaderOfPacket
    <3>4. IsSeq(p.bytes.header, HeaderLength)
      BY <3>3 DEF HeaderAt
    <3>5. Len(p.bytes.header) = HeaderLength
      BY <3>4, SeqOfElements
    <3>6. PICK l \in TextLengths(p.damage.kind) : IsSeq(p.bytes.payload.text, l)
      BY <3>1 DEF PacketOK, PayloadOK
    <3>7. Len(p.bytes.payload.text) = l
      BY <3>6, SeqOfElements
    <3> QED BY <3>2, <3>5, <3>6, <3>7 DEF TextLengths
  <2>4. lost \subseteq Items
    BY DEF NetworkInv
  <2> QED BY <2>1, <2>2, <2>3, <2>4 DEF TypeOK
<1> QED BY <1>1, NetworkInvAlways, PTL

-------------------------------------------------------------------------------
(***************************************************************************)
(* The way of an item, from its sending to its end.  What was sent, with   *)
(* which initial secret, along which route, saying what:                   *)
(***************************************************************************)
SecretFor(i, request) == IF i \in Messages /\ request.shared THEN Reused ELSE i

RequestOf(i) == IF i \in Messages THEN built[i].request ELSE surbs[i].request

PlaintextOf(i) == IF i \in Messages THEN built[i].request.plaintext ELSE surbs[i].plaintext

SentItem(i) ==
  \/ i \in Messages /\ built[i] # None /\ built[i].error = "none"
  \/ i \in Replies /\ surbs[i] # None /\ surbs[i].error = "none" /\ surbs[i].plaintext # None

Unfinished(i) == received[i] = None /\ i \notin lost /\ \A r \in refused : r.item # i

PayloadAt(secret, route, t, hop) ==
  LayersAdded(Payload(SetFinalPayload(t, PayloadSize)),
              [j \in 1..Len(route) |-> PayloadKey(secret, route, j)])[hop]

(***************************************************************************)
(* A payload that was changed or cut on the way has a last layer that no   *)
(* node takes off: the noise, or what the nodes since have put on it.      *)
(***************************************************************************)
SpoiledBy(d, m) ==
  /\ m \in Nat \ {0} /\ IsSeq(d.layers, m)
  /\ d.layers[m] = <<"enc", <<"noise">> >> \/ \E key : d.layers[m] = <<"dec", key>>

Spoiled(d) == \E m \in Nat \ {0} : SpoiledBy(d, m)

(***************************************************************************)
(* A packet made from request q and plaintext t is on the way that was     *)
(* meant for it, except for what damage was done to it, if any.            *)
(***************************************************************************)
TextFits(t) == t \in AllPlaintexts /\ Valid(PayloadSize, Len(t))

Along(p, q, t) ==
  /\ p.request = q /\ TextFits(t)
  /\ p.damage.kind \in {"none", "header", "payload", "cut"}
  /\ p.damage.kind = "none" =>
       /\ p.damage = Intact
       /\ p.bytes.payload = PayloadAt(SecretFor(p.item, q), q.route, t, p.hop)
  /\ p.damage.kind # "header" => p.bytes.header = HeaderToBytes(MeantAt(p, SecretFor(p.item, q), p.hop))
  /\ p.damage.kind \in {"payload", "cut"} => Spoiled(p.bytes.payload)
  /\ p.damage.kind = "header" => p.damage.hop = p.hop
  /\ p.damage.kind = "cut" /\ TooShort(Len(p.bytes.payload.text)) => p.damage.hop = p.hop

(***************************************************************************)
(* What process() makes of such a packet at the node it is at.             *)
(***************************************************************************)
Onward(p, secret) ==
  [kind |-> "ForwardHop", address |-> Address(p.request.route[p.hop + 1]),
   delay |-> Delay(p.request.delays[p.hop]),
   packet |-> [header  |-> MeantAt(p, secret, p.hop + 1),
               payload |-> Decrypt(PayloadKey(secret, p.request.route, p.hop), p.bytes.payload)]]

Home(p, secret) ==
  [kind |-> "FinalHop", address |-> {Destination(p.item).address},
   identifier |-> {Destination(p.item).identifier},
   payload |-> Decrypt(PayloadKey(secret, p.request.route, p.hop), p.bytes.payload)]

ComesOut(p, secret, o) ==
  /\ p.damage.kind = "header" => o = Rejected("integrity MAC")
  /\ p.damage.kind # "header" /\ TooShort(Len(p.bytes.payload.text)) =>
       o \in {Rejected("InvalidPacket"), Rejected("InvalidPayload")}
  /\ p.damage.kind # "header" /\ ~TooShort(Len(p.bytes.payload.text)) =>
       o = IF p.hop < Len(p.request.route) THEN Onward(p, secret) ELSE Home(p, secret)

LEMMA AlongMeets ==
  ASSUME NEW p, PacketOK(p), NEW q, NEW t, Along(p, q, t), NEW h, HeaderAt(p, h),
         p.damage.kind # "header"
  PROVE  Meets(p, SecretFor(p.item, q), h)
<1> DEFINE secret == SecretFor(p.item, q)
           n == Len(p.request.route)
           m == MeantAt(p, secret, p.hop)
<1>1. n \in 1..MaxRoute /\ p.hop \in 1..n /\ p.at = p.request.route[p.hop] /\ Len(p.request.route) = n
  BY DEF PacketOK, RequestOK
<1> HIDE DEF n
<1>2. GoodHeader(m, p.at)
  BY <1>1, MeantHeadersAreGood DEF MeantAt
<1>3. p.bytes.header = HeaderToBytes(m) /\ HeaderFromBytes(p.bytes.header) = [error |-> "none", header |-> h]
  BY DEF Along, HeaderAt
<1>4. m = MeantAt(p, secret, p.hop)
  OBVIOUS
<1> HIDE DEF m, secret
<1>5. HeaderFromBytes(p.bytes.header) = [error |-> "none", header |-> m]
  BY <1>2, <1>3, HeaderBytes DEF GoodHeader
<1>6. h = m
  <2>1. [error |-> "none", header |-> h] = [error |-> "none", header |-> m]
    BY <1>3, <1>5
  <2>2. [error |-> "none", header |-> h].header = [error |-> "none", header |-> m].header
    BY <2>1
  <2> QED BY <2>2
<1> QED BY <1>4, <1>6, MeetsMeant DEF secret

LEMMA AlongOutcome ==
  ASSUME NEW p, PacketOK(p), NEW q, NEW t, Along(p, q, t),
         NEW o, o = Computed(p.at, p.bytes)
  PROVE  ComesOut(p, SecretFor(p.item, q), o)
<1> DEFINE secret == SecretFor(p.item, q)
           l == Len(p.bytes.payload.text)
           d == p.bytes.payload
<1>1. PICK h : HeaderAt(p, h)
  BY HeaderOfPacket
<1>2. /\ l < Overhead => Computed(p.at, p.bytes) = Rejected("InvalidPacket")
      /\ ~(l < Overhead) => Computed(p.at, p.bytes) = Processed(Process(p.at, h), d)
  BY <1>1, OutcomeOfBytes
<1>3. CASE p.damage.kind = "header"
  <2>1. ~(l < Overhead)
    <3>1. PICK k \in TextLengths(p.damage.kind) : IsSeq(d.text, k)
      BY DEF PacketOK, PayloadOK
    <3>2. k = PayloadSize /\ Len(d.text) = k
      BY <1>3, <3>1, SeqOfElements DEF TextLengths
    <3> QED BY <3>2, PayloadAssumption, SphinxAssumption DEF PacketOK, Overhead
  <2>2. ~Verifies(h.routing_info, ComputeRoutingKeys(h.shared_secret, p.at))
    BY <1>1, <1>3 DEF HeaderAt
  <2>3. Process(p.at, h) = Rejected("integrity MAC")
    <3> DEFINE keys == ComputeRoutingKeys(h.shared_secret, p.at)
               parsed == Unwrap(h.routing_info.info, keys)
    <3>1. NoSecret.known = FALSE
      BY DEF NoSecret
    <3>2. ComesTo(p.at, h, keys, parsed, NoSecret)
      BY <3>1, ProcessCases
    <3> QED BY <2>2, <3>2 DEF ComesTo
  <2>4. Processed(Process(p.at, h), d) = Process(p.at, h)
    <3>1. Rejected("integrity MAC").kind = "error"
      BY DEF Rejected
    <3> QED BY <2>3, <3>1, ProcessedCases
  <2> QED BY <1>2, <1>3, <2>1, <2>3, <2>4 DEF ComesOut
<1>4. CASE p.damage.kind # "header"
  <2>1. Meets(p, secret, h)
    BY <1>1, <1>4, AlongMeets
  <2>2. CASE TooShort(l)
    <3>1. Process(p.at, h).kind \in {"ForwardHop", "FinalHop"}
      BY <2>1, MeetsKind
    <3>2. CASE l < Overhead
      BY <1>2, <1>4, <2>2, <3>2 DEF ComesOut
    <3>3. CASE ~(l < Overhead)
      <4>1. l < CipherBlock
        BY <2>2, <3>3 DEF TooShort
      <4>2. Processed(Process(p.at, h), d) = Rejected("InvalidPayload")
        BY <3>1, <4>1, ProcessedCases
      <4> QED BY <1>2, <1>4, <2>2, <3>3, <4>2 DEF ComesOut
    <3> QED BY <3>2, <3>3
  <2>3. CASE ~TooShort(l)
    <3>1. ~(l < Overhead) /\ ~(l < CipherBlock)
      BY <2>3 DEF TooShort
    <3>2. p.hop < Len(p.request.route) => o = Onward(p, secret)
      BY <1>1, <2>1, <3>1, OutcomeAtItsNode DEF Onward
    <3>3. p.hop = Len(p.request.route) => o = Home(p, secret)
      BY <1>1, <2>1, <3>1, OutcomeAtItsNode DEF Home
    <3>4. p.hop < Len(p.request.route) \/ p.hop = Len(p.request.route)
      BY Lengths DEF PacketOK, RequestOK
    <3>5. ~(p.hop < Len(p.request.route) /\ p.hop = Len(p.request.route))
      BY Lengths DEF PacketOK, RequestOK
    <3> QED BY <1>4, <2>3, <3>2, <3>3, <3>4, <3>5 DEF ComesOut
  <2> QED BY <2>2, <2>3
<1> QED BY <1>3, <1>4

(***************************************************************************)
(* Remembered keys that do not serve leave out the blinded secret, and     *)
(* this shows only at a relay, which has a whole header of the secret.     *)
(***************************************************************************)
Forgotten(p, c, secret) ==
  /\ p.damage.kind # "header" /\ ~c.secret.known
  /\ p.hop < Len(p.request.route)
  /\ c.shared_secret = Accumulators(p.request.route, Secret(secret))[p.hop]

LEMMA AlongRecalled ==
  ASSUME NEW p, PacketOK(p), NEW q, NEW t, Along(p, q, t), NEW c, CacheOK(p.at, c),
         PacketFromBytes(p.bytes).error = "none", c.shared_secret = SecretOf(p.bytes),
         NEW recalled, recalled = Recalled(p.bytes, c), recalled # Computed(p.at, p.bytes)
  PROVE  recalled = Rejected("without blinded secret") /\ Forgotten(p, c, SecretFor(p.item, q))
<1> DEFINE secret == SecretFor(p.item, q)
           computed == Computed(p.at, p.bytes)
<1>1. Agrees(c, computed, recalled)
  BY RecallingAgrees
<1>2. /\ computed.kind = "ForwardHop" \/ computed = Rejected("InvalidPayload")
      /\ ~c.secret.known /\ recalled = Rejected("without blinded secret")
  BY <1>1 DEF Agrees
<1>3. ComesOut(p, secret, computed)
  BY AlongOutcome
<1>4. p.damage.kind # "header"
  <2> SUFFICES ASSUME p.damage.kind = "header" PROVE FALSE
    OBVIOUS
  <2>1. computed = Rejected("integrity MAC")
    BY <1>3 DEF ComesOut
  <2>2. Rejected("integrity MAC").kind = "error" /\ Rejected("integrity MAC").error = "integrity MAC"
    BY DEF Rejected
  <2>3. Rejected("InvalidPayload").error = "InvalidPayload"
    BY DEF Rejected
  <2> HIDE DEF computed
  <2> QED BY <1>2, <2>1, <2>2, <2>3
<1>5. PICK h : HeaderAt(p, h)
  BY HeaderOfPacket
<1>6. Meets(p, secret, h)
  BY <1>4, <1>5, AlongMeets
<1>7. ~(Len(p.bytes.payload.text) < Overhead)
  <2> SUFFICES ASSUME Len(p.bytes.payload.text) < Overhead PROVE FALSE
    OBVIOUS
  <2> QED BY <1>5, OutcomeOfBytes
<1>8. c.shared_secret = h.shared_secret /\ recalled = Processed(ProcessWith(h, c.keys, c.secret), p.bytes.payload)
  BY <1>5, <1>7, OutcomeOfBytes
<1>9. h.shared_secret = Accumulators(p.request.route, Secret(secret))[p.hop]
  BY <1>6 DEF Meets, MeantAt, MeantHeader
<1>10. p.hop < Len(p.request.route)
  <2> SUFFICES ASSUME ~(p.hop < Len(p.request.route)) PROVE FALSE
    OBVIOUS
  <2>1. p.hop = Len(p.request.route)
    BY Lengths DEF PacketOK, RequestOK
  <2>2. Process(p.at, h).kind = "FinalHop"
    BY <1>6, <2>1 DEF Meets
  <2> DEFINE keys == ComputeRoutingKeys(h.shared_secret, p.at)
             parsed == Unwrap(h.routing_info.info, keys)
  <2>3. c.keys = keys
    BY <1>8 DEF CacheOK
  <2>4. c.secret.known => c.secret.blinded = Blind(h.shared_secret, keys.blinding_factor)
    BY <1>8, <2>3 DEF CacheOK
  <2>5. ComesTo(p.at, h, keys, parsed, c.secret)
    BY <2>4, ProcessCases
  <2>6. ProcessWith(h, c.keys, c.secret) = Process(p.at, h)
    <3>1. /\ Rejected("integrity MAC").kind = "error"
          /\ ForwardHop(Blind(h.shared_secret, keys.blinding_factor), parsed, keys).kind = "ForwardHop"
      BY DEF Rejected, ForwardHop
    <3> HIDE DEF keys, parsed
    <3> QED BY <2>2, <2>3, <2>5, <3>1 DEF ComesTo
  <2>7. computed = Processed(Process(p.at, h), p.bytes.payload)
    BY <1>5, <1>7, OutcomeOfBytes
  <2> QED BY <1>8, <2>6, <2>7
<1> QED BY <1>2, <1>4, <1>8, <1>9, <1>10 DEF Forgotten

-------------------------------------------------------------------------------
(***************************************************************************)
(* A layer that finds nothing to undo is added.                            *)
(***************************************************************************)
LEMMA LayerIsAdded ==
  ASSUME NEW d, d = [text |-> d.text, layers |-> d.layers], NEW m \in Nat, IsSeq(d.layers, m),
         NEW layer, NEW undone, m # 0 => d.layers[m] # undone,
         NEW e, e = Turn(d, layer, undone)
  PROVE  /\ e = [text |-> d.text, layers |-> e.layers]
         /\ IsSeq(e.layers, m + 1) /\ e.layers[m + 1] = layer
<1> DEFINE s == d.layers
           t == Append(s, layer)
           S == {s[i] : i \in 1..m} \cup {layer}
<1>1. s \in Seq(S) /\ Len(s) = m
  <2>1. s \in [1..m -> S]
    BY DEF IsSeq
  <2> HIDE DEF S
  <2>2. s \in Seq(S)
    BY <2>1, SeqDef
  <2> QED BY <2>2, SeqOfElements
<1>2. layer \in S
  OBVIOUS
<1> HIDE DEF S
<1>3. t \in Seq(S) /\ Len(t) = m + 1 /\ t[m + 1] = layer
  BY <1>1, <1>2, AppendProperties
<1>4. IsSeq(t, m + 1)
  BY <1>3, SeqIsSeq
<1>5. ~(s # <<>> /\ s[Len(s)] = undone)
  <2> SUFFICES ASSUME s # <<>>, s[m] = undone PROVE FALSE
    BY <1>1
  <2>1. m # 0
    BY <1>1, EmptySeq
  <2> QED BY <2>1
<1>6. e = [d EXCEPT !.layers = t]
  BY <1>5 DEF Turn
<1> HIDE DEF t
<1>7. [d EXCEPT !.layers = t] = [text |-> d.text, layers |-> t]
  OBVIOUS
<1>8. e.layers = t
  BY <1>6, <1>7
<1> QED BY <1>3, <1>4, <1>6, <1>7, <1>8

(***************************************************************************)
(* A spoiled payload stays spoiled whatever node's key it is deciphered    *)
(* with, and every time it becomes another.                                *)
(***************************************************************************)
IsPayload(d) == d = [text |-> d.text, layers |-> d.layers]

Layered(d, m) == IsPayload(d) /\ m \in Nat \ {0} /\ IsSeq(d.layers, m)

LEMMA SpoiledStays ==
  ASSUME NEW d, IsPayload(d), Spoiled(d), NEW key, key # <<"noise">>, NEW e, e = Decrypt(key, d)
  PROVE  /\ IsPayload(e) /\ e.text = d.text /\ Spoiled(e)
         /\ \E m, n : m # n /\ Layered(d, m) /\ Layered(e, n)
<1>1. PICK m \in Nat \ {0} : SpoiledBy(d, m)
  BY DEF Spoiled
<1>2. d.layers[m] # <<"enc", key>>
  <2>1. CASE d.layers[m] = <<"enc", <<"noise">> >>
    BY <2>1
  <2>2. CASE \E k : d.layers[m] = <<"dec", k>>
    BY <2>2
  <2> QED BY <1>1, <2>1, <2>2 DEF SpoiledBy
<1>3. e = Turn(d, <<"dec", key>>, <<"enc", key>>)
  BY DEF Decrypt
<1>4. IsSeq(d.layers, m) /\ m \in Nat
  BY <1>1 DEF SpoiledBy
<1> DEFINE layer == <<"dec", key>>
           undone == <<"enc", key>>
<1>5. e = Turn(d, layer, undone) /\ (m # 0 => d.layers[m] # undone)
  BY <1>2, <1>3
<1>6. layer = <<"dec", key>>
  OBVIOUS
<1> HIDE DEF layer, undone
<1>7. /\ e = [text |-> d.text, layers |-> e.layers]
      /\ IsSeq(e.layers, m + 1) /\ e.layers[m + 1] = layer
  BY <1>4, <1>5, LayerIsAdded DEF IsPayload
<1>8. e.text = d.text
  BY <1>7
<1>9. IsPayload(e)
  BY <1>7, <1>8 DEF IsPayload
<1>10. m + 1 \in Nat \ {0} /\ m # m + 1
  BY <1>1
<1>11. SpoiledBy(e, m + 1)
  BY <1>6, <1>7, <1>10 DEF SpoiledBy
<1>12. Layered(d, m) /\ Layered(e, m + 1)
  BY <1>1, <1>4, <1>7, <1>9, <1>10 DEF Layered
<1> QED BY <1>8, <1>9, <1>10, <1>11, <1>12 DEF Spoiled

(***************************************************************************)
(* Noise that is put on a payload with none but the sender's layers spoils *)
(* it.                                                                     *)
(***************************************************************************)
LEMMA NoiseSpoils ==
  ASSUME NEW d, IsPayload(d), NEW text, Enciphered(d, text), NEW cut,
         NEW e, e = Encrypt(<<"noise">>, [text |-> cut, layers |-> d.layers])
  PROVE  IsPayload(e) /\ e.text = cut /\ Spoiled(e)
<1>1. PICK m \in Nat : IsSeq(d.layers, m) /\ \A i \in 1..m : \E k : d.layers[i] = <<"enc", k>>
  BY DEF Enciphered, Covered
<1> DEFINE f == [text |-> cut, layers |-> d.layers]
           layer == <<"enc", <<"noise">> >>
           undone == <<"dec", <<"noise">> >>
<1>2. m # 0 => d.layers[m] # undone
  <2> SUFFICES ASSUME m # 0 PROVE d.layers[m] # undone
    OBVIOUS
  <2>1. m \in 1..m
    OBVIOUS
  <2>2. PICK k : d.layers[m] = <<"enc", k>>
    BY <1>1, <2>1
  <2> QED BY <2>2
<1>3. f = [text |-> f.text, layers |-> f.layers] /\ f.layers = d.layers /\ f.text = cut
  OBVIOUS
<1>4. e = Turn(f, layer, undone)
  BY DEF Encrypt
<1>5. layer = <<"enc", <<"noise">> >>
  OBVIOUS
<1> HIDE DEF f, layer, undone
<1>6. /\ e = [text |-> f.text, layers |-> e.layers]
      /\ IsSeq(e.layers, m + 1) /\ e.layers[m + 1] = layer
  BY <1>1, <1>2, <1>3, <1>4, LayerIsAdded
<1>7. e.text = cut
  BY <1>3, <1>6
<1>8. IsPayload(e)
  BY <1>6, <1>7, <1>3 DEF IsPayload
<1>9. m + 1 \in Nat \ {0}
  BY <1>1
<1>10. SpoiledBy(e, m + 1)
  BY <1>5, <1>6, <1>9 DEF SpoiledBy
<1> QED BY <1>7, <1>8, <1>9, <1>10 DEF Spoiled

(***************************************************************************)
(* Nothing is recovered from a payload on which there is a layer: it is    *)
(* noise, and noise has no marker.                                         *)
(***************************************************************************)
LEMMA LayeredReads ==
  ASSUME NEW d, NEW m, Layered(d, m)
  PROVE  Read(d) = [i \in 1..Len(d.text) |-> {<<"noise", d, i>>}]
<1>1. Len(d.layers) = m /\ m # 0
  BY SeqOfElements DEF Layered
<1>2. d.layers # <<>>
  BY <1>1, EmptyIsSeq
<1> QED BY <1>2 DEF Read

LEMMA SpoiledUnread ==
  ASSUME NEW d, IsPayload(d), Spoiled(d), NEW l, IsSeq(d.text, l), ~(l < Overhead)
  PROVE  RecoverPlaintext(d) = [error |-> "InvalidPayload", plaintext |-> <<>>]
<1> DEFINE bytes == Read(d)
           rest == Drop(bytes, LeadingZeros)
           ones == {i \in DOMAIN rest : rest[i] = Byte(1)}
<1>1. l \in Nat /\ Len(d.text) = l /\ LeadingZeros \in 0..l
  <2>1. l \in Nat /\ Len(d.text) = l
    BY SeqOfElements
  <2> QED BY <2>1, PayloadAssumption DEF Overhead
<1>2. PICK m : Layered(d, m)
  BY DEF Spoiled, SpoiledBy, Layered
<1>3. bytes = [i \in 1..l |-> {<<"noise", d, i>>}]
  BY <1>1, <1>2, LayeredReads
<1>4. IsSeq(bytes, l) /\ \A i \in 1..l : bytes[i] = {<<"noise", d, i>>}
  BY <1>1, <1>3 DEF IsSeq
<1> HIDE DEF bytes
<1>5. /\ IsSeq(rest, l - LeadingZeros)
      /\ \A i \in 1..(l - LeadingZeros) : rest[i] = bytes[LeadingZeros + i]
  BY <1>1, <1>4, DropElements
<1> HIDE DEF rest
<1>6. DOMAIN rest = 1..(l - LeadingZeros)
  BY <1>5, SeqOfElements
<1>7. ones = {}
  <2> SUFFICES ASSUME NEW i \in 1..(l - LeadingZeros), rest[i] = Byte(1) PROVE FALSE
    BY <1>6
  <2>1. LeadingZeros + i \in 1..l
    BY <1>1
  <2>2. {<<"noise", d, LeadingZeros + i>>} = Byte(1)
    BY <1>4, <1>5, <2>1
  <2>3. Byte(1) = {<<"byte", 1>>}
    BY DEF Byte
  <2>4. <<"noise", d, LeadingZeros + i>> = <<"byte", 1>>
    BY <2>2, <2>3
  <2> QED BY <2>4
<1> QED BY <1>7 DEF RecoverPlaintext, bytes, rest

(***************************************************************************)
(* The payload that a sender makes, along its route.                       *)
(***************************************************************************)
PayloadsGo(secret, route, n, t) ==
  /\ PayloadAt(secret, route, t, n + 1) = Payload(SetFinalPayload(t, PayloadSize))
  /\ \A k \in 1..n : /\ Decrypt(PayloadKey(secret, route, k), PayloadAt(secret, route, t, k))
                          = PayloadAt(secret, route, t, k + 1)
                     /\ PayloadKey(secret, route, k) # <<"noise">>
                     /\ \E m \in Nat : Layered(PayloadAt(secret, route, t, k), m + 1)
                     /\ Enciphered(PayloadAt(secret, route, t, k), SetFinalPayload(t, PayloadSize))

LEMMA PayloadKeysAreKeys ==
  ASSUME NEW secret, NEW route, NEW n \in Nat, Len(route) = n, NEW k \in 1..n
  PROVE  PayloadKey(secret, route, k) # <<"noise">>
<1> DEFINE shared == DiffieHellman(Accumulators(route, Secret(secret))[k], PublicKey(NodeKey(route[k])))
<1>1. KeyMaterial(route, Secret(secret))[k] = Derive(shared)
  BY DEF KeyMaterial, KeysOf
<1> HIDE DEF shared
<1>2. Derive(shared).payload_key = <<"payload key", shared>>
  BY DEF Derive
<1>3. PayloadKey(secret, route, k) = <<"payload key", shared>>
  BY <1>1, <1>2 DEF PayloadKey
<1>4. <<"payload key", shared>> # <<"noise">>
  OBVIOUS
<1> QED BY <1>3, <1>4

LEMMA PayloadsAlong ==
  ASSUME NEW secret, NEW route, NEW n \in Nat, Len(route) = n, NEW t
  PROVE  PayloadsGo(secret, route, n, t)
<1> DEFINE text == SetFinalPayload(t, PayloadSize)
           keys == [j \in 1..n |-> PayloadKey(secret, route, j)]
           P == LayersAdded(Payload(text), keys)
<1>1. \A k : PayloadAt(secret, route, t, k) = P[k]
  BY DEF PayloadAt
<1>2. Len(keys) = n
  <2> DEFINE f == keys
  <2>1. IsSeq(f, n)
    BY DEF IsSeq
  <2> HIDE DEF f
  <2> QED BY <2>1, SeqOfElements DEF f
<1>3. \A k \in 1..n : keys[k] = PayloadKey(secret, route, k)
  OBVIOUS
<1> HIDE DEF text, keys
<1>4. /\ P[n + 1] = Payload(text)
      /\ \A k \in 1..n : Decrypt(keys[k], P[k]) = P[k + 1]
      /\ \A k \in 1..(n + 1) : P[k].text = text /\ Enciphered(P[k], text)
  BY <1>2, LayersComeOff
<1>5. \A k \in 1..n : P[k] = Encrypt(keys[k], P[k + 1])
  BY <1>2, LayersDefined DEF AddEncryptionLayer
<1> HIDE DEF P
<1>6. ASSUME NEW k \in 1..n PROVE \E m \in Nat : Layered(P[k], m + 1)
  <2>1. k + 1 \in 1..(n + 1)
    OBVIOUS
  <2> DEFINE d == P[k + 1]
             e == P[k]
             key == keys[k]
  <2>2. Covered(d, "enc", text) /\ e = Turn(d, <<"enc", key>>, <<"dec", key>>) /\ Covered(e, "enc", text)
    BY <1>4, <1>5, <2>1 DEF Enciphered, Encrypt
  <2> HIDE DEF d, e, key
  <2>3. IsTurned(e, d, "enc", "dec", key, text)
    BY <2>2, TurnsBack
  <2>4. Len(e.layers) = Len(d.layers) + 1 /\ Len(d.layers) \in Nat
    BY <2>3 DEF IsTurned
  <2>5. PICK m \in Nat : e = [text |-> text, layers |-> e.layers] /\ IsSeq(e.layers, m)
    BY <2>2 DEF Covered
  <2>6. m = Len(e.layers)
    BY <2>5, SeqOfElements
  <2>7. e.text = text
    BY <2>5
  <2>8. IsPayload(e)
    BY <2>5, <2>7 DEF IsPayload
  <2>9. m = Len(d.layers) + 1 /\ m \in Nat \ {0}
    BY <2>4, <2>6
  <2>10. Layered(e, m)
    BY <2>5, <2>8, <2>9 DEF Layered
  <2> QED BY <2>4, <2>9, <2>10 DEF e
<1>7. \A k \in 1..n : PayloadKey(secret, route, k) # <<"noise">>
  BY PayloadKeysAreKeys
<1>8. \A k \in 1..n : k \in 1..(n + 1)
  OBVIOUS
<1> QED BY <1>1, <1>3, <1>4, <1>6, <1>7, <1>8 DEF PayloadsGo, text

-------------------------------------------------------------------------------
(***************************************************************************)
(* What every step makes of such a packet.  A relay makes one that is on   *)
(* its way to the next node.                                               *)
(***************************************************************************)
LEMMA ComesToKind ==
  ASSUME NEW p, PacketOK(p), NEW secret, NEW o, ComesOut(p, secret, o)
  PROVE  /\ o.kind = "ForwardHop" =>
              /\ p.damage.kind # "header" /\ ~TooShort(Len(p.bytes.payload.text))
              /\ p.hop < Len(p.request.route) /\ o = Onward(p, secret)
         /\ o.kind = "FinalHop" =>
              /\ p.damage.kind # "header" /\ ~TooShort(Len(p.bytes.payload.text))
              /\ p.hop = Len(p.request.route) /\ o = Home(p, secret)
         /\ o.kind = "error" =>
              \/ p.damage.kind = "header" /\ o = Rejected("integrity MAC")
              \/ /\ p.damage.kind # "header" /\ TooShort(Len(p.bytes.payload.text))
                 /\ o \in {Rejected("InvalidPacket"), Rejected("InvalidPayload")}
<1>1. \A e : Rejected(e).kind = "error"
  BY DEF Rejected
<1>2. Onward(p, secret).kind = "ForwardHop"
  BY DEF Onward
<1>3. Home(p, secret).kind = "FinalHop"
  BY DEF Home
<1>4. p.hop < Len(p.request.route) \/ p.hop = Len(p.request.route)
  BY Lengths DEF PacketOK, RequestOK
<1>5. CASE p.damage.kind = "header"
  BY <1>1, <1>5 DEF ComesOut
<1>6. CASE p.damage.kind # "header" /\ TooShort(Len(p.bytes.payload.text))
  BY <1>1, <1>6 DEF ComesOut
<1>7. CASE p.damage.kind # "header" /\ ~TooShort(Len(p.bytes.payload.text)) /\ p.hop < Len(p.request.route)
  BY <1>2, <1>7 DEF ComesOut
<1>8. CASE p.damage.kind # "header" /\ ~TooShort(Len(p.bytes.payload.text)) /\ ~(p.hop < Len(p.request.route))
  BY <1>3, <1>4, <1>8 DEF ComesOut
<1> QED BY <1>5, <1>6, <1>7, <1>8

LEMMA PayloadIsPayload ==
  ASSUME NEW p, PacketOK(p)
  PROVE  /\ IsPayload(p.bytes.payload)
         /\ \E l \in TextLengths(p.damage.kind) : /\ IsSeq(p.bytes.payload.text, l)
                                                  /\ Len(p.bytes.payload.text) = l
<1>1. PICK l \in TextLengths(p.damage.kind) :
        /\ IsSeq(p.bytes.payload.text, l)
        /\ p.bytes.payload = [text |-> p.bytes.payload.text, layers |-> p.bytes.payload.layers]
  BY DEF PacketOK, PayloadOK
<1>2. Len(p.bytes.payload.text) = l
  BY <1>1, SeqOfElements
<1> QED BY <1>1, <1>2 DEF IsPayload

LEMMA AlongRelayed ==
  ASSUME NEW p, PacketOK(p), NEW q, NEW t, Along(p, q, t),
         NEW o, o = Computed(p.at, p.bytes), o.kind = "ForwardHop", NEW n,
         NEW s, s = Under(p.item, p.request, p.hop + 1, n, o.packet, p.damage)
  PROVE  Along(s, q, t)
<1> DEFINE secret == SecretFor(p.item, q)
           route == p.request.route
           l == Len(route)
           key == PayloadKey(secret, route, p.hop)
<1>1. ComesOut(p, secret, o)
  BY AlongOutcome
<1>2. /\ p.damage.kind # "header" /\ ~TooShort(Len(p.bytes.payload.text))
      /\ p.hop < l /\ o = Onward(p, secret)
  BY <1>1, ComesToKind
<1>3. o.packet = [header |-> MeantAt(p, secret, p.hop + 1), payload |-> Decrypt(key, p.bytes.payload)]
  BY <1>2 DEF Onward
<1>4. s.bytes = [header |-> HeaderToBytes(MeantAt(p, secret, p.hop + 1)), payload |-> Decrypt(key, p.bytes.payload)]
  BY <1>3 DEF Under, PacketToBytes
<1>5. /\ s.item = p.item /\ s.request = p.request /\ s.hop = p.hop + 1 /\ s.damage = p.damage
  BY DEF Under
<1>6. l \in Nat /\ p.hop \in 1..l /\ Len(route) = l
  BY Lengths DEF PacketOK, RequestOK
<1> HIDE DEF l
<1>7. PayloadsGo(secret, route, l, t)
  BY <1>6, PayloadsAlong
<1>8. p.request = q
  BY DEF Along
<1>9. MeantAt(s, secret, s.hop) = MeantAt(p, secret, p.hop + 1)
  BY <1>5 DEF MeantAt
<1>10. s.bytes.header = HeaderToBytes(MeantAt(s, secret, s.hop)) /\ s.bytes.payload = Decrypt(key, p.bytes.payload)
  BY <1>4, <1>9
<1>11. IsPayload(p.bytes.payload) /\ key # <<"noise">>
  BY <1>6, <1>7, PayloadIsPayload DEF PayloadsGo
<1>12. p.damage.kind \in {"payload", "cut"} => /\ Spoiled(s.bytes.payload)
                                               /\ s.bytes.payload.text = p.bytes.payload.text
  <2> HIDE DEF key
  <2> QED BY <1>10, <1>11, SpoiledStays DEF Along
<1>13. p.damage.kind = "none" => s.bytes.payload = PayloadAt(secret, route, t, p.hop + 1)
  BY <1>6, <1>7, <1>8, <1>10 DEF PayloadsGo, Along
<1>14. p.damage.kind = "cut" => ~TooShort(Len(s.bytes.payload.text))
  BY <1>2, <1>12
<1> HIDE DEF secret, key, route
<1>15. s.request = q /\ TextFits(t) /\ s.damage.kind \in {"none", "header", "payload", "cut"}
  BY <1>5, <1>8 DEF Along
<1>16. s.damage.kind = "none" =>
         s.damage = Intact /\ s.bytes.payload = PayloadAt(SecretFor(s.item, q), q.route, t, s.hop)
  <2>1. s.damage.kind = "none" => s.damage = Intact
    BY <1>5 DEF Along
  <2> QED BY <1>5, <1>8, <1>13, <2>1 DEF secret, route
<1>17. s.bytes.header = HeaderToBytes(MeantAt(s, SecretFor(s.item, q), s.hop)) /\ s.damage.kind # "header"
  BY <1>2, <1>5, <1>10 DEF secret
<1>18. /\ s.damage.kind \in {"payload", "cut"} => Spoiled(s.bytes.payload)
       /\ s.damage.kind = "cut" => ~TooShort(Len(s.bytes.payload.text))
  BY <1>5, <1>12, <1>14
<1> QED BY <1>15, <1>16, <1>17, <1>18 DEF Along

(***************************************************************************)
(* The last node delivers what was sent, or finds the payload spoiled.     *)
(***************************************************************************)
EndsAs(p, t, o) ==
  /\ p.hop = Len(p.request.route)
  /\ \/ /\ p.damage.kind = "none"
        /\ RecoverPlaintext(o.payload) = [error |-> "none", plaintext |-> t]
        /\ o.address = {Destination(p.item).address} /\ o.identifier = {Destination(p.item).identifier}
     \/ /\ p.damage.kind = "payload" \/ (p.damage.kind = "cut" /\ ~TooShort(Len(p.bytes.payload.text)))
        /\ RecoverPlaintext(o.payload) = [error |-> "InvalidPayload", plaintext |-> <<>>]

LEMMA AlongEnds ==
  ASSUME NEW p, PacketOK(p), NEW q, NEW t, Along(p, q, t),
         NEW o, o = Computed(p.at, p.bytes), o.kind = "FinalHop"
  PROVE  EndsAs(p, t, o)
<1> DEFINE secret == SecretFor(p.item, q)
           route == p.request.route
           l == Len(route)
           key == PayloadKey(secret, route, p.hop)
<1>1. ComesOut(p, secret, o)
  BY AlongOutcome
<1>2. /\ p.damage.kind # "header" /\ ~TooShort(Len(p.bytes.payload.text))
      /\ p.hop = l /\ o = Home(p, secret)
  BY <1>1, ComesToKind
<1>3. /\ o.address = {Destination(p.item).address} /\ o.identifier = {Destination(p.item).identifier}
      /\ o.payload = Decrypt(key, p.bytes.payload)
  BY <1>2 DEF Home
<1>4. l \in Nat /\ p.hop \in 1..l /\ Len(route) = l /\ p.request = q
  BY Lengths DEF PacketOK, RequestOK, Along
<1> HIDE DEF l
<1>5. PayloadsGo(secret, route, l, t)
  BY <1>4, PayloadsAlong
<1>6. PICK k \in TextLengths(p.damage.kind) : IsSeq(p.bytes.payload.text, k) /\ Len(p.bytes.payload.text) = k
  BY PayloadIsPayload
<1>7. IsPayload(p.bytes.payload) /\ key # <<"noise">>
  BY <1>4, <1>5, PayloadIsPayload DEF PayloadsGo
<1>8. p.damage.kind \in {"none", "payload", "cut"}
  BY <1>2 DEF Along
<1>9. CASE p.damage.kind = "none"
  <2>1. o.payload = Payload(SetFinalPayload(t, PayloadSize))
    BY <1>2, <1>3, <1>4, <1>5, <1>9 DEF Along, PayloadsGo
  <2>2. IsSeq(t, Len(t)) /\ Valid(PayloadSize, Len(t)) /\ PayloadSize \in Nat
    BY PlaintextsAreSeqs, SphinxAssumption DEF Along, TextFits, AllPlaintexts
  <2> DEFINE len == Len(t)
  <2>3. IsSeq(t, len) /\ Valid(PayloadSize, len) /\ PayloadSize \in Nat
    BY <2>2
  <2> HIDE DEF len
  <2>4. RecoverPlaintext(Payload(SetFinalPayload(t, PayloadSize))) = [error |-> "none", plaintext |-> t]
    BY <2>3, MessageRecovered
  <2> QED BY <1>2, <1>3, <1>9, <2>1, <2>4 DEF EndsAs, l, route
<1>10. CASE p.damage.kind \in {"payload", "cut"}
  <2>1. Spoiled(p.bytes.payload)
    BY <1>10 DEF Along
  <2>2. IsPayload(o.payload) /\ o.payload.text = p.bytes.payload.text /\ Spoiled(o.payload)
    <3> HIDE DEF key
    <3> QED BY <1>3, <1>7, <2>1, SpoiledStays
  <2>3. ~(k < Overhead) /\ ~TooShort(k)
    BY <1>2, <1>6 DEF TooShort
  <2>4. RecoverPlaintext(o.payload) = [error |-> "InvalidPayload", plaintext |-> <<>>]
    BY <1>6, <2>2, <2>3, SpoiledUnread
  <2> QED BY <1>2, <1>10, <2>4 DEF EndsAs, l, route
<1> QED BY <1>8, <1>9, <1>10

(***************************************************************************)
(* A node rejects it for the change of its header, or because it was cut   *)
(* too short right before.                                                 *)
(***************************************************************************)
FailsAs(p, error) ==
  \/ p.damage.kind = "header" /\ error = "integrity MAC" /\ p.hop = p.damage.hop
  \/ /\ p.damage.kind = "cut" /\ TooShort(Len(p.bytes.payload.text))
     /\ error \in {"InvalidPacket", "InvalidPayload"} /\ p.hop = p.damage.hop

LEMMA AlongFails ==
  ASSUME NEW p, PacketOK(p), NEW q, NEW t, Along(p, q, t),
         NEW o, o = Computed(p.at, p.bytes), o.kind = "error"
  PROVE  FailsAs(p, o.error)
<1> DEFINE secret == SecretFor(p.item, q)
<1>1. ComesOut(p, secret, o)
  BY AlongOutcome
<1>2. \/ p.damage.kind = "header" /\ o = Rejected("integrity MAC")
      \/ /\ p.damage.kind # "header" /\ TooShort(Len(p.bytes.payload.text))
         /\ o \in {Rejected("InvalidPacket"), Rejected("InvalidPayload")}
  BY <1>1, ComesToKind
<1>3. \A e : Rejected(e).error = e
  BY DEF Rejected
<1>4. CASE p.damage.kind = "header"
  BY <1>2, <1>3, <1>4 DEF FailsAs, Along
<1>5. CASE p.damage.kind # "header"
  <2>1. TooShort(Len(p.bytes.payload.text)) /\ o.error \in {"InvalidPacket", "InvalidPayload"}
    BY <1>2, <1>3, <1>5
  <2>2. p.damage.kind \notin {"none", "payload"}
    BY <2>1, PayloadLengths DEF TooShort
  <2>3. p.damage.kind = "cut"
    BY <1>5, <2>2 DEF Along
  <2>4. p.damage.hop = p.hop
    <3>1. p.damage.kind = "cut" /\ TooShort(Len(p.bytes.payload.text)) => p.damage.hop = p.hop
      BY DEF Along
    <3> QED BY <2>1, <2>3, <3>1
  <2> QED BY <2>1, <2>3, <2>4 DEF FailsAs
<1> QED BY <1>4, <1>5

(***************************************************************************)
(* Packets that are sent are on their way.                                 *)
(***************************************************************************)
LEMMA FirstAlong ==
  ASSUME NEW i \in Items, NEW q, NEW t, TextFits(t), NEW secret, secret = SecretFor(i, q), NEW n,
         NEW packet, HeaderToBytes(packet.header) = FirstBytes(i, secret, q),
         packet.payload = PayloadAt(secret, q.route, t, 1),
         NEW p, p = Under(i, q, 1, n, packet, Intact)
  PROVE  Along(p, q, t)
<1>1. p.bytes = [header |-> HeaderToBytes(packet.header), payload |-> packet.payload]
  BY DEF Under, PacketToBytes
<1>2. p.bytes.header = FirstBytes(i, secret, q) /\ p.bytes.payload = PayloadAt(secret, q.route, t, 1)
  BY <1>1
<1>3. /\ p.item = i /\ p.request = q /\ p.hop = 1 /\ p.damage = Intact
  BY DEF Under
<1>4. Intact.kind = "none"
  BY DEF Intact
<1>5. MeantAt(p, secret, p.hop) = MeantHeader(i, secret, q.route, q.delays, Destination(i), 1)
  BY <1>3 DEF MeantAt
<1>6. p.bytes.header = HeaderToBytes(MeantAt(p, SecretFor(p.item, q), p.hop))
  BY <1>2, <1>3, <1>5 DEF FirstBytes
<1>7. p.damage.kind = "none"
  BY <1>3, <1>4
<1>8. p.bytes.payload = PayloadAt(SecretFor(p.item, q), q.route, t, p.hop)
  BY <1>2, <1>3
<1> QED BY <1>3, <1>6, <1>7, <1>8 DEF Along

LEMMA BuiltAlong ==
  ASSUME NEW m \in Messages, NEW q \in Requests, NEW secret, secret = SecretFor(m, q),
         NEW made, made = BuildPacket(m, secret, q.plaintext, PayloadSize, q.route, Destination(m), q.delays),
         made.error = "none", NEW n
  PROVE  Along(Under(m, q, 1, n, made.packet, Intact), q, q.plaintext)
<1> DEFINE h == NewHeader(m, secret, q.route, q.delays, Destination(m))
           l == Len(q.route)
           t == q.plaintext
           packet == [header  |-> h.header, payload |-> Encapsulate(t, h.payload_keys, PayloadSize)]
<1>1. ~Panics(q.route, q.delays) /\ Valid(PayloadSize, Len(t))
  <2>1. \A e : Failure(e).error = e
    BY DEF Failure
  <2>2. Panics(q.route, q.delays) \/ ~Valid(PayloadSize, Len(t)) =>
          made \in {Failure("panic"), Failure("InvalidPayload")}
    BY DEF BuildPacket
  <2> QED BY <2>1, <2>2
<1>2. made = [error |-> "none", packet |-> packet]
  BY <1>1 DEF BuildPacket
<1>3. made.packet.header = h.header /\ made.packet.payload = Encapsulate(t, h.payload_keys, PayloadSize)
  BY <1>2
<1>4. l \in 1..MaxRoute /\ Len(q.route) = l /\ l \in Nat
  BY <1>1, NotPanicking, Lengths DEF RequestOK
<1> HIDE DEF l
<1>5. ProcessesAlong(m, secret, q.route, q.delays, Destination(m), l)
  BY <1>4, RouteProcesses
<1>6. HeaderToBytes(h.header) = FirstBytes(m, secret, q)
      /\ h.payload_keys = [i \in 1..l |-> PayloadKey(secret, q.route, i)]
  BY <1>5 DEF ProcessesAlong, FirstBytes
<1> HIDE DEF h
<1>7. made.packet.payload = PayloadAt(secret, q.route, t, 1)
  BY <1>3, <1>4, <1>6 DEF Encapsulate, PayloadAt
<1>8. m \in Items /\ TextFits(t)
  BY <1>1 DEF Items, TextFits, AllPlaintexts
<1>9. HeaderToBytes(made.packet.header) = FirstBytes(m, secret, q)
  BY <1>3, <1>6
<1> QED BY <1>7, <1>8, <1>9, FirstAlong

LEMMA AnsweredAlong ==
  ASSUME NEW r \in Replies, NEW s, SurbOK(r, s), s.error = "none", NEW t \in Plaintexts,
         NEW used, used = UseSurb(SurbFromBytes(s.bytes).surb, t, PayloadSize), used.error = "none", NEW n
  PROVE  Along(Under(r, s.request, 1, n, used.packet, Intact), s.request, t)
<1> DEFINE q == s.request
           l == Len(q.route)
           h == MeantHeader(r, r, q.route, q.delays, Destination(r), 1)
           keys == [i \in 1..l |-> PayloadKey(r, q.route, i)]
           hop == Address(q.route[1])
<1>1. RequestOK(q) /\ s.bytes = SurbToBytes(SurbOf(h, hop, keys))
  BY DEF SurbOK
<1>2. l \in 1..MaxRoute /\ Len(q.route) = l /\ l \in Nat \ {0} /\ l \in Nat /\ 1 \in 1..l
  BY <1>1, Lengths DEF RequestOK
<1> HIDE DEF l, q
<1>3. IsHeader(h)
  BY <1>2, MeantHeadersAreGood DEF GoodHeader
<1>4. IsSeq(keys, l)
  BY <1>2 DEF IsSeq
<1> HIDE DEF h, keys
<1>5. SurbFromBytes(s.bytes).surb = SurbOf(h, hop, keys)
  <2>1. SurbFromBytes(s.bytes) = [error |-> "none", surb |-> SurbOf(h, hop, keys)]
    BY <1>1, <1>2, <1>3, <1>4, SurbParses
  <2> QED BY <2>1
<1>6. Valid(PayloadSize, Len(t))
  <2> SUFFICES ASSUME ~Valid(PayloadSize, Len(t)) PROVE FALSE
    OBVIOUS
  <2>1. used = Failure("InvalidPayload")
    BY DEF UseSurb
  <2> QED BY <2>1 DEF Failure
<1>7. used.packet.header = h /\ used.packet.payload = Encapsulate(t, keys, PayloadSize)
  <2>1. used = [error |-> "none", packet |-> [header |-> h, payload |-> Encapsulate(t, keys, PayloadSize)],
                address |-> hop]
    BY <1>5, <1>6 DEF UseSurb, SurbOf
  <2> QED BY <2>1
<1>8. r \in Items /\ TextFits(t) /\ r = SecretFor(r, q)
  BY <1>6, ItemAssumption DEF Items, TextFits, AllPlaintexts, SecretFor
<1>9. HeaderToBytes(used.packet.header) = FirstBytes(r, r, q)
  BY <1>7 DEF FirstBytes, h
<1>10. used.packet.payload = PayloadAt(r, q.route, t, 1)
  BY <1>2, <1>7 DEF Encapsulate, PayloadAt, keys
<1>11. Along(Under(r, q, 1, n, used.packet, Intact), q, t)
  BY <1>8, <1>9, <1>10, FirstAlong
<1> QED BY <1>11 DEF q

(***************************************************************************)
(* So are packets that are damaged, except for the damage.                 *)
(***************************************************************************)
LEMMA AlongDamaged ==
  ASSUME NEW p, PacketOK(p), NEW q, NEW t, Along(p, q, t), NEW kind \in {"header", "payload", "cut"},
         NEW bytes, kind # "header" => bytes.header = p.bytes.header /\ Spoiled(bytes.payload),
         p.damage = Intact,
         NEW s, s = [p EXCEPT !.bytes = bytes, !.damage = [kind |-> kind, hop |-> p.hop]]
  PROVE  Along(s, q, t)
<1>1. p = [item |-> p.item, request |-> p.request, hop |-> p.hop, at |-> p.at, bytes |-> p.bytes,
           damage |-> p.damage]
  BY DEF PacketOK
<1>2. s = [item |-> p.item, request |-> p.request, hop |-> p.hop, at |-> p.at, bytes |-> bytes,
           damage |-> [kind |-> kind, hop |-> p.hop]]
  BY <1>1
<1>3. /\ s.item = p.item /\ s.request = p.request /\ s.hop = p.hop /\ s.bytes = bytes
      /\ s.damage.kind = kind /\ s.damage.hop = p.hop
  BY <1>2
<1>4. MeantAt(s, SecretFor(s.item, q), s.hop) = MeantAt(p, SecretFor(p.item, q), p.hop)
  BY <1>3 DEF MeantAt
<1>5. p.damage.kind # "header"
  BY DEF Intact
<1>6. p.request = q /\ TextFits(t) /\ p.bytes.header = HeaderToBytes(MeantAt(p, SecretFor(p.item, q), p.hop))
  BY <1>5 DEF Along
<1>7. s.damage.kind # "header" =>
        s.bytes.header = HeaderToBytes(MeantAt(s, SecretFor(s.item, q), s.hop)) /\ Spoiled(s.bytes.payload)
  BY <1>3, <1>4, <1>6
<1>8. s.request = q /\ s.damage.kind \in {"header", "payload", "cut"} /\ s.damage.hop = s.hop
  BY <1>3, <1>6
<1> QED BY <1>6, <1>7, <1>8 DEF Along

LEMMA IntactPayload ==
  ASSUME NEW p, PacketOK(p), NEW q, NEW t, Along(p, q, t), p.damage = Intact
  PROVE  IsPayload(p.bytes.payload) /\ \E text : Enciphered(p.bytes.payload, text)
<1> DEFINE l == Len(p.request.route)
<1>1. l \in Nat /\ p.hop \in 1..l /\ Len(p.request.route) = l
  BY Lengths DEF PacketOK, RequestOK
<1> HIDE DEF l
<1>2. PayloadsGo(SecretFor(p.item, q), p.request.route, l, t)
  BY <1>1, PayloadsAlong
<1>3. p.damage.kind = "none"
  BY DEF Intact
<1>4. p.request = q /\ p.bytes.payload = PayloadAt(SecretFor(p.item, q), q.route, t, p.hop)
  BY <1>3 DEF Along
<1>5. Enciphered(p.bytes.payload, SetFinalPayload(t, PayloadSize))
  BY <1>1, <1>2, <1>4 DEF PayloadsGo
<1> QED BY <1>5, PayloadIsPayload

LEMMA GarbledIsSpoiled ==
  ASSUME NEW p, PacketOK(p), NEW q, NEW t, Along(p, q, t), p.damage = Intact,
         NEW bytes, bytes = Garbled(p.bytes)
  PROVE  Spoiled(bytes.payload)
<1> DEFINE d == p.bytes.payload
<1>1. PICK text : IsPayload(d) /\ Enciphered(d, text)
  BY IntactPayload
<1>2. p.bytes = [header |-> p.bytes.header, payload |-> d]
  BY DEF PacketOK
<1>3. bytes.payload = Encrypt(<<"noise">>, d)
  BY <1>2 DEF Garbled
<1>4. d = [text |-> d.text, layers |-> d.layers]
  BY <1>1 DEF IsPayload
<1> HIDE DEF d
<1>5. bytes.payload = Encrypt(<<"noise">>, [text |-> d.text, layers |-> d.layers])
  BY <1>3, <1>4
<1> QED BY <1>1, <1>5, NoiseSpoils

LEMMA CutIsSpoiled ==
  ASSUME NEW p, PacketOK(p), NEW q, NEW t, Along(p, q, t), p.damage = Intact,
         NEW length, NEW bytes, bytes = CutTo(p.bytes, length)
  PROVE  Spoiled(bytes.payload)
<1> DEFINE d == p.bytes.payload
           cut == SubSeq(d.text, 1, length)
<1>1. PICK text : IsPayload(d) /\ Enciphered(d, text)
  BY IntactPayload
<1>2. p.bytes = [header |-> p.bytes.header, payload |-> d]
  BY DEF PacketOK
<1>3. d = [text |-> d.text, layers |-> d.layers]
  BY <1>1 DEF IsPayload
<1>4. bytes.payload = Encrypt(<<"noise">>, [d EXCEPT !.text = cut])
  BY <1>2 DEF CutTo
<1> HIDE DEF d, cut
<1>5. [d EXCEPT !.text = cut] = [text |-> cut, layers |-> d.layers]
  BY <1>3
<1>6. bytes.payload = Encrypt(<<"noise">>, [text |-> cut, layers |-> d.layers])
  BY <1>4, <1>5
<1> QED BY <1>1, <1>6, NoiseSpoils

(***************************************************************************)
(* A payload with a layer on it changes with every layer put on or taken   *)
(* off, and two such payloads do not read alike unless they are the same.  *)
(***************************************************************************)
LEMMA TurnChanges ==
  ASSUME NEW d, NEW m, Layered(d, m), NEW layer, NEW undone, NEW e, e = Turn(d, layer, undone)
  PROVE  e # d
<1> DEFINE s == d.layers
           cut == SubSeq(s, 1, m - 1)
           longer == Append(s, layer)
           S == {s[i] : i \in 1..m} \cup {layer}
<1>1. d = [text |-> d.text, layers |-> s] /\ m \in Nat /\ m # 0 /\ IsSeq(s, m)
  BY DEF Layered, IsPayload
<1>2. s \in Seq(S) /\ Len(s) = m
  <2>1. s \in [1..m -> S]
    BY <1>1 DEF IsSeq
  <2> HIDE DEF S
  <2>2. s \in Seq(S)
    BY <1>1, <2>1, SeqDef
  <2>3. Len(s) = m
    BY <1>1, SeqOfElements
  <2> QED BY <2>2, <2>3
<1>3. layer \in S
  OBVIOUS
<1> HIDE DEF S
<1>4. Len(longer) = m + 1
  BY <1>2, <1>3, AppendProperties
<1>5. Len(cut) = m - 1
  <2>1. 1 \in 1..(m + 1) /\ m - 1 \in 0..m
    BY <1>1
  <2> QED BY <1>1, <1>2, <2>1, SubSeqProperties
<1>6. CASE e = [d EXCEPT !.layers = cut]
  <2> HIDE DEF cut, s
  <2>1. e.layers = cut
    BY <1>1, <1>6
  <2>2. cut # s
    BY <1>1, <1>2, <1>5
  <2> QED BY <2>1, <2>2 DEF s
<1>7. CASE e = [d EXCEPT !.layers = longer]
  <2> HIDE DEF longer, s
  <2>1. e.layers = longer
    BY <1>1, <1>7
  <2>2. longer # s
    BY <1>1, <1>2, <1>4
  <2> QED BY <2>1, <2>2 DEF s
<1>8. e = [d EXCEPT !.layers = cut] \/ e = [d EXCEPT !.layers = longer]
  BY <1>2 DEF Turn
<1> QED BY <1>6, <1>7, <1>8

LEMMA LayersCounted ==
  ASSUME NEW d, NEW m, NEW n, Layered(d, m), Layered(d, n)
  PROVE  m = n
<1>1. m \in Nat /\ n \in Nat /\ IsSeq(d.layers, m) /\ IsSeq(d.layers, n)
  BY DEF Layered
<1>2. Len(d.layers) = m /\ Len(d.layers) = n
  BY <1>1, SeqOfElements
<1> QED BY <1>2

LEMMA ReadsApart ==
  ASSUME NEW d, NEW m, Layered(d, m), NEW e, NEW k, Layered(e, k), d # e,
         NEW l \in Nat \ {0}, Len(d.text) = l
  PROVE  Read(d) # Read(e)
<1>1. Read(d) = [i \in 1..l |-> {<<"noise", d, i>>}]
  BY LayeredReads
<1>2. Read(e) = [i \in 1..Len(e.text) |-> {<<"noise", e, i>>}]
  BY LayeredReads
<1>3. SUFFICES ASSUME Read(d) = Read(e) PROVE FALSE
  OBVIOUS
<1>4. DOMAIN Read(d) = 1..l /\ DOMAIN Read(e) = 1..Len(e.text) /\ 1 \in 1..l
  BY <1>1, <1>2
<1>5. 1 \in 1..Len(e.text)
  BY <1>3, <1>4
<1>6. Read(d)[1] = {<<"noise", d, 1>>} /\ Read(e)[1] = {<<"noise", e, 1>>}
  BY <1>1, <1>2, <1>4, <1>5
<1>7. {<<"noise", d, 1>>} = {<<"noise", e, 1>>}
  BY <1>3, <1>6
<1>8. <<"noise", d, 1>> = <<"noise", e, 1>>
  BY <1>7
<1> QED BY <1>8

(***************************************************************************)
(* What a relay passes on is the header meant for the next node, and the   *)
(* payload turned once.                                                    *)
(***************************************************************************)
TakesOff(p, s) ==
  LET secret == SecretFor(p.item, p.request)
      route  == p.request.route
  IN  /\ p.damage.kind # "header" /\ ~TooShort(Len(p.bytes.payload.text)) /\ p.hop < Len(route)
      /\ s.bytes = [header  |-> HeaderToBytes(MeantAt(p, secret, p.hop + 1)),
                    payload |-> Decrypt(PayloadKey(secret, route, p.hop), p.bytes.payload)]

LEMMA RelayTakesOff ==
  ASSUME NEW p, PacketOK(p), NEW q, NEW t, Along(p, q, t),
         NEW o, o = Computed(p.at, p.bytes), o.kind = "ForwardHop", NEW n,
         NEW s, s = Under(p.item, p.request, p.hop + 1, n, o.packet, p.damage)
  PROVE  TakesOff(p, s)
<1> DEFINE secret == SecretFor(p.item, q)
           key == PayloadKey(secret, p.request.route, p.hop)
<1>1. ComesOut(p, secret, o)
  BY AlongOutcome
<1>2. /\ p.damage.kind # "header" /\ ~TooShort(Len(p.bytes.payload.text))
      /\ p.hop < Len(p.request.route) /\ o = Onward(p, secret)
  BY <1>1, ComesToKind
<1>3. o.packet = [header |-> MeantAt(p, secret, p.hop + 1), payload |-> Decrypt(key, p.bytes.payload)]
  BY <1>2 DEF Onward
<1>4. s.bytes = [header |-> HeaderToBytes(MeantAt(p, secret, p.hop + 1)), payload |-> Decrypt(key, p.bytes.payload)]
  BY <1>3 DEF Under, PacketToBytes
<1>5. p.request = q
  BY DEF Along
<1> QED BY <1>2, <1>4, <1>5 DEF TakesOff

(***************************************************************************)
(* So the payload does not read as before.                                 *)
(***************************************************************************)
LEMMA PayloadReadsAnew ==
  ASSUME NEW p, PacketOK(p), NEW q, NEW t, Along(p, q, t), NEW s, TakesOff(p, s)
  PROVE  Read(s.bytes.payload) # Read(p.bytes.payload)
<1> DEFINE secret == SecretFor(p.item, q)
           route == p.request.route
           key == PayloadKey(secret, route, p.hop)
           d == p.bytes.payload
           e == s.bytes.payload
           n == Len(route)
<1>1. p.request = q
  BY DEF Along
<1>2. /\ p.damage.kind # "header" /\ ~TooShort(Len(d.text)) /\ p.hop < n
      /\ e = Decrypt(key, d)
  BY <1>1 DEF TakesOff
<1>3. n \in Nat /\ p.hop \in 1..n /\ p.hop + 1 \in 1..n /\ Len(route) = n
  BY <1>2, Lengths DEF PacketOK, RequestOK
<1>4. PICK l \in Nat : l = Len(d.text) /\ l # 0
  <2>1. Len(d.text) \in Nat
    BY PayloadLengths
  <2>2. Overhead \in Nat /\ Overhead >= 1
    BY PayloadAssumption DEF Overhead
  <2> QED BY <1>2, <2>1, <2>2 DEF TooShort
<1>5. IsPayload(d)
  BY PayloadIsPayload
<1>6. PayloadsGo(secret, route, n, t)
  BY <1>3, PayloadsAlong
<1> HIDE DEF n
<1>7. key # <<"noise">>
  BY <1>3, <1>6 DEF PayloadsGo
<1>8. \E m, k : Layered(d, m) /\ Layered(e, k) /\ d # e
  <2>1. CASE p.damage.kind = "none"
    <3>1. d = PayloadAt(secret, route, t, p.hop)
      BY <1>1, <2>1 DEF Along
    <3>2. e = PayloadAt(secret, route, t, p.hop + 1)
      BY <1>2, <1>3, <1>6, <3>1 DEF PayloadsGo
    <3>3. PICK m : Layered(d, m)
      BY <1>3, <1>6, <3>1 DEF PayloadsGo
    <3>4. PICK k : Layered(e, k)
      BY <1>3, <1>6, <3>2 DEF PayloadsGo
    <3>5. e = Turn(d, <<"dec", key>>, <<"enc", key>>)
      BY <1>2 DEF Decrypt
    <3> HIDE DEF d, e, key
    <3>6. e # d
      BY <3>3, <3>5, TurnChanges
    <3> QED BY <3>3, <3>4, <3>6
  <2>2. CASE p.damage.kind \in {"payload", "cut"}
    <3>1. Spoiled(d)
      BY <2>2 DEF Along
    <3> HIDE DEF d, e, key
    <3>2. PICK m, k : m # k /\ Layered(d, m) /\ Layered(e, k)
      BY <1>2, <1>5, <1>7, <3>1, SpoiledStays
    <3>3. d # e
      BY <3>2, LayersCounted
    <3> QED BY <3>2, <3>3
  <2> QED BY <1>2, <2>1, <2>2 DEF Along
<1>9. PICK m, k : Layered(d, m) /\ Layered(e, k) /\ d # e
  BY <1>8
<1> HIDE DEF d, e
<1>10. Read(d) # Read(e)
  BY <1>4, <1>9, ReadsApart
<1> QED BY <1>10 DEF d, e

(***************************************************************************)
(* Nor is any part of the header in the next one, in any place.            *)
(***************************************************************************)
LEMMA HeaderElements ==
  ASSUME NEW h, IsHeader(h), NEW b, b = HeaderToBytes(h), NEW x, x \in Range(b)
  PROVE  InHeader(h, x)
<1>1. IsSeq(b, HeaderLength) /\ b[1] = h.shared_secret /\ b[2] = h.routing_info.integrity_mac
      /\ InfoOf(b) = h.routing_info.info
  BY HeaderBytes
<1>2. HeaderLength = InfoLength + 2 /\ InfoLength \in Nat
  BY Lengths DEF HeaderLength
<1>3. \A i \in 1..InfoLength : InfoOf(b)[i] = b[i + 2]
  BY <1>1, HeaderParses
<1> HIDE DEF InfoOf
<1>4. PICK j \in 1..(InfoLength + 2) : x = b[j]
  <2>1. DOMAIN b = 1..(InfoLength + 2)
    BY <1>1, <1>2 DEF IsSeq
  <2> QED BY <2>1 DEF Range
<1>5. CASE j \in {1, 2}
  BY <1>1, <1>4, <1>5 DEF InHeader
<1>6. CASE j \notin {1, 2}
  <2>1. j - 2 \in 1..InfoLength /\ (j - 2) + 2 = j
    BY <1>2, <1>6
  <2>2. InfoOf(b)[j - 2] = b[j]
    BY <1>3, <2>1
  <2> QED BY <1>1, <1>4, <2>1, <2>2 DEF InHeader
<1> QED BY <1>5, <1>6

LEMMA DestinationsArePlain == \A i : Plain(Destination(i))
<1>1. \A c, x, i : <<"stream", c, x>> # <<"destination", i>> /\ <<"stream", c, x>> # <<"identifier", i>>
  OBVIOUS
<1> QED BY <1>1 DEF Plain, Destination

LEMMA HeaderAnew ==
  ASSUME NEW p, PacketOK(p), NEW q, NEW t, Along(p, q, t), NEW s, TakesOff(p, s)
  PROVE  Range(s.bytes.header) \cap Range(p.bytes.header) = {}
<1> DEFINE secret == SecretFor(p.item, q)
           route == q.route
           n == Len(route)
           h(k) == MeantHeader(p.item, secret, route, q.delays, Destination(p.item), k)
<1>1. p.request = q
  BY DEF Along
<1>2. /\ p.damage.kind # "header" /\ p.hop < n
      /\ s.bytes.header = HeaderToBytes(MeantAt(p, secret, p.hop + 1))
  BY <1>1 DEF TakesOff
<1>3. p.bytes.header = HeaderToBytes(MeantAt(p, secret, p.hop))
  BY <1>2 DEF Along
<1>4. \A k : MeantAt(p, secret, k) = h(k)
  BY <1>1 DEF MeantAt
<1>5. n \in 1..MaxRoute /\ p.hop \in 1..(n - 1) /\ p.hop \in 1..n /\ p.hop + 1 \in 1..n /\ Len(route) = n
  BY <1>1, <1>2, Lengths DEF PacketOK, RequestOK
<1>6. Plain(Destination(p.item))
  BY DestinationsArePlain
<1> HIDE DEF n, secret
<1>7. IsHeader(h(p.hop)) /\ IsHeader(h(p.hop + 1))
  BY <1>5, MeantHeadersAreGood DEF GoodHeader
<1>8. SUFFICES ASSUME NEW x, x \in Range(p.bytes.header), x \in Range(s.bytes.header) PROVE FALSE
  OBVIOUS
<1>9. p.bytes.header = HeaderToBytes(h(p.hop)) /\ s.bytes.header = HeaderToBytes(h(p.hop + 1))
  BY <1>2, <1>3, <1>4
<1>10. InHeader(h(p.hop), x) /\ InHeader(h(p.hop + 1), x)
  <2> HIDE DEF h
  <2> QED BY <1>7, <1>8, <1>9, HeaderElements
<1>11. ~InHeader(h(p.hop + 1), x)
  BY <1>5, <1>6, <1>10, NothingStays
<1> QED BY <1>10, <1>11

-------------------------------------------------------------------------------
(***************************************************************************)
(* The invariant.  What was sent and has not ended is on its way, and in   *)
(* one place only.                                                         *)
(***************************************************************************)
WayOK(p) ==
  /\ SentItem(p.item) /\ Unfinished(p.item)
  /\ Along(p, RequestOf(p.item), PlaintextOf(p.item))

OneEach == \A p, q \in packets : p.item = q.item => p = q

PacketsAlong == (\A p \in packets : WayOK(p)) /\ OneEach

(***************************************************************************)
(* What a node remembers comes from an item that was sent and that has     *)
(* left that node, which was its last if no blinded secret came with it.   *)
(***************************************************************************)
RememberedOf(c, i, q, k) ==
  /\ k \in 1..Len(q.route)
  /\ c.shared_secret = Accumulators(q.route, Secret(SecretFor(i, q)))[k]
  /\ c.secret.known \/ k = Len(q.route)

TracedTo(c, i, k) ==
  /\ SentItem(i) /\ RememberedOf(c, i, RequestOf(i), k)
  /\ \A p \in packets : p.item = i => k < p.hop

CachesTraced == \A n \in Nodes : \A c \in caches[n] : \E i \in Items : \E k \in Nat : TracedTo(c, i, k)

(***************************************************************************)
(* Only what was sent is received, lost or refused, the last for a reason. *)
(***************************************************************************)
EndsSent ==
  /\ received = [i \in Items |-> received[i]]
  /\ \A i \in Items : received[i] # None => SentItem(i)
  /\ \A i \in lost : SentItem(i)
  /\ \A r \in refused : SentItem(r.item)

RouteOf(i) == IF i \in Messages THEN built[i].request.route ELSE surbs[i].request.route

Reasoned(r) ==
  \/ /\ r.damage.kind = "header"
     /\ r.error = "integrity MAC" /\ r.hop = r.damage.hop
  \/ /\ r.damage.kind = "payload" \/ (r.damage.kind = "cut" /\ ~TooShort(r.length))
     /\ r.error = "InvalidPayload" /\ r.hop = Len(RouteOf(r.item))
  \/ /\ r.damage.kind = "cut" /\ TooShort(r.length)
     /\ r.error \in {"InvalidPacket", "InvalidPayload"} /\ r.hop = r.damage.hop
  \/ /\ r.damage.kind # "header"
     /\ r.error = "without blinded secret" /\ r.hop < Len(RouteOf(r.item))
     /\ r.item \in Messages /\ built[r.item].request.shared
     /\ \E m \in Messages \ {r.item} : built[m] # None /\ built[m].request.shared

RefusalsReasoned == \A r \in refused : Reasoned(r)

JourneyInv == PacketsAlong /\ CachesTraced /\ EndsSent /\ RefusalsReasoned

LEMMA ReasonsGiven == RefusalsReasoned => RefusedForAReason
BY DEF RefusalsReasoned, Reasoned, RouteOf, RefusedForAReason

(***************************************************************************)
(* What a step can do to what is sent, under way and ended.                *)
(***************************************************************************)
ItemsStay ==
  \A j \in Items : SentItem(j) =>
    SentItem(j)' /\ RequestOf(j)' = RequestOf(j) /\ PlaintextOf(j)' = PlaintextOf(j)

CallsStay == \A m \in Messages : built[m] # None => built'[m] = built[m]

NoOtherSent(i) == \A j \in Items : j # i /\ SentItem(j)' => SentItem(j)

Sending(i) ==
  /\ i \in Items /\ ~SentItem(i) /\ SentItem(i)'
  /\ ItemsStay /\ CallsStay /\ NoOtherSent(i)
  /\ \E s : /\ s.item = i /\ packets' = packets \cup {s}
            /\ Along(s, RequestOf(i)', PlaintextOf(i)')
  /\ UNCHANGED <<caches, received, refused, lost>>

Preparing ==
  /\ ItemsStay /\ CallsStay /\ \A j \in Items : SentItem(j)' => SentItem(j)
  /\ UNCHANGED <<packets, caches, received, refused, lost>>

CachesGrow(p) ==
  \A n \in Nodes : \A c \in caches'[n] :
    c \in caches[n] \/ RememberedOf(c, p.item, RequestOf(p.item), p.hop)

Becomes(p, s) ==
  /\ s.item = p.item /\ packets' = (packets \ {p}) \cup {s}
  /\ Along(s, RequestOf(p.item), PlaintextOf(p.item))
  /\ UNCHANGED <<built, surbs, received, refused, lost>>

Relaying(p) == CachesGrow(p) /\ \E s : s.hop = p.hop + 1 /\ TakesOff(p, s) /\ Becomes(p, s)

Damaging(p) == UNCHANGED caches /\ \E s : s.hop = p.hop /\ Becomes(p, s)

Receives(p) ==
  /\ received' = [received EXCEPT ![p.item] = Arrival(p.item, PlaintextOf(p.item))]
  /\ UNCHANGED <<refused, lost>>

Refuses(p) ==
  /\ \E r : r.item = p.item /\ Reasoned(r) /\ refused' = refused \cup {r}
  /\ UNCHANGED <<received, lost>>

Loses(p) ==
  /\ lost' = lost \cup {p.item}
  /\ UNCHANGED <<received, refused>>

Ending(p) ==
  /\ packets' = packets \ {p} /\ CachesGrow(p) /\ UNCHANGED <<built, surbs>>
  /\ Receives(p) \/ Refuses(p) \/ Loses(p)

Effect ==
  \/ Preparing
  \/ \E i : Sending(i)
  \/ \E p \in packets : Relaying(p) \/ Damaging(p) \/ Ending(p)

(***************************************************************************)
(* All of this keeps the invariant.                                        *)
(***************************************************************************)
LEMMA SameItems ==
  ASSUME UNCHANGED <<built, surbs>>
  PROVE  \A i : /\ SentItem(i)' = SentItem(i) /\ RequestOf(i)' = RequestOf(i)
                /\ PlaintextOf(i)' = PlaintextOf(i) /\ RouteOf(i)' = RouteOf(i)
BY DEF SentItem, RequestOf, PlaintextOf, RouteOf

LEMMA SentAreItems ==
  ASSUME NEW i, SentItem(i)
  PROVE  i \in Items
BY DEF SentItem, Items

LEMMA ReasonStays ==
  ASSUME NEW r, Reasoned(r), SentItem(r.item), ItemsStay, CallsStay
  PROVE  Reasoned(r)'
<1>1. r.item \in Items
  BY SentAreItems
<1>2. RequestOf(r.item)' = RequestOf(r.item)
  BY <1>1 DEF ItemsStay
<1>3. RouteOf(r.item) = RequestOf(r.item).route /\ RouteOf(r.item)' = RequestOf(r.item).route
  <2>1. RouteOf(r.item) = RequestOf(r.item).route
    BY DEF RouteOf, RequestOf
  <2>2. RouteOf(r.item)' = RequestOf(r.item)'.route
    BY DEF RouteOf, RequestOf
  <2> QED BY <1>2, <2>1, <2>2
<1>4. r.item \in Messages => built[r.item] # None
  BY ItemAssumption DEF SentItem
<1>5. \A m \in Messages : built[m] # None => built'[m] = built[m]
  BY DEF CallsStay
<1>6. PICK l : l = Len(RouteOf(r.item)) /\ l = Len(RouteOf(r.item)')
  BY <1>3
<1> QED BY <1>4, <1>5, <1>6 DEF Reasoned

LEMMA AllStay ==
  ASSUME UNCHANGED <<built, surbs>>
  PROVE  ItemsStay /\ CallsStay
BY SameItems DEF ItemsStay, CallsStay

LEMMA SendingKeeps ==
  ASSUME JourneyInv, NEW i, Sending(i)
  PROVE  JourneyInv'
<1>1. PICK s : /\ s.item = i /\ packets' = packets \cup {s}
               /\ Along(s, RequestOf(i)', PlaintextOf(i)')
  BY DEF Sending
<1>2. /\ i \in Items /\ ~SentItem(i) /\ SentItem(i)' /\ ItemsStay /\ CallsStay
      /\ UNCHANGED <<caches, received, refused, lost>>
  BY DEF Sending
<1>3. \A p \in packets : WayOK(p) /\ p.item \in Items /\ p.item # i
  BY <1>2, SentAreItems DEF JourneyInv, PacketsAlong, WayOK
<1>4. Unfinished(i)'
  BY <1>2 DEF JourneyInv, EndsSent, Unfinished
<1>5. ASSUME NEW p \in packets PROVE WayOK(p)'
  <2>1. SentItem(p.item) /\ Unfinished(p.item) /\ Along(p, RequestOf(p.item), PlaintextOf(p.item))
    BY <1>3 DEF WayOK
  <2>2. SentItem(p.item)' /\ RequestOf(p.item)' = RequestOf(p.item) /\ PlaintextOf(p.item)' = PlaintextOf(p.item)
    BY <1>2, <1>3, <2>1 DEF ItemsStay
  <2>3. Unfinished(p.item)'
    BY <1>2, <2>1 DEF Unfinished
  <2>4. Along(p, RequestOf(p.item)', PlaintextOf(p.item)')
    BY <2>1, <2>2
  <2> QED BY <2>2, <2>3, <2>4 DEF WayOK
<1>6. WayOK(s)'
  BY <1>1, <1>2, <1>4 DEF WayOK
<1>7. PacketsAlong'
  BY <1>1, <1>3, <1>5, <1>6 DEF JourneyInv, PacketsAlong, OneEach
<1>8. CachesTraced'
  <2> SUFFICES ASSUME NEW n \in Nodes, NEW c \in caches'[n]
               PROVE  \E j \in Items : \E k \in Nat : TracedTo(c, j, k)'
    BY DEF CachesTraced
  <2>1. PICK j \in Items : \E k \in Nat : TracedTo(c, j, k)
    BY <1>2 DEF JourneyInv, CachesTraced
  <2>2. PICK k \in Nat : TracedTo(c, j, k)
    BY <2>1
  <2>3. SentItem(j) /\ RememberedOf(c, j, RequestOf(j), k) /\ \A p \in packets : p.item = j => k < p.hop
    BY <2>2 DEF TracedTo
  <2>4. SentItem(j)' /\ RequestOf(j)' = RequestOf(j) /\ j # i
    BY <1>2, <2>3 DEF ItemsStay
  <2>5. RememberedOf(c, j, RequestOf(j)', k)
    BY <2>3, <2>4
  <2>6. \A p \in packets' : p.item = j => k < p.hop
    BY <1>1, <2>3, <2>4
  <2>7. TracedTo(c, j, k)'
    BY <2>4, <2>5, <2>6 DEF TracedTo
  <2> QED BY <2>7
<1>9. EndsSent'
  <2>1. \A j \in Items : SentItem(j) => SentItem(j)'
    BY <1>2 DEF ItemsStay
  <2>2. \A j : SentItem(j) => SentItem(j)'
    BY <2>1, SentAreItems
  <2> QED BY <1>2, <2>2 DEF JourneyInv, EndsSent
<1>10. RefusalsReasoned'
  BY <1>2, ReasonStays DEF JourneyInv, EndsSent, RefusalsReasoned
<1> QED BY <1>7, <1>8, <1>9, <1>10 DEF JourneyInv

LEMMA PreparingKeeps ==
  ASSUME JourneyInv, Preparing
  PROVE  JourneyInv'
<1>1. ItemsStay /\ CallsStay /\ UNCHANGED <<packets, caches, received, refused, lost>>
  BY DEF Preparing
<1>2. \A j \in Items : SentItem(j) => SentItem(j)' /\ RequestOf(j)' = RequestOf(j) /\ PlaintextOf(j)' = PlaintextOf(j)
  BY <1>1 DEF ItemsStay
<1>3. PacketsAlong'
  <2> SUFFICES ASSUME NEW p \in packets PROVE WayOK(p)'
    BY <1>1 DEF JourneyInv, PacketsAlong, OneEach
  <2>1. SentItem(p.item) /\ Unfinished(p.item) /\ Along(p, RequestOf(p.item), PlaintextOf(p.item))
    BY DEF JourneyInv, PacketsAlong, WayOK
  <2>2. SentItem(p.item)' /\ RequestOf(p.item)' = RequestOf(p.item) /\ PlaintextOf(p.item)' = PlaintextOf(p.item)
    BY <1>2, <2>1, SentAreItems
  <2>3. Unfinished(p.item)'
    BY <1>1, <2>1 DEF Unfinished
  <2>4. Along(p, RequestOf(p.item)', PlaintextOf(p.item)')
    BY <2>1, <2>2
  <2> QED BY <2>2, <2>3, <2>4 DEF WayOK
<1>4. CachesTraced'
  <2> SUFFICES ASSUME NEW n \in Nodes, NEW c \in caches'[n]
               PROVE  \E j \in Items : \E k \in Nat : TracedTo(c, j, k)'
    BY DEF CachesTraced
  <2>1. PICK j \in Items : \E k \in Nat : TracedTo(c, j, k)
    BY <1>1 DEF JourneyInv, CachesTraced
  <2>2. PICK k \in Nat : TracedTo(c, j, k)
    BY <2>1
  <2>3. SentItem(j) /\ RememberedOf(c, j, RequestOf(j), k) /\ \A p \in packets : p.item = j => k < p.hop
    BY <2>2 DEF TracedTo
  <2>4. SentItem(j)' /\ RequestOf(j)' = RequestOf(j)
    BY <1>2, <2>3
  <2>5. RememberedOf(c, j, RequestOf(j)', k)
    BY <2>3, <2>4
  <2>6. TracedTo(c, j, k)'
    BY <1>1, <2>3, <2>4, <2>5 DEF TracedTo
  <2> QED BY <2>6
<1>5. EndsSent'
  <2>1. \A j : SentItem(j) => SentItem(j)'
    BY <1>2, SentAreItems
  <2> QED BY <1>1, <2>1 DEF JourneyInv, EndsSent
<1>6. RefusalsReasoned'
  BY <1>1, ReasonStays DEF JourneyInv, EndsSent, RefusalsReasoned
<1> QED BY <1>3, <1>4, <1>5, <1>6 DEF JourneyInv

(***************************************************************************)
(* A packet at its next hop, or gone, has left the node that remembers it. *)
(***************************************************************************)
LeftBehind(p) ==
  /\ \A s \in packets' : \E o \in packets : s.item = o.item /\ o.hop <= s.hop
  /\ CachesGrow(p) /\ UNCHANGED <<built, surbs>>
  /\ UNCHANGED caches \/ \A s \in packets' : s.item = p.item => p.hop < s.hop
  /\ \A o \in packets \cup packets' : o.hop \in Nat

LEMMA CachesFollow ==
  ASSUME JourneyInv, NEW p \in packets, LeftBehind(p)
  PROVE  CachesTraced'
<1> SUFFICES ASSUME NEW n \in Nodes, NEW c \in caches'[n]
             PROVE  \E j \in Items : \E k \in Nat : TracedTo(c, j, k)'
  BY DEF CachesTraced
<1>1. \A j : SentItem(j)' = SentItem(j) /\ RequestOf(j)' = RequestOf(j)
  BY SameItems DEF LeftBehind
<1>2. CASE c \in caches[n]
  <2>1. PICK j \in Items : \E k \in Nat : TracedTo(c, j, k)
    BY <1>2 DEF JourneyInv, CachesTraced
  <2>2. PICK k \in Nat : TracedTo(c, j, k)
    BY <2>1
  <2>3. SentItem(j) /\ RememberedOf(c, j, RequestOf(j), k) /\ \A o \in packets : o.item = j => k < o.hop
    BY <2>2 DEF TracedTo
  <2>4. ASSUME NEW s \in packets', s.item = j PROVE k < s.hop
    <3>1. PICK o \in packets : s.item = o.item /\ o.hop <= s.hop
      BY DEF LeftBehind
    <3>2. k < o.hop /\ o.hop \in Nat /\ s.hop \in Nat
      BY <2>3, <2>4, <3>1 DEF LeftBehind
    <3> QED BY <3>1, <3>2
  <2>5. RememberedOf(c, j, RequestOf(j)', k) /\ SentItem(j)'
    BY <1>1, <2>3
  <2>6. TracedTo(c, j, k)'
    BY <2>4, <2>5 DEF TracedTo
  <2> QED BY <2>6
<1>3. CASE c \notin caches[n]
  <2> DEFINE i == p.item
             k == p.hop
  <2>1. RememberedOf(c, i, RequestOf(i), k) /\ ~(UNCHANGED caches)
    BY <1>3 DEF LeftBehind, CachesGrow
  <2>2. SentItem(i) /\ i \in Items
    BY SentAreItems DEF JourneyInv, PacketsAlong, WayOK
  <2>3. \A s \in packets' : s.item = i => k < s.hop
    BY <2>1 DEF LeftBehind
  <2>4. k \in Nat
    BY DEF LeftBehind
  <2> HIDE DEF i, k
  <2>5. RememberedOf(c, i, RequestOf(i)', k) /\ SentItem(i)'
    BY <1>1, <2>1, <2>2
  <2>6. TracedTo(c, i, k)'
    BY <2>3, <2>5 DEF TracedTo
  <2> QED BY <2>2, <2>4, <2>6
<1> QED BY <1>2, <1>3

LEMMA BecomingKeeps ==
  ASSUME NetworkInv, NetworkInv', JourneyInv, NEW p \in packets, Relaying(p) \/ Damaging(p)
  PROVE  JourneyInv'
<1>1. PICK s : /\ Becomes(p, s) /\ s.hop \in {p.hop, p.hop + 1}
               /\ s.hop = p.hop + 1 \/ UNCHANGED caches
  BY DEF Relaying, Damaging
<1>2. /\ s.item = p.item /\ packets' = (packets \ {p}) \cup {s}
      /\ Along(s, RequestOf(p.item), PlaintextOf(p.item))
      /\ UNCHANGED <<built, surbs, received, refused, lost>>
  BY <1>1 DEF Becomes
<1>3. CachesGrow(p)
  BY DEF Relaying, Damaging, CachesGrow
<1>4. \A o \in packets \cup packets' : o.hop \in Nat
  <2>1. \A o : PacketOK(o) => o.hop \in Nat
    BY PacketAtNode
  <2> QED BY <2>1 DEF NetworkInv
<1>5. \A i : /\ SentItem(i)' = SentItem(i) /\ RequestOf(i)' = RequestOf(i)
             /\ PlaintextOf(i)' = PlaintextOf(i)
  BY <1>2, SameItems
<1>6. \A i : Unfinished(i)' = Unfinished(i)
  BY <1>2 DEF Unfinished
<1>7. \A o \in packets : WayOK(o)
  BY DEF JourneyInv, PacketsAlong
<1>8. ASSUME NEW o \in packets' PROVE WayOK(o)'
  <2>1. SentItem(o.item) /\ Unfinished(o.item) /\ Along(o, RequestOf(o.item), PlaintextOf(o.item))
    BY <1>2, <1>7 DEF WayOK
  <2> QED BY <1>5, <1>6, <2>1 DEF WayOK
<1>9. OneEach'
  BY <1>2 DEF JourneyInv, PacketsAlong, OneEach
<1>10. LeftBehind(p)
  <2>1. \A o \in packets' : \E q \in packets : o.item = q.item /\ q.hop <= o.hop
    BY <1>1, <1>2, <1>4
  <2>2. s.hop = p.hop + 1 => \A o \in packets' : o.item = p.item => p.hop < o.hop
    <3> SUFFICES ASSUME s.hop = p.hop + 1, NEW o \in packets', o.item = p.item PROVE p.hop < o.hop
      OBVIOUS
    <3>1. o = s
      BY <1>2 DEF JourneyInv, PacketsAlong, OneEach
    <3> QED BY <1>4, <3>1
  <2> QED BY <1>1, <1>2, <1>3, <1>4, <2>1, <2>2 DEF LeftBehind
<1>11. CachesTraced'
  BY <1>10, CachesFollow
<1>12. EndsSent'
  BY <1>2, <1>5 DEF JourneyInv, EndsSent
<1>13. RefusalsReasoned'
  BY <1>2, AllStay, ReasonStays DEF JourneyInv, EndsSent, RefusalsReasoned
<1> QED BY <1>8, <1>9, <1>11, <1>12, <1>13 DEF JourneyInv, PacketsAlong

LEMMA EndingKeeps ==
  ASSUME NetworkInv, NetworkInv', JourneyInv, NEW p \in packets, Ending(p)
  PROVE  JourneyInv'
<1>1. /\ packets' = packets \ {p} /\ CachesGrow(p) /\ UNCHANGED <<built, surbs>>
      /\ Receives(p) \/ Refuses(p) \/ Loses(p)
  BY DEF Ending
<1>2. \A i : /\ SentItem(i)' = SentItem(i) /\ RequestOf(i)' = RequestOf(i)
             /\ PlaintextOf(i)' = PlaintextOf(i)
  BY <1>1, SameItems
<1>3. \A o \in packets : WayOK(o) /\ SentItem(o.item) /\ o.item \in Items
  BY SentAreItems DEF JourneyInv, PacketsAlong, WayOK
<1>4. \A o \in packets' : o \in packets /\ o.item # p.item
  BY <1>1 DEF JourneyInv, PacketsAlong, OneEach
<1>5. received = [i \in Items |-> received[i]]
  BY DEF JourneyInv, EndsSent
<1>6. \A i \in Items : i # p.item => /\ received'[i] = received[i] /\ (i \in lost' <=> i \in lost)
                                     /\ \A r \in refused' : r.item = i => r \in refused
  BY <1>1, <1>5 DEF Receives, Refuses, Loses
<1>7. ASSUME NEW o \in packets' PROVE WayOK(o)'
  <2>1. SentItem(o.item) /\ Unfinished(o.item) /\ Along(o, RequestOf(o.item), PlaintextOf(o.item)) /\ o.item \in Items
    BY <1>3, <1>4 DEF WayOK
  <2>2. Unfinished(o.item)'
    BY <1>4, <1>6, <2>1 DEF Unfinished
  <2> QED BY <1>2, <2>1, <2>2 DEF WayOK
<1>8. OneEach'
  BY <1>4 DEF JourneyInv, PacketsAlong, OneEach
<1>9. LeftBehind(p)
  <2>1. \A o \in packets \cup packets' : o.hop \in Nat
    <3>1. \A o : PacketOK(o) => o.hop \in Nat
      BY PacketAtNode
    <3> QED BY <3>1 DEF NetworkInv
  <2>2. \A o \in packets' : \E q \in packets : o.item = q.item /\ q.hop <= o.hop
    BY <1>4, <2>1
  <2> QED BY <1>1, <1>4, <2>1, <2>2 DEF LeftBehind
<1>10. CachesTraced'
  BY <1>9, CachesFollow
<1>11. SentItem(p.item) /\ p.item \in Items
  BY <1>3
<1>12. EndsSent'
  <2>1. received' = [i \in Items |-> received'[i]]
    BY <1>1, <1>5 DEF Receives, Refuses, Loses
  <2>2. \A i \in Items : received'[i] # None => SentItem(i)
    BY <1>6, <1>11 DEF JourneyInv, EndsSent
  <2>3. \A i \in lost' : SentItem(i)
    BY <1>1, <1>11 DEF JourneyInv, EndsSent, Receives, Refuses, Loses
  <2>4. \A r \in refused' : SentItem(r.item)
    BY <1>1, <1>11 DEF JourneyInv, EndsSent, Receives, Refuses, Loses
  <2> QED BY <1>2, <2>1, <2>2, <2>3, <2>4 DEF EndsSent
<1>13. RefusalsReasoned'
  <2>1. ASSUME NEW r \in refused' PROVE Reasoned(r) /\ SentItem(r.item)
    <3>1. CASE r \in refused
      BY <3>1 DEF JourneyInv, EndsSent, RefusalsReasoned
    <3>2. CASE r \notin refused
      BY <1>1, <1>11, <3>2 DEF Receives, Refuses, Loses
    <3> QED BY <3>1, <3>2
  <2> QED BY <1>1, <2>1, AllStay, ReasonStays DEF RefusalsReasoned
<1> QED BY <1>7, <1>8, <1>10, <1>12, <1>13 DEF JourneyInv, PacketsAlong

LEMMA EffectKeeps ==
  ASSUME NetworkInv, NetworkInv', JourneyInv, Effect
  PROVE  JourneyInv'
BY SendingKeeps, PreparingKeeps, BecomingKeeps, EndingKeeps DEF Effect

-------------------------------------------------------------------------------
(***************************************************************************)
(* Every action does one of these things.  First what senders do, each of  *)
(* whose calls is about one item that was not sent yet.                    *)
(***************************************************************************)
OnlyItem(i) ==
  /\ ~SentItem(i)
  /\ \A m \in Messages : m # i => built'[m] = built[m]
  /\ \A r \in Replies : r # i => surbs'[r] = surbs[r]
  /\ i \in Messages => built[i] = None

LEMMA OtherItemsStay ==
  ASSUME NEW i, OnlyItem(i)
  PROVE  ItemsStay /\ CallsStay /\ NoOtherSent(i)
<1>1. ASSUME NEW j \in Items, j # i
      PROVE  SentItem(j)' = SentItem(j) /\ RequestOf(j)' = RequestOf(j) /\ PlaintextOf(j)' = PlaintextOf(j)
  <2>1. CASE j \in Messages
    BY <1>1, <2>1, ItemAssumption DEF OnlyItem, SentItem, RequestOf, PlaintextOf
  <2>2. CASE j \in Replies
    BY <1>1, <2>2, ItemAssumption DEF OnlyItem, SentItem, RequestOf, PlaintextOf
  <2>3. QED BY <2>1, <2>2 DEF Items
<1>2. ItemsStay /\ NoOtherSent(i)
  BY <1>1 DEF ItemsStay, NoOtherSent, OnlyItem
<1>3. CallsStay
  BY DEF CallsStay, OnlyItem
<1>4. QED BY <1>2, <1>3

LEMMA NoItemSent ==
  ASSUME NEW i, OnlyItem(i), ~SentItem(i)', UNCHANGED <<packets, caches, received, refused, lost>>
  PROVE  Preparing
<1>1. ItemsStay /\ CallsStay /\ NoOtherSent(i)
  BY OtherItemsStay
<1>2. \A j \in Items : SentItem(j)' => SentItem(j)
  BY <1>1 DEF NoOtherSent
<1>3. QED BY <1>1, <1>2 DEF Preparing

LEMMA BuildHasEffect ==
  ASSUME NetworkInv, NEW m \in Messages, NEW request \in Requests, Build(m, request)
  PROVE  Effect
<1> DEFINE secret == IF request.shared THEN Reused ELSE m
           made == BuildPacket(m, secret, request.plaintext, PayloadSize, request.route,
                               Destination(m), request.delays)
           x == [request |-> request, error |-> made.error]
           s == Under(m, request, 1, request.route[1], made.packet, Intact)
<1>1. /\ built[m] = None
      /\ built' = [built EXCEPT ![m] = x]
      /\ packets' = IF made.error = "none" THEN packets \cup {s} ELSE packets
      /\ UNCHANGED <<surbs, caches, received, refused, lost>>
  BY DEF Build
<1>2. secret = SecretFor(m, request)
  BY DEF SecretFor
<1>3. made.error \in {"none", "InvalidPayload", "panic"}
  BY BuiltPacket
<1>4. made.error = "none" => Along(s, request, request.plaintext)
  BY <1>2, BuiltAlong
<1>5. s.item = m
  BY DEF Under
<1> HIDE DEF made, secret, s
<1>6. x # None
  BY <1>3, NoneAssumption
<1>7. built' = [k \in Messages |-> IF k = m THEN x ELSE built[k]]
  BY <1>1 DEF NetworkInv
<1>8. m \in Items /\ m \notin Replies
  BY ItemAssumption DEF Items
<1>9. OnlyItem(m)
  <2>1. ~SentItem(m)
    BY <1>1, <1>8 DEF SentItem
  <2>2. \A k \in Messages : k # m => built'[k] = built[k]
    BY <1>7
  <2>3. QED BY <1>1, <2>1, <2>2 DEF OnlyItem
<1>10. built'[m] = x /\ x.request = request /\ x.error = made.error
  BY <1>7
<1>11. SentItem(m)' = (made.error = "none") /\ RequestOf(m)' = request
       /\ PlaintextOf(m)' = request.plaintext
  <2>1. SentItem(m)' = (made.error = "none")
    BY <1>6, <1>8, <1>10 DEF SentItem
  <2>2. QED BY <1>10, <2>1 DEF RequestOf, PlaintextOf
<1>12. CASE made.error = "none"
  <2>1. \E u : u.item = m /\ packets' = packets \cup {u} /\ Along(u, RequestOf(m)', PlaintextOf(m)')
    BY <1>1, <1>4, <1>5, <1>11, <1>12
  <2>2. Sending(m)
    BY <1>1, <1>8, <1>9, <1>11, <1>12, <2>1, OtherItemsStay DEF Sending, OnlyItem
  <2>3. QED BY <2>2 DEF Effect
<1>13. CASE made.error # "none"
  <2>1. ~SentItem(m)'
    BY <1>11, <1>13
  <2>2. Preparing
    BY <1>1, <1>9, <1>13, <2>1, NoItemSent
  <2>3. QED BY <2>2 DEF Effect
<1>14. QED BY <1>12, <1>13

LEMMA CreateSurbHasEffect ==
  ASSUME NetworkInv, NEW r \in Replies, NEW request \in SurbRequests, CreateSurb(r, request)
  PROVE  Effect
<1> DEFINE x == Created(r, request)
<1>1. x.plaintext = None
  BY DEF Created
<1> HIDE DEF x
<1>2. /\ surbs[r] = None /\ surbs' = [surbs EXCEPT ![r] = x]
      /\ UNCHANGED <<built, packets, caches, received, refused, lost>>
  BY DEF CreateSurb, x
<1>3. surbs' = [k \in Replies |-> IF k = r THEN x ELSE surbs[k]]
  BY <1>2 DEF NetworkInv
<1>4. r \notin Messages
  BY ItemAssumption
<1>5. ~SentItem(r) /\ ~SentItem(r)'
  BY <1>1, <1>2, <1>3, <1>4 DEF SentItem
<1>6. OnlyItem(r)
  BY <1>2, <1>3, <1>4, <1>5 DEF OnlyItem
<1>7. QED BY <1>2, <1>5, <1>6, NoItemSent DEF Effect

(***************************************************************************)
(* A reply block that is used is as it was created, except for its use.    *)
(***************************************************************************)
Used(s, plaintext, error) == [s EXCEPT !.plaintext = plaintext, !.error = error]

LEMMA SurbUsed ==
  ASSUME NEW q, NEW e, NEW t, NEW b, NEW s,
         s = [request |-> q, error |-> e, plaintext |-> t, bytes |-> b], NEW plaintext, NEW error
  PROVE  Used(s, plaintext, error) = [request |-> q, error |-> error, plaintext |-> plaintext, bytes |-> b]
<1> DEFINE u == [request |-> q, error |-> e, plaintext |-> plaintext, bytes |-> b]
           v == [s EXCEPT !.plaintext = plaintext]
<1>1. v = u
  OBVIOUS
<1>2. [v EXCEPT !.error = error] = [request |-> q, error |-> error, plaintext |-> plaintext, bytes |-> b]
  <2> HIDE DEF v
  <2>1. QED BY <1>1
<1>3. Used(s, plaintext, error) = [v EXCEPT !.error = error]
  BY DEF Used
<1>4. QED BY <1>2, <1>3

LEMMA SurbIsCreated ==
  ASSUME NEW r \in Replies, NEW s, SurbOK(r, s), s.error = "none",
         NEW t \in Plaintexts, NEW error \in {"none", "InvalidPayload"}
  PROVE  Used(s, t, error) # None
<1> DEFINE q == s.request
           made == NewSurb(r, r, q.route, q.delays, Destination(r))
           bytes == IF made.error = "none" THEN SurbToBytes(made.surb) ELSE <<>>
           c == [request |-> q, error |-> made.error, plaintext |-> None, bytes |-> bytes]
<1>1. q \in SurbRequests /\ RequestOK(q)
  BY DEF SurbOK
<1>2. made.error = "none"
  <2>1. q.route # <<>> /\ Len(q.route) = Len(q.delays) /\ ~Panics(q.route, q.delays)
    BY <1>1, Lengths DEF RequestOK, Panics
  <2>2. QED BY <2>1 DEF NewSurb
<1> HIDE DEF made
<1>3. made.error = "none" => bytes = SurbToBytes(made.surb)
  OBVIOUS
<1>4. SurbOK(r, c)
  <2> HIDE DEF bytes, q
  <2>1. QED BY <1>1, <1>3, NewSurbIsOK DEF made
<1>5. c.bytes = s.bytes
  BY <1>2, <1>4 DEF SurbOK
<1>6. c = Created(r, q)
  BY DEF Created, made
<1>7. s = [request |-> q, error |-> s.error, plaintext |-> s.plaintext, bytes |-> s.bytes]
  BY DEF SurbOK
<1>8. Used(s, t, error) = Used(c, t, error)
  <2>1. bytes = s.bytes
    BY <1>5
  <2> DEFINE e == made.error
  <2> HIDE DEF bytes, q, e
  <2>2. Used(s, t, error) = [request |-> q, error |-> error, plaintext |-> t, bytes |-> s.bytes]
    BY <1>7, SurbUsed
  <2>3. Used(c, t, error) = [request |-> q, error |-> error, plaintext |-> t, bytes |-> bytes]
    <3>1. c = [request |-> q, error |-> e, plaintext |-> None, bytes |-> bytes]
      BY DEF e
    <3> HIDE DEF c
    <3>2. QED BY <3>1, SurbUsed
  <2>4. QED BY <2>1, <2>2, <2>3
<1>9. None # Used(Created(r, q), t, error)
  <2>1. None # [Created(r, q) EXCEPT !.plaintext = t, !.error = error]
    BY <1>1, NoneAssumption
  <2>2. QED BY <2>1 DEF Used
<1>10. QED BY <1>6, <1>8, <1>9

LEMMA AnswerHasEffect ==
  ASSUME NetworkInv, NEW r \in Replies, NEW plaintext \in Plaintexts, Answer(r, plaintext)
  PROVE  Effect
<1> DEFINE s == surbs[r]
           used == UseSurb(SurbFromBytes(s.bytes).surb, plaintext, PayloadSize)
           x == Used(s, plaintext, used.error)
           u(n) == Under(r, s.request, 1, n, used.packet, Intact)
<1>1. /\ s # None /\ s.error = "none" /\ s.plaintext = None
      /\ surbs' = [surbs EXCEPT ![r].plaintext = plaintext, ![r].error = used.error]
      /\ IF used.error = "none"
         THEN \E n \in Nodes : used.address = Address(n) /\ packets' = packets \cup {u(n)}
         ELSE UNCHANGED packets
      /\ UNCHANGED <<built, caches, received, refused, lost>>
  BY DEF Answer
<1>2. SurbOK(r, s)
  BY <1>1 DEF NetworkInv
<1>3. used.error \in {"none", "InvalidPayload"}
  BY <1>1, <1>2, AnsweredPacket
<1>4. used.error = "none" => \A n : Along(u(n), s.request, plaintext)
  BY <1>1, <1>2, AnsweredAlong
<1>5. \A n : u(n).item = r
  BY DEF Under
<1> HIDE DEF used, u
<1>6. x # None
  <2> HIDE DEF s
  <2>1. QED BY <1>1, <1>2, <1>3, SurbIsCreated
<1>7. x.plaintext = plaintext /\ x.error = used.error /\ x.request = s.request
  <2>1. s = [request |-> s.request, error |-> s.error, plaintext |-> s.plaintext, bytes |-> s.bytes]
    BY <1>2 DEF SurbOK
  <2> HIDE DEF s
  <2>2. QED BY <2>1, SurbUsed
<1>8. surbs' = [k \in Replies |-> IF k = r THEN x ELSE surbs[k]]
  BY <1>1 DEF NetworkInv, Used
<1> HIDE DEF x
<1>9. r \in Items /\ r \notin Messages
  BY ItemAssumption DEF Items
<1>10. ~SentItem(r)
  BY <1>1, <1>9 DEF SentItem
<1>11. OnlyItem(r)
  BY <1>1, <1>8, <1>9, <1>10 DEF OnlyItem
<1>12. surbs'[r] = x
  BY <1>8
<1>13. SentItem(r)' = (used.error = "none")
  <2>1. plaintext # None
    BY NoneAssumption
  <2>2. QED BY <1>6, <1>7, <1>9, <1>12, <2>1 DEF SentItem
<1>14. RequestOf(r)' = s.request /\ PlaintextOf(r)' = plaintext
  BY <1>7, <1>9, <1>12 DEF RequestOf, PlaintextOf
<1> HIDE DEF s
<1>15. CASE used.error = "none"
  <2>1. PICK n \in Nodes : packets' = packets \cup {u(n)}
    BY <1>1, <1>15
  <2>2. \E v : v.item = r /\ packets' = packets \cup {v} /\ Along(v, RequestOf(r)', PlaintextOf(r)')
    BY <1>4, <1>5, <1>14, <1>15, <2>1
  <2>3. Sending(r)
    BY <1>1, <1>9, <1>10, <1>11, <1>13, <1>15, <2>2, OtherItemsStay DEF Sending
  <2>4. QED BY <2>3 DEF Effect
<1>16. CASE used.error # "none"
  BY <1>1, <1>11, <1>13, <1>16, NoItemSent DEF Effect
<1>17. QED BY <1>15, <1>16

(***************************************************************************)
(* Then what nodes do.  What one remembers is of the packet it processed.  *)
(***************************************************************************)
LEMMA RememberedIsOf ==
  ASSUME NEW p, PacketOK(p), NEW q, NEW t, Along(p, q, t),
         NEW o, o = Computed(p.at, p.bytes), o.kind \in {"ForwardHop", "FinalHop"}
  PROVE  RememberedOf(Remembered(p.at, SecretOf(p.bytes), o), p.item, q, p.hop)
<1> DEFINE secret == SecretFor(p.item, q)
           l == Len(p.bytes.payload.text)
           c == Remembered(p.at, SecretOf(p.bytes), o)
<1>1. ComesOut(p, secret, o)
  BY AlongOutcome
<1> HIDE DEF secret
<1>2. p.damage.kind # "header" /\ ~TooShort(l) /\ (o.kind = "FinalHop" => p.hop = Len(p.request.route))
  BY <1>1, ComesToKind
<1>3. PICK h : HeaderAt(p, h)
  BY HeaderOfPacket
<1>4. h = MeantAt(p, secret, p.hop)
  BY <1>2, <1>3, AlongMeets DEF secret, Meets
<1>5. SecretOf(p.bytes) = h.shared_secret
  <2>1. ~(l < Overhead)
    BY <1>2 DEF TooShort
  <2> HIDE DEF l
  <2>2. QED BY <1>3, <2>1, OutcomeOfBytes DEF l
<1>6. h.shared_secret = Accumulators(q.route, Secret(secret))[p.hop]
  <2>1. p.request = q
    BY DEF Along
  <2>2. QED BY <1>4, <2>1 DEF MeantAt, MeantHeader
<1>7. c.shared_secret = SecretOf(p.bytes) /\ (o.kind = "ForwardHop" => c.secret.known)
  BY DEF Remembered, Known
<1>8. p.hop \in 1..Len(q.route) /\ p.request = q
  BY DEF Along, PacketOK
<1> HIDE DEF c
<1>9. RememberedOf(c, p.item, q, p.hop)
  BY <1>2, <1>5, <1>6, <1>7, <1>8 DEF RememberedOf, secret
<1>10. QED BY <1>9 DEF c

LEMMA HandledHasEffect ==
  ASSUME NetworkInv, JourneyInv, NEW p \in packets, NEW o, o = Computed(p.at, p.bytes), Handle(p, o),
         CachesGrow(p), UNCHANGED <<built, surbs, lost>>
  PROVE  Effect
<1> DEFINE i == p.item
           q == RequestOf(i)
           t == PlaintextOf(i)
<1>1. PacketOK(p) /\ Along(p, q, t)
  BY DEF NetworkInv, JourneyInv, PacketsAlong, WayOK
<1>2. q = p.request /\ RouteOf(i) = q.route
  BY <1>1 DEF Along, RouteOf, RequestOf
<1> HIDE DEF i, q, t
<1>3. ASSUME Relayed(p, o) PROVE Effect
  <2>1. o.kind = "ForwardHop" /\ UNCHANGED <<received, refused>>
    BY <1>3 DEF Relayed
  <2>2. PICK n \in Nodes :
          packets' = (packets \ {p}) \cup {Under(p.item, p.request, p.hop + 1, n, o.packet, p.damage)}
    BY <1>3 DEF Relayed
  <2> DEFINE s == Under(p.item, p.request, p.hop + 1, n, o.packet, p.damage)
  <2>3. Along(s, q, t)
    BY <1>1, <2>1, AlongRelayed
  <2>4. s.item = p.item /\ s.hop = p.hop + 1
    BY DEF Under
  <2>5. TakesOff(p, s)
    BY <1>1, <2>1, RelayTakesOff
  <2> HIDE DEF s
  <2>6. packets' = (packets \ {p}) \cup {s}
    BY <2>2 DEF s
  <2>7. Becomes(p, s)
    BY <2>1, <2>3, <2>4, <2>6 DEF Becomes, i, q, t
  <2>8. Relaying(p)
    BY <2>4, <2>5, <2>7 DEF Relaying
  <2>9. QED BY <2>8 DEF Effect
<1>4. ASSUME Recovered(p, o) PROVE Effect
  <2> DEFINE recovered == RecoverPlaintext(o.payload)
             arrived == [address |-> o.address, identifier |-> o.identifier,
                         plaintext |-> recovered.plaintext]
  <2>1. /\ o.kind = "FinalHop" /\ packets' = packets \ {p}
        /\ IF recovered.error = "none"
           THEN received' = [received EXCEPT ![p.item] = arrived] /\ UNCHANGED refused
           ELSE refused' = refused \cup {Refusal(p, recovered.error)} /\ UNCHANGED received
    BY <1>4 DEF Recovered
  <2>2. EndsAs(p, t, o)
    BY <1>1, <2>1, AlongEnds
  <2> HIDE DEF recovered
  <2>3. CASE p.damage.kind = "none"
    <3>1. /\ recovered = [error |-> "none", plaintext |-> t]
          /\ o.address = {Destination(p.item).address} /\ o.identifier = {Destination(p.item).identifier}
      BY <2>2, <2>3 DEF EndsAs, recovered
    <3>2. arrived = Arrival(p.item, t)
      BY <3>1 DEF Arrival
    <3>3. Receives(p)
      BY <2>1, <3>1, <3>2 DEF Receives, t, i
    <3>4. QED BY <2>1, <3>3 DEF Ending, Effect
  <2>4. CASE p.damage.kind # "none"
    <3>1. /\ p.hop = Len(p.request.route) /\ recovered = [error |-> "InvalidPayload", plaintext |-> <<>>]
          /\ p.damage.kind = "payload" \/ (p.damage.kind = "cut" /\ ~TooShort(Len(p.bytes.payload.text)))
      BY <2>2, <2>4 DEF EndsAs, recovered
    <3> DEFINE r == Refusal(p, "InvalidPayload")
    <3>2. /\ r.item = p.item /\ r.hop = p.hop /\ r.damage = p.damage /\ r.error = "InvalidPayload"
          /\ r.length = Len(p.bytes.payload.text)
      BY DEF Refusal
    <3>3. refused' = refused \cup {r} /\ UNCHANGED received
      BY <2>1, <3>1
    <3> HIDE DEF r
    <3>4. Reasoned(r)
      BY <1>2, <3>1, <3>2 DEF Reasoned, i
    <3>5. Refuses(p)
      BY <3>2, <3>3, <3>4 DEF Refuses
    <3>6. QED BY <2>1, <3>5 DEF Ending, Effect
  <2>5. QED BY <2>3, <2>4
<1>5. ASSUME Refuse(p, o) PROVE Effect
  <2> DEFINE r == Refusal(p, o.error)
  <2>1. o.kind = "error" /\ packets' = packets \ {p} /\ refused' = refused \cup {r} /\ UNCHANGED received
    BY <1>5 DEF Refuse
  <2>2. FailsAs(p, o.error)
    BY <1>1, <2>1, AlongFails
  <2>3. /\ r.item = p.item /\ r.hop = p.hop /\ r.damage = p.damage /\ r.error = o.error
        /\ r.length = Len(p.bytes.payload.text)
    BY DEF Refusal
  <2> HIDE DEF r
  <2>4. Reasoned(r)
    BY <2>2, <2>3 DEF Reasoned, FailsAs
  <2>5. Refuses(p)
    BY <2>1, <2>3, <2>4 DEF Refuses
  <2>6. QED BY <2>1, <2>5 DEF Ending, Effect
<1>6. QED BY <1>3, <1>4, <1>5 DEF Handle

LEMMA ComputeHasEffect ==
  ASSUME NetworkInv, JourneyInv, NEW p \in packets, Compute(p)
  PROVE  Effect
<1> DEFINE o == Computed(p.at, p.bytes)
           c == Remembered(p.at, SecretOf(p.bytes), o)
           at == p.at
           q == RequestOf(p.item)
<1>1. /\ Handle(p, o)
      /\ caches' = IF o.kind = "error" THEN caches ELSE [caches EXCEPT ![at] = caches[at] \cup {c}]
      /\ UNCHANGED <<built, surbs, lost>>
  BY DEF Compute
<1>2. PacketOK(p) /\ \E t : Along(p, q, t)
  BY DEF NetworkInv, JourneyInv, PacketsAlong, WayOK
<1>3. o.kind \in {"ForwardHop", "FinalHop", "error"}
  BY <1>1 DEF Handle, Relayed, Recovered, Refuse
<1>4. o.kind # "error" => RememberedOf(c, p.item, q, p.hop)
  BY <1>2, <1>3, RememberedIsOf
<1> HIDE DEF c, at, q
<1>5. CachesGrow(p)
  <2>1. \A n \in Nodes : \A x \in caches'[n] : x \in caches[n] \/ (o.kind # "error" /\ x = c)
    <3>1. CASE o.kind = "error"
      BY <1>1, <3>1
    <3>2. CASE o.kind # "error"
      <4> HIDE DEF o
      <4>1. caches' = [n \in Nodes |-> IF n = at THEN caches[at] \cup {c} ELSE caches[n]]
        BY <1>1, <3>2 DEF NetworkInv
      <4>2. QED BY <3>2, <4>1
    <3>3. QED BY <3>1, <3>2
  <2>2. QED BY <1>4, <2>1 DEF CachesGrow, q
<1> HIDE DEF o
<1>6. QED BY <1>1, <1>5, HandledHasEffect DEF o

(***************************************************************************)
(* The initial secret of a packet is part of every secret on its way, and  *)
(* no other is.                                                            *)
(***************************************************************************)
LEMMA SecretInside ==
  ASSUME NEW route, NEW n \in Nat, Len(route) = n, NEW secret, NEW i \in 1..n, NEW x
  PROVE  <<"secret", x>> \in Accumulators(route, Secret(secret))[i] <=> x = secret
<1> DEFINE A == Accumulators(route, Secret(secret))
           B(k) == <<"secret", x>> \in A[k] <=> x = secret
           S == {k \in Nat : k \in 1..n => B(k)}
<1>1. /\ A[1] = Secret(secret)
      /\ \A k \in 1..(n - 1) : A[k + 1] = Accumulated(A[k], KeysOf(A[k], route[k]))
  BY AccumulatorsDefined
<1> HIDE DEF A
<1>2. B(1)
  BY <1>1 DEF Secret
<1>3. \A accumulator, m : <<"secret", x>> \in Accumulated(accumulator, KeysOf(accumulator, m))
                            <=> <<"secret", x>> \in accumulator
  <2>1. \A y : <<"secret", x>> # <<"blinding", y>>
    OBVIOUS
  <2>2. QED BY <2>1 DEF Accumulated, KeysOf, Derive
<1>4. 0 \in S
  OBVIOUS
<1>5. ASSUME NEW k \in Nat, k \in S PROVE k + 1 \in S
  <2> SUFFICES ASSUME k + 1 \in 1..n PROVE B(k + 1)
    OBVIOUS
  <2>1. CASE k = 0
    BY <1>2, <2>1
  <2>2. CASE k # 0
    <3>1. k \in 1..(n - 1) /\ k \in 1..n
      BY <2>2
    <3>2. B(k)
      BY <1>5, <3>1
    <3>3. QED BY <1>1, <1>3, <3>1, <3>2
  <2>3. QED BY <2>1, <2>2
<1> HIDE DEF S
<1>6. Nat \subseteq S
  BY <1>4, <1>5, NatSetInduction
<1>7. i \in S /\ i \in 1..n
  BY <1>6
<1>8. QED BY <1>7 DEF S, A

(***************************************************************************)
(* If a packet is refused for what a node remembers of another, both were  *)
(* made from the initial secret that is used again.                        *)
(***************************************************************************)
LEMMA ForgottenReason ==
  ASSUME NetworkInv, JourneyInv, NEW p \in packets, NEW c \in caches[p.at],
         Forgotten(p, c, SecretFor(p.item, RequestOf(p.item)))
  PROVE  Reasoned(Refusal(p, "without blinded secret"))
<1> DEFINE j == p.item
           q == RequestOf(j)
           x == SecretFor(j, q)
           r == Refusal(p, "without blinded secret")
<1>1. /\ PacketOK(p) /\ p.at \in Nodes /\ j \in Items /\ SentItem(j) /\ p.request = q
      /\ p.hop \in 1..Len(q.route) /\ Len(q.route) \in Nat
  <2>1. PacketOK(p) /\ WayOK(p)
    BY DEF NetworkInv, JourneyInv, PacketsAlong
  <2>2. p.request = q /\ SentItem(j)
    BY <2>1 DEF WayOK, Along
  <2>3. p.at \in Nodes
    BY <2>1, PacketAtNode
  <2>4. QED BY <2>1, <2>2, <2>3 DEF PacketOK, RequestOK
<1>2. /\ p.damage.kind # "header" /\ ~c.secret.known /\ p.hop < Len(q.route)
      /\ c.shared_secret = Accumulators(q.route, Secret(x))[p.hop]
  BY <1>1 DEF Forgotten
<1>3. PICK i \in Items, k \in Nat : TracedTo(c, i, k)
  BY <1>1 DEF JourneyInv, CachesTraced
<1> DEFINE w == RequestOf(i)
           y == SecretFor(i, w)
<1>4. /\ SentItem(i) /\ k \in 1..Len(w.route) /\ k = Len(w.route)
      /\ c.shared_secret = Accumulators(w.route, Secret(y))[k]
      /\ \A o \in packets : o.item = i => k < o.hop
  BY <1>2, <1>3 DEF TracedTo, RememberedOf
<1>5. i # j
  <2>1. ASSUME i = j PROVE FALSE
    <3>1. k < p.hop /\ k = Len(q.route)
      BY <1>4, <2>1
    <3>2. QED BY <1>1, <1>2, <3>1
  <2>2. QED BY <2>1
<1>6. x = y
  <2> HIDE DEF x, y, q, w
  <2>1. <<"secret", x>> \in c.shared_secret
    BY <1>1, <1>2, SecretInside
  <2>2. Len(w.route) \in Nat
    BY <1>4
  <2>3. QED BY <1>4, <2>1, <2>2, SecretInside
<1>7. i \in Messages /\ j \in Messages /\ w.shared /\ q.shared
  <2>1. i # Reused /\ j # Reused
    BY <1>1, ItemAssumption
  <2> HIDE DEF q, w, j
  <2>2. QED BY <1>5, <1>6, <2>1 DEF SecretFor
<1>8. built[i] # None /\ built[i].request.shared /\ built[j].request.shared
  <2>1. i \notin Replies /\ j \notin Replies
    BY <1>7, ItemAssumption
  <2>2. QED BY <1>4, <1>7, <2>1 DEF SentItem, RequestOf
<1>9. r.item = j /\ r.hop = p.hop /\ r.damage = p.damage /\ r.error = "without blinded secret"
  BY DEF Refusal
<1>10. RouteOf(j) = q.route
  BY DEF RouteOf, RequestOf
<1> HIDE DEF r, j, q, w
<1>11. Reasoned(r)
  BY <1>2, <1>5, <1>7, <1>8, <1>9, <1>10 DEF Reasoned
<1>12. QED BY <1>11 DEF r

LEMMA RecallHasEffect ==
  ASSUME NetworkInv, JourneyInv, NEW p \in packets, Recall(p)
  PROVE  Effect
<1>1. PICK c \in caches[p.at] :
        /\ PacketFromBytes(p.bytes).error = "none" /\ c.shared_secret = SecretOf(p.bytes)
        /\ Handle(p, Recalled(p.bytes, c))
  BY DEF Recall
<1>2. UNCHANGED <<built, surbs, caches, lost>>
  BY DEF Recall
<1> DEFINE o == Recalled(p.bytes, c)
           q == RequestOf(p.item)
           t == PlaintextOf(p.item)
<1>3. PacketOK(p) /\ CacheOK(p.at, c) /\ Along(p, q, t)
  <2>1. PacketOK(p) /\ Along(p, q, t)
    BY DEF NetworkInv, JourneyInv, PacketsAlong, WayOK
  <2>2. p.at \in Nodes
    BY <2>1, PacketAtNode
  <2>3. QED BY <2>1, <2>2 DEF NetworkInv
<1>4. CachesGrow(p)
  BY <1>2 DEF CachesGrow
<1>5. Handle(p, o)
  BY <1>1
<1>6. CASE o = Computed(p.at, p.bytes)
  <2> HIDE DEF o
  <2>1. QED BY <1>2, <1>4, <1>5, <1>6, HandledHasEffect
<1>7. CASE o # Computed(p.at, p.bytes)
  <2> DEFINE e == "without blinded secret"
             r == Refusal(p, e)
  <2>1. o = Rejected(e) /\ Forgotten(p, c, SecretFor(p.item, q))
    BY <1>1, <1>3, <1>7, AlongRecalled
  <2>2. Rejected(e).kind = "error" /\ Rejected(e).error = e
    BY DEF Rejected
  <2>3. o.kind = "error" /\ o.error = e
    BY <2>1, <2>2
  <2>4. Reasoned(r)
    BY <2>1, ForgottenReason
  <2>5. r.item = p.item
    BY DEF Refusal
  <2> HIDE DEF o
  <2>6. packets' = packets \ {p} /\ refused' = refused \cup {r} /\ UNCHANGED received
    BY <1>5, <2>3 DEF Handle, Relayed, Recovered, Refuse
  <2> HIDE DEF r
  <2>7. Refuses(p)
    BY <1>2, <2>4, <2>5, <2>6 DEF Refuses
  <2>8. QED BY <1>2, <1>4, <2>6, <2>7 DEF Ending, Effect
<1>8. QED BY <1>6, <1>7

-------------------------------------------------------------------------------
(***************************************************************************)
(* At last what happens on the way.                                        *)
(***************************************************************************)
LEMMA LoseHasEffect ==
  ASSUME NetworkInv, NEW p \in packets, Lose(p)
  PROVE  Effect
<1>1. Loses(p) /\ packets' = packets \ {p} /\ UNCHANGED <<built, surbs, caches>>
  BY DEF Lose, Loses
<1>2. CachesGrow(p)
  BY <1>1 DEF CachesGrow
<1>3. QED BY <1>1, <1>2 DEF Ending, Effect

LEMMA DamageHasEffect ==
  ASSUME NetworkInv, JourneyInv, NEW p \in packets, NEW kind \in {"header", "payload", "cut"}, NEW bytes,
         Damaged(p, kind, bytes), kind # "header" => bytes.header = p.bytes.header /\ Spoiled(bytes.payload)
  PROVE  Effect
<1> DEFINE s == [p EXCEPT !.bytes = bytes, !.damage = [kind |-> kind, hop |-> p.hop]]
           q == RequestOf(p.item)
           t == PlaintextOf(p.item)
<1>1. /\ packets' = (packets \ {p}) \cup {s} /\ p.damage = Intact
      /\ UNCHANGED <<built, surbs, caches, received, refused, lost>>
  BY DEF Damaged
<1>2. PacketOK(p) /\ Along(p, q, t)
  BY DEF NetworkInv, JourneyInv, PacketsAlong, WayOK
<1>3. Along(s, q, t)
  BY <1>1, <1>2, AlongDamaged
<1>4. s.item = p.item /\ s.hop = p.hop
  <2>1. p = [item |-> p.item, request |-> p.request, hop |-> p.hop, at |-> p.at, bytes |-> p.bytes,
             damage |-> p.damage]
    BY <1>2 DEF PacketOK
  <2>2. QED BY <2>1
<1> HIDE DEF s
<1>5. Becomes(p, s)
  BY <1>1, <1>3, <1>4 DEF Becomes
<1>6. QED BY <1>1, <1>4, <1>5 DEF Damaging, Effect

LEMMA ChangesHaveEffect ==
  ASSUME NetworkInv, JourneyInv, NEW p \in packets, ChangeHeader(p) \/ ChangePayload(p) \/ CutShort(p)
  PROVE  Effect
<1> DEFINE q == RequestOf(p.item)
           t == PlaintextOf(p.item)
<1>1. PacketOK(p) /\ Along(p, q, t)
  BY DEF NetworkInv, JourneyInv, PacketsAlong, WayOK
<1> HIDE DEF q, t
<1>2. ASSUME ChangeHeader(p) PROVE Effect
  BY <1>2, DamageHasEffect DEF ChangeHeader
<1>3. ASSUME ChangePayload(p) PROVE Effect
  <2> DEFINE bytes == Garbled(p.bytes)
  <2>1. Damaged(p, "payload", bytes)
    BY <1>3 DEF ChangePayload
  <2>2. p.damage = Intact
    BY <2>1 DEF Damaged
  <2>3. bytes.header = p.bytes.header /\ Spoiled(bytes.payload)
    BY <1>1, <2>2, PayloadChanges, GarbledIsSpoiled
  <2> HIDE DEF bytes
  <2>4. QED BY <2>1, <2>3, DamageHasEffect
<1>4. ASSUME CutShort(p) PROVE Effect
  <2>1. PICK length \in Cuts : Damaged(p, "cut", CutTo(p.bytes, length))
    BY <1>4 DEF CutShort
  <2> DEFINE bytes == CutTo(p.bytes, length)
  <2>2. p.damage = Intact
    BY <2>1 DEF Damaged
  <2>3. bytes.header = p.bytes.header /\ Spoiled(bytes.payload)
    BY <1>1, <2>2, PacketIsCut, CutIsSpoiled
  <2>4. Damaged(p, "cut", bytes)
    BY <2>1
  <2> HIDE DEF bytes
  <2>5. QED BY <2>3, <2>4, DamageHasEffect
<1>5. QED BY <1>2, <1>3, <1>4

LEMMA StutterHasEffect ==
  ASSUME UNCHANGED vars
  PROVE  Effect
<1>1. UNCHANGED <<built, surbs, packets, caches, received, refused, lost>>
  BY DEF vars
<1>2. \A i : SentItem(i)' = SentItem(i)
  BY <1>1, SameItems
<1>3. QED BY <1>1, <1>2, AllStay DEF Preparing, Effect

(***************************************************************************)
(* Every step of the network has one of these effects.                     *)
(***************************************************************************)
LEMMA StepHasEffect ==
  ASSUME NetworkInv, JourneyInv, [Next]_vars
  PROVE  Effect
<1>1. CASE \E m \in Messages, request \in Requests : Build(m, request)
  BY <1>1, BuildHasEffect
<1>2. CASE \E r \in Replies, request \in SurbRequests : CreateSurb(r, request)
  BY <1>2, CreateSurbHasEffect
<1>3. CASE \E r \in Replies, plaintext \in Plaintexts : Answer(r, plaintext)
  BY <1>3, AnswerHasEffect
<1>4. CASE \E p \in packets : Compute(p)
  BY <1>4, ComputeHasEffect
<1>5. CASE \E p \in packets : Recall(p)
  BY <1>5, RecallHasEffect
<1>6. CASE \E p \in packets : Lose(p)
  BY <1>6, LoseHasEffect
<1>7. CASE \E p \in packets : ChangeHeader(p) \/ ChangePayload(p) \/ CutShort(p)
  BY <1>7, ChangesHaveEffect
<1>8. CASE UNCHANGED vars
  BY <1>8, StutterHasEffect
<1>9. QED BY <1>1, <1>2, <1>3, <1>4, <1>5, <1>6, <1>7, <1>8 DEF Next

LEMMA JourneyInvInit == Init => JourneyInv
<1> SUFFICES ASSUME Init PROVE JourneyInv
  OBVIOUS
<1>1. packets = {} /\ refused = {} /\ lost = {} /\ received = [i \in Items |-> None]
      /\ caches = [n \in Nodes |-> {}]
  BY DEF Init
<1>2. PacketsAlong /\ RefusalsReasoned
  BY <1>1 DEF PacketsAlong, OneEach, RefusalsReasoned
<1>3. CachesTraced
  BY <1>1 DEF CachesTraced
<1>4. EndsSent
  BY <1>1 DEF EndsSent
<1>5. QED BY <1>2, <1>3, <1>4 DEF JourneyInv

(***************************************************************************)
(* In every state, what was sent and has not ended is on its way, in one   *)
(* place, as far as it was not damaged exactly as it was built for that    *)
(* node; and everything remembered comes from packets that have moved on.  *)
(***************************************************************************)
THEOREM JourneySafe == Spec => [](NetworkInv /\ JourneyInv)
<1>1. Init => NetworkInv /\ JourneyInv
  BY NetworkInvInit, JourneyInvInit
<1>2. (NetworkInv /\ JourneyInv) /\ [Next]_vars => (NetworkInv /\ JourneyInv)'
  BY NetworkInvKept, StepHasEffect, EffectKeeps
<1>3. QED BY <1>1, <1>2, PTL DEF Spec

(***************************************************************************)
(* Every refusal has one of the reasons that RefusedForAReason names.      *)
(***************************************************************************)
THEOREM RefusedForAReasonAlways == Spec => []RefusedForAReason
<1>1. NetworkInv /\ JourneyInv => RefusedForAReason
  BY ReasonsGiven DEF JourneyInv
<1>2. QED BY <1>1, JourneySafe, PTL

-------------------------------------------------------------------------------
(***************************************************************************)
(* The channel that Sphinx implements, and what it sees of these effects.  *)
(***************************************************************************)
SentAs(i) == IF i \in Messages THEN SentMessage(i) ELSE SentReply(i)

Gone == lost \cup {r.item : r \in refused}

OnTheWay(i) == i \in Items /\ SentAs(i) # None /\ received[i] = None /\ i \notin Gone

SentStay == \A j \in Items : SentAs(j)' = SentAs(j)

SeenSent(i) ==
  /\ i \in Items /\ SentAs(i) = None
  /\ \E t \in AllPlaintexts : SentAs(i)' = Arrival(i, t)
  /\ \A j \in Items : j # i => SentAs(j)' = SentAs(j)
  /\ received' = received /\ Gone' = Gone

SeenReceived(i) ==
  OnTheWay(i) /\ received' = [received EXCEPT ![i] = SentAs(i)] /\ SentStay /\ Gone' = Gone

SeenLost(i) == OnTheWay(i) /\ Gone' = Gone \cup {i} /\ SentStay /\ received' = received

Unseen == SentStay /\ received' = received /\ Gone' = Gone

Seen == Unseen \/ \E i : SeenSent(i) \/ SeenReceived(i) \/ SeenLost(i)

(***************************************************************************)
(* The refinement mapping of SphinxChannel, in these terms.                *)
(***************************************************************************)
LEMMA SeenIsStep ==
  ASSUME Seen
  PROVE  [Channel!Next]_Channel!vars
<1> DEFINE sent == [i \in Items |-> IF i \in Messages THEN SentMessage(i) ELSE SentReply(i)]
           gone == lost \cup {r.item : r \in refused}
           contents == {Arrival(i, t) : i \in Items, t \in AllPlaintexts}
<1>1. sent = [i \in Items |-> SentAs(i)] /\ sent' = [i \in Items |-> SentAs(i)']
  BY DEF SentAs
<1>2. gone = Gone /\ gone' = Gone'
  BY DEF Gone
<1>3. Channel!vars = <<sent, received, gone>> /\ Channel!vars' = <<sent', received', gone'>>
  BY DEF Channel!vars
<1>4. \A i : Channel!UnderWay(i) <=> sent[i] # None /\ received[i] = None /\ i \notin gone
  BY DEF Channel!UnderWay
<1>5. \A i : Channel!Send(i) <=> /\ sent[i] = None /\ \E c \in contents : sent' = [sent EXCEPT ![i] = c]
                                 /\ received' = received /\ gone' = gone
  BY DEF Channel!Send
<1>6. \A i : Channel!Receive(i) <=> /\ Channel!UnderWay(i) /\ received' = [received EXCEPT ![i] = sent[i]]
                                    /\ sent' = sent /\ gone' = gone
  BY DEF Channel!Receive
<1>7. \A i : Channel!Lose(i) <=> /\ Channel!UnderWay(i) /\ gone' = gone \cup {i}
                                 /\ sent' = sent /\ received' = received
  BY DEF Channel!Lose
<1>8. Channel!Next <=> \E i \in Items : Channel!Send(i) \/ Channel!Receive(i) \/ Channel!Lose(i)
  BY DEF Channel!Next
<1>9. \A i \in Items, t \in AllPlaintexts : Arrival(i, t) \in contents
  OBVIOUS
<1> HIDE DEF sent, gone, contents
<1>10. \A i \in Items : sent[i] = SentAs(i)
  BY <1>1
<1>11. SentStay => sent' = sent
  BY <1>1 DEF SentStay
<1>12. CASE Unseen
  BY <1>2, <1>3, <1>11, <1>12 DEF Unseen
<1>13. ASSUME NEW i, SeenSent(i) PROVE Channel!Next
  <2>1. i \in Items /\ sent[i] = None /\ received' = received /\ gone' = gone
    BY <1>2, <1>10, <1>13 DEF SeenSent
  <2>2. PICK t \in AllPlaintexts : SentAs(i)' = Arrival(i, t)
    BY <1>13 DEF SeenSent
  <2>3. PICK c \in contents : SentAs(i)' = c
    BY <1>9, <2>1, <2>2
  <2>4. sent' = [sent EXCEPT ![i] = c]
    BY <1>1, <1>13, <2>3 DEF SeenSent
  <2>5. Channel!Send(i)
    BY <1>5, <2>1, <2>4
  <2>6. QED BY <1>8, <2>1, <2>5
<1>14. ASSUME NEW i, SeenReceived(i) PROVE Channel!Next
  <2>1. i \in Items /\ sent' = sent /\ gone' = gone
    BY <1>2, <1>11, <1>14 DEF SeenReceived, OnTheWay
  <2>2. Channel!UnderWay(i)
    BY <1>2, <1>4, <1>10, <1>14 DEF SeenReceived, OnTheWay
  <2>3. received' = [received EXCEPT ![i] = sent[i]]
    BY <1>10, <1>14, <2>1 DEF SeenReceived
  <2>4. Channel!Receive(i)
    BY <1>6, <2>1, <2>2, <2>3
  <2>5. QED BY <1>8, <2>1, <2>4
<1>15. ASSUME NEW i, SeenLost(i) PROVE Channel!Next
  <2>1. i \in Items /\ sent' = sent /\ received' = received /\ gone' = gone \cup {i}
    BY <1>2, <1>11, <1>15 DEF SeenLost, OnTheWay
  <2>2. Channel!UnderWay(i)
    BY <1>2, <1>4, <1>10, <1>15 DEF SeenLost, OnTheWay
  <2>3. Channel!Lose(i)
    BY <1>7, <2>1, <2>2
  <2>4. QED BY <1>8, <2>1, <2>3
<1>16. QED BY <1>12, <1>13, <1>14, <1>15 DEF Seen

(***************************************************************************)
(* What the channel takes to be sent.                                      *)
(***************************************************************************)
SentRight(i) == SentAs(i) = IF SentItem(i) THEN Arrival(i, PlaintextOf(i)) ELSE None

AllSentRight == \A i \in Items : SentRight(i)

LEMMA ItemsSent == AllSentRight
<1> SUFFICES ASSUME NEW i \in Items PROVE SentRight(i)
  BY DEF AllSentRight
<1>1. CASE i \in Messages
  <2>1. i \notin Replies
    BY <1>1, ItemAssumption
  <2>2. QED BY <1>1, <2>1 DEF SentRight, SentAs, SentItem, SentMessage, PlaintextOf
<1>2. CASE i \in Replies
  <2>1. i \notin Messages
    BY <1>2, ItemAssumption
  <2>2. QED BY <1>2, <2>1 DEF SentRight, SentAs, SentItem, SentReply, PlaintextOf
<1>3. QED BY <1>1, <1>2 DEF Items

LEMMA ItemsSentStay ==
  ASSUME ItemsStay
  PROVE  \A j \in Items : (SentItem(j)' => SentItem(j)) => SentAs(j)' = SentAs(j)
<1>1. AllSentRight'
  BY ItemsSent, PTL
<1>2. ASSUME NEW j \in Items, SentItem(j)' => SentItem(j) PROVE SentAs(j)' = SentAs(j)
  <2>1. SentRight(j) /\ SentRight(j)'
    BY <1>1, ItemsSent DEF AllSentRight
  <2>2. CASE SentItem(j)
    BY <2>1, <2>2 DEF ItemsStay, SentRight, Arrival, Destination
  <2>3. CASE ~SentItem(j)
    <3>1. ~SentItem(j)'
      BY <1>2, <2>3
    <3>2. QED BY <2>1, <2>3, <3>1 DEF SentRight
  <2>4. QED BY <2>2, <2>3
<1>3. QED BY <1>2

LEMMA AllSentStay ==
  ASSUME UNCHANGED <<built, surbs>>
  PROVE  SentStay
BY DEF SentStay, SentAs, SentMessage, SentReply

LEMMA PacketOnTheWay ==
  ASSUME JourneyInv, NEW p \in packets
  PROVE  OnTheWay(p.item) /\ SentAs(p.item) = Arrival(p.item, PlaintextOf(p.item))
<1> DEFINE i == p.item
           t == PlaintextOf(i)
<1>1. SentItem(i) /\ Unfinished(i) /\ t \in AllPlaintexts
  BY DEF JourneyInv, PacketsAlong, WayOK, Along, TextFits
<1>2. i \in Items
  BY <1>1, SentAreItems
<1>3. SentAs(i) = Arrival(i, t)
  BY <1>1, <1>2, ItemsSent DEF AllSentRight, SentRight
<1>4. SentAs(i) # None
  BY <1>1, <1>2, <1>3, NoneAssumption
<1>5. received[i] = None /\ i \notin Gone
  BY <1>1 DEF Unfinished, Gone
<1>6. QED BY <1>2, <1>3, <1>4, <1>5 DEF OnTheWay

LEMMA EffectSeen ==
  ASSUME NetworkInv, JourneyInv, Effect
  PROVE  Seen
<1>1. ASSUME Preparing PROVE Seen
  <2>1. ItemsStay /\ \A j \in Items : SentItem(j)' => SentItem(j)
    BY <1>1 DEF Preparing
  <2>2. SentStay
    BY <2>1, ItemsSentStay DEF SentStay
  <2>3. QED BY <1>1, <2>2 DEF Preparing, Unseen, Gone, Seen
<1>2. ASSUME NEW i, Sending(i) PROVE Seen
  <2>1. /\ i \in Items /\ ~SentItem(i) /\ SentItem(i)' /\ ItemsStay /\ NoOtherSent(i)
        /\ UNCHANGED <<received, refused, lost>>
    BY <1>2 DEF Sending
  <2>2. PlaintextOf(i)' \in AllPlaintexts
    BY <1>2 DEF Sending, Along, TextFits
  <2>3. \A j \in Items : j # i => SentAs(j)' = SentAs(j)
    BY <2>1, ItemsSentStay DEF NoOtherSent
  <2>4. AllSentRight'
    BY ItemsSent, PTL
  <2>5. SentRight(i) /\ SentRight(i)'
    BY <2>1, <2>4, ItemsSent DEF AllSentRight
  <2>6. SentAs(i) = None
    BY <2>1, <2>5 DEF SentRight
  <2>7. SentAs(i)' = Arrival(i, PlaintextOf(i)')
    BY <2>1, <2>5 DEF SentRight, Arrival, Destination
  <2>8. SeenSent(i)
    BY <2>1, <2>2, <2>3, <2>6, <2>7 DEF SeenSent, Gone
  <2>9. QED BY <2>8 DEF Seen
<1>3. ASSUME NEW p \in packets, Relaying(p) \/ Damaging(p) PROVE Seen
  <2>1. UNCHANGED <<built, surbs, received, refused, lost>>
    BY <1>3 DEF Relaying, Damaging, Becomes
  <2>2. QED BY <2>1, AllSentStay DEF Unseen, Gone, Seen
<1>4. ASSUME NEW p \in packets, Ending(p) PROVE Seen
  <2>1. SentStay
    BY <1>4, AllSentStay DEF Ending
  <2>2. OnTheWay(p.item) /\ SentAs(p.item) = Arrival(p.item, PlaintextOf(p.item))
    BY PacketOnTheWay
  <2>3. ASSUME Receives(p) PROVE Seen
    <3>1. SeenReceived(p.item)
      BY <2>1, <2>2, <2>3 DEF Receives, SeenReceived, Gone
    <3>2. QED BY <3>1 DEF Seen
  <2>4. ASSUME Refuses(p) PROVE Seen
    <3>1. PICK r : r.item = p.item /\ refused' = refused \cup {r}
      BY <2>4 DEF Refuses
    <3>2. Gone' = Gone \cup {p.item} /\ received' = received
      BY <2>4, <3>1 DEF Refuses, Gone
    <3>3. SeenLost(p.item)
      BY <2>1, <2>2, <3>2 DEF SeenLost
    <3>4. QED BY <3>3 DEF Seen
  <2>5. ASSUME Loses(p) PROVE Seen
    <3>1. Gone' = Gone \cup {p.item} /\ received' = received
      BY <2>5 DEF Loses, Gone
    <3>2. SeenLost(p.item)
      BY <2>1, <2>2, <3>1 DEF SeenLost
    <3>3. QED BY <3>2 DEF Seen
  <2>6. QED BY <1>4, <2>3, <2>4, <2>5 DEF Ending
<1>5. QED BY <1>1, <1>2, <1>3, <1>4 DEF Effect

LEMMA InitSeen ==
  ASSUME Init
  PROVE  Channel!Init
<1>1. /\ \A m \in Messages : built[m] = None
      /\ \A r \in Replies : surbs[r] = None
      /\ received = [i \in Items |-> None] /\ lost = {} /\ refused = {}
  BY DEF Init
<1>2. \A m \in Messages : SentMessage(m) = None
  BY <1>1 DEF SentMessage
<1>3. \A r \in Replies : SentReply(r) = None
  BY <1>1 DEF SentReply
<1>4. lost \cup {r.item : r \in refused} = {}
  BY <1>1
<1>5. QED BY <1>1, <1>2, <1>3, <1>4 DEF Channel!Init, Items

(***************************************************************************)
(* Sphinx implements the channel, whatever is lost or damaged and however  *)
(* often a secret is used again: every message and every reply is received *)
(* at most once, exactly as it was sent, or lost or refused, and not both. *)
(* (That one of the two happens needs fairness: ImplementsChannel.)        *)
(***************************************************************************)
THEOREM ChannelRefined == Spec => Channel!Spec
<1>1. Init => Channel!Init
  BY InitSeen
<1>2. (NetworkInv /\ JourneyInv) /\ [Next]_vars => [Channel!Next]_Channel!vars
  BY StepHasEffect, EffectSeen, SeenIsStep
<1>3. QED BY <1>1, <1>2, JourneySafe, PTL DEF Spec, Channel!Spec

-------------------------------------------------------------------------------
(***************************************************************************)
(* A packet gets to its next hop by a relay only, and nothing of it stays. *)
(***************************************************************************)
Anew(p, s) ==
  /\ Range(s.bytes.header) \cap Range(p.bytes.header) = {}
  /\ Read(s.bytes.payload) # Read(p.bytes.payload)

NoneStays ==
  \A p \in packets, s \in packets' : s.item = p.item /\ s.hop = p.hop + 1 => Anew(p, s)

LEMMA RelayAnew ==
  ASSUME NetworkInv, JourneyInv, NEW p \in packets, NEW s, TakesOff(p, s)
  PROVE  Anew(p, s)
<1>1. PacketOK(p) /\ Along(p, RequestOf(p.item), PlaintextOf(p.item))
  BY DEF NetworkInv, JourneyInv, PacketsAlong, WayOK
<1> QED BY <1>1, HeaderAnew, PayloadReadsAnew DEF Anew

LEMMA EffectAnew ==
  ASSUME NetworkInv, JourneyInv, Effect
  PROVE  NoneStays
<1> SUFFICES ASSUME NEW p \in packets, NEW s \in packets', s.item = p.item, s.hop = p.hop + 1
             PROVE  Anew(p, s)
  BY DEF NoneStays
<1>1. \A o \in packets : SentItem(o.item) /\ o.hop \in Nat /\ (o.item = p.item => o = p)
  <2>1. \A o : PacketOK(o) => o.hop \in Nat
    BY PacketAtNode
  <2> QED BY <2>1 DEF NetworkInv, JourneyInv, PacketsAlong, OneEach, WayOK
<1>2. s \notin packets
  <2> SUFFICES ASSUME s \in packets PROVE FALSE
    OBVIOUS
  <2>1. s = p
    BY <1>1
  <2>2. p.hop \in Nat
    BY <1>1
  <2> QED BY <2>1, <2>2
<1>3. ~Preparing
  BY <1>2 DEF Preparing
<1>4. ASSUME NEW i, Sending(i) PROVE FALSE
  BY <1>1, <1>2, <1>4 DEF Sending
<1>5. ASSUME NEW o \in packets, Ending(o) PROVE FALSE
  BY <1>2, <1>5 DEF Ending
<1>6. ASSUME NEW o \in packets, Damaging(o) PROVE FALSE
  <2>1. PICK r : r.hop = o.hop /\ Becomes(o, r)
    BY <1>6 DEF Damaging
  <2>2. s = r /\ o = p
    BY <1>1, <1>2, <2>1 DEF Becomes
  <2>3. p.hop \in Nat
    BY <1>1
  <2> QED BY <2>1, <2>2, <2>3
<1>7. ASSUME NEW o \in packets, Relaying(o) PROVE Anew(p, s)
  <2>1. PICK r : TakesOff(o, r) /\ Becomes(o, r)
    BY <1>7 DEF Relaying
  <2>2. s = r /\ o = p
    BY <1>1, <1>2, <2>1 DEF Becomes
  <2> QED BY <2>1, <2>2, RelayAnew
<1> QED BY <1>3, <1>4, <1>5, <1>6, <1>7 DEF Effect

(***************************************************************************)
(* A relay leaves no part of a packet as it was, whatever the route and    *)
(* the delays, whichever secret was used again and whatever damage was     *)
(* done to the payload: no field of the header it gets is anywhere in the  *)
(* header it passes on, and the payload reads differently.                 *)
(***************************************************************************)
THEOREM NothingRecognisableAlways == Spec => NothingRecognisable
<1>1. (NetworkInv /\ JourneyInv) /\ [Next]_vars => NoneStays
  BY StepHasEffect, EffectAnew
<1>2. NoneStays => \A p \in packets, q \in packets' :
                     (q.item = p.item /\ q.hop = p.hop + 1) =>
                       /\ Range(q.bytes.header) \cap Range(p.bytes.header) = {}
                       /\ Read(q.bytes.payload) # Read(p.bytes.payload)
  BY DEF NoneStays, Anew
<1> QED BY <1>1, <1>2, JourneySafe, PTL DEF Spec, NothingRecognisable
===============================================================================
