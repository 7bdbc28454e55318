------------------------------ MODULE SphinxProofs ------------------------------
(***************************************************************************)
(* Proofs about Sphinx packets, for routes of every length up to the       *)
(* maximum, whatever that is, and for every payload: every node finds what *)
(* the sender meant for it and passes on what the sender had prepared for  *)
(* the next, and the last recovers the message.                            *)
(***************************************************************************)
EXTENDS SphinxPacket, BlockTheorems

(***************************************************************************)
(* The functions that are defined by recursion over the route exist and    *)
(* satisfy their definitions: the fillers, the routing information from    *)
(* the last node to the first, the accumulated private keys and the layers *)
(* of the payload.                                                         *)
(***************************************************************************)
FillerStep(f, keys, i) == Xor(f \o Zeros(StepBlocks), FillerStream(Pseudorandom(keys[i]), i))

LEMMA FillersDefined ==
  ASSUME NEW keys, Len(keys) \in Nat
  PROVE  /\ Fillers(keys)[0] = <<>>
         /\ \A i \in 1..Len(keys) : Fillers(keys)[i] = FillerStep(Fillers(keys)[i - 1], keys, i)
<1> DEFINE S == {k \in Nat : \E g : g = [i \in 0..k |-> IF i = 0 THEN <<>>
                                                      ELSE FillerStep(g[i - 1], keys, i)]}
<1>1. 0 \in S
  <2> DEFINE h == [i \in 0..0 |-> <<>>]
  <2>1. h = [i \in 0..0 |-> IF i = 0 THEN <<>> ELSE FillerStep(h[i - 1], keys, i)]
    OBVIOUS
  <2> HIDE DEF h
  <2> QED BY <2>1
<1>2. ASSUME NEW k \in Nat, k \in S PROVE k + 1 \in S
  <2>1. PICK g : g = [i \in 0..k |-> IF i = 0 THEN <<>> ELSE FillerStep(g[i - 1], keys, i)]
    BY <1>2
  <2> DEFINE h == [i \in 0..(k + 1) |-> IF i = k + 1 THEN FillerStep(g[k], keys, i) ELSE g[i]]
  <2>2. ASSUME NEW i \in 0..(k + 1)
        PROVE  h[i] = IF i = 0 THEN <<>> ELSE FillerStep(h[i - 1], keys, i)
    BY <2>1
  <2>3. h = [i \in 0..(k + 1) |-> h[i]]
    OBVIOUS
  <2> HIDE DEF h
  <2>4. h = [i \in 0..(k + 1) |-> IF i = 0 THEN <<>> ELSE FillerStep(h[i - 1], keys, i)]
    BY <2>2, <2>3
  <2> QED BY <2>4
<1>3. Len(keys) \in S
  BY <1>1, <1>2, NatSetInduction
<1>4. PICK g : g = [i \in 0..Len(keys) |-> IF i = 0 THEN <<>> ELSE FillerStep(g[i - 1], keys, i)]
  BY <1>3
<1> DEFINE F == Fillers(keys)
<1>5. F = [i \in 0..Len(keys) |-> IF i = 0 THEN <<>> ELSE FillerStep(F[i - 1], keys, i)]
  BY <1>4 DEF Fillers, FillerStep
<1> HIDE DEF F
<1>6. F[0] = <<>> /\ \A i \in 1..Len(keys) : F[i] = FillerStep(F[i - 1], keys, i)
  BY <1>5
<1> QED BY <1>6 DEF F

LEMMA EncapsulatedDefined ==
  ASSUME NEW final, NEW delays, NEW route, NEW keys, Len(route) \in Nat \ {0}
  PROVE  /\ Encapsulated(final, delays, route, keys)[Len(route)] = final
         /\ \A i \in 1..(Len(route) - 1) :
              Encapsulated(final, delays, route, keys)[i] =
                ForForwardHop(route[i + 1], DelayOf(delays, i),
                              Encapsulated(final, delays, route, keys)[i + 1], keys[i])
<1> DEFINE n == Len(route)
           Step(next, i) == ForForwardHop(route[i + 1], DelayOf(delays, i), next, keys[i])
           S == {k \in 1..n : \E g : g = [i \in k..n |-> IF i = n THEN final ELSE Step(g[i + 1], i)]}
<1> HIDE DEF Step
<1>1. n \in S
  <2> DEFINE h == [i \in n..n |-> final]
  <2>1. h = [i \in n..n |-> IF i = n THEN final ELSE Step(h[i + 1], i)]
    OBVIOUS
  <2> HIDE DEF h
  <2> QED BY <2>1
<1>2. ASSUME NEW k \in 1..(n - 1), k + 1 \in S PROVE k \in S
  <2>1. PICK g : g = [i \in (k + 1)..n |-> IF i = n THEN final ELSE Step(g[i + 1], i)]
    BY <1>2
  <2> DEFINE h == [i \in k..n |-> IF i = k THEN Step(g[k + 1], i) ELSE g[i]]
  <2>2. ASSUME NEW i \in k..n PROVE h[i] = IF i = n THEN final ELSE Step(h[i + 1], i)
    BY <2>1
  <2>3. h = [i \in k..n |-> h[i]]
    OBVIOUS
  <2> HIDE DEF h
  <2>4. h = [i \in k..n |-> IF i = n THEN final ELSE Step(h[i + 1], i)]
    BY <2>2, <2>3
  <2> QED BY <2>4
<1>3. 1 \in S
  <2>1. n \in Nat /\ 1 \in 1..n
    OBVIOUS
  <2> HIDE DEF S, n
  <2>2. \A i \in 1..n : i \in S
    BY <1>1, <1>2, <2>1, DownwardInduction
  <2> QED BY <2>1, <2>2
<1>4. PICK g : g = [i \in 1..n |-> IF i = n THEN final ELSE Step(g[i + 1], i)]
  BY <1>3
<1> DEFINE E == Encapsulated(final, delays, route, keys)
<1>5. E = [i \in 1..n |-> IF i = n THEN final ELSE Step(E[i + 1], i)]
  BY <1>4 DEF Encapsulated, Step
<1> HIDE DEF E
<1>6. E[n] = final /\ \A i \in 1..(n - 1) : E[i] = Step(E[i + 1], i)
  BY <1>5
<1> QED BY <1>6 DEF E, Step

LEMMA AccumulatorsDefined ==
  ASSUME NEW route, NEW secret, Len(route) \in Nat \ {0}
  PROVE  /\ Accumulators(route, secret)[1] = secret
         /\ \A i \in 1..(Len(route) - 1) :
              Accumulators(route, secret)[i + 1] =
                Accumulated(Accumulators(route, secret)[i], KeysOf(Accumulators(route, secret)[i], route[i]))
<1> DEFINE n == Len(route)
           Step(a, i) == Accumulated(a, KeysOf(a, route[i]))
           S == {k \in Nat : \E g : g = [i \in 1..(k + 1) |-> IF i = 1 THEN secret ELSE Step(g[i - 1], i - 1)]}
<1> HIDE DEF Step
<1>1. 0 \in S
  <2> DEFINE h == [i \in 1..(0 + 1) |-> secret]
  <2>1. h = [i \in 1..(0 + 1) |-> IF i = 1 THEN secret ELSE Step(h[i - 1], i - 1)]
    OBVIOUS
  <2> HIDE DEF h
  <2> QED BY <2>1
<1>2. ASSUME NEW k \in Nat, k \in S PROVE k + 1 \in S
  <2>1. PICK g : g = [i \in 1..(k + 1) |-> IF i = 1 THEN secret ELSE Step(g[i - 1], i - 1)]
    BY <1>2
  <2> DEFINE h == [i \in 1..((k + 1) + 1) |-> IF i = (k + 1) + 1 THEN Step(g[k + 1], i - 1) ELSE g[i]]
  <2>2. ASSUME NEW i \in 1..((k + 1) + 1)
        PROVE  h[i] = IF i = 1 THEN secret ELSE Step(h[i - 1], i - 1)
    BY <2>1
  <2>3. h = [i \in 1..((k + 1) + 1) |-> h[i]]
    OBVIOUS
  <2> HIDE DEF h
  <2>4. h = [i \in 1..((k + 1) + 1) |-> IF i = 1 THEN secret ELSE Step(h[i - 1], i - 1)]
    BY <2>2, <2>3
  <2> QED BY <2>4
<1>3. n - 1 \in S /\ (n - 1) + 1 = n
  <2>1. n - 1 \in Nat /\ (n - 1) + 1 = n
    OBVIOUS
  <2> HIDE DEF S, n
  <2>2. Nat \subseteq S
    BY <1>1, <1>2, NatSetInduction
  <2> QED BY <2>1, <2>2
<1>4. PICK g : g = [i \in 1..n |-> IF i = 1 THEN secret ELSE Step(g[i - 1], i - 1)]
  BY <1>3
<1> DEFINE A == Accumulators(route, secret)
<1>5. A = [i \in 1..n |-> IF i = 1 THEN secret ELSE Step(A[i - 1], i - 1)]
  BY <1>4 DEF Accumulators, Step
<1> HIDE DEF A
<1>6. A[1] = secret /\ \A i \in 1..(n - 1) : A[i + 1] = Step(A[i], i)
  <2>1. A[1] = secret
    BY <1>5
  <2>2. ASSUME NEW i \in 1..(n - 1) PROVE A[i + 1] = Step(A[i], i)
    <3>1. i + 1 \in 1..n /\ i + 1 # 1 /\ (i + 1) - 1 = i
      OBVIOUS
    <3>2. A[i + 1] = Step(A[(i + 1) - 1], (i + 1) - 1)
      BY <1>5, <3>1
    <3> QED BY <3>1, <3>2
  <2> QED BY <2>1, <2>2
<1> QED BY <1>6 DEF A, Step

LEMMA LayersDefined ==
  ASSUME NEW payload, NEW keys, Len(keys) \in Nat
  PROVE  /\ LayersAdded(payload, keys)[Len(keys) + 1] = payload
         /\ \A i \in 1..Len(keys) :
              LayersAdded(payload, keys)[i] = AddEncryptionLayer(LayersAdded(payload, keys)[i + 1], keys[i])
<1> DEFINE n == Len(keys) + 1
           Step(p, i) == AddEncryptionLayer(p, keys[i])
           S == {k \in 1..n : \E g : g = [i \in k..n |-> IF i > Len(keys) THEN payload ELSE Step(g[i + 1], i)]}
<1> HIDE DEF Step
<1>1. n \in S
  <2> DEFINE h == [i \in n..n |-> payload]
  <2>1. h = [i \in n..n |-> IF i > Len(keys) THEN payload ELSE Step(h[i + 1], i)]
    OBVIOUS
  <2> HIDE DEF h
  <2> QED BY <2>1
<1>2. ASSUME NEW k \in 1..(n - 1), k + 1 \in S PROVE k \in S
  <2>1. PICK g : g = [i \in (k + 1)..n |-> IF i > Len(keys) THEN payload ELSE Step(g[i + 1], i)]
    BY <1>2
  <2> DEFINE h == [i \in k..n |-> IF i = k THEN Step(g[k + 1], i) ELSE g[i]]
  <2>2. ASSUME NEW i \in k..n PROVE h[i] = IF i > Len(keys) THEN payload ELSE Step(h[i + 1], i)
    BY <2>1
  <2>3. h = [i \in k..n |-> h[i]]
    OBVIOUS
  <2> HIDE DEF h
  <2>4. h = [i \in k..n |-> IF i > Len(keys) THEN payload ELSE Step(h[i + 1], i)]
    BY <2>2, <2>3
  <2> QED BY <2>4
<1>3. 1 \in S
  <2>1. n \in Nat /\ 1 \in 1..n
    OBVIOUS
  <2> HIDE DEF S, n
  <2>2. \A i \in 1..n : i \in S
    BY <1>1, <1>2, <2>1, DownwardInduction
  <2> QED BY <2>1, <2>2
<1>4. PICK g : g = [i \in 1..n |-> IF i > Len(keys) THEN payload ELSE Step(g[i + 1], i)]
  BY <1>3
<1> DEFINE P == LayersAdded(payload, keys)
<1>5. P = [i \in 1..n |-> IF i > Len(keys) THEN payload ELSE Step(P[i + 1], i)]
  BY <1>4 DEF LayersAdded, Step
<1> HIDE DEF P
<1>6. P[n] = payload /\ \A i \in 1..(n - 1) : P[i] = Step(P[i + 1], i)
  BY <1>5
<1> QED BY <1>6 DEF P, Step

-------------------------------------------------------------------------------
(***************************************************************************)
(* Lengths, and the blocks of the key stream of a node.                    *)
(***************************************************************************)
LEMMA Lengths ==
  /\ MaxRoute \in Nat \ {0}
  /\ StepBlocks = 4 /\ FinalBlocks = 3
  /\ InfoLength = 4 * MaxRoute /\ InfoLength \in Nat
  /\ StreamLength = InfoLength + 4 /\ StreamLength \in Nat
BY MaxRouteAssumption DEF InfoLength, StreamLength, StepBlocks, FinalBlocks

LEMMA PseudorandomIsSeq ==
  ASSUME NEW keys
  PROVE  IsSeq(Pseudorandom(keys), InfoLength + 4)
BY Lengths, KeyStreamElements DEF Pseudorandom

(***************************************************************************)
(* The i-th filler is i steps long.  Its last step is the end of the key   *)
(* stream of the i-th node, and what comes before is the filler before it, *)
(* encrypted with what comes before in that stream.                        *)
(***************************************************************************)
LEMMA FillerStepElements ==
  ASSUME NEW f, NEW keys, NEW i \in 1..(MaxRoute - 1), IsSeq(f, 4 * (i - 1))
  PROVE  /\ IsSeq(FillerStep(f, keys, i), 4 * i)
         /\ \A j \in 1..(4 * (i - 1)) :
              FillerStep(f, keys, i)[j] = SymDiff(f[j], Pseudorandom(keys[i])[(InfoLength + 4 - 4 * i) + j])
         /\ \A j \in (4 * (i - 1) + 1)..(4 * i) :
              FillerStep(f, keys, i)[j] = Pseudorandom(keys[i])[(InfoLength + 4 - 4 * i) + j]
<1> DEFINE P == Pseudorandom(keys[i])
           k == InfoLength + 4 - 4 * i
<1>1. /\ MaxRoute \in Nat /\ InfoLength = 4 * MaxRoute /\ StreamLength = InfoLength + 4 /\ StepBlocks = 4
  BY Lengths
<1>2. IsSeq(P, InfoLength + 4)
  BY PseudorandomIsSeq
<1>3. k \in 0..(InfoLength + 4) /\ (InfoLength + 4) - k = 4 * i
  BY <1>1
<1>4. FillerStream(P, i) = Drop(P, k)
  BY <1>1 DEF FillerStream
<1> HIDE DEF P, k
<1>5. /\ IsSeq(Drop(P, k), 4 * i)
      /\ \A j \in 1..(4 * i) : Drop(P, k)[j] = P[k + j]
  BY <1>2, <1>3, DropElements
<1>6. IsSeq(Zeros(4), 4) /\ \A j \in 1..4 : Zeros(4)[j] = {}
  BY ZerosElements
<1>7. /\ i \in Nat /\ 4 * (i - 1) \in Nat /\ 4 * (i - 1) + 4 = 4 * i
      /\ \A j \in (4 * (i - 1) + 1)..(4 * i) : j - 4 * (i - 1) \in 1..4
      /\ 1..(4 * (i - 1)) \subseteq 1..(4 * i)
      /\ (4 * (i - 1) + 1)..(4 * i) \subseteq 1..(4 * i)
  BY <1>1
<1> DEFINE Y == f \o Zeros(4)
           X == Xor(Y, Drop(P, k))
<1>8. /\ IsSeq(Y, 4 * (i - 1) + 4)
      /\ \A j \in 1..(4 * (i - 1)) : Y[j] = f[j]
      /\ \A j \in (4 * (i - 1) + 1)..(4 * (i - 1) + 4) : Y[j] = Zeros(4)[j - 4 * (i - 1)]
  <2> DEFINE a == 4 * (i - 1)
             b == 4
  <2>1. IsSeq(f, a) /\ IsSeq(Zeros(4), b)
    BY <1>6
  <2> HIDE DEF a, b
  <2>2. IsConcat(Y, f, a, Zeros(4), b)
    BY <2>1, ConcatElements
  <2> QED BY <2>2 DEF IsConcat, a, b
<1> HIDE DEF Y
<1>9. IsSeq(Y, 4 * i) /\ \A j \in (4 * (i - 1) + 1)..(4 * i) : Y[j] = {}
  BY <1>6, <1>7, <1>8
<1>10. /\ IsSeq(X, 4 * i)
       /\ \A j \in 1..(4 * i) : X[j] = SymDiff(Y[j], Drop(P, k)[j])
  <2> DEFINE b == 4 * i
             D == Drop(P, k)
  <2>1. IsSeq(Y, b) /\ IsSeq(D, b) /\ b <= b
    BY <1>5, <1>7, <1>9
  <2> HIDE DEF b, D
  <2>2. IsXor(Xor(Y, D), Y, D, b)
    BY <2>1, XorElements
  <2> QED BY <2>2 DEF IsXor, b, D
<1>11. FillerStep(f, keys, i) = X
  BY <1>1, <1>4 DEF FillerStep, P, Y
<1> HIDE DEF X
<1>12. \A j \in 1..(4 * (i - 1)) : X[j] = SymDiff(f[j], P[k + j])
  <2> SUFFICES ASSUME NEW j \in 1..(4 * (i - 1)) PROVE X[j] = SymDiff(f[j], P[k + j])
    OBVIOUS
  <2>1. j \in 1..(4 * i)
    BY <1>7
  <2>2. X[j] = SymDiff(Y[j], Drop(P, k)[j]) /\ Y[j] = f[j] /\ Drop(P, k)[j] = P[k + j]
    BY <1>5, <1>8, <1>10, <2>1
  <2> QED BY <2>2
<1>13. \A j \in (4 * (i - 1) + 1)..(4 * i) : X[j] = P[k + j]
  <2> SUFFICES ASSUME NEW j \in (4 * (i - 1) + 1)..(4 * i) PROVE X[j] = P[k + j]
    OBVIOUS
  <2>1. j \in 1..(4 * i)
    BY <1>7
  <2>2. X[j] = SymDiff(Y[j], Drop(P, k)[j]) /\ Y[j] = {} /\ Drop(P, k)[j] = P[k + j]
    BY <1>5, <1>9, <1>10, <2>1
  <2>3. X[j] = SymDiff({}, P[k + j])
    BY <2>2
  <2> QED BY <2>3, XorTwice
<1> QED BY <1>10, <1>11, <1>12, <1>13 DEF P, k

LEMMA FillersAreSeqs ==
  ASSUME NEW keys, Len(keys) \in 0..(MaxRoute - 1)
  PROVE  \A i \in 0..Len(keys) : IsSeq(Fillers(keys)[i], 4 * i)
<1> DEFINE F == Fillers(keys)
           m == Len(keys)
           T == {k \in Nat : k <= m => IsSeq(F[k], 4 * k)}
<1>1. /\ m \in Nat /\ m <= MaxRoute - 1 /\ MaxRoute \in Nat
      /\ F[0] = <<>> /\ \A i \in 1..m : F[i] = FillerStep(F[i - 1], keys, i)
  BY FillersDefined, Lengths
<1> HIDE DEF F, m
<1>2. 0 \in T
  BY <1>1, EmptyIsSeq
<1>3. ASSUME NEW k \in Nat, k \in T PROVE k + 1 \in T
  <2> SUFFICES ASSUME k + 1 <= m PROVE IsSeq(F[k + 1], 4 * (k + 1))
    OBVIOUS
  <2> DEFINE i == k + 1
  <2>1. i \in 1..(MaxRoute - 1) /\ i \in 1..m /\ i - 1 = k
    BY <1>1
  <2>2. IsSeq(F[i - 1], 4 * (i - 1))
    BY <1>1, <1>3, <2>1
  <2>3. F[i] = FillerStep(F[i - 1], keys, i)
    BY <1>1, <2>1
  <2> HIDE DEF i
  <2>4. IsSeq(FillerStep(F[i - 1], keys, i), 4 * i)
    BY <2>1, <2>2, FillerStepElements
  <2> QED BY <2>3, <2>4 DEF i
<1> HIDE DEF T
<1>4. Nat \subseteq T
  BY <1>2, <1>3, NatSetInduction
<1> QED BY <1>1, <1>4 DEF T, F, m

-------------------------------------------------------------------------------
(***************************************************************************)
(* Routing information of the size that all has, which ends, as that of    *)
(* the i-th node should, with the filler of the nodes before; and one that *)
(* ends with the end of a node's key stream.                               *)
(***************************************************************************)
EndsWithFiller(info, f, i) ==
  /\ IsSeq(info, InfoLength)
  /\ \A j \in 1..(4 * (i - 1)) : info[(InfoLength - 4 * (i - 1)) + j] = f[j]

EndsWithStream(info, keys) ==
  \A j \in (InfoLength - 3)..InfoLength : info[j] = Pseudorandom(keys)[j + 4]

(***************************************************************************)
(* What a node reads of the routing information that it was sent, block by *)
(* block: with the key stream taken off, and the key stream where it had   *)
(* appended zeros.                                                         *)
(***************************************************************************)
LEMMA RawElements ==
  ASSUME NEW info, NEW keys, IsSeq(info, InfoLength)
  PROVE  /\ IsSeq(Raw(info, keys), InfoLength + 4)
         /\ \A j \in 1..InfoLength : Raw(info, keys)[j] = SymDiff(info[j], Pseudorandom(keys)[j])
         /\ \A j \in (InfoLength + 1)..(InfoLength + 4) : Raw(info, keys)[j] = Pseudorandom(keys)[j]
<1> DEFINE P == Pseudorandom(keys)
           l == InfoLength
           b == 4
           Y == info \o Zeros(b)
           m == l + b
<1>1. l \in Nat /\ StepBlocks = b /\ m \in Nat
  BY Lengths
<1>2. IsSeq(P, m)
  BY PseudorandomIsSeq
<1>3. IsSeq(Zeros(b), b) /\ \A j \in 1..b : Zeros(b)[j] = {}
  BY ZerosElements
<1>4. Raw(info, keys) = Xor(Y, P)
  BY <1>1 DEF Raw, DecryptPadded, AddZeroPadding
<1>5. IsSeq(info, l)
  OBVIOUS
<1>6. b = 4
  OBVIOUS
<1> HIDE DEF P, l, b
<1>7. IsConcat(Y, info, l, Zeros(b), b)
  BY <1>3, <1>5, ConcatElements
<1> HIDE DEF Y
<1>8. /\ IsSeq(Y, m)
      /\ \A j \in 1..l : Y[j] = info[j]
      /\ \A j \in (l + 1)..m : Y[j] = Zeros(b)[j - l]
  BY <1>7 DEF IsConcat
<1>9. \A j \in (l + 1)..m : Y[j] = {}
  BY <1>1, <1>3, <1>6, <1>8
<1> HIDE DEF m
<1>10. /\ IsSeq(Xor(Y, P), m)
       /\ \A j \in 1..m : Xor(Y, P)[j] = SymDiff(Y[j], P[j])
  <2>1. m <= m
    BY <1>1
  <2>2. IsXor(Xor(Y, P), Y, P, m)
    BY <1>2, <1>8, <2>1, XorElements
  <2> QED BY <2>2 DEF IsXor
<1>11. m = l + 4
  BY <1>6 DEF m
<1>12. \A j \in 1..l : Xor(Y, P)[j] = SymDiff(info[j], P[j])
  BY <1>1, <1>8, <1>10, <1>11
<1>13. \A j \in (l + 1)..m : Xor(Y, P)[j] = P[j]
  <2> SUFFICES ASSUME NEW j \in (l + 1)..m PROVE Xor(Y, P)[j] = P[j]
    OBVIOUS
  <2>1. j \in 1..m
    BY <1>1, <1>11
  <2>2. Xor(Y, P)[j] = SymDiff({}, P[j])
    BY <1>9, <1>10, <2>1
  <2> QED BY <2>2, XorTwice
<1>14. Raw(info, keys) = Xor(Y, P) /\ l = InfoLength /\ P = Pseudorandom(keys)
  BY <1>4 DEF l, P
<1> QED BY <1>10, <1>11, <1>12, <1>13, <1>14

LEMMA FlagsDiffer ==
  ASSUME NEW f, NEW g, Flag(f) = Flag(g)
  PROVE  f = g
<1>1. <<"flag", f>> = <<"flag", g>>
  BY DEF Flag
<1> QED BY <1>1

(***************************************************************************)
(* The information for the last node has the size that all have, ends with *)
(* the filler, and is read by that node as it was meant.                   *)
(***************************************************************************)
Told(seed, destination, n) == FinalRoutingInformation(destination) \o Padding(seed, n)

TellsLast(final, seed, destination, keys, n) ==
  \A j \in 1..(InfoLength - 4 * (n - 1)) :
    final.info[j] = SymDiff(Told(seed, destination, n)[j], Pseudorandom(keys)[j])

LEMMA FinalHopElements ==
  ASSUME NEW seed, NEW destination, NEW keys, NEW n \in 1..MaxRoute,
         NEW filler, IsSeq(filler, 4 * (n - 1)),
         NEW final, final = ForFinalHop(seed, destination, keys, filler, n)
  PROVE  /\ EndsWithFiller(final.info, filler, n)
         /\ Verifies(final, keys)
         /\ Unwrap(final.info, keys) =
              [kind |-> "FinalHop", address |-> {destination.address},
               identifier |-> {destination.identifier}]
         /\ final = [integrity_mac |-> final.integrity_mac, info |-> final.info]
         /\ TellsLast(final, seed, destination, keys, n)
<1> DEFINE P == Pseudorandom(keys)
           l == InfoLength
           w == 4 * (n - 1)
           p == l - w
           three == 3
           q == p - three
           R == FinalRoutingInformation(destination)
           Q == Padding(seed, n)
           Y == R \o Q
           Z == EncryptFinal(Y, keys)
           I == Z \o filler
<1>1. /\ MaxRoute \in Nat /\ n \in Nat /\ l \in Nat /\ w \in Nat /\ p \in Nat /\ q \in Nat /\ p + w = l
      /\ three + q = p /\ p <= l + 4 /\ 3 <= p /\ l = InfoLength /\ p = InfoLength - 4 * (n - 1)
      /\ three = 3 /\ w = 4 * (n - 1)
  BY Lengths
<1>2. IsSeq(R, three) /\ R[1] = Flag("final") /\ R[2] = {destination.address} /\ R[3] = {destination.identifier}
  BY DEF FinalRoutingInformation, IsSeq
<1>3. IsSeq(Q, q)
  BY <1>1, Lengths DEF Padding, IsSeq
<1>4. IsSeq(P, l + 4)
  BY PseudorandomIsSeq
<1>5. IsSeq(filler, w)
  OBVIOUS
<1>6. final.info = I /\ Verifies(final, keys)
      /\ final = [integrity_mac |-> final.integrity_mac, info |-> final.info]
  BY DEF ForFinalHop, EncapsulateWithMac, Verifies
<1> HIDE DEF P, l, w, p, three, q, R, Q
<1>7. IsConcat(Y, R, three, Q, q)
  BY <1>2, <1>3, ConcatElements
<1> HIDE DEF Y
<1>8. IsSeq(Y, p) /\ \A j \in 1..3 : Y[j] = R[j]
  BY <1>1, <1>7 DEF IsConcat
<1>9. Len(Y) = p
  BY <1>8, SeqOfElements
<1>10. /\ IsSeq(SubSeq(P, 1, p), p)
       /\ \A j \in 1..p : SubSeq(P, 1, p)[j] = P[j]
  <2> DEFINE s == SubSeq(P, 1, p)
  <2>1. /\ IsSeq(s, p - 1 + 1)
        /\ \A j \in 1..(p - 1 + 1) : s[j] = P[1 + j - 1]
    <3>1. 1 \in Nat \ {0} /\ p \in 0..(l + 4) /\ 1 <= p + 1
      BY <1>1
    <3> QED BY <1>4, <3>1, PartElements DEF IsPart
  <2> HIDE DEF s
  <2>2. p - 1 + 1 = p /\ \A j \in 1..p : 1 + j - 1 = j
    BY <1>1
  <2>3. IsSeq(s, p) /\ \A j \in 1..p : s[j] = P[j]
    BY <2>1, <2>2
  <2> QED BY <2>3 DEF s
<1>11. Z = Xor(Y, SubSeq(P, 1, p))
  BY <1>9 DEF EncryptFinal, P
<1>12. /\ IsSeq(Z, p)
       /\ \A j \in 1..p : Z[j] = SymDiff(Y[j], P[j])
  <2> DEFINE s == SubSeq(P, 1, p)
  <2>1. IsSeq(s, p) /\ (\A j \in 1..p : s[j] = P[j]) /\ p <= p
    BY <1>1, <1>10
  <2> HIDE DEF s
  <2>2. IsXor(Xor(Y, s), Y, s, p)
    BY <1>8, <2>1, XorElements
  <2>3. Z = Xor(Y, s)
    BY <1>11 DEF s
  <2> HIDE DEF Z
  <2> QED BY <2>1, <2>2, <2>3 DEF IsXor
<1> HIDE DEF Z
<1>13. IsConcat(I, Z, p, filler, w)
  BY <1>5, <1>12, ConcatElements
<1> HIDE DEF I
<1>14. /\ IsSeq(I, l)
       /\ \A j \in 1..p : I[j] = Z[j]
       /\ \A j \in (p + 1)..l : I[j] = filler[j - p]
  BY <1>1, <1>13 DEF IsConcat
<1>15. \A j \in 1..w : I[p + j] = filler[j]
  <2> SUFFICES ASSUME NEW j \in 1..w PROVE I[p + j] = filler[j]
    OBVIOUS
  <2>1. p + j \in (p + 1)..l /\ (p + j) - p = j
    BY <1>1
  <2> QED BY <1>14, <2>1
<1> DEFINE raw == Raw(I, keys)
<1>16. \A j \in 1..3 : raw[j] = R[j]
  <2> SUFFICES ASSUME NEW j \in 1..3 PROVE raw[j] = R[j]
    OBVIOUS
  <2>1. j \in 1..l /\ j \in 1..p
    BY <1>1
  <2>2. raw[j] = SymDiff(I[j], P[j])
    BY <1>1, <1>14, <2>1, RawElements DEF P
  <2>3. I[j] = SymDiff(R[j], P[j])
    BY <1>8, <1>12, <1>14, <2>1
  <2> QED BY <2>2, <2>3, XorTwice
<1>17. Unwrap(I, keys) = [kind |-> "FinalHop", address |-> {destination.address},
                          identifier |-> {destination.identifier}]
  <2>1. raw[1] = Flag("final") /\ raw[2] = {destination.address} /\ raw[3] = {destination.identifier}
    BY <1>2, <1>16
  <2> HIDE DEF raw
  <2>2. Flag("final") # Flag("forward")
    BY FlagsDiffer
  <2>3. Parse(raw) = ParseAsFinalHop(raw)
    BY <2>1, <2>2 DEF Parse
  <2> QED BY <2>1, <2>3 DEF Unwrap, ParseAsFinalHop, raw
<1>18. IsSeq(I, InfoLength)
  BY <1>1, <1>14
<1>19. \A j \in 1..(4 * (n - 1)) : I[(InfoLength - 4 * (n - 1)) + j] = filler[j]
  BY <1>1, <1>15
<1>20. \A j \in 1..(InfoLength - 4 * (n - 1)) :
         I[j] = SymDiff(Told(seed, destination, n)[j], Pseudorandom(keys)[j])
  <2>1. \A j \in 1..p : I[j] = SymDiff(Y[j], P[j])
    BY <1>12, <1>14
  <2>2. Y = Told(seed, destination, n) /\ P = Pseudorandom(keys)
    BY DEF Y, R, Q, P, Told
  <2> QED BY <1>1, <2>1, <2>2
<1>21. TellsLast(final, seed, destination, keys, n)
  BY <1>6, <1>20 DEF TellsLast
<1> QED BY <1>6, <1>17, <1>18, <1>19, <1>21 DEF EndsWithFiller

(***************************************************************************)
(* The information for a relay: four blocks of its own, and then the       *)
(* blocks of what the next node gets, the last four left out.  The relay   *)
(* reads them, and its key stream for those that are missing.              *)
(***************************************************************************)
LEMMA ForwardHopElements ==
  ASSUME NEW address, NEW delay, NEW next, NEW keys, IsSeq(next.info, InfoLength),
         NEW hop, hop = ForForwardHop(address, delay, next, keys),
         NEW raw, raw = Raw(hop.info, keys)
  PROVE  /\ IsSeq(hop.info, InfoLength)
         /\ \A j \in 5..InfoLength : hop.info[j] = SymDiff(next.info[j - 4], Pseudorandom(keys)[j])
         /\ Verifies(hop, keys)
         /\ hop = [integrity_mac |-> hop.integrity_mac, info |-> hop.info]
         /\ IsSeq(raw, InfoLength + 4)
         /\ raw[1] = Flag("forward") /\ raw[2] = Address(address) /\ raw[3] = Delay(delay)
         /\ raw[4] = next.integrity_mac
         /\ \A j \in 5..InfoLength : raw[j] = next.info[j - 4]
         /\ \A j \in (InfoLength + 1)..(InfoLength + 4) : raw[j] = Pseudorandom(keys)[j]
<1> DEFINE P == Pseudorandom(keys)
           l == InfoLength
           q == l - 4
           b == 4
           B == <<Flag("forward"), Address(address), Delay(delay), next.integrity_mac>>
           T == Truncate(next.info)
           R == B \o T
           S == SubSeq(P, 1, l)
           I == Xor(R, S)
<1>1. /\ l \in Nat /\ q \in Nat /\ b + q = l /\ l >= 4 /\ b = 4 /\ q = l - 4 /\ l = InfoLength
      /\ InfoLength - StepBlocks = q
  BY Lengths
<1>2. /\ IsSeq(B, b) /\ B[1] = Flag("forward") /\ B[2] = Address(address) /\ B[3] = Delay(delay)
      /\ B[4] = next.integrity_mac
  BY DEF IsSeq
<1>3. IsSeq(P, l + 4) /\ P = Pseudorandom(keys)
  BY PseudorandomIsSeq
<1>4. hop.info = I /\ Verifies(hop, keys)
      /\ hop = [integrity_mac |-> hop.integrity_mac, info |-> hop.info]
  BY DEF ForForwardHop, EncapsulateWithMac, Verifies, EncryptForward, RoutingInformation
<1>5. T = SubSeq(next.info, 1, q)
  BY <1>1 DEF Truncate
<1> HIDE DEF P, l, q, b, B, T
<1>6. IsSeq(T, q) /\ \A j \in 1..q : T[j] = next.info[j]
  <2>1. 1 \in Nat \ {0} /\ q \in 0..l /\ 1 <= q + 1 /\ IsSeq(next.info, l)
    BY <1>1
  <2>2. /\ IsSeq(T, q - 1 + 1)
        /\ \A j \in 1..(q - 1 + 1) : T[j] = next.info[1 + j - 1]
    BY <1>5, <2>1, PartElements DEF IsPart
  <2>3. q - 1 + 1 = q /\ \A j \in 1..q : 1 + j - 1 = j
    BY <1>1
  <2> QED BY <2>2, <2>3
<1>7. IsConcat(R, B, b, T, q)
  BY <1>2, <1>6, ConcatElements
<1> HIDE DEF R
<1>8. /\ IsSeq(R, l)
      /\ \A j \in 1..4 : R[j] = B[j]
      /\ \A j \in 5..l : R[j] = T[j - 4]
  BY <1>1, <1>7 DEF IsConcat
<1>9. \A j \in 5..l : R[j] = next.info[j - 4]
  <2> SUFFICES ASSUME NEW j \in 5..l PROVE R[j] = next.info[j - 4]
    OBVIOUS
  <2>1. j - 4 \in 1..q
    BY <1>1
  <2> QED BY <1>6, <1>8, <2>1
<1>10. IsSeq(S, l) /\ \A j \in 1..l : S[j] = P[j]
  <2>1. 1 \in Nat \ {0} /\ l \in 0..(l + 4) /\ 1 <= l + 1
    BY <1>1
  <2>2. /\ IsSeq(S, l - 1 + 1)
        /\ \A j \in 1..(l - 1 + 1) : S[j] = P[1 + j - 1]
    BY <1>3, <2>1, PartElements DEF IsPart
  <2> HIDE DEF S
  <2>3. l - 1 + 1 = l /\ \A j \in 1..l : 1 + j - 1 = j
    BY <1>1
  <2> QED BY <2>2, <2>3
<1> HIDE DEF S
<1>11. IsXor(I, R, S, l)
  <2>1. l <= l
    BY <1>1
  <2> QED BY <1>8, <1>10, <2>1, XorElements
<1> HIDE DEF I
<1>12. /\ IsSeq(I, l)
       /\ \A j \in 1..l : I[j] = SymDiff(R[j], P[j])
  BY <1>10, <1>11 DEF IsXor
<1>13. \A j \in 5..l : I[j] = SymDiff(next.info[j - 4], P[j])
  BY <1>1, <1>9, <1>12
<1>14. /\ IsSeq(raw, l + 4)
       /\ \A j \in 1..l : raw[j] = SymDiff(I[j], P[j])
       /\ \A j \in (l + 1)..(l + 4) : raw[j] = P[j]
  <2>1. raw = Raw(I, keys) /\ IsSeq(I, InfoLength)
    BY <1>1, <1>4, <1>12
  <2> QED BY <1>1, <1>3, <2>1, RawElements
<1>15. \A j \in 1..l : raw[j] = R[j]
  <2> SUFFICES ASSUME NEW j \in 1..l PROVE raw[j] = R[j]
    OBVIOUS
  <2>1. raw[j] = SymDiff(SymDiff(R[j], P[j]), P[j])
    BY <1>12, <1>14
  <2> QED BY <2>1, XorTwice
<1>16. raw[1] = B[1] /\ raw[2] = B[2] /\ raw[3] = B[3] /\ raw[4] = B[4]
  BY <1>1, <1>8, <1>15
<1>17. \A j \in 5..l : raw[j] = next.info[j - 4]
  <2> SUFFICES ASSUME NEW j \in 5..l PROVE raw[j] = next.info[j - 4]
    OBVIOUS
  <2>1. j \in 1..l
    BY <1>1
  <2> QED BY <1>9, <1>15, <2>1
<1> QED BY <1>1, <1>2, <1>3, <1>4, <1>12, <1>13, <1>14, <1>16, <1>17

(***************************************************************************)
(* So a relay reads exactly what the next node was meant to get if that    *)
(* ends with the end of the relay's key stream.                            *)
(***************************************************************************)
LEMMA RelayReads ==
  ASSUME NEW address, NEW delay, NEW next, NEW keys, IsSeq(next.info, InfoLength),
         next = [integrity_mac |-> next.integrity_mac, info |-> next.info],
         EndsWithStream(next.info, keys)
  PROVE  Unwrap(ForForwardHop(address, delay, next, keys).info, keys) =
           [kind |-> "ForwardHop", address |-> Address(address), delay |-> Delay(delay), next |-> next]
<1> DEFINE hop == ForForwardHop(address, delay, next, keys)
           raw == Raw(hop.info, keys)
           P == Pseudorandom(keys)
           l == InfoLength
           rest == SubSeq(raw, StepBlocks + 1, StepBlocks + InfoLength)
<1>1. l \in Nat /\ l >= 4 /\ l = InfoLength /\ StepBlocks + 1 = 5 /\ StepBlocks + InfoLength = l + 4
  BY Lengths
<1>2. /\ IsSeq(raw, l + 4)
      /\ raw[1] = Flag("forward") /\ raw[2] = Address(address) /\ raw[3] = Delay(delay)
      /\ raw[4] = next.integrity_mac
      /\ \A j \in 5..l : raw[j] = next.info[j - 4]
      /\ \A j \in (l + 1)..(l + 4) : raw[j] = P[j]
  BY ForwardHopElements
<1>3. \A j \in (l - 3)..l : next.info[j] = P[j + 4]
  BY DEF EndsWithStream
<1>4. IsSeq(next.info, l)
  OBVIOUS
<1>5. Unwrap(hop.info, keys) = Parse(raw)
  BY DEF Unwrap
<1>6. rest = SubSeq(raw, 5, l + 4)
  BY <1>1
<1> HIDE DEF hop, raw, P, l, rest
<1>7. IsSeq(rest, l) /\ \A j \in 1..l : rest[j] = raw[j + 4]
  <2>1. 5 \in Nat \ {0} /\ l + 4 \in 0..(l + 4) /\ 5 <= (l + 4) + 1
    BY <1>1
  <2>2. /\ IsSeq(rest, (l + 4) - 5 + 1)
        /\ \A j \in 1..((l + 4) - 5 + 1) : rest[j] = raw[5 + j - 1]
    <3> DEFINE c == l + 4
               a == 5
    <3>1. IsSeq(raw, c) /\ a \in Nat \ {0} /\ c \in 0..c /\ a <= c + 1
      BY <1>2, <2>1
    <3> HIDE DEF a, c
    <3>2. IsPart(SubSeq(raw, a, c), raw, a, c)
      BY <3>1, PartElements
    <3> QED BY <1>6, <3>2 DEF IsPart, a, c
  <2>3. (l + 4) - 5 + 1 = l /\ \A j \in 1..l : 5 + j - 1 = j + 4
    BY <1>1
  <2> QED BY <2>2, <2>3
<1>8. rest = next.info
  <2>1. ASSUME NEW j \in 1..l PROVE rest[j] = next.info[j]
    <3>1. CASE j <= l - 4
      <4>1. j + 4 \in 5..l /\ (j + 4) - 4 = j
        BY <1>1, <3>1
      <4> QED BY <1>2, <1>7, <4>1
    <3>2. CASE j > l - 4
      <4>1. j + 4 \in (l + 1)..(l + 4) /\ j \in (l - 3)..l
        BY <1>1, <3>2
      <4> QED BY <1>2, <1>3, <1>7, <4>1
    <3> QED BY <1>1, <3>1, <3>2
  <2> QED BY <1>4, <1>7, <2>1, SameElements
<1>9. Parse(raw) = ParseAsForwardHop(raw)
  <2>1. Flag("forward") # Flag("final")
    BY FlagsDiffer
  <2> QED BY <1>2, <2>1 DEF Parse
<1>10. ParseAsForwardHop(raw) =
         [kind |-> "ForwardHop", address |-> raw[2], delay |-> raw[3],
          next |-> [integrity_mac |-> raw[4], info |-> rest]]
  BY DEF ParseAsForwardHop, rest
<1>11. next = [integrity_mac |-> raw[4], info |-> rest]
  BY <1>2, <1>8
<1> QED BY <1>2, <1>5, <1>9, <1>10, <1>11 DEF hop

-------------------------------------------------------------------------------
(***************************************************************************)
(* The routing information that every node of a route is meant to get.     *)
(***************************************************************************)
MeantRouting(seed, route, destination, delays, keys) ==
  LET n == Len(route)
  IN  Encapsulated(ForFinalHop(seed, destination, keys[n], Filler(SubSeq(keys, 1, n - 1)), n),
                   delays, route, keys)

(***************************************************************************)
(* If it holds of the next node it holds of this one, and this one's key   *)
(* stream ends with what it has to complete.                               *)
(***************************************************************************)
LEMMA FillerStepBack ==
  ASSUME NEW i \in 1..(MaxRoute - 1), NEW keys, NEW f, IsSeq(f, 4 * (i - 1)),
         NEW address, NEW delay, NEW next, EndsWithFiller(next.info, FillerStep(f, keys, i), i + 1)
  PROVE  /\ EndsWithFiller(ForForwardHop(address, delay, next, keys[i]).info, f, i)
         /\ EndsWithStream(next.info, keys[i])
<1> DEFINE P == Pseudorandom(keys[i])
           g == FillerStep(f, keys, i)
           hop == ForForwardHop(address, delay, next, keys[i])
           l == InfoLength
           w == 4 * (i - 1)
<1>1. /\ MaxRoute \in Nat /\ i \in Nat /\ l \in Nat /\ w \in Nat /\ w + 8 <= l /\ 4 * i = w + 4
      /\ 4 * ((i + 1) - 1) = w + 4 /\ l = InfoLength
  BY Lengths
<1>2. /\ IsSeq(next.info, l)
      /\ \A j \in 1..(w + 4) : next.info[(l - (w + 4)) + j] = g[j]
  BY <1>1 DEF EndsWithFiller
<1>3. /\ \A j \in 1..w : g[j] = SymDiff(f[j], P[(l - w) + j])
      /\ \A j \in (w + 1)..(w + 4) : g[j] = P[(l - w) + j]
  <2>1. /\ \A j \in 1..w : g[j] = SymDiff(f[j], P[(l + 4 - 4 * i) + j])
        /\ \A j \in (w + 1)..(4 * i) : g[j] = P[(l + 4 - 4 * i) + j]
    BY FillerStepElements
  <2>2. l + 4 - 4 * i = l - w
    BY <1>1
  <2> HIDE DEF P, g, l, w
  <2> QED BY <1>1, <2>1, <2>2
<1>4. /\ IsSeq(hop.info, l)
      /\ \A j \in 5..l : hop.info[j] = SymDiff(next.info[j - 4], P[j])
  BY <1>2, ForwardHopElements
<1>5. w = 4 * (i - 1)
  OBVIOUS
<1>6. P = Pseudorandom(keys[i])
  OBVIOUS
<1> HIDE DEF P, g, hop, l, w
<1>7. \A j \in 1..w : hop.info[(l - w) + j] = f[j]
  <2> SUFFICES ASSUME NEW j \in 1..w PROVE hop.info[(l - w) + j] = f[j]
    OBVIOUS
  <2> DEFINE k == (l - w) + j
  <2>1. k \in 5..l /\ k - 4 = (l - (w + 4)) + j /\ j \in 1..(w + 4) /\ k = (l - w) + j
    BY <1>1
  <2> HIDE DEF k
  <2>2. next.info[k - 4] = g[j]
    BY <1>2, <2>1
  <2>3. g[j] = SymDiff(f[j], P[k])
    BY <1>3, <2>1
  <2>4. hop.info[k] = SymDiff(SymDiff(f[j], P[k]), P[k])
    BY <1>4, <2>1, <2>2, <2>3
  <2> QED BY <2>1, <2>4, XorTwice
<1>8. \A j \in (l - 3)..l : next.info[j] = P[j + 4]
  <2> SUFFICES ASSUME NEW j \in (l - 3)..l PROVE next.info[j] = P[j + 4]
    OBVIOUS
  <2> DEFINE k == j - (l - (w + 4))
  <2>1. k \in (w + 1)..(w + 4) /\ k \in 1..(w + 4) /\ (l - (w + 4)) + k = j /\ (l - w) + k = j + 4
    BY <1>1
  <2> HIDE DEF k
  <2>2. next.info[j] = g[k]
    BY <1>2, <2>1
  <2> QED BY <1>3, <2>1, <2>2
<1>9. EndsWithFiller(hop.info, f, i)
  BY <1>1, <1>4, <1>5, <1>7 DEF EndsWithFiller
<1> QED BY <1>1, <1>6, <1>8, <1>9 DEF hop, EndsWithStream

UnwrapsAlong(E, n, route, destination, delays, keys) ==
  /\ \A i \in 1..n : Verifies(E[i], keys[i])
  /\ \A i \in 1..(n - 1) :
       Unwrap(E[i].info, keys[i]) =
         [kind |-> "ForwardHop", address |-> Address(route[i + 1]), delay |-> Delay(delays[i]),
          next |-> E[i + 1]]
  /\ Unwrap(E[n].info, keys[n]) =
       [kind |-> "FinalHop", address |-> {destination.address},
        identifier |-> {destination.identifier}]
  /\ \A i \in 1..n : /\ IsSeq(E[i].info, InfoLength)
                       /\ E[i] = [integrity_mac |-> E[i].integrity_mac, info |-> E[i].info]

(***************************************************************************)
(* The nodes of a route, whatever its length, each find a MAC that is      *)
(* right and read what was meant for them: the next node's address, their  *)
(* own delay, and exactly what the next node is meant to get; the last     *)
(* one, destination and identifier.                                        *)
(***************************************************************************)
THEOREM RouteUnwraps ==
  ASSUME NEW seed, NEW route, NEW destination, NEW delays, NEW keys, NEW n \in 1..MaxRoute,
         Len(route) = n, IsSeq(keys, n),
         NEW E, E = MeantRouting(seed, route, destination, delays, keys)
  PROVE  /\ UnwrapsAlong(E, n, route, destination, delays, keys)
         /\ TellsLast(E[n], seed, destination, keys[n], n)
<1> DEFINE front == SubSeq(keys, 1, n - 1)
           F == Fillers(front)
           final == ForFinalHop(seed, destination, keys[n], Filler(front), n)
           Good(i) == /\ EndsWithFiller(E[i].info, F[i - 1], i)
                      /\ Verifies(E[i], keys[i])
                      /\ E[i] = [integrity_mac |-> E[i].integrity_mac, info |-> E[i].info]
           S == {i \in 1..n : Good(i)}
<1>1. MaxRoute \in Nat /\ n \in Nat \ {0} /\ n \in Nat /\ n \in 1..n
  BY Lengths
<1>2. Len(front) = n - 1 /\ \A i \in 1..(n - 1) : front[i] = keys[i]
  <2>1. IsPart(front, keys, 1, n - 1)
    <3>1. 1 \in Nat \ {0} /\ n - 1 \in 0..n /\ 1 <= (n - 1) + 1
      BY <1>1
    <3> QED BY <3>1, PartElements
  <2> HIDE DEF front
  <2>2. (n - 1) - 1 + 1 = n - 1 /\ \A i \in 1..(n - 1) : 1 + i - 1 = i
    BY <1>1
  <2>3. IsSeq(front, n - 1) /\ \A i \in 1..(n - 1) : front[i] = keys[i]
    BY <2>1, <2>2 DEF IsPart
  <2> QED BY <2>3, SeqOfElements
<1>3. /\ \A i \in 0..(n - 1) : IsSeq(F[i], 4 * i)
      /\ \A i \in 1..(n - 1) : F[i] = FillerStep(F[i - 1], front, i)
  <2>1. Len(front) \in 0..(MaxRoute - 1) /\ Len(front) \in Nat
    BY <1>1, <1>2
  <2>2. /\ \A i \in 0..Len(front) : IsSeq(F[i], 4 * i)
        /\ \A i \in 1..Len(front) : F[i] = FillerStep(F[i - 1], front, i)
    BY <2>1, FillersAreSeqs, FillersDefined
  <2> QED BY <1>2, <2>2
<1>4. Filler(front) = F[n - 1]
  BY <1>2 DEF Filler
<1>5. /\ E[n] = final
      /\ \A i \in 1..(n - 1) :
           E[i] = ForForwardHop(route[i + 1], DelayOf(delays, i), E[i + 1], keys[i])
  <2>1. E = Encapsulated(final, delays, route, keys)
    BY DEF MeantRouting
  <2> HIDE DEF final
  <2> QED BY <1>1, <2>1, EncapsulatedDefined
<1>6. /\ n \in S
      /\ Unwrap(E[n].info, keys[n]) =
           [kind |-> "FinalHop", address |-> {destination.address},
            identifier |-> {destination.identifier}]
      /\ TellsLast(E[n], seed, destination, keys[n], n)
  <2>1. n - 1 \in 0..(n - 1)
    BY <1>1
  <2>2. IsSeq(F[n - 1], 4 * (n - 1))
    BY <1>3, <2>1
  <2>3. E[n] = ForFinalHop(seed, destination, keys[n], F[n - 1], n)
    BY <1>4, <1>5
  <2> HIDE DEF F
  <2>4. /\ EndsWithFiller(E[n].info, F[n - 1], n)
        /\ Verifies(E[n], keys[n])
        /\ Unwrap(E[n].info, keys[n]) =
             [kind |-> "FinalHop", address |-> {destination.address},
              identifier |-> {destination.identifier}]
        /\ E[n] = [integrity_mac |-> E[n].integrity_mac, info |-> E[n].info]
        /\ TellsLast(E[n], seed, destination, keys[n], n)
    BY <2>2, <2>3, FinalHopElements
  <2>5. Good(n)
    BY <2>4
  <2> QED BY <1>1, <2>4, <2>5
<1> HIDE DEF F
<1>7. ASSUME NEW i \in 1..(n - 1), i + 1 \in S
      PROVE  /\ i \in S
             /\ Unwrap(E[i].info, keys[i]) =
                  [kind |-> "ForwardHop", address |-> Address(route[i + 1]), delay |-> Delay(delays[i]),
                   next |-> E[i + 1]]
  <2>1. i \in 1..(MaxRoute - 1) /\ i \in 1..n /\ (i + 1) - 1 = i /\ i - 1 \in 0..(n - 1)
    BY <1>1
  <2>2. Good(i + 1)
    BY <1>7
  <2>3. IsSeq(F[i - 1], 4 * (i - 1)) /\ F[i] = FillerStep(F[i - 1], front, i)
    BY <1>3, <2>1
  <2>4. EndsWithFiller(E[i + 1].info, FillerStep(F[i - 1], front, i), i + 1)
    BY <2>1, <2>2, <2>3
  <2>5. front[i] = keys[i]
    BY <1>2
  <2> DEFINE d == DelayOf(delays, i)
  <2>6. E[i] = ForForwardHop(route[i + 1], d, E[i + 1], keys[i])
    BY <1>5
  <2> HIDE DEF d, front
  <2>7. /\ EndsWithFiller(E[i].info, F[i - 1], i)
        /\ EndsWithStream(E[i + 1].info, keys[i])
    <3> DEFINE f == F[i - 1]
               next == E[i + 1]
               g == FillerStep(f, front, i)
    <3>1. IsSeq(f, 4 * (i - 1)) /\ EndsWithFiller(next.info, g, i + 1)
      BY <2>3, <2>4
    <3> HIDE DEF f, next
    <3>2. /\ EndsWithFiller(ForForwardHop(route[i + 1], d, next, front[i]).info, f, i)
          /\ EndsWithStream(next.info, front[i])
      BY <2>1, <3>1, FillerStepBack
    <3> QED BY <2>5, <2>6, <3>2 DEF f, next
  <2>8. IsSeq(E[i + 1].info, InfoLength)
    BY <2>2 DEF EndsWithFiller
  <2>9. /\ Verifies(E[i], keys[i])
        /\ E[i] = [integrity_mac |-> E[i].integrity_mac, info |-> E[i].info]
    BY <2>6, <2>8, ForwardHopElements
  <2>10. Unwrap(E[i].info, keys[i]) =
           [kind |-> "ForwardHop", address |-> Address(route[i + 1]), delay |-> Delay(d), next |-> E[i + 1]]
    BY <2>2, <2>6, <2>7, <2>8, RelayReads
  <2>11. d = delays[i]
    BY DEF d, DelayOf
  <2> QED BY <2>1, <2>7, <2>9, <2>10, <2>11
<1> HIDE DEF S
<1>8. \A i \in 1..n : i \in S
  BY <1>1, <1>6, <1>7, DownwardInduction
<1>9. ASSUME NEW i \in 1..(n - 1)
      PROVE  Unwrap(E[i].info, keys[i]) =
               [kind |-> "ForwardHop", address |-> Address(route[i + 1]), delay |-> Delay(delays[i]),
                next |-> E[i + 1]]
  <2>1. i + 1 \in S
    BY <1>1, <1>8
  <2> QED BY <1>7, <2>1
<1>10. \A i \in 1..n : Good(i)
  BY <1>8 DEF S
<1> QED BY <1>6, <1>9, <1>10 DEF EndsWithFiller, UnwrapsAlong

-------------------------------------------------------------------------------
(***************************************************************************)
(* A node and the sender come to the same keys, the node from the shared   *)
(* secret in the header and the sender from the private key it has         *)
(* accumulated; the secret that the node blinds is the one that the sender *)
(* accumulates next.                                                       *)
(***************************************************************************)
LEMMA KeysAgree ==
  ASSUME NEW accumulator, NEW n
  PROVE  /\ ComputeRoutingKeys(accumulator, n) = KeysOf(accumulator, n)
         /\ Blind(accumulator, KeysOf(accumulator, n).blinding_factor)
              = Accumulated(accumulator, KeysOf(accumulator, n))
<1>1. DiffieHellman(NodeKey(n), accumulator) = DiffieHellman(accumulator, PublicKey(NodeKey(n)))
  BY DEF DiffieHellman, PublicKey, Generator
<1>2. ComputeRoutingKeys(accumulator, n) = KeysOf(accumulator, n)
  BY <1>1 DEF ComputeRoutingKeys, KeysOf
<1>3. \A keys : Blind(accumulator, keys.blinding_factor) = Accumulated(accumulator, keys)
  BY DEF Blind, DiffieHellman, Accumulated
<1> QED BY <1>2, <1>3

(***************************************************************************)
(* The header that the i-th node of a route is meant to get.               *)
(***************************************************************************)
MeantHeader(seed, secret, route, delays, destination, i) ==
  [shared_secret |-> Accumulators(route, Secret(secret))[i],
   routing_info  |-> MeantRouting(seed, route, destination, delays, KeyMaterial(route, Secret(secret)))[i]]

PayloadKey(secret, route, i) == KeyMaterial(route, Secret(secret))[i].payload_key

ProcessesAlong(seed, secret, route, delays, destination, n) ==
  /\ NewHeader(seed, secret, route, delays, destination).header
       = MeantHeader(seed, secret, route, delays, destination, 1)
  /\ NewHeader(seed, secret, route, delays, destination).payload_keys
       = [i \in 1..n |-> PayloadKey(secret, route, i)]
  /\ \A i \in 1..(n - 1) :
       Process(route[i], MeantHeader(seed, secret, route, delays, destination, i)) =
         [kind |-> "ForwardHop", address |-> Address(route[i + 1]), delay |-> Delay(delays[i]),
          header |-> MeantHeader(seed, secret, route, delays, destination, i + 1),
          payload_key |-> PayloadKey(secret, route, i)]
  /\ Process(route[n], MeantHeader(seed, secret, route, delays, destination, n)) =
       [kind |-> "FinalHop", address |-> {destination.address},
        identifier |-> {destination.identifier},
        payload_key |-> PayloadKey(secret, route, n)]

(***************************************************************************)
(* process() with the header that a node is meant to get makes of it the   *)
(* header that the next node is meant to get, and the sender sends the     *)
(* first one: so every node of a route, whatever its length, accepts the   *)
(* header and learns where the packet goes next, with which delay, and the *)
(* key of the payload's layer that the sender has made for it.             *)
(***************************************************************************)
THEOREM RouteProcesses ==
  ASSUME NEW seed, NEW secret, NEW route, NEW delays, NEW destination, NEW n \in 1..MaxRoute,
         Len(route) = n
  PROVE  ProcessesAlong(seed, secret, route, delays, destination, n)
<1> DEFINE initial == Secret(secret)
           A == Accumulators(route, initial)
           K == KeyMaterial(route, initial)
           E == MeantRouting(seed, route, destination, delays, K)
           H(i) == MeantHeader(seed, secret, route, delays, destination, i)
<1>1. n \in Nat \ {0} /\ n \in Nat /\ 1 \in 1..n /\ n \in 1..n
  BY Lengths
<1>2. /\ A[1] = initial
      /\ \A i \in 1..(n - 1) : A[i + 1] = Accumulated(A[i], KeysOf(A[i], route[i]))
  BY <1>1, AccumulatorsDefined
<1>3. IsSeq(K, n) /\ \A i \in 1..n : K[i] = KeysOf(A[i], route[i])
  <2> HIDE DEF A
  <2>1. K = [i \in 1..n |-> KeysOf(A[i], route[i])]
    BY DEF KeyMaterial, A
  <2> QED BY <1>1, <2>1 DEF IsSeq
<1>4. H(1) = NewHeader(seed, secret, route, delays, destination).header
  <2>1. PublicKey(initial) = initial
    BY DEF PublicKey, DiffieHellman, Generator
  <2> HIDE DEF A, K, initial
  <2>2. E[1] = NewRouting(seed, route, destination, delays, K, Filler(SubSeq(K, 1, n - 1)))
    BY DEF MeantRouting, NewRouting, ForForwardHops
  <2> QED BY <1>2, <2>1, <2>2 DEF NewHeader, MeantHeader, K, A, initial
<1>5. NewHeader(seed, secret, route, delays, destination).payload_keys
        = [i \in 1..n |-> PayloadKey(secret, route, i)]
  BY DEF NewHeader, PayloadKey
<1>6. /\ \A i \in 1..n : Verifies(E[i], K[i])
      /\ \A i \in 1..(n - 1) :
           Unwrap(E[i].info, K[i]) =
             [kind |-> "ForwardHop", address |-> Address(route[i + 1]), delay |-> Delay(delays[i]),
              next |-> E[i + 1]]
      /\ Unwrap(E[n].info, K[n]) =
           [kind |-> "FinalHop", address |-> {destination.address},
            identifier |-> {destination.identifier}]
  <2> HIDE DEF K
  <2>1. E = MeantRouting(seed, route, destination, delays, K)
    OBVIOUS
  <2>2. IsSeq(K, n)
    BY <1>3
  <2> HIDE DEF E
  <2>3. UnwrapsAlong(E, n, route, destination, delays, K)
    BY <2>1, <2>2, RouteUnwraps
  <2> QED BY <2>3 DEF UnwrapsAlong
<1>7. \A i \in 1..n : /\ H(i).shared_secret = A[i] /\ H(i).routing_info = E[i]
                      /\ ComputeRoutingKeys(H(i).shared_secret, route[i]) = K[i]
                      /\ PayloadKey(secret, route, i) = K[i].payload_key
                      /\ H(i) = [shared_secret |-> A[i], routing_info |-> E[i]]
  BY <1>3, KeysAgree DEF MeantHeader, PayloadKey
<1>8. ASSUME NEW i \in 1..(n - 1)
      PROVE  Process(route[i], H(i)) =
               [kind |-> "ForwardHop", address |-> Address(route[i + 1]), delay |-> Delay(delays[i]),
                header |-> H(i + 1), payload_key |-> PayloadKey(secret, route, i)]
  <2>1. i \in 1..n /\ i + 1 \in 1..n
    BY <1>1
  <2>2. Blind(A[i], K[i].blinding_factor) = A[i + 1]
    BY <1>2, <1>3, <2>1, KeysAgree
  <2>3. /\ H(i).shared_secret = A[i] /\ H(i).routing_info = E[i]
        /\ ComputeRoutingKeys(H(i).shared_secret, route[i]) = K[i]
        /\ PayloadKey(secret, route, i) = K[i].payload_key
        /\ H(i + 1) = [shared_secret |-> A[i + 1], routing_info |-> E[i + 1]]
    BY <1>7, <2>1
  <2> DEFINE parsed == [kind |-> "ForwardHop", address |-> Address(route[i + 1]),
                        delay |-> Delay(delays[i]), next |-> E[i + 1]]
             k == K[i]
             h == H(i)
  <2>4. Unwrap(h.routing_info.info, k) = parsed /\ Verifies(h.routing_info, k)
    BY <1>6, <2>1, <2>3
  <2>5. parsed.kind = "ForwardHop"
    OBVIOUS
  <2>6. ForwardHop(A[i + 1], parsed, k) =
          [kind |-> "ForwardHop", address |-> Address(route[i + 1]), delay |-> Delay(delays[i]),
           header |-> [shared_secret |-> A[i + 1], routing_info |-> E[i + 1]],
           payload_key |-> k.payload_key]
    BY DEF ForwardHop
  <2>7. ComputeRoutingKeys(h.shared_secret, route[i]) = k /\ h.shared_secret = A[i]
    BY <2>3
  <2>8. Blind(A[i], k.blinding_factor) = A[i + 1]
    BY <2>2
  <2>9. H(i + 1) = [shared_secret |-> A[i + 1], routing_info |-> E[i + 1]]
        /\ PayloadKey(secret, route, i) = k.payload_key
    BY <2>3
  <2> HIDE DEF parsed, k, h, A, E
  <2>10. Process(route[i], h) = ForwardHop(A[i + 1], parsed, k)
    BY <2>4, <2>5, <2>7, <2>8 DEF Process
  <2> QED BY <2>6, <2>9, <2>10 DEF h
<1>9. Process(route[n], H(n)) =
        [kind |-> "FinalHop", address |-> {destination.address},
         identifier |-> {destination.identifier}, payload_key |-> PayloadKey(secret, route, n)]
  <2> DEFINE parsed == [kind |-> "FinalHop", address |-> {destination.address},
                        identifier |-> {destination.identifier}]
             k == K[n]
             h == H(n)
  <2>1. /\ Unwrap(h.routing_info.info, k) = parsed /\ Verifies(h.routing_info, k)
        /\ ComputeRoutingKeys(h.shared_secret, route[n]) = k
        /\ PayloadKey(secret, route, n) = k.payload_key
    BY <1>1, <1>6, <1>7
  <2>2. parsed.kind = "FinalHop"
    OBVIOUS
  <2>3. FinalHop(parsed, k) =
          [kind |-> "FinalHop", address |-> {destination.address},
           identifier |-> {destination.identifier}, payload_key |-> k.payload_key]
    BY DEF FinalHop
  <2> HIDE DEF parsed, k, h, A, E
  <2>4. Process(route[n], h) = FinalHop(parsed, k)
    BY <2>1, <2>2 DEF Process
  <2> QED BY <2>1, <2>3, <2>4 DEF h
<1> QED BY <1>4, <1>5, <1>8, <1>9 DEF ProcessesAlong

-------------------------------------------------------------------------------
(***************************************************************************)
(* A payload on which there are only layers of encryption, which is what   *)
(* a sender makes.  Encrypting it adds one, and decrypting takes it off.   *)
(***************************************************************************)
Enciphered(d, text) == Covered(d, "enc", text)

LEMMA DecryptsAgain ==
  ASSUME NEW d, NEW text, Enciphered(d, text), NEW key
  PROVE  Enciphered(Encrypt(key, d), text) /\ Decrypt(key, Encrypt(key, d)) = d
<1>1. PICK tag, other : tag = "enc" /\ other = "dec"
  OBVIOUS
<1> DEFINE turned == Turn(d, <<tag, key>>, <<other, key>>)
<1>2. tag # other /\ Covered(d, tag, text)
  BY <1>1 DEF Enciphered
<1> HIDE DEF turned
<1>3. IsTurned(turned, d, tag, other, key, text)
  BY <1>2, TurnsBack DEF turned
<1>4. Encrypt(key, d) = turned
  BY <1>1 DEF Encrypt, turned
<1> QED BY <1>1, <1>3, <1>4 DEF IsTurned, Enciphered, Decrypt

(***************************************************************************)
(* Every node of a route, with its own payload key, takes off the layer    *)
(* that the sender had put on last of those still there, and after the     *)
(* last node the payload is as it was before the first.                    *)
(***************************************************************************)
THEOREM LayersComeOff ==
  ASSUME NEW text, NEW keys, NEW n \in Nat, Len(keys) = n,
         NEW P, P = LayersAdded(Payload(text), keys)
  PROVE  /\ P[n + 1] = Payload(text)
         /\ \A i \in 1..n : Decrypt(keys[i], P[i]) = P[i + 1]
         /\ \A i \in 1..(n + 1) : P[i].text = text /\ Enciphered(P[i], text)
<1> DEFINE S == {i \in 1..(n + 1) : Enciphered(P[i], text)}
           c == n + 1
<1>1. P[c] = Payload(text) /\ \A i \in 1..n : P[i] = Encrypt(keys[i], P[i + 1])
  BY LayersDefined DEF AddEncryptionLayer
<1>2. c \in Nat /\ c = n + 1
  OBVIOUS
<1>3. Enciphered(Payload(text), text)
  BY EmptyIsSeq DEF Payload, Enciphered, Covered
<1> HIDE DEF c
<1>4. c \in S
  BY <1>1, <1>2, <1>3
<1>5. ASSUME NEW i \in 1..n, i + 1 \in S PROVE i \in S /\ Decrypt(keys[i], P[i]) = P[i + 1]
  <2>1. Enciphered(P[i + 1], text) /\ P[i] = Encrypt(keys[i], P[i + 1])
    BY <1>1, <1>5
  <2> QED BY <2>1, DecryptsAgain
<1>6. \A i \in 1..c : i \in S
  <2>1. \A i \in 1..(c - 1) : i + 1 \in S => i \in S
    BY <1>2, <1>5
  <2> HIDE DEF S
  <2> QED BY <1>2, <1>4, <2>1, DownwardInduction
<1>7. \A i \in 1..n : Decrypt(keys[i], P[i]) = P[i + 1]
  BY <1>2, <1>5, <1>6
<1>8. \A i \in 1..c : P[i].text = text /\ Enciphered(P[i], text)
  <2> SUFFICES ASSUME NEW i \in 1..c PROVE P[i].text = text /\ Enciphered(P[i], text)
    OBVIOUS
  <2>1. Enciphered(P[i], text)
    BY <1>6
  <2> QED BY <2>1 DEF Enciphered, Covered
<1> QED BY <1>1, <1>2, <1>7, <1>8

(***************************************************************************)
(* The bytes of a payload: the zeros, the message, the marker, zeros.      *)
(***************************************************************************)
LEMMA FinalPayloadElements ==
  ASSUME NEW message, NEW len, IsSeq(message, len), NEW size \in Nat,
         LeadingZeros + len + 1 <= size,
         NEW text, text = SetFinalPayload(message, size)
  PROVE  /\ IsSeq(text, size)
         /\ \A i \in 1..LeadingZeros : text[i] = {}
         /\ \A i \in 1..len : text[LeadingZeros + i] = message[i]
         /\ text[LeadingZeros + len + 1] = Byte(1)
         /\ \A i \in (LeadingZeros + len + 2)..size : text[i] = {}
<1> DEFINE z == LeadingZeros
           one == 1
           X == Zeros(z) \o message
           Y == X \o <<Byte(1)>>
           W == Y \o Zeros(size)
           a == z + len
           b == a + one
           c == b + size
<1>1. /\ z \in Nat /\ len \in Nat /\ a \in Nat /\ b \in Nat /\ c \in Nat /\ size \in 0..c
      /\ a = z + len /\ b = a + 1 /\ c = b + size /\ z = LeadingZeros /\ b <= size /\ one = 1
  BY PayloadAssumption DEF IsSeq
<1>2. IsSeq(Zeros(z), z) /\ (\A i \in 1..z : Zeros(z)[i] = {})
  BY <1>1, ZerosElements
<1>3. IsSeq(Zeros(size), size) /\ (\A i \in 1..size : Zeros(size)[i] = {})
  BY ZerosElements
<1>4. IsSeq(<<Byte(1)>>, one) /\ <<Byte(1)>>[1] = Byte(1)
  BY DEF IsSeq
<1>5. text = SubSeq(W, 1, size)
  BY DEF SetFinalPayload
<1> HIDE DEF z, one
<1>6. IsConcat(X, Zeros(z), z, message, len)
  BY <1>2, ConcatElements
<1> HIDE DEF X, a
<1>7. IsSeq(X, a) /\ (\A i \in 1..z : X[i] = {}) /\ \A i \in (z + 1)..a : X[i] = message[i - z]
  BY <1>1, <1>2, <1>6 DEF IsConcat
<1>8. IsConcat(Y, X, a, <<Byte(1)>>, one)
  BY <1>4, <1>7, ConcatElements
<1> HIDE DEF Y, b
<1>9. IsSeq(Y, b) /\ (\A i \in 1..a : Y[i] = X[i]) /\ Y[b] = Byte(1)
  BY <1>1, <1>4, <1>8 DEF IsConcat, b
<1>10. IsConcat(W, Y, b, Zeros(size), size)
  BY <1>3, <1>9, ConcatElements
<1> HIDE DEF W, c
<1>11. IsSeq(W, c) /\ (\A i \in 1..b : W[i] = Y[i]) /\ \A i \in (b + 1)..c : W[i] = {}
  BY <1>1, <1>3, <1>10 DEF IsConcat, c
<1>12. IsSeq(text, size) /\ \A i \in 1..size : text[i] = W[i]
  <2>1. 1 \in Nat \ {0} /\ size \in 0..c /\ 1 <= size + 1
    BY <1>1
  <2>2. IsPart(text, W, 1, size)
    BY <1>5, <1>11, <2>1, PartElements
  <2>3. size - 1 + 1 = size /\ \A i \in 1..size : 1 + i - 1 = i
    OBVIOUS
  <2> QED BY <2>2, <2>3 DEF IsPart
<1>13. \A i \in 1..z : text[i] = {}
  <2> SUFFICES ASSUME NEW i \in 1..z PROVE text[i] = {}
    OBVIOUS
  <2>1. i \in 1..size /\ i \in 1..b /\ i \in 1..a
    BY <1>1
  <2> QED BY <1>7, <1>9, <1>11, <1>12, <2>1
<1>14. \A i \in 1..len : text[z + i] = message[i]
  <2> SUFFICES ASSUME NEW i \in 1..len PROVE text[z + i] = message[i]
    OBVIOUS
  <2>1. z + i \in 1..size /\ z + i \in 1..b /\ z + i \in 1..a /\ z + i \in (z + 1)..a /\ (z + i) - z = i
    BY <1>1
  <2> QED BY <1>7, <1>9, <1>11, <1>12, <2>1
<1>15. text[b] = Byte(1)
  BY <1>1, <1>9, <1>11, <1>12
<1>16. \A i \in (b + 1)..size : text[i] = {}
  <2> SUFFICES ASSUME NEW i \in (b + 1)..size PROVE text[i] = {}
    OBVIOUS
  <2>1. i \in 1..size /\ i \in (b + 1)..c
    BY <1>1
  <2> QED BY <1>11, <1>12, <2>1
<1>17. b = LeadingZeros + len + 1 /\ b + 1 = LeadingZeros + len + 2
  BY <1>1
<1> QED BY <1>1, <1>12, <1>13, <1>14, <1>15, <1>16, <1>17

(***************************************************************************)
(* Whatever bytes a message has, and however close it comes to the size of *)
(* the payload: if the sender accepts its length, exactly this message is  *)
(* recovered at the end, also if it ends with zeros or with the byte that  *)
(* is the marker.                                                          *)
(***************************************************************************)
THEOREM MessageRecovered ==
  ASSUME NEW message, NEW len, IsSeq(message, len), NEW size \in Nat, Valid(size, len)
  PROVE  RecoverPlaintext(Payload(SetFinalPayload(message, size)))
           = [error |-> "none", plaintext |-> message]
<1> DEFINE z == LeadingZeros
           text == SetFinalPayload(message, size)
           rest == Drop(text, z)
           ones == {i \in DOMAIN rest : rest[i] = Byte(1)}
           k == size - z
<1>1. /\ z \in Nat /\ len \in Nat /\ k \in Nat /\ k = size - z /\ z + len + 1 <= size /\ z = LeadingZeros
      /\ z \in 0..size /\ len + 1 \in 1..k
  <2>1. LeadingZeros \in Nat /\ len \in Nat
    BY PayloadAssumption DEF IsSeq
  <2>2. len <= size - (LeadingZeros + 1)
    BY DEF Valid, Overhead
  <2> QED BY <2>1, <2>2
<1>2. /\ IsSeq(text, size)
      /\ \A i \in 1..z : text[i] = {}
      /\ \A i \in 1..len : text[z + i] = message[i]
      /\ text[z + len + 1] = Byte(1)
      /\ \A i \in (z + len + 2)..size : text[i] = {}
  BY <1>1, FinalPayloadElements
<1>3. Read(Payload(text)) = text
  BY DEF Read, Payload
<1>4. Byte(1) # {}
  <2>1. Byte(1) = {<<"byte", 1>>}
    BY DEF Byte
  <2>2. <<"byte", 1>> \in Byte(1)
    BY <2>1
  <2> QED BY <2>2
<1> HIDE DEF text, z, k
<1>5. IsSeq(rest, k) /\ \A i \in 1..k : rest[i] = text[z + i]
  <2>1. IsSeq(rest, size - z) /\ \A i \in 1..(size - z) : rest[i] = text[z + i]
    BY <1>1, <1>2, DropElements
  <2> QED BY <1>1, <2>1
<1>6. SubSeq(text, 1, z) = Zeros(z)
  <2>1. 1 \in Nat \ {0} /\ z \in 0..size /\ 1 <= z + 1
    BY <1>1
  <2>2. IsPart(SubSeq(text, 1, z), text, 1, z)
    BY <1>2, <2>1, PartElements
  <2>3. z - 1 + 1 = z /\ \A i \in 1..z : 1 + i - 1 = i
    BY <1>1
  <2> DEFINE s == SubSeq(text, 1, z)
  <2>4. IsSeq(s, z) /\ \A i \in 1..z : s[i] = {}
    BY <1>2, <2>2, <2>3 DEF IsPart
  <2>5. IsSeq(Zeros(z), z) /\ \A i \in 1..z : Zeros(z)[i] = {}
    BY <1>1, ZerosElements
  <2> HIDE DEF s
  <2>6. s = Zeros(z)
    BY <2>4, <2>5, SameElements
  <2> QED BY <2>6 DEF s
<1> HIDE DEF rest
<1>7. DOMAIN rest = 1..k
  BY <1>5, SeqOfElements
<1>8. len + 1 \in ones /\ \A i \in ones : i <= len + 1
  <2>1. rest[len + 1] = Byte(1)
    <3>1. z + (len + 1) = z + len + 1
      BY <1>1
    <3> QED BY <1>1, <1>2, <1>5, <3>1
  <2>2. ASSUME NEW i \in ones, i > len + 1 PROVE FALSE
    <3>1. i \in 1..k /\ z + i \in (z + len + 2)..size
      BY <1>1, <1>7, <2>2
    <3>2. rest[i] = {}
      BY <1>2, <1>5, <3>1
    <3> QED BY <1>4, <3>2
  <2>3. \A i \in ones : i \in Int
    BY <1>1, <1>7
  <2> QED BY <1>1, <1>7, <2>1, <2>2, <2>3
<1>9. Marker(ones) = len + 1
  <2>1. \A i \in ones : i \in Int
    BY <1>1, <1>7
  <2> HIDE DEF ones
  <2>2. \E x \in ones : \A y \in ones : x >= y
    BY <1>8, <1>1, <2>1
  <2>3. Marker(ones) \in ones /\ \A y \in ones : Marker(ones) >= y
    BY <2>2 DEF Marker, Max
  <2> QED BY <1>1, <1>8, <2>1, <2>3
<1>10. SubSeq(rest, 1, Marker(ones) - 1) = message
  <2>1. Marker(ones) - 1 = len /\ 1 \in Nat \ {0} /\ len \in 0..k /\ 1 <= len + 1
    BY <1>1, <1>9
  <2>2. IsPart(SubSeq(rest, 1, len), rest, 1, len)
    BY <1>5, <2>1, PartElements
  <2>3. len - 1 + 1 = len /\ (\A i \in 1..len : 1 + i - 1 = i) /\ 1..len \subseteq 1..k
    BY <1>1
  <2> DEFINE s == SubSeq(rest, 1, len)
  <2>4. IsSeq(s, len) /\ \A i \in 1..len : s[i] = message[i]
    BY <1>2, <1>5, <2>2, <2>3 DEF IsPart
  <2> HIDE DEF s
  <2>5. s = message
    BY <2>4, SameElements
  <2> QED BY <2>1, <2>5 DEF s
<1>11. ones # {}
  BY <1>8
<1> HIDE DEF ones
<1> QED BY <1>3, <1>6, <1>10, <1>11 DEF RecoverPlaintext, rest, ones, z, text

-------------------------------------------------------------------------------
(***************************************************************************)
(* The packet that the i-th node of a route is meant to get.               *)
(***************************************************************************)
MeantPacket(seed, secret, message, size, route, destination, delays, i) ==
  [header  |-> MeantHeader(seed, secret, route, delays, destination, i),
   payload |-> LayersAdded(Payload(SetFinalPayload(message, size)),
                           [j \in 1..Len(route) |-> PayloadKey(secret, route, j)])[i]]

(***************************************************************************)
(* What a sender builds for any route that is not too long and any message *)
(* that fits is delivered, if it reaches its nodes unchanged: each makes   *)
(* of it the packet meant for the next, which it learns the address of     *)
(* together with its delay, and the last learns destination and identifier *)
(* and recovers the message.                                               *)
(***************************************************************************)
THEOREM PacketDelivered ==
  ASSUME NEW seed, NEW secret, NEW route, NEW delays, NEW destination, NEW n \in 1..MaxRoute,
         IsSeq(route, n), Len(delays) = n,
         NEW message, NEW len, IsSeq(message, len), NEW size \in Nat, Valid(size, len),
         NEW D, D = [i \in 1..n |-> MeantPacket(seed, secret, message, size, route, destination, delays, i)]
  PROVE  /\ BuildPacket(seed, secret, message, size, route, destination, delays)
              = [error |-> "none", packet |-> D[1]]
         /\ \A i \in 1..(n - 1) :
              ProcessPacket(route[i], D[i]) =
                [kind |-> "ForwardHop", address |-> Address(route[i + 1]), delay |-> Delay(delays[i]),
                 packet |-> D[i + 1]]
         /\ \E payload :
              /\ ProcessPacket(route[n], D[n]) =
                   [kind |-> "FinalHop", address |-> {destination.address},
                    identifier |-> {destination.identifier}, payload |-> payload]
              /\ RecoverPlaintext(payload) = [error |-> "none", plaintext |-> message]
<1> DEFINE text == SetFinalPayload(message, size)
           keys == [j \in 1..n |-> PayloadKey(secret, route, j)]
           P == LayersAdded(Payload(text), keys)
           H(i) == MeantHeader(seed, secret, route, delays, destination, i)
           made == NewHeader(seed, secret, route, delays, destination)
<1>1. n \in Nat /\ n >= 1 /\ n <= MaxRoute /\ MaxRoute \in Nat /\ Len(route) = n /\ Len(message) = len
      /\ 1 \in 1..n /\ n \in 1..n
  <2>1. Len(route) = n /\ Len(message) = len
    BY SeqOfElements
  <2>2. MaxRoute \in Nat
    BY Lengths
  <2> QED BY <2>1, <2>2
<1>2. /\ made.header = H(1) /\ made.payload_keys = keys
      /\ \A i \in 1..(n - 1) :
           Process(route[i], H(i)) =
             [kind |-> "ForwardHop", address |-> Address(route[i + 1]), delay |-> Delay(delays[i]),
              header |-> H(i + 1), payload_key |-> PayloadKey(secret, route, i)]
      /\ Process(route[n], H(n)) =
           [kind |-> "FinalHop", address |-> {destination.address},
            identifier |-> {destination.identifier}, payload_key |-> PayloadKey(secret, route, n)]
  <2>1. ProcessesAlong(seed, secret, route, delays, destination, n)
    BY <1>1, RouteProcesses
  <2> QED BY <2>1 DEF ProcessesAlong
<1>3. /\ P[n + 1] = Payload(text)
      /\ \A i \in 1..n : Decrypt(keys[i], P[i]) = P[i + 1]
      /\ \A i \in 1..(n + 1) : P[i].text = text
  <2>1. IsSeq(keys, n)
    BY <1>1 DEF IsSeq
  <2>2. Len(keys) = n
    BY <2>1, SeqOfElements
  <2> HIDE DEF keys, text
  <2> QED BY <1>1, <2>2, LayersComeOff
<1>4. \A i \in 1..n : D[i] = [header |-> H(i), payload |-> P[i]]
  BY <1>1 DEF MeantPacket
<1>5. \A i \in 1..n : keys[i] = PayloadKey(secret, route, i)
  OBVIOUS
<1>6. Len(text) >= CipherBlock /\ CipherBlock \in Nat
  <2>1. IsSeq(text, size)
    <3>1. LeadingZeros + len + 1 <= size
      <4>1. LeadingZeros \in Nat /\ len \in Nat
        BY PayloadAssumption DEF IsSeq
      <4> QED BY <4>1 DEF Valid, Overhead
    <3> QED BY <3>1, FinalPayloadElements
  <2>2. Len(text) = size
    BY <2>1, SeqOfElements
  <2> QED BY <2>2, PayloadAssumption DEF Valid
<1> HIDE DEF text, P, H, keys
<1>7. \A i \in 1..n : UnwrapPayload(P[i], PayloadKey(secret, route, i))
                        = [error |-> "none", payload |-> P[i + 1]]
  <2> SUFFICES ASSUME NEW i \in 1..n
               PROVE  UnwrapPayload(P[i], keys[i]) = [error |-> "none", payload |-> P[i + 1]]
    BY <1>5
  <2>1. P[i].text = text /\ Decrypt(keys[i], P[i]) = P[i + 1]
    BY <1>1, <1>3
  <2>2. Len(text) \in Int
    BY <1>6, SeqOfElements, FinalPayloadElements, PayloadAssumption DEF text, IsSeq, Valid, Overhead
  <2>3. ~(Len(P[i].text) < CipherBlock)
    BY <1>6, <2>1, <2>2
  <2> QED BY <2>1, <2>3 DEF UnwrapPayload
<1>8. BuildPacket(seed, secret, message, size, route, destination, delays)
        = [error |-> "none", packet |-> D[1]]
  <2>1. ~Panics(route, delays)
    <3>1. route # <<>>
      BY <1>1, EmptyIsSeq
    <3> QED BY <1>1, <3>1 DEF Panics
  <2>2. Encapsulate(message, made.payload_keys, size) = P[1]
    BY <1>2 DEF Encapsulate, P, text
  <2> HIDE DEF made
  <2>3. BuildPacket(seed, secret, message, size, route, destination, delays)
          = [error |-> "none",
             packet |-> [header |-> made.header, payload |-> Encapsulate(message, made.payload_keys, size)]]
    BY <1>1, <2>1 DEF BuildPacket, made
  <2> QED BY <1>1, <1>2, <1>4, <2>2, <2>3
<1>9. ASSUME NEW i \in 1..(n - 1)
      PROVE  ProcessPacket(route[i], D[i]) =
               [kind |-> "ForwardHop", address |-> Address(route[i + 1]), delay |-> Delay(delays[i]),
                packet |-> D[i + 1]]
  <2> DEFINE outcome == [kind |-> "ForwardHop", address |-> Address(route[i + 1]),
                         delay |-> Delay(delays[i]), header |-> H(i + 1),
                         payload_key |-> PayloadKey(secret, route, i)]
             unwrapped == [error |-> "none", payload |-> P[i + 1]]
  <2>1. i \in 1..n /\ i + 1 \in 1..n
    BY <1>1
  <2>2. D[i].header = H(i) /\ D[i].payload = P[i] /\ D[i + 1] = [header |-> H(i + 1), payload |-> P[i + 1]]
    BY <1>4, <2>1
  <2>3. Process(route[i], D[i].header) = outcome
    BY <1>2, <2>2
  <2>4. UnwrapPayload(D[i].payload, outcome.payload_key) = unwrapped
    BY <1>7, <2>1, <2>2
  <2>5. outcome.kind = "ForwardHop" /\ outcome.address = Address(route[i + 1])
        /\ outcome.delay = Delay(delays[i]) /\ outcome.header = H(i + 1)
        /\ unwrapped.error = "none" /\ unwrapped.payload = P[i + 1]
    OBVIOUS
  <2> HIDE DEF outcome, unwrapped
  <2>6. Processed(outcome, D[i].payload) =
          [kind |-> "ForwardHop", address |-> outcome.address, delay |-> outcome.delay,
           packet |-> [header |-> outcome.header, payload |-> unwrapped.payload]]
    BY <2>4, <2>5 DEF Processed
  <2>7. ProcessPacket(route[i], D[i]) = Processed(outcome, D[i].payload)
    BY <2>3 DEF ProcessPacket
  <2> QED BY <2>2, <2>5, <2>6, <2>7
<1>10. ProcessPacket(route[n], D[n]) =
         [kind |-> "FinalHop", address |-> {destination.address},
          identifier |-> {destination.identifier}, payload |-> P[n + 1]]
  <2> DEFINE outcome == [kind |-> "FinalHop", address |-> {destination.address},
                         identifier |-> {destination.identifier},
                         payload_key |-> PayloadKey(secret, route, n)]
             unwrapped == [error |-> "none", payload |-> P[n + 1]]
  <2>1. D[n].header = H(n) /\ D[n].payload = P[n]
    BY <1>1, <1>4
  <2>2. Process(route[n], D[n].header) = outcome
    BY <1>2, <2>1
  <2>3. UnwrapPayload(D[n].payload, outcome.payload_key) = unwrapped
    BY <1>1, <1>7, <2>1
  <2>4. outcome.kind = "FinalHop" /\ outcome.address = {destination.address}
        /\ outcome.identifier = {destination.identifier}
        /\ unwrapped.error = "none" /\ unwrapped.payload = P[n + 1]
    OBVIOUS
  <2> HIDE DEF outcome, unwrapped
  <2>5. Processed(outcome, D[n].payload) =
          [kind |-> "FinalHop", address |-> outcome.address, identifier |-> outcome.identifier,
           payload |-> unwrapped.payload]
    BY <2>3, <2>4 DEF Processed
  <2>6. ProcessPacket(route[n], D[n]) = Processed(outcome, D[n].payload)
    BY <2>2 DEF ProcessPacket
  <2> QED BY <2>4, <2>5, <2>6
<1>11. RecoverPlaintext(P[n + 1]) = [error |-> "none", plaintext |-> message]
  BY <1>3, MessageRecovered DEF text
<1> QED BY <1>8, <1>9, <1>10, <1>11

-------------------------------------------------------------------------------
(***************************************************************************)
(* What a relay passes on has nothing in common with what it got.  A block *)
(* of routing information is told by the pieces of key streams in it: a    *)
(* block without any of a stream, and one with a single piece.             *)
(***************************************************************************)
Piece(c, i) == {<<"stream", c, i>>}

FreeOf(block, c) == \A x : <<"stream", c, x>> \notin block

MaskedBy(block, c, i) == \A x : <<"stream", c, x>> \in block <=> x = i

MaskedOnlyBy(block, c, i) == MaskedBy(block, c, i) /\ \A d : d = c \/ FreeOf(block, d)

LEMMA PieceMasks ==
  ASSUME NEW c, NEW i
  PROVE  MaskedOnlyBy(Piece(c, i), c, i)
<1>1. \A d, x : <<"stream", d, x>> \in Piece(c, i) <=> (d = c /\ x = i)
  BY DEF Piece
<1> QED BY <1>1 DEF MaskedOnlyBy, MaskedBy, FreeOf

LEMMA PieceAdded ==
  ASSUME NEW block, NEW c, NEW i, NEW b, b = SymDiff(block, Piece(c, i))
  PROVE  /\ FreeOf(block, c) => MaskedBy(b, c, i)
         /\ \A d : d # c => (FreeOf(b, d) <=> FreeOf(block, d))
<1>1. ASSUME NEW d, NEW x
      PROVE  <<"stream", d, x>> \in b <=> ~(<<"stream", d, x>> \in block <=> (d = c /\ x = i))
  <2>1. <<"stream", d, x>> \in Piece(c, i) <=> (d = c /\ x = i)
    BY DEF Piece
  <2> DEFINE e == <<"stream", d, x>>
             s == Piece(c, i)
  <2>2. e \in SymDiff(block, s) <=> ~(e \in block <=> e \in s)
    <3> HIDE DEF e, s
    <3> QED BY DEF SymDiff
  <2> QED BY <2>1, <2>2
<1>2. ASSUME FreeOf(block, c) PROVE MaskedBy(b, c, i)
  <2>1. ASSUME NEW x PROVE <<"stream", c, x>> \in b <=> x = i
    <3>1. <<"stream", c, x>> \notin block
      BY <1>2 DEF FreeOf
    <3>2. <<"stream", c, x>> \in b <=> ~(<<"stream", c, x>> \in block <=> (c = c /\ x = i))
      BY <1>1
    <3> QED BY <3>1, <3>2
  <2> QED BY <2>1 DEF MaskedBy
<1>3. ASSUME NEW d, d # c PROVE FreeOf(b, d) <=> FreeOf(block, d)
  <2>1. ASSUME NEW x PROVE <<"stream", d, x>> \in b <=> <<"stream", d, x>> \in block
    <3>1. <<"stream", d, x>> \in b <=> ~(<<"stream", d, x>> \in block <=> (d = c /\ x = i))
      BY <1>1
    <3> QED BY <1>3, <3>1
  <2> QED BY <2>1 DEF FreeOf
<1> QED BY <1>2, <1>3

LEMMA StaysFree ==
  ASSUME NEW block, NEW c, NEW i, NEW b, b = SymDiff(block, Piece(c, i)),
         NEW d, d # c, FreeOf(block, d)
  PROVE  FreeOf(b, d)
<1>1. \A e : e # c => (FreeOf(b, e) <=> FreeOf(block, e))
  BY PieceAdded
<1> QED BY <1>1

(***************************************************************************)
(* The routing information I[k] of each of n nodes, of l blocks, with key  *)
(* streams c[k]: a relay's stream covers four blocks of its own and the    *)
(* rest of the next node's, of which the last four are pieces of that      *)
(* stream.  The last node's covers what is not filler.                     *)
(***************************************************************************)
Streamed(I, c, n, l) ==
  /\ \A k \in 1..(n - 1) : \A i \in 1..4 : MaskedOnlyBy(I[k][i], c[k], i)
  /\ \A k \in 1..(n - 1) : \A i \in 5..l :
       I[k][i] = SymDiff(I[k + 1][i - 4], Piece(c[k], i))
  /\ \A k \in 1..(n - 1) : \A i \in (l - 3)..l : I[k + 1][i] = Piece(c[k], i + 4)
  /\ \A i \in 1..(l - 4 * (n - 1)) : MaskedOnlyBy(I[n][i], c[n], i)
  /\ \A j, k \in 1..n : c[j] = c[k] => j = k

(***************************************************************************)
(* Outside the filler, a node's routing information has nothing of the     *)
(* streams of the nodes before it; in the filler, nothing of its own and   *)
(* those of the nodes after it.                                            *)
(***************************************************************************)
OutsideFiller(I, c, l, k) ==
  \A h \in 1..(k - 1) : \A i \in 1..(l - 4 * (k - 1)) : FreeOf(I[k][i], c[h])

InFiller(I, c, n, l, k) ==
  \A h \in k..n : \A i \in (l - 4 * (k - 1) + 1)..l : FreeOf(I[k][i], c[h])

LEMMA OutsideStreams ==
  ASSUME NEW n \in Nat \ {0}, NEW l \in Nat, l >= 4 * n, NEW I, NEW c, Streamed(I, c, n, l)
  PROVE  \A k \in 1..n : OutsideFiller(I, c, l, k)
<1> DEFINE S == {k \in 1..n : OutsideFiller(I, c, l, k)}
<1>1. n \in 1..n /\ n \in Nat
  OBVIOUS
<1>2. n \in S
  <2>1. ASSUME NEW h \in 1..(n - 1), NEW i \in 1..(l - 4 * (n - 1)) PROVE FreeOf(I[n][i], c[h])
    <3>1. MaskedOnlyBy(I[n][i], c[n], i)
      BY DEF Streamed
    <3>2. c[h] # c[n]
      <4>1. h \in 1..n /\ h # n
        BY <1>1
      <4> QED BY <1>1, <4>1 DEF Streamed
    <3> QED BY <3>1, <3>2 DEF MaskedOnlyBy
  <2> QED BY <1>1, <2>1 DEF OutsideFiller
<1>3. ASSUME NEW k \in 1..(n - 1), k + 1 \in S PROVE k \in S
  <2>1. k \in 1..n /\ k \in Nat
    OBVIOUS
  <2>2. ASSUME NEW h \in 1..(k - 1), NEW i \in 1..(l - 4 * (k - 1)) PROVE FreeOf(I[k][i], c[h])
    <3>1. c[h] # c[k]
      <4>1. h \in 1..n /\ h # k
        OBVIOUS
      <4> QED BY <2>1, <4>1 DEF Streamed
    <3>2. CASE i \in 1..4
      <4>1. MaskedOnlyBy(I[k][i], c[k], i)
        BY <3>2 DEF Streamed
      <4> QED BY <3>1, <4>1 DEF MaskedOnlyBy
    <3>3. CASE i \in 5..l
      <4>1. I[k][i] = SymDiff(I[k + 1][i - 4], Piece(c[k], i))
        BY <3>3 DEF Streamed
      <4>2. i - 4 \in 1..(l - 4 * ((k + 1) - 1)) /\ h \in 1..((k + 1) - 1)
        BY <3>3
      <4> DEFINE block == I[k + 1][i - 4]
                 b == I[k][i]
                 own == c[k]
                 other == c[h]
      <4>3. FreeOf(block, other)
        BY <1>3, <4>2 DEF OutsideFiller
      <4>4. b = SymDiff(block, Piece(own, i))
        BY <4>1
      <4>5. other # own
        BY <3>1
      <4> HIDE DEF block, b, own, other
      <4>6. FreeOf(b, other)
        BY <4>3, <4>4, <4>5, StaysFree
      <4> QED BY <4>6 DEF b, other
    <3>4. i \in 1..l
      OBVIOUS
    <3> QED BY <3>2, <3>3, <3>4
  <2> QED BY <2>1, <2>2 DEF OutsideFiller
<1> HIDE DEF S
<1>4. \A k \in 1..n : k \in S
  BY <1>1, <1>2, <1>3, DownwardInduction
<1> QED BY <1>4 DEF S

LEMMA FillerStreams ==
  ASSUME NEW n \in Nat \ {0}, NEW l \in Nat, l >= 4 * n, NEW I, NEW c, Streamed(I, c, n, l)
  PROVE  \A k \in 1..n : InFiller(I, c, n, l, k)
<1> DEFINE S == {m \in Nat : m + 1 <= n => InFiller(I, c, n, l, m + 1)}
<1>1. 0 \in S
  BY DEF InFiller
<1>2. ASSUME NEW m \in Nat, m \in S PROVE m + 1 \in S
  <2> SUFFICES ASSUME (m + 1) + 1 <= n PROVE InFiller(I, c, n, l, (m + 1) + 1)
    OBVIOUS
  <2> DEFINE k == m + 1
  <2>1. k \in 1..(n - 1) /\ k \in Nat /\ k \in 1..n
    OBVIOUS
  <2>2. InFiller(I, c, n, l, k)
    BY <1>2, <2>1
  <2> HIDE DEF k
  <2>3. ASSUME NEW h \in (k + 1)..n, NEW i \in (l - 4 * ((k + 1) - 1) + 1)..l
        PROVE  FreeOf(I[k + 1][i], c[h])
    <3>1. c[h] # c[k] /\ h \in k..n
      <4>1. h \in 1..n /\ h # k /\ h \in k..n
        BY <2>1
      <4> QED BY <2>1, <4>1 DEF Streamed
    <3>2. CASE i \in (l - 3)..l
      <4>1. I[k + 1][i] = Piece(c[k], i + 4)
        BY <2>1, <3>2 DEF Streamed
      <4>2. MaskedOnlyBy(Piece(c[k], i + 4), c[k], i + 4)
        BY PieceMasks
      <4> QED BY <3>1, <4>1, <4>2 DEF MaskedOnlyBy
    <3>3. CASE i \notin (l - 3)..l
      <4> DEFINE j == i + 4
      <4>1. j \in 5..l /\ j - 4 = i /\ j \in (l - 4 * (k - 1) + 1)..l
        BY <2>1, <3>3
      <4> HIDE DEF j
      <4>2. I[k][j] = SymDiff(I[k + 1][i], Piece(c[k], j))
        BY <2>1, <4>1 DEF Streamed
      <4>3. FreeOf(I[k][j], c[h])
        BY <2>2, <3>1, <4>1 DEF InFiller
      <4> QED BY <3>1, <4>2, <4>3, PieceAdded
    <3> QED BY <3>2, <3>3
  <2> QED BY <2>3 DEF InFiller, k
<1> HIDE DEF S
<1>3. Nat \subseteq S
  BY <1>1, <1>2, NatSetInduction
<1>4. ASSUME NEW k \in 1..n PROVE InFiller(I, c, n, l, k)
  <2>1. k - 1 \in Nat /\ (k - 1) + 1 = k /\ k <= n
    OBVIOUS
  <2>2. k - 1 \in S
    BY <1>3, <2>1
  <2> QED BY <2>1, <2>2 DEF S
<1> QED BY <1>4

(***************************************************************************)
(* So a relay's own stream tells what it got from what it passes on: in    *)
(* what it got, every block outside the filler has the piece of its own    *)
(* place; in what it passes on, every block of the filler has the piece    *)
(* that was four places further back.                                      *)
(***************************************************************************)
LEMMA OwnStream ==
  ASSUME NEW n \in Nat \ {0}, NEW l \in Nat, l >= 4 * n, NEW I, NEW c, Streamed(I, c, n, l),
         NEW k \in 1..(n - 1)
  PROVE  /\ \A i \in 1..(l - 4 * (k - 1)) : MaskedBy(I[k][i], c[k], i)
         /\ \A i \in (l - 4 * k + 1)..l : MaskedBy(I[k + 1][i], c[k], i + 4)
<1>1. k \in 1..n /\ k + 1 \in 1..n /\ k \in Nat /\ k \in 1..((k + 1) - 1) /\ k \in k..n
  OBVIOUS
<1>2. OutsideFiller(I, c, l, k + 1) /\ InFiller(I, c, n, l, k)
  BY <1>1, OutsideStreams, FillerStreams
<1>3. ASSUME NEW i \in 1..(l - 4 * (k - 1)) PROVE MaskedBy(I[k][i], c[k], i)
  <2>1. CASE i \in 1..4
    BY <2>1 DEF Streamed, MaskedOnlyBy
  <2>2. CASE i \in 5..l
    <3>1. I[k][i] = SymDiff(I[k + 1][i - 4], Piece(c[k], i))
      BY <2>2 DEF Streamed
    <3>2. i - 4 \in 1..(l - 4 * ((k + 1) - 1))
      BY <1>1, <2>2
    <3>3. FreeOf(I[k + 1][i - 4], c[k])
      BY <1>1, <1>2, <3>2 DEF OutsideFiller
    <3> QED BY <3>1, <3>3, PieceAdded
  <2>3. i \in 1..l
    BY <1>1
  <2> QED BY <2>1, <2>2, <2>3
<1>4. ASSUME NEW i \in (l - 4 * k + 1)..l PROVE MaskedBy(I[k + 1][i], c[k], i + 4)
  <2>1. CASE i \in (l - 3)..l
    <3>1. I[k + 1][i] = Piece(c[k], i + 4)
      BY <2>1 DEF Streamed
    <3> QED BY <3>1, PieceMasks DEF MaskedOnlyBy
  <2>2. CASE i \notin (l - 3)..l
    <3> DEFINE j == i + 4
               mask == Piece(c[k], j)
    <3>1. j \in 5..l /\ j - 4 = i /\ j \in (l - 4 * (k - 1) + 1)..l
      BY <1>1, <2>2
    <3>2. I[k][j] = SymDiff(I[k + 1][i], mask)
      BY <3>1 DEF Streamed
    <3>3. FreeOf(I[k][j], c[k])
      BY <1>1, <1>2, <3>1 DEF InFiller
    <3>4. I[k + 1][i] = SymDiff(I[k][j], mask)
      <4> HIDE DEF mask, j
      <4> QED BY <3>2, XorTwice
    <3>5. MaskedBy(I[k + 1][i], c[k], j)
      <4> HIDE DEF j
      <4> QED BY <3>3, <3>4, PieceAdded DEF mask
    <3> QED BY <3>5
  <2> QED BY <2>1, <2>2
<1> QED BY <1>3, <1>4

(***************************************************************************)
(* No block that a relay got is, in any place, in what it passes on, and   *)
(* every block has a piece of some stream.  A block of the filler that it  *)
(* got is told by the stream of the node before.                           *)
(***************************************************************************)
LEMMA BlocksApart ==
  ASSUME NEW n \in Nat \ {0}, NEW l \in Nat, l >= 4 * n, NEW I, NEW c, Streamed(I, c, n, l),
         NEW k \in 1..(n - 1), NEW i \in 1..l, NEW j \in 1..l
  PROVE  I[k][i] # I[k + 1][j]
<1>1. k \in Nat /\ k \in 1..n /\ k + 1 \in 1..n /\ n \in Nat
  OBVIOUS
<1>2. /\ \A x \in 1..(l - 4 * (k - 1)) : MaskedBy(I[k][x], c[k], x)
      /\ \A x \in (l - 4 * k + 1)..l : MaskedBy(I[k + 1][x], c[k], x + 4)
  BY OwnStream
<1>3. OutsideFiller(I, c, l, k + 1) /\ InFiller(I, c, n, l, k)
  BY <1>1, OutsideStreams, FillerStreams
<1>4. ASSUME i <= l - 4 * (k - 1), j <= l - 4 * k PROVE I[k][i] # I[k + 1][j]
  <2>1. <<"stream", c[k], i>> \in I[k][i]
    BY <1>2, <1>4 DEF MaskedBy
  <2>2. k \in 1..((k + 1) - 1) /\ j \in 1..(l - 4 * ((k + 1) - 1))
    BY <1>1, <1>4
  <2>3. FreeOf(I[k + 1][j], c[k])
    BY <1>3, <2>2 DEF OutsideFiller
  <2> QED BY <2>1, <2>3 DEF FreeOf
<1>5. ASSUME i <= l - 4 * (k - 1), j > l - 4 * k PROVE I[k][i] # I[k + 1][j]
  <2>1. <<"stream", c[k], j + 4>> \in I[k + 1][j]
    BY <1>1, <1>2, <1>5 DEF MaskedBy
  <2>2. <<"stream", c[k], j + 4>> \in I[k][i] <=> j + 4 = i
    BY <1>2, <1>5 DEF MaskedBy
  <2>3. j + 4 # i
    BY <1>1, <1>5
  <2> QED BY <2>1, <2>2, <2>3
<1>6. ASSUME i > l - 4 * (k - 1), j > l - 4 * k PROVE I[k][i] # I[k + 1][j]
  <2>1. <<"stream", c[k], j + 4>> \in I[k + 1][j]
    BY <1>1, <1>2, <1>6 DEF MaskedBy
  <2>2. k \in k..n /\ i \in (l - 4 * (k - 1) + 1)..l
    BY <1>1, <1>6
  <2>3. FreeOf(I[k][i], c[k])
    BY <1>3, <2>2 DEF InFiller
  <2> QED BY <2>1, <2>3 DEF FreeOf
<1>7. ASSUME i > l - 4 * (k - 1), j <= l - 4 * k PROVE I[k][i] # I[k + 1][j]
  <2> DEFINE h == k - 1
  <2>1. h \in 1..(n - 1) /\ h + 1 = k /\ i \in (l - 4 * h + 1)..l
    BY <1>1, <1>7
  <2>2. h \in 1..((k + 1) - 1) /\ j \in 1..(l - 4 * ((k + 1) - 1))
    BY <1>1, <1>7, <2>1
  <2> HIDE DEF h
  <2>3. MaskedBy(I[h + 1][i], c[h], i + 4)
    BY <2>1, OwnStream
  <2>4. <<"stream", c[h], i + 4>> \in I[k][i]
    BY <2>1, <2>3 DEF MaskedBy
  <2>5. FreeOf(I[k + 1][j], c[h])
    BY <1>3, <2>2 DEF OutsideFiller
  <2> QED BY <2>4, <2>5 DEF FreeOf
<1> QED BY <1>1, <1>4, <1>5, <1>6, <1>7

HasPiece(block) == \E d, x : <<"stream", d, x>> \in block

LEMMA EveryBlockMasked ==
  ASSUME NEW n \in Nat \ {0}, NEW l \in Nat, l >= 4 * n, NEW I, NEW c, Streamed(I, c, n, l),
         NEW k \in 1..n, NEW i \in 1..l
  PROVE  HasPiece(I[k][i])
<1>1. k \in Nat /\ n \in Nat
  OBVIOUS
<1>2. CASE i > l - 4 * (k - 1)
  <2> DEFINE h == k - 1
  <2>1. h \in 1..(n - 1) /\ h + 1 = k /\ i \in (l - 4 * h + 1)..l
    BY <1>1, <1>2
  <2> HIDE DEF h
  <2>2. MaskedBy(I[h + 1][i], c[h], i + 4)
    BY <2>1, OwnStream
  <2>3. <<"stream", c[h], i + 4>> \in I[k][i]
    BY <2>1, <2>2 DEF MaskedBy
  <2> QED BY <2>3 DEF HasPiece
<1>3. CASE i <= l - 4 * (k - 1) /\ k # n
  <2>1. k \in 1..(n - 1) /\ i \in 1..(l - 4 * (k - 1))
    BY <1>1, <1>3
  <2>2. MaskedBy(I[k][i], c[k], i)
    BY <2>1, OwnStream
  <2>3. <<"stream", c[k], i>> \in I[k][i]
    BY <2>2 DEF MaskedBy
  <2> QED BY <2>3 DEF HasPiece
<1>4. CASE i <= l - 4 * (k - 1) /\ k = n
  <2>1. MaskedBy(I[k][i], c[k], i)
    BY <1>1, <1>4 DEF Streamed, MaskedOnlyBy
  <2>2. <<"stream", c[k], i>> \in I[k][i]
    BY <2>1 DEF MaskedBy
  <2> QED BY <2>2 DEF HasPiece
<1> QED BY <1>1, <1>2, <1>3, <1>4

(***************************************************************************)
(* The secrets on the way: each is the one before with a blinding factor   *)
(* made of the key that the node before shared with the sender, and is     *)
(* part of the key of its own node.                                        *)
(***************************************************************************)
SharedKeys(route, secret) ==
  [i \in 1..Len(route) |->
     DiffieHellman(Accumulators(route, Secret(secret))[i], PublicKey(NodeKey(route[i])))]

Chained(A, K, n, secret) ==
  /\ A[1] = {<<"secret", secret>>}
  /\ \A i \in 1..(n - 1) : A[i + 1] = A[i] \cup {<<"blinding", K[i]>>}
  /\ \A i \in 1..n : A[i] \subseteq K[i]
  /\ \A i \in 1..n : \A x : <<"blinding", x>> \in K[i] => <<"blinding", x>> \in A[i]

LEMMA SecretsChained ==
  ASSUME NEW route, NEW secret, NEW n \in Nat \ {0}, Len(route) = n
  PROVE  /\ Chained(Accumulators(route, Secret(secret)), SharedKeys(route, secret), n, secret)
         /\ \A i \in 1..n : KeyMaterial(route, Secret(secret))[i] = Derive(SharedKeys(route, secret)[i])
<1> DEFINE A == Accumulators(route, Secret(secret))
           K == SharedKeys(route, secret)
<1>1. /\ A[1] = Secret(secret)
      /\ \A i \in 1..(n - 1) : A[i + 1] = Accumulated(A[i], KeysOf(A[i], route[i]))
  BY AccumulatorsDefined
<1>2. \A i \in 1..n : K[i] = DiffieHellman(A[i], PublicKey(NodeKey(route[i])))
  BY DEF SharedKeys
<1>3. \A i \in 1..n : KeyMaterial(route, Secret(secret))[i] = KeysOf(A[i], route[i])
  BY DEF KeyMaterial
<1> HIDE DEF A, K
<1>4. \A i \in 1..n : KeysOf(A[i], route[i]) = Derive(K[i])
  BY <1>2 DEF KeysOf
<1>5. \A i \in 1..n : K[i] = {<<"key", route[i]>>} \cup A[i]
  <2>1. \A a, m : DiffieHellman(a, PublicKey(NodeKey(m))) = {<<"key", m>>} \cup a
    BY DEF DiffieHellman, PublicKey, NodeKey, Generator
  <2> QED BY <1>2, <2>1
<1>6. \A i \in 1..(n - 1) : A[i + 1] = A[i] \cup {<<"blinding", K[i]>>}
  <2>1. \A a, k : Accumulated(a, Derive(k)) = a \cup {<<"blinding", k>>}
    BY DEF Accumulated, Derive
  <2>2. \A i \in 1..(n - 1) : i \in 1..n
    OBVIOUS
  <2> QED BY <1>1, <1>4, <2>1, <2>2
<1>7. \A x, m : <<"blinding", x>> # <<"key", m>>
  OBVIOUS
<1>8. \A i \in 1..n : \A x : <<"blinding", x>> \in K[i] => <<"blinding", x>> \in A[i]
  BY <1>5, <1>7
<1>9. A[1] = {<<"secret", secret>>}
  BY <1>1 DEF Secret
<1>10. Chained(A, K, n, secret)
  BY <1>5, <1>6, <1>8, <1>9 DEF Chained
<1> QED BY <1>3, <1>4, <1>10 DEF A, K

(***************************************************************************)
(* A secret holds the initial one and the blinding factors of the nodes    *)
(* before, and nothing else.                                               *)
(***************************************************************************)
HoldsBlinders(A, K, secret, i) ==
  /\ <<"secret", secret>> \in A[i]
  /\ \A x : <<"blinding", x>> \in A[i] <=> \E j \in 1..(i - 1) : x = K[j]
  /\ \A e \in A[i] : e = <<"secret", secret>> \/ \E x : e = <<"blinding", x>>

LEMMA Blinders ==
  ASSUME NEW A, NEW K, NEW n \in Nat \ {0}, NEW secret, Chained(A, K, n, secret)
  PROVE  \A i \in 1..n : HoldsBlinders(A, K, secret, i)
<1> DEFINE S == {m \in Nat : m + 1 <= n => HoldsBlinders(A, K, secret, m + 1)}
<1>1. 0 \in S
  <2>1. \A x : <<"blinding", x>> # <<"secret", secret>>
    OBVIOUS
  <2>2. \A j \in 1..(1 - 1) : FALSE
    OBVIOUS
  <2>3. A[1] = {<<"secret", secret>>}
    BY DEF Chained
  <2>4. HoldsBlinders(A, K, secret, 1)
    BY <2>1, <2>2, <2>3 DEF HoldsBlinders
  <2> QED BY <2>4
<1>2. ASSUME NEW m \in Nat, m \in S PROVE m + 1 \in S
  <2> SUFFICES ASSUME (m + 1) + 1 <= n PROVE HoldsBlinders(A, K, secret, (m + 1) + 1)
    OBVIOUS
  <2> DEFINE i == m + 1
  <2>1. i \in 1..(n - 1) /\ i \in Nat
    OBVIOUS
  <2>2. HoldsBlinders(A, K, secret, i)
    BY <1>2, <2>1
  <2> HIDE DEF i
  <2>3. A[i + 1] = A[i] \cup {<<"blinding", K[i]>>}
    BY <2>1 DEF Chained
  <2>4. \A x : <<"blinding", x>> = <<"blinding", K[i]>> <=> x = K[i]
    OBVIOUS
  <2>5. \A j : j \in 1..((i + 1) - 1) <=> j \in 1..(i - 1) \/ j = i
    BY <2>1
  <2>6. \A x : <<"blinding", x>> \in A[i + 1] <=> \E j \in 1..((i + 1) - 1) : x = K[j]
    BY <2>2, <2>3, <2>4, <2>5 DEF HoldsBlinders
  <2>7. HoldsBlinders(A, K, secret, i + 1)
    BY <2>2, <2>3, <2>6 DEF HoldsBlinders
  <2> QED BY <2>7 DEF i
<1> HIDE DEF S
<1>3. Nat \subseteq S
  BY <1>1, <1>2, NatSetInduction
<1>4. ASSUME NEW i \in 1..n PROVE HoldsBlinders(A, K, secret, i)
  <2>1. i - 1 \in Nat /\ (i - 1) + 1 = i /\ i <= n
    OBVIOUS
  <2>2. i - 1 \in S
    BY <1>3, <2>1
  <2> QED BY <2>1, <2>2 DEF S
<1> QED BY <1>4

(***************************************************************************)
(* A node's secret lacks the blinding factor that the node adds, so that   *)
(* no two nodes of a route, be they the same node, share the same key.     *)
(***************************************************************************)
BlindersNew(A, K, n) == \A i \in 1..n : <<"blinding", K[i]>> \notin A[i]

AllApart(K, n) == \A i, j \in 1..n : K[i] = K[j] => i = j

LEMMA KeysApart ==
  ASSUME NEW A, NEW K, NEW n \in Nat \ {0}, NEW secret, Chained(A, K, n, secret)
  PROVE  BlindersNew(A, K, n) /\ AllApart(K, n)
<1> DEFINE Lacks(i) == <<"blinding", K[i]>> \notin A[i]
           S == {m \in Nat : \A i \in 1..n : i <= m => Lacks(i)}
<1>1. \A i \in 1..n : HoldsBlinders(A, K, secret, i)
  BY Blinders
<1>2. ASSUME NEW i \in 1..n, NEW j \in 1..n, j < i, K[i] = K[j], Lacks(j)
      PROVE  FALSE
  <2>1. j \in 1..(i - 1)
    BY <1>2
  <2>2. <<"blinding", K[j]>> \in A[i]
    BY <1>1, <2>1 DEF HoldsBlinders
  <2>3. <<"blinding", K[j]>> \in K[j]
    BY <1>2, <2>2 DEF Chained
  <2>4. <<"blinding", K[j]>> \in A[j]
    BY <2>3 DEF Chained
  <2> QED BY <1>2, <2>4
<1>3. 0 \in S
  OBVIOUS
<1>4. ASSUME NEW m \in Nat, m \in S PROVE m + 1 \in S
  <2>1. ASSUME NEW i \in 1..n, i <= m + 1 PROVE Lacks(i)
    <3>1. SUFFICES ASSUME <<"blinding", K[i]>> \in A[i] PROVE FALSE
      OBVIOUS
    <3>2. PICK j \in 1..(i - 1) : K[i] = K[j]
      BY <1>1, <3>1 DEF HoldsBlinders
    <3>3. j \in 1..n /\ j <= m /\ j < i
      BY <2>1
    <3>4. Lacks(j)
      BY <1>4, <3>3
    <3> QED BY <1>2, <3>2, <3>3, <3>4
  <2> QED BY <2>1
<1>5. Nat \subseteq S
  <2> HIDE DEF S
  <2> QED BY <1>3, <1>4, NatSetInduction
<1>6. ASSUME NEW i \in 1..n PROVE Lacks(i)
  <2>1. i \in S
    BY <1>5
  <2>2. i <= i
    OBVIOUS
  <2> QED BY <2>1, <2>2
<1>7. ASSUME NEW i \in 1..n, NEW j \in 1..n, K[i] = K[j] PROVE i = j
  <2>1. CASE j < i
    BY <1>2, <1>6, <1>7, <2>1
  <2>2. CASE i < j
    BY <1>2, <1>6, <1>7, <2>2
  <2> QED BY <2>1, <2>2
<1> QED BY <1>6, <1>7 DEF BlindersNew, AllApart

(***************************************************************************)
(* Nothing of what the last node is told, nor what a relay is told beyond  *)
(* the next routing information, is a piece of a key stream.               *)
(***************************************************************************)
Plain(destination) ==
  \A c, x : <<"stream", c, x>> # destination.address /\ <<"stream", c, x>> # destination.identifier

LEMMA PlainBlocks ==
  /\ \A f, c : FreeOf(Flag(f), c)
  /\ \A a, c : FreeOf(Address(a), c)
  /\ \A d, c : FreeOf(Delay(d), c)
  /\ \A k, s, c : FreeOf(Mac(k, s), c)
  /\ \A s, j, c : FreeOf({<<"padding", s, j>>}, c)
<1>1. \A c, x, f : <<"stream", c, x>> # <<"flag", f>> /\ <<"stream", c, x>> # <<"address", f>>
                   /\ <<"stream", c, x>> # <<"delay", f>>
  OBVIOUS
<1>2. \A c, x, k, s : <<"stream", c, x>> # <<"mac", k, s>> /\ <<"stream", c, x>> # <<"padding", k, s>>
  OBVIOUS
<1> QED BY <1>1, <1>2 DEF FreeOf, Flag, Address, Delay, Mac

LEMMA PlainMasked ==
  ASSUME NEW block, \A d : FreeOf(block, d), NEW c, NEW i
  PROVE  MaskedOnlyBy(SymDiff(block, Piece(c, i)), c, i)
<1> DEFINE b == SymDiff(block, Piece(c, i))
<1>1. b = SymDiff(block, Piece(c, i))
  OBVIOUS
<1> HIDE DEF b
<1>2. /\ FreeOf(block, c) => MaskedBy(b, c, i)
      /\ \A d : d # c => (FreeOf(b, d) <=> FreeOf(block, d))
  BY <1>1, PieceAdded
<1>3. MaskedOnlyBy(b, c, i)
  BY <1>2 DEF MaskedOnlyBy
<1> QED BY <1>3 DEF b

LEMMA ToldIsPlain ==
  ASSUME NEW seed, NEW destination, Plain(destination), NEW n \in 1..MaxRoute,
         NEW j \in 1..(InfoLength - 4 * (n - 1)), NEW c
  PROVE  FreeOf(Told(seed, destination, n)[j], c)
<1> DEFINE three == 3
           q == InfoLength - 4 * (n - 1) - three
           R == FinalRoutingInformation(destination)
           Q == Padding(seed, n)
           Y == R \o Q
<1>1. MaxRoute \in Nat /\ n \in Nat /\ q \in Nat /\ three = 3 /\ three + q = InfoLength - 4 * (n - 1)
  BY Lengths
<1>2. IsSeq(R, three) /\ R[1] = Flag("final") /\ R[2] = {destination.address} /\ R[3] = {destination.identifier}
  BY DEF FinalRoutingInformation, IsSeq
<1>3. IsSeq(Q, q) /\ \A i \in 1..q : Q[i] = {<<"padding", seed, i>>}
  BY <1>1, Lengths DEF Padding, IsSeq
<1>4. Told(seed, destination, n) = Y
  BY DEF Told
<1> HIDE DEF three, q, R, Q
<1>5. IsConcat(Y, R, three, Q, q)
  BY <1>2, <1>3, ConcatElements
<1> HIDE DEF Y
<1>6. CASE j \in 1..3
  <2>1. Y[j] = R[j]
    BY <1>1, <1>5, <1>6 DEF IsConcat
  <2>2. FreeOf(R[1], c) /\ FreeOf(R[2], c) /\ FreeOf(R[3], c)
    BY <1>2, PlainBlocks DEF Plain, FreeOf
  <2>3. j = 1 \/ j = 2 \/ j = 3
    BY <1>6
  <2> QED BY <1>4, <2>1, <2>2, <2>3
<1>7. CASE j \notin 1..3
  <2> DEFINE m == j - three
  <2>1. j \in (three + 1)..(three + q) /\ m \in 1..q
    BY <1>1, <1>7
  <2>2. Y[j] = Q[m]
    BY <1>5, <2>1 DEF IsConcat
  <2> HIDE DEF m
  <2>3. Q[m] = {<<"padding", seed, m>>}
    BY <1>3, <2>1
  <2>4. FreeOf({<<"padding", seed, m>>}, c)
    BY PlainBlocks
  <2> QED BY <1>4, <2>2, <2>3, <2>4
<1> QED BY <1>6, <1>7

(***************************************************************************)
(* What routing information reads as says which blocks it consists of.     *)
(***************************************************************************)
LEMMA ForwardRead ==
  ASSUME NEW raw, NEW a, NEW d, NEW next,
         Parse(raw) = [kind |-> "ForwardHop", address |-> a, delay |-> d, next |-> next]
  PROVE  /\ raw[1] = Flag("forward") /\ raw[2] = a /\ raw[3] = d
         /\ next = [integrity_mac |-> raw[4],
                    info |-> SubSeq(raw, StepBlocks + 1, StepBlocks + InfoLength)]
<1>1. Parse(raw).kind = "ForwardHop"
  OBVIOUS
<1>2. raw[1] = Flag("forward")
  <2>1. Flag("final") # Flag("forward")
    BY FlagsDiffer
  <2>2. CASE raw[1] = Flag("final")
    <3>1. Parse(raw) = ParseAsFinalHop(raw)
      BY <2>1, <2>2 DEF Parse
    <3>2. Parse(raw).kind = "FinalHop"
      BY <3>1 DEF ParseAsFinalHop
    <3> QED BY <1>1, <3>2
  <2>3. CASE raw[1] # Flag("final") /\ raw[1] # Flag("forward")
    <3>1. Parse(raw) = [kind |-> "unknown routing flag"]
      BY <2>3 DEF Parse
    <3>2. [kind |-> "unknown routing flag"].kind = "unknown routing flag"
      OBVIOUS
    <3> QED BY <1>1, <3>1, <3>2
  <2> QED BY <2>2, <2>3
<1>3. Parse(raw) = ParseAsForwardHop(raw)
  <2>1. Flag("final") # Flag("forward")
    BY FlagsDiffer
  <2> QED BY <1>2, <2>1 DEF Parse
<1>4. Parse(raw) = [kind |-> "ForwardHop", address |-> raw[2], delay |-> raw[3],
                    next |-> [integrity_mac |-> raw[4],
                              info |-> SubSeq(raw, StepBlocks + 1, StepBlocks + InfoLength)]]
  BY <1>3 DEF ParseAsForwardHop
<1>5. Parse(raw).address = a /\ Parse(raw).delay = d /\ Parse(raw).next = next
  OBVIOUS
<1> HIDE DEF Parse
<1>6. /\ Parse(raw).address = raw[2] /\ Parse(raw).delay = raw[3]
      /\ Parse(raw).next = [integrity_mac |-> raw[4],
                            info |-> SubSeq(raw, StepBlocks + 1, StepBlocks + InfoLength)]
  BY <1>4
<1> QED BY <1>2, <1>5, <1>6

Pieces(P, c) == \A j \in 1..(InfoLength + 4) : P[j] = Piece(c, j)

LEMMA StreamPieces ==
  ASSUME NEW k
  PROVE  Pieces(Pseudorandom(Derive(k)), <<"cipher key", k>>)
<1>1. StreamLength = InfoLength + 4
  BY Lengths
<1>2. Derive(k).stream_cipher_key = <<"cipher key", k>>
  BY DEF Derive
<1> QED BY <1>1, <1>2 DEF Pieces, Piece, Pseudorandom, KeyStream

RelayStreamed(info, next, c) ==
  /\ \A i \in 1..4 : MaskedOnlyBy(info[i], c, i)
  /\ \A i \in 5..InfoLength : info[i] = SymDiff(next.info[i - 4], Piece(c, i))
  /\ \A i \in (InfoLength - 3)..InfoLength : next.info[i] = Piece(c, i + 4)

LEMMA RelayIsStreamed ==
  ASSUME NEW info, IsSeq(info, InfoLength), NEW keys, NEW c, Pieces(Pseudorandom(keys), c),
         NEW address, NEW delay, NEW next,
         Unwrap(info, keys) = [kind |-> "ForwardHop", address |-> Address(address),
                               delay |-> Delay(delay), next |-> next],
         NEW k, Verifies(next, k)
  PROVE  RelayStreamed(info, next, c)
<1> DEFINE raw == Raw(info, keys)
           P == Pseudorandom(keys)
           l == InfoLength
           rest == SubSeq(raw, 5, l + 4)
<1>1. l \in Nat /\ l >= 4 /\ l = InfoLength /\ StepBlocks + 1 = 5 /\ StepBlocks + InfoLength = l + 4
  BY Lengths
<1>2. /\ raw[1] = Flag("forward") /\ raw[2] = Address(address) /\ raw[3] = Delay(delay)
      /\ next = [integrity_mac |-> raw[4],
                 info |-> SubSeq(raw, StepBlocks + 1, StepBlocks + InfoLength)]
  <2>1. Parse(raw) = [kind |-> "ForwardHop", address |-> Address(address),
                      delay |-> Delay(delay), next |-> next]
    BY DEF Unwrap
  <2> HIDE DEF raw
  <2> QED BY <2>1, ForwardRead
<1>3. next.info = rest /\ next.integrity_mac = raw[4]
  BY <1>1, <1>2
<1>4. /\ IsSeq(raw, l + 4)
      /\ \A j \in 1..l : raw[j] = SymDiff(info[j], P[j])
      /\ \A j \in (l + 1)..(l + 4) : raw[j] = P[j]
  BY RawElements
<1>5. \A j \in 1..(l + 4) : P[j] = Piece(c, j)
  BY DEF Pieces
<1> HIDE DEF raw, P, l
<1>6. \A j \in 1..l : rest[j] = raw[j + 4]
  <2> DEFINE b == l + 4
             a == 5
  <2>1. IsSeq(raw, b) /\ a \in Nat \ {0} /\ b \in 0..b /\ a <= b + 1
    BY <1>1, <1>4
  <2>2. b - a + 1 = l /\ \A j \in 1..l : a + j - 1 = j + 4
    BY <1>1
  <2>3. rest = SubSeq(raw, a, b)
    OBVIOUS
  <2> HIDE DEF a, b, rest
  <2>4. IsPart(SubSeq(raw, a, b), raw, a, b)
    BY <2>1, PartElements
  <2> QED BY <2>2, <2>3, <2>4 DEF IsPart
<1> HIDE DEF rest
<1>7. \A j \in 1..l : info[j] = SymDiff(raw[j], Piece(c, j))
  <2> SUFFICES ASSUME NEW j \in 1..l PROVE info[j] = SymDiff(raw[j], Piece(c, j))
    OBVIOUS
  <2>1. j \in 1..(l + 4)
    BY <1>1
  <2> DEFINE mask == Piece(c, j)
  <2>2. raw[j] = SymDiff(info[j], mask)
    BY <1>4, <1>5, <2>1
  <2> HIDE DEF mask
  <2>3. info[j] = SymDiff(raw[j], mask)
    BY <2>2, XorTwice
  <2> QED BY <2>3 DEF mask
<1>8. \A d : FreeOf(raw[1], d) /\ FreeOf(raw[2], d) /\ FreeOf(raw[3], d) /\ FreeOf(raw[4], d)
  <2>1. raw[4] = Mac(k.header_integrity_hmac_key, next.info)
    BY <1>3 DEF Verifies, ComputeMac
  <2> QED BY <1>2, <2>1, PlainBlocks
<1>9. ASSUME NEW i \in 1..4 PROVE MaskedOnlyBy(info[i], c, i)
  <2>1. i \in 1..l /\ (i = 1 \/ i = 2 \/ i = 3 \/ i = 4)
    BY <1>1
  <2>2. \A d : FreeOf(raw[i], d)
    BY <1>8, <2>1
  <2>3. MaskedOnlyBy(SymDiff(raw[i], Piece(c, i)), c, i)
    BY <2>2, PlainMasked
  <2> QED BY <1>7, <2>1, <2>3
<1>10. ASSUME NEW i \in 5..l PROVE info[i] = SymDiff(next.info[i - 4], Piece(c, i))
  <2>1. i \in 1..l /\ i - 4 \in 1..l /\ (i - 4) + 4 = i
    BY <1>1
  <2>2. next.info[i - 4] = raw[i]
    BY <1>3, <1>6, <2>1
  <2> QED BY <1>7, <2>1, <2>2
<1>11. ASSUME NEW i \in (l - 3)..l PROVE next.info[i] = Piece(c, i + 4)
  <2>1. i \in 1..l /\ i + 4 \in (l + 1)..(l + 4) /\ i + 4 \in 1..(l + 4)
    BY <1>1
  <2> QED BY <1>3, <1>4, <1>5, <1>6, <2>1
<1> QED BY <1>1, <1>9, <1>10, <1>11 DEF RelayStreamed

(***************************************************************************)
(* The routing information along a route is of that kind.                  *)
(***************************************************************************)
Infos(seed, secret, route, delays, destination) ==
  [i \in 1..Len(route) |-> MeantHeader(seed, secret, route, delays, destination, i).routing_info.info]

StreamKeys(route, secret) == [i \in 1..Len(route) |-> <<"cipher key", SharedKeys(route, secret)[i]>>]

LEMMA RouteIsStreamed ==
  ASSUME NEW seed, NEW secret, NEW route, NEW delays, NEW destination, Plain(destination),
         NEW n \in 1..MaxRoute, Len(route) = n
  PROVE  Streamed(Infos(seed, secret, route, delays, destination), StreamKeys(route, secret), n, InfoLength)
<1> DEFINE A == Accumulators(route, Secret(secret))
           K == SharedKeys(route, secret)
           keys == KeyMaterial(route, Secret(secret))
           E == MeantRouting(seed, route, destination, delays, keys)
           I == Infos(seed, secret, route, delays, destination)
           c == StreamKeys(route, secret)
           l == InfoLength
<1>1. n \in Nat \ {0} /\ n \in Nat /\ n \in 1..n
  BY Lengths
<1>2. Chained(A, K, n, secret) /\ \A i \in 1..n : keys[i] = Derive(K[i])
  BY <1>1, SecretsChained
<1>3. UnwrapsAlong(E, n, route, destination, delays, keys) /\ TellsLast(E[n], seed, destination, keys[n], n)
  <2>1. IsSeq(keys, n)
    BY <1>1 DEF KeyMaterial, IsSeq
  <2> HIDE DEF keys
  <2> QED BY <2>1, RouteUnwraps
<1>4. /\ \A i \in 1..n : I[i] = E[i].info
      /\ \A i \in 1..n : c[i] = <<"cipher key", K[i]>>
  <2>1. \A i \in 1..n : I[i] = MeantHeader(seed, secret, route, delays, destination, i).routing_info.info
    BY DEF Infos
  <2>2. \A i \in 1..n : MeantHeader(seed, secret, route, delays, destination, i).routing_info = E[i]
    BY DEF MeantHeader
  <2> QED BY <2>1, <2>2 DEF StreamKeys
<1>5. l = InfoLength
  OBVIOUS
<1> HIDE DEF A, K, keys, E, I, c, l
<1>6. \A i \in 1..n : Pieces(Pseudorandom(keys[i]), c[i])
  <2> SUFFICES ASSUME NEW i \in 1..n PROVE Pieces(Pseudorandom(keys[i]), c[i])
    OBVIOUS
  <2>1. keys[i] = Derive(K[i]) /\ c[i] = <<"cipher key", K[i]>>
    BY <1>2, <1>4
  <2> DEFINE k == K[i]
  <2>2. Pieces(Pseudorandom(Derive(k)), <<"cipher key", k>>)
    BY StreamPieces
  <2> QED BY <2>1, <2>2
<1>7. ASSUME NEW k \in 1..(n - 1) PROVE RelayStreamed(E[k].info, E[k + 1], c[k])
  <2>1. k \in 1..n /\ k + 1 \in 1..n
    BY <1>1
  <2>2. /\ IsSeq(E[k].info, InfoLength) /\ Verifies(E[k + 1], keys[k + 1])
        /\ Unwrap(E[k].info, keys[k]) =
             [kind |-> "ForwardHop", address |-> Address(route[k + 1]), delay |-> Delay(delays[k]),
              next |-> E[k + 1]]
    BY <1>3, <2>1 DEF UnwrapsAlong
  <2>3. Pieces(Pseudorandom(keys[k]), c[k])
    BY <1>6, <2>1
  <2> DEFINE info == E[k].info
             own == keys[k]
             stream == c[k]
             next == E[k + 1]
             after == keys[k + 1]
             address == route[k + 1]
             delay == delays[k]
  <2>4. /\ IsSeq(info, InfoLength) /\ Verifies(next, after) /\ Pieces(Pseudorandom(own), stream)
        /\ Unwrap(info, own) = [kind |-> "ForwardHop", address |-> Address(address),
                                delay |-> Delay(delay), next |-> next]
    BY <2>2, <2>3
  <2> HIDE DEF info, own, stream, next, after, address, delay
  <2>5. RelayStreamed(info, next, stream)
    BY <2>4, RelayIsStreamed
  <2> QED BY <2>5 DEF info, next, stream
<1>8. ASSUME NEW k \in 1..(n - 1)
      PROVE  /\ \A i \in 1..4 : MaskedOnlyBy(I[k][i], c[k], i)
             /\ \A i \in 5..l : I[k][i] = SymDiff(I[k + 1][i - 4], Piece(c[k], i))
             /\ \A i \in (l - 3)..l : I[k + 1][i] = Piece(c[k], i + 4)
  <2>1. k \in 1..n /\ k + 1 \in 1..n
    BY <1>1
  <2>2. I[k] = E[k].info /\ I[k + 1] = E[k + 1].info
    BY <1>4, <2>1
  <2>3. RelayStreamed(E[k].info, E[k + 1], c[k])
    BY <1>7
  <2> QED BY <1>5, <2>2, <2>3 DEF RelayStreamed
<1>9. ASSUME NEW i \in 1..(l - 4 * (n - 1)) PROVE MaskedOnlyBy(I[n][i], c[n], i)
  <2> DEFINE told == Told(seed, destination, n)[i]
             stream == c[n]
  <2>1. E[n].info[i] = SymDiff(told, Pseudorandom(keys[n])[i])
    BY <1>3, <1>5 DEF TellsLast
  <2>2. i \in 1..(InfoLength + 4)
    BY <1>1, <1>5, Lengths
  <2>3. Pseudorandom(keys[n])[i] = Piece(stream, i)
    BY <1>1, <1>6, <2>2 DEF Pieces
  <2>4. \A d : FreeOf(told, d)
    BY <1>5, ToldIsPlain
  <2>5. I[n][i] = SymDiff(told, Piece(stream, i))
    BY <1>1, <1>4, <2>1, <2>3
  <2> HIDE DEF told, stream
  <2>6. MaskedOnlyBy(SymDiff(told, Piece(stream, i)), stream, i)
    BY <2>4, PlainMasked
  <2> QED BY <2>5, <2>6 DEF stream
<1>10. ASSUME NEW j \in 1..n, NEW k \in 1..n, c[j] = c[k] PROVE j = k
  <2>1. <<"cipher key", K[j]>> = <<"cipher key", K[k]>>
    BY <1>4, <1>10
  <2>2. K[j] = K[k]
    BY <2>1
  <2>3. AllApart(K, n)
    BY <1>1, <1>2, KeysApart
  <2> QED BY <2>2, <2>3 DEF AllApart
<1>11. Streamed(I, c, n, l)
  BY <1>8, <1>9, <1>10 DEF Streamed
<1> QED BY <1>11 DEF I, c, l

(***************************************************************************)
(* What a header consists of: the secret, the MAC and the blocks of the    *)
(* routing information.                                                    *)
(***************************************************************************)
InHeader(header, block) ==
  \/ block = header.shared_secret
  \/ block = header.routing_info.integrity_mac
  \/ \E i \in 1..InfoLength : block = header.routing_info.info[i]

(***************************************************************************)
(* A secret, a MAC and a block of routing information are always told      *)
(* apart, and so are two MACs with different keys.                         *)
(***************************************************************************)
HoldsSecret(block, secret) ==
  <<"secret", secret>> \in block /\ \A e \in block : e = <<"secret", secret>> \/ \E x : e = <<"blinding", x>>

LEMMA KindsApart ==
  ASSUME NEW secret, NEW key, NEW s, NEW a, HoldsSecret(a, secret), NEW b, HasPiece(b)
  PROVE  a # Mac(key, s) /\ b # Mac(key, s) /\ a # b
<1>1. <<"secret", secret>> # <<"mac", key, s>>
  OBVIOUS
<1>2. \A d, x : <<"stream", d, x>> # <<"mac", key, s>> /\ <<"stream", d, x>> # <<"secret", secret>>
  OBVIOUS
<1>3. \A d, x, y : <<"stream", d, x>> # <<"blinding", y>>
  OBVIOUS
<1>4. a # Mac(key, s)
  BY <1>1 DEF HoldsSecret, Mac
<1>5. PICK d, x : <<"stream", d, x>> \in b
  BY DEF HasPiece
<1>6. b # Mac(key, s)
  BY <1>2, <1>5 DEF Mac
<1>7. <<"stream", d, x>> \notin a
  BY <1>2, <1>3 DEF HoldsSecret
<1> QED BY <1>4, <1>5, <1>6, <1>7

LEMMA MacKeysApart ==
  ASSUME NEW k, NEW m, k # m, NEW s, NEW t
  PROVE  Mac(Derive(k).header_integrity_hmac_key, s) # Mac(Derive(m).header_integrity_hmac_key, t)
<1>1. Derive(k).header_integrity_hmac_key = <<"hmac key", k>> /\ Derive(m).header_integrity_hmac_key = <<"hmac key", m>>
  BY DEF Derive
<1>2. <<"hmac key", k>> # <<"hmac key", m>>
  OBVIOUS
<1> DEFINE a == <<"hmac key", k>>
           b == <<"hmac key", m>>
<1> HIDE DEF a, b
<1>3. a # b
  BY <1>2 DEF a, b
<1>4. <<"mac", a, s>> # <<"mac", b, t>>
  BY <1>3
<1>5. Mac(a, s) # Mac(b, t)
  BY <1>4 DEF Mac
<1> QED BY <1>1, <1>5 DEF a, b

(***************************************************************************)
(* For every route and every destination: nothing of the header that a     *)
(* relay gets is, in any place, in the header that it passes on, even if   *)
(* the same node comes more than once on the route.                        *)
(***************************************************************************)
THEOREM NothingStays ==
  ASSUME NEW seed, NEW secret, NEW route, NEW delays, NEW destination, Plain(destination),
         NEW n \in 1..MaxRoute, Len(route) = n, NEW k \in 1..(n - 1), NEW block,
         InHeader(MeantHeader(seed, secret, route, delays, destination, k), block)
  PROVE  ~InHeader(MeantHeader(seed, secret, route, delays, destination, k + 1), block)
<1> DEFINE A == Accumulators(route, Secret(secret))
           K == SharedKeys(route, secret)
           keys == KeyMaterial(route, Secret(secret))
           E == MeantRouting(seed, route, destination, delays, keys)
           I == Infos(seed, secret, route, delays, destination)
           c == StreamKeys(route, secret)
           H(i) == MeantHeader(seed, secret, route, delays, destination, i)
           l == InfoLength
           hmac(i) == Derive(K[i]).header_integrity_hmac_key
<1>1. /\ n \in Nat \ {0} /\ n \in Nat /\ n \in 1..n /\ k \in 1..n /\ k + 1 \in 1..n /\ k + 1 # k
      /\ l \in Nat /\ l >= 4 * n
  BY Lengths
<1>2. Chained(A, K, n, secret) /\ \A i \in 1..n : keys[i] = Derive(K[i])
  BY <1>1, SecretsChained
<1>3. Streamed(I, c, n, l)
  BY RouteIsStreamed
<1>4. \A i \in 1..n : H(i).shared_secret = A[i] /\ H(i).routing_info = E[i] /\ I[i] = E[i].info
  <2>1. \A i \in 1..n : I[i] = H(i).routing_info.info
    BY DEF Infos
  <2>2. \A i \in 1..n : H(i).shared_secret = A[i] /\ H(i).routing_info = E[i]
    BY DEF MeantHeader
  <2> QED BY <2>1, <2>2
<1>5. \A i \in 1..n : E[i].integrity_mac = Mac(hmac(i), I[i])
  <2>1. UnwrapsAlong(E, n, route, destination, delays, keys)
    <3>1. IsSeq(keys, n)
      BY <1>1 DEF KeyMaterial, IsSeq
    <3> HIDE DEF keys
    <3> QED BY <3>1, RouteUnwraps
  <2> HIDE DEF A, K, keys, E, I, c, H
  <2>2. \A i \in 1..n : Verifies(E[i], keys[i])
    BY <2>1 DEF UnwrapsAlong
  <2>3. \A i \in 1..n : keys[i].header_integrity_hmac_key = hmac(i)
    BY <1>2
  <2> QED BY <1>4, <2>2, <2>3 DEF Verifies, ComputeMac
<1> HIDE DEF A, K, keys, E, I, c, H, l
<1>6. \A i \in 1..n : HoldsSecret(A[i], secret)
  <2>1. \A i \in 1..n : HoldsBlinders(A, K, secret, i)
    BY <1>1, <1>2, Blinders
  <2> QED BY <2>1 DEF HoldsBlinders, HoldsSecret
<1>7. A[k] # A[k + 1]
  <2>1. <<"blinding", K[k]>> \notin A[k]
    BY <1>1, <1>2, KeysApart DEF BlindersNew
  <2>2. A[k + 1] = A[k] \cup {<<"blinding", K[k]>>}
    BY <1>2 DEF Chained
  <2> QED BY <2>1, <2>2
<1>8. Mac(hmac(k), I[k]) # Mac(hmac(k + 1), I[k + 1])
  <2>1. AllApart(K, n)
    BY <1>1, <1>2, KeysApart
  <2>2. K[k] # K[k + 1]
    BY <1>1, <2>1 DEF AllApart
  <2> QED BY <2>2, MacKeysApart
<1>9. \A i \in 1..n, j \in 1..l : HasPiece(I[i][j])
  BY <1>1, <1>3, EveryBlockMasked
<1>10. \A i, j \in 1..l : I[k][i] # I[k + 1][j]
  BY <1>1, <1>3, BlocksApart
<1> HIDE DEF hmac
<1>11. \A x, y \in 1..n : /\ A[x] # Mac(hmac(y), I[y])
                          /\ \A j \in 1..l : I[x][j] # Mac(hmac(y), I[y]) /\ I[x][j] # A[y]
  <2> SUFFICES ASSUME NEW x \in 1..n, NEW y \in 1..n
               PROVE  /\ A[x] # Mac(hmac(y), I[y])
                      /\ \A j \in 1..l : I[x][j] # Mac(hmac(y), I[y]) /\ I[x][j] # A[y]
    OBVIOUS
  <2>1. HoldsSecret(A[x], secret) /\ HoldsSecret(A[y], secret)
    BY <1>6
  <2>2. A[x] # Mac(hmac(y), I[y])
    <3>1. <<"secret", secret>> # <<"mac", hmac(y), I[y]>>
      OBVIOUS
    <3> QED BY <2>1, <3>1 DEF HoldsSecret, Mac
  <2>3. ASSUME NEW j \in 1..l PROVE I[x][j] # Mac(hmac(y), I[y]) /\ I[x][j] # A[y]
    <3>1. HasPiece(I[x][j])
      BY <1>9
    <3> QED BY <2>1, <3>1, KindsApart
  <2> QED BY <2>2, <2>3
<1> DEFINE Within(i, b) == b = A[i] \/ b = Mac(hmac(i), I[i]) \/ \E j \in 1..l : b = I[i][j]
<1>12. \A i \in 1..n : \A b : InHeader(H(i), b) <=> Within(i, b)
  BY <1>4, <1>5 DEF InHeader, l
<1>13. Within(k, block)
  BY <1>1, <1>12 DEF H
<1>14. ~Within(k + 1, block)
  <2>1. CASE block = A[k]
    BY <1>1, <1>7, <1>11, <2>1
  <2>2. CASE block = Mac(hmac(k), I[k])
    BY <1>1, <1>8, <1>11, <2>2
  <2>3. CASE \E j \in 1..l : block = I[k][j]
    BY <1>1, <1>10, <1>11, <2>3
  <2> QED BY <1>13, <2>1, <2>2, <2>3
<1> QED BY <1>1, <1>12, <1>14 DEF H

===============================================================================
