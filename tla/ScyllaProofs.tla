------------------------------ MODULE ScyllaProofs ------------------------------
(***************************************************************************)
(* Proofs about the Scylla packet format, for paths of every length up to  *)
(* the maximum, whatever that is, and for fragments of every number and    *)
(* size: every node of a path, and no other, finds what wrap() meant for   *)
(* it; nothing of an onion stays as it was at a relay; and the fragments   *)
(* of a message are read when all of them are there, and not otherwise.    *)
(***************************************************************************)
EXTENDS ScyllaMessage, BlockTheorems

LEMMA Lengths ==
  /\ MaxPathLength \in Nat \ {0} /\ HopBlocks = 3 /\ FinalBlocks = 2
  /\ HeaderLength = 3 * MaxPathLength - 1 /\ HeaderLength \in Nat /\ HeaderLength >= 2
BY SizeAssumption DEF HeaderLength, HopBlocks, FinalBlocks

(***************************************************************************)
(* The functions that are defined by recursion over the path exist and     *)
(* satisfy their definitions: the group elements, the fillers, the routing *)
(* blocks from the last node to the first and the layers of the payload.   *)
(***************************************************************************)
Alphas(alpha, path) ==
  LET a[i \in 1..Len(path)] ==
        IF i = 1 THEN alpha ELSE Blinded(a[i - 1], SharedSecret(a[i - 1], path[i - 1]))
  IN  a

LEMMA AlphasDefined ==
  ASSUME NEW alpha, NEW path, Len(path) \in Nat \ {0}
  PROVE  /\ SharedSecrets(alpha, path)
              = [i \in 1..Len(path) |-> SharedSecret(Alphas(alpha, path)[i], path[i])]
         /\ Alphas(alpha, path)[1] = alpha
         /\ \A i \in 1..(Len(path) - 1) :
              Alphas(alpha, path)[i + 1] =
                Blinded(Alphas(alpha, path)[i], SharedSecret(Alphas(alpha, path)[i], path[i]))
<1> DEFINE n == Len(path)
           Step(a, i) == Blinded(a, SharedSecret(a, path[i]))
           S == {k \in Nat : \E g : g = [i \in 1..(k + 1) |-> IF i = 1 THEN alpha ELSE Step(g[i - 1], i - 1)]}
<1> HIDE DEF Step
<1>1. 0 \in S
  <2> DEFINE h == [i \in 1..(0 + 1) |-> alpha]
  <2>1. h = [i \in 1..(0 + 1) |-> IF i = 1 THEN alpha ELSE Step(h[i - 1], i - 1)]
    OBVIOUS
  <2> HIDE DEF h
  <2> QED BY <2>1
<1>2. ASSUME NEW k \in Nat, k \in S PROVE k + 1 \in S
  <2>1. PICK g : g = [i \in 1..(k + 1) |-> IF i = 1 THEN alpha ELSE Step(g[i - 1], i - 1)]
    BY <1>2
  <2> DEFINE h == [i \in 1..((k + 1) + 1) |-> IF i = (k + 1) + 1 THEN Step(g[k + 1], i - 1) ELSE g[i]]
  <2>2. ASSUME NEW i \in 1..((k + 1) + 1)
        PROVE  h[i] = IF i = 1 THEN alpha ELSE Step(h[i - 1], i - 1)
    BY <2>1
  <2>3. h = [i \in 1..((k + 1) + 1) |-> h[i]]
    OBVIOUS
  <2> HIDE DEF h
  <2>4. h = [i \in 1..((k + 1) + 1) |-> IF i = 1 THEN alpha ELSE Step(h[i - 1], i - 1)]
    BY <2>2, <2>3
  <2> QED BY <2>4
<1>3. n - 1 \in S /\ (n - 1) + 1 = n
  <2>1. n - 1 \in Nat /\ (n - 1) + 1 = n
    OBVIOUS
  <2> HIDE DEF S, n
  <2>2. Nat \subseteq S
    BY <1>1, <1>2, NatSetInduction
  <2> QED BY <2>1, <2>2
<1>4. PICK g : g = [i \in 1..n |-> IF i = 1 THEN alpha ELSE Step(g[i - 1], i - 1)]
  BY <1>3
<1> DEFINE A == Alphas(alpha, path)
<1>5. A = [i \in 1..n |-> IF i = 1 THEN alpha ELSE Step(A[i - 1], i - 1)]
  BY <1>4 DEF Alphas, Step
<1>6. SharedSecrets(alpha, path) = [i \in 1..n |-> SharedSecret(A[i], path[i])]
  BY DEF SharedSecrets, Alphas
<1> HIDE DEF A
<1>7. A[1] = alpha
  BY <1>5
<1>8. ASSUME NEW i \in 1..(n - 1) PROVE A[i + 1] = Step(A[i], i)
  <2>1. i + 1 \in 1..n /\ i + 1 # 1 /\ (i + 1) - 1 = i
    OBVIOUS
  <2>2. A[i + 1] = Step(A[(i + 1) - 1], (i + 1) - 1)
    BY <1>5, <2>1
  <2> QED BY <2>1, <2>2
<1> QED BY <1>6, <1>7, <1>8 DEF A, Step

FillerStep(f, secret, i) ==
  Xor(f \o Zeros(HopBlocks),
      Drop(KeyStream(secret, HeaderLength + HopBlocks), HeaderLength - (i - 1) * HopBlocks))

Fillers(secrets) ==
  LET f[i \in 0..(Len(secrets) - 1)] ==
        IF i = 0 THEN <<>>
        ELSE Xor(f[i - 1] \o Zeros(HopBlocks),
                 Drop(KeyStream(secrets[i], HeaderLength + HopBlocks),
                      HeaderLength - (i - 1) * HopBlocks))
  IN  f

LEMMA FillersDefined ==
  ASSUME NEW secrets, NEW n \in Nat \ {0}, Len(secrets) = n
  PROVE  /\ Filler(secrets) = Fillers(secrets)[n - 1]
         /\ Fillers(secrets)[0] = <<>>
         /\ \A i \in 1..(n - 1) : Fillers(secrets)[i] = FillerStep(Fillers(secrets)[i - 1], secrets[i], i)
<1> DEFINE S == {k \in Nat : \E g : g = [i \in 0..k |-> IF i = 0 THEN <<>>
                                                      ELSE FillerStep(g[i - 1], secrets[i], i)]}
<1>1. 0 \in S
  <2> DEFINE h == [i \in 0..0 |-> <<>>]
  <2>1. h = [i \in 0..0 |-> IF i = 0 THEN <<>> ELSE FillerStep(h[i - 1], secrets[i], i)]
    OBVIOUS
  <2> HIDE DEF h
  <2> QED BY <2>1
<1>2. ASSUME NEW k \in Nat, k \in S PROVE k + 1 \in S
  <2>1. PICK g : g = [i \in 0..k |-> IF i = 0 THEN <<>> ELSE FillerStep(g[i - 1], secrets[i], i)]
    BY <1>2
  <2> DEFINE h == [i \in 0..(k + 1) |-> IF i = k + 1 THEN FillerStep(g[k], secrets[i], i) ELSE g[i]]
  <2>2. ASSUME NEW i \in 0..(k + 1)
        PROVE  h[i] = IF i = 0 THEN <<>> ELSE FillerStep(h[i - 1], secrets[i], i)
    BY <2>1
  <2>3. h = [i \in 0..(k + 1) |-> h[i]]
    OBVIOUS
  <2> HIDE DEF h
  <2>4. h = [i \in 0..(k + 1) |-> IF i = 0 THEN <<>> ELSE FillerStep(h[i - 1], secrets[i], i)]
    BY <2>2, <2>3
  <2> QED BY <2>4
<1>3. n - 1 \in S
  <2>1. n - 1 \in Nat
    OBVIOUS
  <2> HIDE DEF S
  <2> QED BY <1>1, <1>2, <2>1, NatSetInduction
<1>4. PICK g : g = [i \in 0..(n - 1) |-> IF i = 0 THEN <<>> ELSE FillerStep(g[i - 1], secrets[i], i)]
  BY <1>3
<1> DEFINE F == Fillers(secrets)
<1>5. F = [i \in 0..(n - 1) |-> IF i = 0 THEN <<>> ELSE FillerStep(F[i - 1], secrets[i], i)]
  BY <1>4 DEF Fillers, FillerStep
<1>6. Filler(secrets) = F[n - 1]
  BY DEF Filler, Fillers
<1> HIDE DEF F
<1>7. F[0] = <<>> /\ \A i \in 1..(n - 1) : F[i] = FillerStep(F[i - 1], secrets[i], i)
  BY <1>5
<1> QED BY <1>6, <1>7 DEF F

LastBeta(seed, path, final_info, secrets) ==
  Xor(final_info, KeyStream(secrets[Len(path)], FinalBlocks)) \o Padding(seed, path) \o Filler(secrets)

HopBeta(address, next, key, next_key) ==
  Xor(<<Flag("Relay"), Address(address), Mac(next_key, next)>> \o next, KeyStream(key, HeaderLength))

LEMMA BetasDefined ==
  ASSUME NEW seed, NEW path, NEW final_info, NEW secrets, NEW n \in Nat \ {0}, Len(path) = n
  PROVE  /\ Betas(seed, path, final_info, secrets)[n] = LastBeta(seed, path, final_info, secrets)
         /\ \A i \in 1..(n - 1) :
              Betas(seed, path, final_info, secrets)[i] =
                HopBeta(path[i + 1], Betas(seed, path, final_info, secrets)[i + 1],
                        secrets[i], secrets[i + 1])
<1> DEFINE last == LastBeta(seed, path, final_info, secrets)
           Step(next, i) == HopBeta(path[i + 1], next, secrets[i], secrets[i + 1])
           S == {k \in 1..n : \E g : g = [i \in k..n |-> IF i = n THEN last ELSE Step(g[i + 1], i)]}
<1> HIDE DEF Step, last
<1>1. n \in S
  <2> DEFINE h == [i \in n..n |-> last]
  <2>1. h = [i \in n..n |-> IF i = n THEN last ELSE Step(h[i + 1], i)]
    OBVIOUS
  <2> HIDE DEF h
  <2> QED BY <2>1
<1>2. ASSUME NEW k \in 1..(n - 1), k + 1 \in S PROVE k \in S
  <2>1. PICK g : g = [i \in (k + 1)..n |-> IF i = n THEN last ELSE Step(g[i + 1], i)]
    BY <1>2
  <2> DEFINE h == [i \in k..n |-> IF i = k THEN Step(g[k + 1], i) ELSE g[i]]
  <2>2. ASSUME NEW i \in k..n PROVE h[i] = IF i = n THEN last ELSE Step(h[i + 1], i)
    BY <2>1
  <2>3. h = [i \in k..n |-> h[i]]
    OBVIOUS
  <2> HIDE DEF h
  <2>4. h = [i \in k..n |-> IF i = n THEN last ELSE Step(h[i + 1], i)]
    BY <2>2, <2>3
  <2> QED BY <2>4
<1>3. 1 \in S
  <2>1. n \in Nat /\ 1 \in 1..n
    OBVIOUS
  <2> HIDE DEF S
  <2>2. \A i \in 1..n : i \in S
    BY <1>1, <1>2, <2>1, DownwardInduction
  <2> QED BY <2>1, <2>2
<1>4. PICK g : g = [i \in 1..n |-> IF i = n THEN last ELSE Step(g[i + 1], i)]
  BY <1>3
<1> DEFINE B == Betas(seed, path, final_info, secrets)
<1>5. B = [i \in 1..n |-> IF i = n THEN last ELSE Step(B[i + 1], i)]
  <2> DEFINE Recursion(b) == b = [i \in 1..n |-> IF i = n THEN last ELSE Step(b[i + 1], i)]
  <2>1. B = CHOOSE b : Recursion(b)
    BY DEF Betas, Step, HopBeta, last, LastBeta
  <2>2. Recursion(g)
    BY <1>4
  <2> HIDE DEF Recursion, B
  <2>3. Recursion(B)
    BY <2>1, <2>2
  <2> QED BY <2>3 DEF Recursion
<1> HIDE DEF B
<1>6. B[n] = last /\ \A i \in 1..(n - 1) : B[i] = Step(B[i + 1], i)
  BY <1>5
<1> QED BY <1>6 DEF B, Step, last

Deltas(secrets, d) ==
  LET p[i \in 1..(Len(secrets) + 1)] ==
        IF i > Len(secrets) THEN d ELSE Pi(secrets[i], p[i + 1])
  IN  p

LEMMA DeltasDefined ==
  ASSUME NEW secrets, NEW d, NEW m \in Nat, Len(secrets) = m
  PROVE  /\ Layered(secrets, d) = Deltas(secrets, d)[1]
         /\ Deltas(secrets, d)[m + 1] = d
         /\ \A i \in 1..m : Deltas(secrets, d)[i] = Pi(secrets[i], Deltas(secrets, d)[i + 1])
<1> DEFINE n == m + 1
           Step(p, i) == Pi(secrets[i], p)
           S == {k \in 1..n : \E g : g = [i \in k..n |-> IF i > m THEN d ELSE Step(g[i + 1], i)]}
<1> HIDE DEF Step
<1>1. n \in S
  <2> DEFINE h == [i \in n..n |-> d]
  <2>1. h = [i \in n..n |-> IF i > m THEN d ELSE Step(h[i + 1], i)]
    OBVIOUS
  <2> HIDE DEF h
  <2> QED BY <2>1
<1>2. ASSUME NEW k \in 1..(n - 1), k + 1 \in S PROVE k \in S
  <2>1. PICK g : g = [i \in (k + 1)..n |-> IF i > m THEN d ELSE Step(g[i + 1], i)]
    BY <1>2
  <2> DEFINE h == [i \in k..n |-> IF i = k THEN Step(g[k + 1], i) ELSE g[i]]
  <2>2. ASSUME NEW i \in k..n PROVE h[i] = IF i > m THEN d ELSE Step(h[i + 1], i)
    BY <2>1
  <2>3. h = [i \in k..n |-> h[i]]
    OBVIOUS
  <2> HIDE DEF h
  <2>4. h = [i \in k..n |-> IF i > m THEN d ELSE Step(h[i + 1], i)]
    BY <2>2, <2>3
  <2> QED BY <2>4
<1>3. 1 \in S
  <2>1. n \in Nat /\ 1 \in 1..n
    OBVIOUS
  <2> HIDE DEF S, n
  <2>2. \A i \in 1..n : i \in S
    BY <1>1, <1>2, <2>1, DownwardInduction
  <2> QED BY <2>1, <2>2
<1>4. PICK g : g = [i \in 1..n |-> IF i > m THEN d ELSE Step(g[i + 1], i)]
  BY <1>3
<1> DEFINE P == Deltas(secrets, d)
<1>5. P = [i \in 1..n |-> IF i > m THEN d ELSE Step(P[i + 1], i)]
  BY <1>4 DEF Deltas, Step
<1>6. Layered(secrets, d) = P[1]
  BY DEF Layered, Deltas
<1> HIDE DEF P
<1>7. P[n] = d /\ \A i \in 1..(n - 1) : P[i] = Step(P[i + 1], i)
  BY <1>5
<1> QED BY <1>6, <1>7 DEF P, Step

-------------------------------------------------------------------------------
(***************************************************************************)
(* The i-th filler is i hops long.  Its last hop is the end of the key     *)
(* stream of the i-th node, the others those of the filler before,         *)
(* encrypted with the blocks of this key stream that come before.          *)
(***************************************************************************)
IsFillerStep(g, f, secret, i) ==
  /\ IsSeq(g, 3 * i)
  /\ \A j \in 1..(3 * (i - 1)) :
       g[j] = SymDiff(f[j], {<<"stream", secret, (HeaderLength - 3 * (i - 1)) + j>>})
  /\ \A j \in (3 * (i - 1) + 1)..(3 * i) :
       g[j] = {<<"stream", secret, (HeaderLength - 3 * (i - 1)) + j>>}

LEMMA FillerStepElements ==
  ASSUME NEW f, NEW secret, NEW i \in 1..(MaxPathLength - 1), IsSeq(f, 3 * (i - 1))
  PROVE  IsFillerStep(FillerStep(f, secret, i), f, secret, i)
<1> DEFINE l == HeaderLength
           w == 3 * (i - 1)
           three == 3
           b == l + 3
           v == w + 3
           Y == f \o Zeros(three)
           K == KeyStream(secret, b)
           D == Drop(K, l - w)
           G == Xor(Y, D)
<1>1. /\ l \in Nat /\ w \in Nat /\ i \in Nat /\ v \in Nat /\ b \in Nat /\ three = 3 /\ three \in Nat
      /\ l = HeaderLength /\ w = 3 * (i - 1) /\ v = 3 * i /\ v = w + three /\ v <= v
      /\ l - w \in 0..b /\ b - (l - w) = v /\ w + 2 <= l /\ b = l + 3
  BY Lengths
<1>2. FillerStep(f, secret, i) = G
  <2>1. (i - 1) * HopBlocks = w /\ HopBlocks = three
    BY <1>1, Lengths
  <2> QED BY <2>1 DEF FillerStep
<1>3. IsSeq(f, w)
  OBVIOUS
<1> HIDE DEF l, w, three, b, v
<1>4. IsSeq(Zeros(three), three) /\ \A j \in 1..three : Zeros(three)[j] = {}
  BY <1>1, ZerosElements
<1>5. IsConcat(Y, f, w, Zeros(three), three)
  BY <1>3, <1>4, ConcatElements
<1>6. IsSeq(K, b) /\ \A j \in 1..b : K[j] = {<<"stream", secret, j>>}
  BY <1>1, KeyStreamElements DEF KeyStream
<1> HIDE DEF Y, K
<1>7. IsSeq(D, v) /\ \A j \in 1..v : D[j] = K[(l - w) + j]
  <2> DEFINE k == l - w
  <2>1. k \in 0..b /\ b - k = v /\ k = l - w
    BY <1>1
  <2> HIDE DEF k
  <2>2. IsSeq(Drop(K, k), b - k) /\ \A j \in 1..(b - k) : Drop(K, k)[j] = K[k + j]
    BY <1>6, <2>1, DropElements
  <2> QED BY <2>1, <2>2
<1>8. IsSeq(Y, v) /\ (\A j \in 1..w : Y[j] = f[j]) /\ \A j \in (w + 1)..v : Y[j] = {}
  <2>1. IsSeq(Y, v) /\ (\A j \in 1..w : Y[j] = f[j]) /\ \A j \in (w + 1)..v : Y[j] = Zeros(three)[j - w]
    BY <1>1, <1>5 DEF IsConcat
  <2>2. \A j \in (w + 1)..v : j - w \in 1..three
    BY <1>1
  <2> QED BY <1>4, <2>1, <2>2
<1> HIDE DEF D
<1>9. IsXor(G, Y, D, v)
  BY <1>1, <1>7, <1>8, XorElements
<1> HIDE DEF G
<1>10. ASSUME NEW j \in 1..v PROVE D[j] = {<<"stream", secret, (l - w) + j>>}
  <2>1. (l - w) + j \in 1..b
    BY <1>1
  <2> QED BY <1>6, <1>7, <2>1
<1>11. \A j \in 1..w : G[j] = SymDiff(f[j], {<<"stream", secret, (l - w) + j>>})
  <2> SUFFICES ASSUME NEW j \in 1..w PROVE G[j] = SymDiff(f[j], {<<"stream", secret, (l - w) + j>>})
    OBVIOUS
  <2>1. j \in 1..v
    BY <1>1
  <2> QED BY <1>8, <1>9, <1>10, <2>1 DEF IsXor
<1>12. \A j \in (w + 1)..v : G[j] = {<<"stream", secret, (l - w) + j>>}
  <2> SUFFICES ASSUME NEW j \in (w + 1)..v PROVE G[j] = {<<"stream", secret, (l - w) + j>>}
    OBVIOUS
  <2>1. j \in 1..v
    BY <1>1
  <2>2. G[j] = SymDiff({}, D[j])
    BY <1>8, <1>9, <2>1 DEF IsXor
  <2> QED BY <1>10, <2>1, <2>2, XorTwice
<1>13. IsSeq(G, v)
  BY <1>9 DEF IsXor
<1> QED BY <1>1, <1>2, <1>11, <1>12, <1>13 DEF IsFillerStep

(***************************************************************************)
(* The routing blocks that a node reads: those that arrived, deciphered,   *)
(* and behind them its key stream, which is what the zeros become.         *)
(***************************************************************************)
IsRouting(routing, beta, secret) ==
  /\ IsSeq(routing, HeaderLength + 3)
  /\ \A j \in 1..HeaderLength : routing[j] = SymDiff(beta[j], {<<"stream", secret, j>>})
  /\ \A j \in (HeaderLength + 1)..(HeaderLength + 3) : routing[j] = {<<"stream", secret, j>>}

LEMMA RoutingElements ==
  ASSUME NEW beta, NEW secret, IsSeq(beta, HeaderLength)
  PROVE  IsRouting(Routing(beta, secret), beta, secret)
<1> DEFINE l == HeaderLength
           three == 3
           b == l + three
           Y == beta \o Zeros(three)
           K == KeyStream(secret, b)
           R == Xor(Y, K)
<1>1. l \in Nat /\ three = 3 /\ three \in Nat /\ b \in Nat /\ b = l + three /\ l = HeaderLength /\ b <= b
  BY Lengths
<1>2. Routing(beta, secret) = R
  BY Lengths DEF Routing
<1> HIDE DEF l, three, b
<1>3. IsSeq(Zeros(three), three) /\ \A j \in 1..three : Zeros(three)[j] = {}
  BY <1>1, ZerosElements
<1>4. IsConcat(Y, beta, l, Zeros(three), three)
  BY <1>1, <1>3, ConcatElements
<1>5. IsSeq(K, b) /\ \A j \in 1..b : K[j] = {<<"stream", secret, j>>}
  BY <1>1, KeyStreamElements DEF KeyStream
<1> HIDE DEF Y, K
<1>6. IsSeq(Y, b) /\ (\A j \in 1..l : Y[j] = beta[j]) /\ \A j \in (l + 1)..b : Y[j] = {}
  <2>1. IsSeq(Y, b) /\ (\A j \in 1..l : Y[j] = beta[j]) /\ \A j \in (l + 1)..b : Y[j] = Zeros(three)[j - l]
    BY <1>1, <1>4 DEF IsConcat
  <2>2. \A j \in (l + 1)..b : j - l \in 1..three
    BY <1>1
  <2> QED BY <1>3, <2>1, <2>2
<1>7. IsXor(R, Y, K, b)
  BY <1>1, <1>5, <1>6, XorElements
<1> HIDE DEF R
<1>8. \A j \in 1..l : R[j] = SymDiff(beta[j], {<<"stream", secret, j>>})
  <2> SUFFICES ASSUME NEW j \in 1..l PROVE R[j] = SymDiff(beta[j], {<<"stream", secret, j>>})
    OBVIOUS
  <2>1. j \in 1..b
    BY <1>1
  <2> QED BY <1>5, <1>6, <1>7, <2>1 DEF IsXor
<1>9. \A j \in (l + 1)..b : R[j] = {<<"stream", secret, j>>}
  <2> SUFFICES ASSUME NEW j \in (l + 1)..b PROVE R[j] = {<<"stream", secret, j>>}
    OBVIOUS
  <2>1. j \in 1..b
    BY <1>1
  <2>2. R[j] = SymDiff({}, K[j])
    BY <1>6, <1>7, <2>1 DEF IsXor
  <2> QED BY <1>5, <2>1, <2>2, XorTwice
<1>10. IsSeq(R, b)
  BY <1>7 DEF IsXor
<1> QED BY <1>1, <1>2, <1>8, <1>9, <1>10 DEF IsRouting

LEMMA FlagsDiffer ==
  ASSUME NEW f, NEW g, Flag(f) = Flag(g)
  PROVE  f = g
<1>1. <<"flag", f>> = <<"flag", g>>
  BY DEF Flag
<1> QED BY <1>1

(***************************************************************************)
(* Routing blocks that end with the i-th filler's predecessor, as those    *)
(* for the i-th node are meant to.                                         *)
(***************************************************************************)
EndsWithFiller(beta, f, i) ==
  /\ IsSeq(beta, HeaderLength)
  /\ \A j \in 1..(3 * (i - 1)) : beta[(HeaderLength - 3 * (i - 1)) + j] = f[j]

(***************************************************************************)
(* The routing blocks for the last node: its two blocks, the padding, and  *)
(* the filler.                                                             *)
(***************************************************************************)
IsLastBeta(beta, seed, final_info, secret, filler, n) ==
  /\ EndsWithFiller(beta, filler, n)
  /\ \A j \in 1..2 : beta[j] = SymDiff(final_info[j], {<<"stream", secret, j>>})
  /\ \A j \in 3..(HeaderLength - 3 * (n - 1)) : beta[j] = {<<"padding", seed, j - 2>>}
  /\ \A j \in 1..2 : Routing(beta, secret)[j] = final_info[j]

LEMMA LastBetaElements ==
  ASSUME NEW seed, NEW path, NEW final_info, NEW secrets, NEW n \in 1..MaxPathLength,
         Len(path) = n, IsSeq(final_info, 2), IsSeq(Filler(secrets), 3 * (n - 1))
  PROVE  IsLastBeta(LastBeta(seed, path, final_info, secrets), seed, final_info, secrets[n],
                    Filler(secrets), n)
<1> DEFINE l == HeaderLength
           w == 3 * (n - 1)
           p == l - w
           two == 2
           q == p - two
           secret == secrets[n]
           K == KeyStream(secret, two)
           X == Xor(final_info, K)
           Q == Padding(seed, path)
           Y == X \o Q
           F == Filler(secrets)
           I == Y \o F
<1>1. /\ l \in Nat /\ w \in Nat /\ p \in Nat /\ q \in Nat /\ two = 2 /\ two \in Nat /\ two <= two
      /\ p + w = l /\ two + q = p /\ 2 <= p /\ n \in Nat
      /\ l = HeaderLength /\ w = 3 * (n - 1) /\ p = l - w
      /\ (MaxPathLength - n) * 3 = q
  BY Lengths
<1>2. LastBeta(seed, path, final_info, secrets) = I
  BY Lengths DEF LastBeta
<1>3. IsSeq(F, w) /\ IsSeq(final_info, two)
  OBVIOUS
<1>4. IsSeq(Q, q) /\ \A j \in 1..q : Q[j] = {<<"padding", seed, j>>}
  <2>1. Q = [j \in 1..q |-> {<<"padding", seed, j>>}]
    BY <1>1, Lengths DEF Padding
  <2> HIDE DEF Q, q
  <2> QED BY <1>1, <2>1 DEF IsSeq
<1> HIDE DEF l, w, p, two, q, Q, F, secret
<1>5. IsSeq(K, two) /\ \A j \in 1..two : K[j] = {<<"stream", secret, j>>}
  BY <1>1, KeyStreamElements DEF KeyStream
<1> HIDE DEF K
<1>6. IsXor(X, final_info, K, two)
  BY <1>1, <1>3, <1>5, XorElements
<1> HIDE DEF X
<1>7. IsConcat(Y, X, two, Q, q)
  BY <1>4, <1>6, ConcatElements DEF IsXor
<1> HIDE DEF Y
<1>8. IsConcat(I, Y, p, F, w)
  <2>1. IsSeq(Y, p)
    BY <1>1, <1>7 DEF IsConcat
  <2> QED BY <1>3, <2>1, ConcatElements DEF I
<1> HIDE DEF I
<1>9. /\ IsSeq(I, l) /\ (\A j \in 1..p : I[j] = Y[j]) /\ \A j \in (p + 1)..l : I[j] = F[j - p]
  BY <1>1, <1>8 DEF IsConcat
<1>10. \A j \in 1..w : I[p + j] = F[j]
  <2> SUFFICES ASSUME NEW j \in 1..w PROVE I[p + j] = F[j]
    OBVIOUS
  <2>1. p + j \in (p + 1)..l /\ (p + j) - p = j
    BY <1>1
  <2> QED BY <1>9, <2>1
<1>11. ASSUME NEW j \in 1..2 PROVE I[j] = SymDiff(final_info[j], {<<"stream", secret, j>>})
  <2>1. j \in 1..p /\ j \in 1..two
    BY <1>1
  <2>2. I[j] = X[j] /\ X[j] = SymDiff(final_info[j], K[j])
    BY <1>6, <1>7, <1>9, <2>1 DEF IsConcat, IsXor
  <2> QED BY <1>5, <2>1, <2>2
<1>12. ASSUME NEW j \in 3..p PROVE I[j] = {<<"padding", seed, j - 2>>}
  <2>1. j \in 1..p /\ j \in (two + 1)..(two + q) /\ j - two \in 1..q /\ j - two = j - 2
    BY <1>1
  <2>2. I[j] = Q[j - two]
    BY <1>7, <1>9, <2>1 DEF IsConcat
  <2> QED BY <1>4, <2>1, <2>2
<1>13. ASSUME NEW j \in 1..2 PROVE Routing(I, secret)[j] = final_info[j]
  <2>1. j \in 1..HeaderLength /\ IsSeq(I, HeaderLength)
    BY <1>1, <1>9
  <2>2. IsRouting(Routing(I, secret), I, secret)
    BY <2>1, RoutingElements
  <2>3. Routing(I, secret)[j] = SymDiff(I[j], {<<"stream", secret, j>>})
    BY <2>1, <2>2 DEF IsRouting
  <2> QED BY <1>11, <2>3, XorTwice
<1>14. EndsWithFiller(I, F, n)
  BY <1>1, <1>9, <1>10 DEF EndsWithFiller
<1>15. IsLastBeta(I, seed, final_info, secret, F, n)
  BY <1>1, <1>11, <1>12, <1>13, <1>14 DEF IsLastBeta
<1> QED BY <1>2, <1>15 DEF secret, F

(***************************************************************************)
(* The routing blocks for a relay: three of its own, and then those that   *)
(* the next node gets, the last three left out.                            *)
(***************************************************************************)
IsHopBeta(beta, address, next, key, next_key) ==
  /\ IsSeq(beta, HeaderLength)
  /\ HeaderLength >= 5 =>
       /\ beta[1] = SymDiff(Flag("Relay"), {<<"stream", key, 1>>})
       /\ beta[2] = SymDiff(Address(address), {<<"stream", key, 2>>})
       /\ beta[3] = SymDiff(Mac(next_key, next), {<<"stream", key, 3>>})
  /\ \A j \in 4..HeaderLength : beta[j] = SymDiff(next[j - 3], {<<"stream", key, j>>})

LEMMA HopBetaElements ==
  ASSUME NEW address, NEW next, NEW key, NEW next_key, IsSeq(next, HeaderLength)
  PROVE  IsHopBeta(HopBeta(address, next, key, next_key), address, next, key, next_key)
<1> DEFINE l == HeaderLength
           three == 3
           b == three + l
           R == <<Flag("Relay"), Address(address), Mac(next_key, next)>>
           Y == R \o next
           K == KeyStream(key, l)
           swapped == Xor(Y, K)
<1>1. l \in Nat /\ three = 3 /\ three \in Nat /\ b \in Nat /\ b = three + l /\ l = HeaderLength /\ l < b
  BY Lengths
<1>2. /\ IsSeq(R, three) /\ R[1] = Flag("Relay") /\ R[2] = Address(address)
      /\ R[3] = Mac(next_key, next)
  BY DEF IsSeq
<1>3. HopBeta(address, next, key, next_key) = swapped
  BY DEF HopBeta
<1>4. IsSeq(next, l)
  OBVIOUS
<1> HIDE DEF l, three, b, R
<1>5. IsConcat(Y, R, three, next, l)
  BY <1>2, <1>4, ConcatElements
<1>6. IsSeq(K, l) /\ \A j \in 1..l : K[j] = {<<"stream", key, j>>}
  BY <1>1, KeyStreamElements DEF KeyStream
<1> HIDE DEF Y, K
<1>7. IsSeq(Y, b) /\ (\A j \in 1..three : Y[j] = R[j]) /\ \A j \in (three + 1)..b : Y[j] = next[j - three]
  BY <1>1, <1>5 DEF IsConcat
<1>8. IsSeq(swapped, l) /\ \A j \in 1..l : swapped[j] = SymDiff(Y[j], K[j])
  <2>1. Len(Y) = b /\ Len(K) = l
    BY <1>6, <1>7, SeqOfElements
  <2>2. swapped = [j \in 1..l |-> SymDiff(Y[j], K[j])]
    BY <1>1, <2>1 DEF Xor
  <2> HIDE DEF swapped
  <2> QED BY <1>1, <2>2 DEF IsSeq
<1> HIDE DEF swapped
<1>9. \A j \in 4..l : swapped[j] = SymDiff(next[j - 3], {<<"stream", key, j>>})
  <2> SUFFICES ASSUME NEW j \in 4..l PROVE swapped[j] = SymDiff(next[j - 3], {<<"stream", key, j>>})
    OBVIOUS
  <2>1. j \in 1..l /\ j \in (three + 1)..b /\ j - three = j - 3
    BY <1>1
  <2> QED BY <1>6, <1>7, <1>8, <2>1
<1>10. ASSUME l >= 5, NEW j \in 1..3 PROVE swapped[j] = SymDiff(R[j], {<<"stream", key, j>>})
  <2>1. j \in 1..l /\ j \in 1..three
    BY <1>1, <1>10
  <2> QED BY <1>6, <1>7, <1>8, <2>1
<1>11. IsHopBeta(swapped, address, next, key, next_key)
  <2>1. l >= 5 => /\ swapped[1] = SymDiff(R[1], {<<"stream", key, 1>>})
                  /\ swapped[2] = SymDiff(R[2], {<<"stream", key, 2>>})
                  /\ swapped[3] = SymDiff(R[3], {<<"stream", key, 3>>})
    BY <1>10
  <2> QED BY <1>1, <1>2, <1>8, <1>9, <2>1 DEF IsHopBeta
<1> QED BY <1>3, <1>11

(***************************************************************************)
(* If the routing blocks for the next node end with the filler of the      *)
(* nodes up to this one, then those for this node end with the filler of   *)
(* the nodes before it, and what this node reads is the next node's        *)
(* address and MAC and exactly the routing blocks that are for it.         *)
(***************************************************************************)
ReadsAsMeant(beta, address, next, key, next_key) ==
  /\ Routing(beta, key)[1] = Flag("Relay")
  /\ Routing(beta, key)[2] = Address(address)
  /\ Routing(beta, key)[3] = Mac(next_key, next)
  /\ Drop(Routing(beta, key), HopBlocks) = next

LEMMA FillerStepBack ==
  ASSUME NEW i \in 1..(MaxPathLength - 1), NEW f, IsSeq(f, 3 * (i - 1)),
         NEW address, NEW next, NEW key, NEW next_key,
         EndsWithFiller(next, FillerStep(f, key, i), i + 1),
         NEW beta, beta = HopBeta(address, next, key, next_key)
  PROVE  EndsWithFiller(beta, f, i) /\ ReadsAsMeant(beta, address, next, key, next_key)
<1> DEFINE l == HeaderLength
           w == 3 * (i - 1)
           v == w + 3
           g == FillerStep(f, key, i)
           R == Routing(beta, key)
           s(j) == {<<"stream", key, j>>}
<1>1. /\ i \in Nat /\ l \in Nat /\ w \in Nat /\ w + 5 <= l /\ 3 * i = v /\ v = w + 3
      /\ 3 * ((i + 1) - 1) = v /\ l = HeaderLength /\ w = 3 * (i - 1) /\ v \in Nat
  BY Lengths
<1>2. IsSeq(next, l) /\ \A j \in 1..v : next[(l - v) + j] = g[j]
  BY <1>1 DEF EndsWithFiller
<1>3. /\ \A j \in 1..w : g[j] = SymDiff(f[j], s((l - w) + j))
      /\ \A j \in (w + 1)..v : g[j] = s((l - w) + j)
  <2>1. IsFillerStep(g, f, key, i)
    BY FillerStepElements
  <2> HIDE DEF g, l, w, v
  <2> QED BY <1>1, <2>1 DEF IsFillerStep
<1>4. IsHopBeta(beta, address, next, key, next_key)
  BY <1>2, HopBetaElements
<1>5. IsSeq(beta, l) /\ \A j \in 4..l : beta[j] = SymDiff(next[j - 3], s(j))
  BY <1>4 DEF IsHopBeta
<1>6. IsRouting(R, beta, key)
  BY <1>5, RoutingElements
<1> HIDE DEF g, l, w, v, R
<1>7. /\ IsSeq(R, l + 3) /\ (\A j \in 1..l : R[j] = SymDiff(beta[j], s(j)))
      /\ \A j \in (l + 1)..(l + 3) : R[j] = s(j)
  BY <1>1, <1>6 DEF IsRouting
<1>8. \A j \in 1..w : beta[(l - w) + j] = f[j]
  <2> SUFFICES ASSUME NEW j \in 1..w PROVE beta[(l - w) + j] = f[j]
    OBVIOUS
  <2> DEFINE k == (l - w) + j
  <2>1. k \in 4..l /\ k - 3 = (l - v) + j /\ j \in 1..v /\ k = (l - w) + j
    BY <1>1
  <2> HIDE DEF k, s
  <2>2. next[k - 3] = g[j]
    BY <1>2, <2>1
  <2>3. g[j] = SymDiff(f[j], s(k))
    BY <1>3, <2>1
  <2>4. beta[k] = SymDiff(SymDiff(f[j], s(k)), s(k))
    BY <1>5, <2>1, <2>2, <2>3
  <2> QED BY <2>1, <2>4, XorTwice
<1>9. EndsWithFiller(beta, f, i)
  BY <1>1, <1>5, <1>8 DEF EndsWithFiller
<1>10. R[1] = Flag("Relay") /\ R[2] = Address(address) /\ R[3] = Mac(next_key, next)
  <2>1. /\ beta[1] = SymDiff(Flag("Relay"), s(1)) /\ beta[2] = SymDiff(Address(address), s(2))
        /\ beta[3] = SymDiff(Mac(next_key, next), s(3))
    BY <1>1, <1>4 DEF IsHopBeta
  <2>2. 1 \in 1..l /\ 2 \in 1..l /\ 3 \in 1..l
    BY <1>1
  <2> HIDE DEF s
  <2>3. R[1] = SymDiff(beta[1], s(1)) /\ R[2] = SymDiff(beta[2], s(2)) /\ R[3] = SymDiff(beta[3], s(3))
    BY <1>7, <2>2
  <2> QED BY <2>1, <2>3, XorTwice
<1>11. ASSUME NEW j \in 1..l PROVE R[3 + j] = next[j]
  <2> DEFINE k == 3 + j
  <2>1. CASE j \in 1..(l - 3)
    <3>1. k \in 4..l /\ k \in 1..l /\ k - 3 = j
      BY <1>1, <2>1
    <3> HIDE DEF k, s
    <3>2. R[k] = SymDiff(SymDiff(next[j], s(k)), s(k))
      BY <1>5, <1>7, <3>1
    <3> QED BY <3>2, XorTwice DEF k
  <2>2. CASE j \in (l - 2)..l
    <3> DEFINE h == j - (l - v)
    <3>1. k \in (l + 1)..(l + 3) /\ h \in (w + 1)..v /\ h \in 1..v /\ (l - v) + h = j /\ (l - w) + h = k
      BY <1>1, <2>2
    <3> HIDE DEF k, h, s
    <3>2. next[j] = g[h] /\ g[h] = s(k) /\ R[k] = s(k)
      BY <1>2, <1>3, <1>7, <3>1
    <3> QED BY <3>2 DEF k
  <2> QED BY <1>1, <2>1, <2>2
<1>12. Drop(R, HopBlocks) = next
  <2> DEFINE b == l + 3
             three == 3
             D == Drop(R, three)
  <2>1. three \in 0..b /\ b - three = l /\ IsSeq(R, b) /\ three = 3 /\ HopBlocks = three
    BY <1>1, <1>7 DEF HopBlocks
  <2> HIDE DEF b, three
  <2>2. IsSeq(D, b - three) /\ \A j \in 1..(b - three) : D[j] = R[three + j]
    BY <2>1, DropElements
  <2> HIDE DEF D
  <2>3. IsSeq(D, l) /\ \A j \in 1..l : D[j] = next[j]
    BY <1>11, <2>1, <2>2
  <2>4. D = next
    BY <1>2, <2>3, SameElements
  <2> QED BY <2>1, <2>4 DEF D
<1> QED BY <1>9, <1>10, <1>12 DEF ReadsAsMeant, R

(***************************************************************************)
(* What wrap() draws up for a path: the secrets, the routing blocks for    *)
(* every node, and the onion that the i-th node is meant to get, apart     *)
(* from the payload.                                                       *)
(***************************************************************************)
FirstAlpha(seed) == Multiply(Generator, <<"secret", seed>>)

SecretsFor(seed, path) == SharedSecrets(FirstAlpha(seed), path)

BetasFor(seed, path, final_info) == Betas(seed, path, final_info, SecretsFor(seed, path))

MeantOnion(seed, path, final_info, i, delta) ==
  [alpha |-> Alphas(FirstAlpha(seed), path)[i],
   beta  |-> BetasFor(seed, path, final_info)[i],
   gamma |-> Mac(SecretsFor(seed, path)[i], BetasFor(seed, path, final_info)[i]),
   delta |-> delta]

LEMMA SecretsElements ==
  ASSUME NEW seed, NEW path, NEW n \in Nat \ {0}, Len(path) = n
  PROVE  /\ IsSeq(SecretsFor(seed, path), n) /\ Len(SecretsFor(seed, path)) = n
         /\ \A i \in 1..n : SecretsFor(seed, path)[i]
                              = SharedSecret(Alphas(FirstAlpha(seed), path)[i], path[i])
         /\ Alphas(FirstAlpha(seed), path)[1] = FirstAlpha(seed)
         /\ \A i \in 1..(n - 1) : Alphas(FirstAlpha(seed), path)[i + 1]
              = Blinded(Alphas(FirstAlpha(seed), path)[i], SecretsFor(seed, path)[i])
<1> DEFINE S == SecretsFor(seed, path)
           A == Alphas(FirstAlpha(seed), path)
<1>1. /\ S = [i \in 1..n |-> SharedSecret(A[i], path[i])]
      /\ A[1] = FirstAlpha(seed)
      /\ \A i \in 1..(n - 1) : A[i + 1] = Blinded(A[i], SharedSecret(A[i], path[i]))
  BY AlphasDefined DEF SecretsFor
<1> HIDE DEF S, A
<1>2. IsSeq(S, n) /\ \A i \in 1..n : S[i] = SharedSecret(A[i], path[i])
  BY <1>1 DEF IsSeq
<1>3. Len(S) = n
  BY <1>2, SeqOfElements
<1>4. \A i \in 1..(n - 1) : A[i + 1] = Blinded(A[i], S[i])
  BY <1>1, <1>2
<1> QED BY <1>1, <1>2, <1>3, <1>4 DEF S, A

LEMMA FillersAreSeqs ==
  ASSUME NEW secrets, NEW n \in 1..MaxPathLength, Len(secrets) = n
  PROVE  \A i \in 0..(n - 1) : IsSeq(Fillers(secrets)[i], 3 * i)
<1> DEFINE F == Fillers(secrets)
           T == {k \in Nat : k <= n - 1 => IsSeq(F[k], 3 * k)}
<1>1. n \in Nat \ {0} /\ MaxPathLength \in Nat
  BY Lengths
<1>2. F[0] = <<>> /\ \A i \in 1..(n - 1) : F[i] = FillerStep(F[i - 1], secrets[i], i)
  BY <1>1, FillersDefined
<1> HIDE DEF F
<1>3. 0 \in T
  BY <1>2, EmptyIsSeq
<1>4. ASSUME NEW k \in Nat, k \in T PROVE k + 1 \in T
  <2> SUFFICES ASSUME k + 1 <= n - 1 PROVE IsSeq(F[k + 1], 3 * (k + 1))
    OBVIOUS
  <2> DEFINE i == k + 1
  <2>1. i \in 1..(MaxPathLength - 1) /\ i \in 1..(n - 1) /\ i - 1 = k /\ IsSeq(F[k], 3 * k)
    BY <1>1, <1>4
  <2> HIDE DEF i
  <2>2. IsFillerStep(FillerStep(F[i - 1], secrets[i], i), F[i - 1], secrets[i], i)
    BY <2>1, FillerStepElements
  <2>3. IsSeq(F[i], 3 * i)
    BY <1>2, <2>1, <2>2 DEF IsFillerStep
  <2> QED BY <2>3 DEF i
<1> HIDE DEF T
<1>5. Nat \subseteq T
  BY <1>3, <1>4, NatSetInduction
<1> QED BY <1>1, <1>5 DEF T, F

BetasAsMeant(B, F, S, n, seed, path, final_info) ==
  /\ \A i \in 1..n : EndsWithFiller(B[i], F[i - 1], i)
  /\ \A i \in 1..(n - 1) : ReadsAsMeant(B[i], path[i + 1], B[i + 1], S[i], S[i + 1])
  /\ \A i \in 1..(n - 1) : IsHopBeta(B[i], path[i + 1], B[i + 1], S[i], S[i + 1])
  /\ IsLastBeta(B[n], seed, final_info, S[n], F[n - 1], n)

(***************************************************************************)
(* Every node reads what it is meant to: the induction goes from the last  *)
(* node, whose routing blocks end with the whole filler, to the first.     *)
(***************************************************************************)
LEMMA BetasReadAsMeant ==
  ASSUME NEW seed, NEW path, NEW final_info, IsSeq(final_info, 2),
         NEW n \in 1..MaxPathLength, Len(path) = n,
         NEW S, IsSeq(S, n)
  PROVE  BetasAsMeant(Betas(seed, path, final_info, S), Fillers(S), S, n, seed, path, final_info)
<1> DEFINE B == Betas(seed, path, final_info, S)
           F == Fillers(S)
           G == {i \in 1..n : EndsWithFiller(B[i], F[i - 1], i)}
<1>1. n \in Nat \ {0} /\ MaxPathLength \in Nat /\ Len(S) = n /\ n \in 1..n
  <2>1. Len(S) = n
    BY SeqOfElements
  <2> QED BY <2>1, Lengths
<1>2. /\ B[n] = LastBeta(seed, path, final_info, S)
      /\ \A i \in 1..(n - 1) : B[i] = HopBeta(path[i + 1], B[i + 1], S[i], S[i + 1])
  BY <1>1, BetasDefined
<1>3. /\ Filler(S) = F[n - 1]
      /\ \A i \in 1..(n - 1) : F[i] = FillerStep(F[i - 1], S[i], i)
  BY <1>1, FillersDefined
<1>4. \A i \in 0..(n - 1) : IsSeq(F[i], 3 * i)
  BY <1>1, FillersAreSeqs
<1> HIDE DEF B, F
<1>5. IsLastBeta(B[n], seed, final_info, S[n], F[n - 1], n)
  <2>1. IsSeq(Filler(S), 3 * (n - 1))
    BY <1>1, <1>3, <1>4
  <2>2. IsLastBeta(LastBeta(seed, path, final_info, S), seed, final_info, S[n], Filler(S), n)
    BY <2>1, LastBetaElements
  <2> QED BY <1>2, <1>3, <2>2
<1>6. n \in G
  BY <1>1, <1>5 DEF IsLastBeta
<1>7. ASSUME NEW i \in 1..(n - 1), i + 1 \in G
      PROVE  i \in G /\ ReadsAsMeant(B[i], path[i + 1], B[i + 1], S[i], S[i + 1])
  <2> DEFINE f == F[i - 1]
             next == B[i + 1]
             key == S[i]
             next_key == S[i + 1]
             beta == B[i]
             address == path[i + 1]
  <2>1. i \in 1..(MaxPathLength - 1) /\ i - 1 \in 0..(n - 1) /\ (i + 1) - 1 = i /\ i \in 1..n
    BY <1>1
  <2>2. IsSeq(f, 3 * (i - 1)) /\ EndsWithFiller(next, FillerStep(f, key, i), i + 1)
    BY <1>3, <1>4, <1>7, <2>1
  <2>3. beta = HopBeta(address, next, key, next_key)
    BY <1>2
  <2> HIDE DEF f, next, key, next_key, beta, address
  <2>4. EndsWithFiller(beta, f, i) /\ ReadsAsMeant(beta, address, next, key, next_key)
    BY <2>1, <2>2, <2>3, FillerStepBack
  <2> QED BY <2>1, <2>4 DEF f, next, key, next_key, beta, address
<1>8. \A i \in 1..n : i \in G
  <2>1. \A i \in 1..(n - 1) : i + 1 \in G => i \in G
    BY <1>7
  <2> HIDE DEF G
  <2> QED BY <1>1, <1>6, <2>1, DownwardInduction
<1>9. \A i \in 1..(n - 1) : ReadsAsMeant(B[i], path[i + 1], B[i + 1], S[i], S[i + 1])
  BY <1>1, <1>7, <1>8
<1>10. ASSUME NEW i \in 1..(n - 1)
       PROVE  IsHopBeta(B[i], path[i + 1], B[i + 1], S[i], S[i + 1])
  <2>1. i + 1 \in 1..n
    BY <1>1
  <2>2. IsSeq(B[i + 1], HeaderLength)
    BY <1>8, <2>1 DEF EndsWithFiller
  <2> QED BY <1>2, <2>2, HopBetaElements
<1> QED BY <1>5, <1>8, <1>9, <1>10 DEF BetasAsMeant, B, F

-------------------------------------------------------------------------------
(***************************************************************************)
(* The group elements on a path grow: every node multiplies its own with   *)
(* a scalar hashed from it, which is in none of the elements before.       *)
(***************************************************************************)
HashedScalar(alpha, secret) == <<"h_b", alpha, secret>>
KeyScalar(n) == PrivateKey(n)

LEMMA ScalarsDiffer ==
  /\ \A seed, alpha, secret : HashedScalar(alpha, secret) # <<"secret", seed>>
  /\ \A n, seed : KeyScalar(n) # <<"secret", seed>>
  /\ \A n, alpha, secret : KeyScalar(n) # HashedScalar(alpha, secret)
  /\ \A n, m : KeyScalar(n) = KeyScalar(m) => n = m
  /\ \A a, b, c, d : HashedScalar(a, b) = HashedScalar(c, d) => a = c
<1>1. ASSUME NEW seed, NEW alpha, NEW secret PROVE HashedScalar(alpha, secret) # <<"secret", seed>>
  <2>1. HashedScalar(alpha, secret)[1] = "h_b" /\ <<"secret", seed>>[1] = "secret"
    BY DEF HashedScalar
  <2> QED BY <2>1
<1>2. ASSUME NEW n, NEW seed PROVE KeyScalar(n) # <<"secret", seed>>
  <2>1. KeyScalar(n)[1] = "key" /\ <<"secret", seed>>[1] = "secret"
    BY DEF KeyScalar, PrivateKey
  <2> QED BY <2>1
<1>3. ASSUME NEW n, NEW alpha, NEW secret PROVE KeyScalar(n) # HashedScalar(alpha, secret)
  <2>1. KeyScalar(n)[1] = "key" /\ HashedScalar(alpha, secret)[1] = "h_b"
    BY DEF KeyScalar, PrivateKey, HashedScalar
  <2> QED BY <2>1
<1>4. \A n, m : KeyScalar(n) = KeyScalar(m) => n = m
  BY DEF KeyScalar, PrivateKey
<1>5. \A a, b, c, d : HashedScalar(a, b) = HashedScalar(c, d) => a = c
  BY DEF HashedScalar
<1> QED BY <1>1, <1>2, <1>3, <1>4, <1>5

AlphaGrown(A, S, seed, i) ==
  /\ \A e \in A[i] : e = <<"secret", seed>> \/ \E j \in 1..(i - 1) : e = HashedScalar(A[j], S[j])
  /\ \A j \in 1..(i - 1) : A[j] \subseteq A[i] /\ A[j] # A[i]

LEMMA AlphaGrowsOnce ==
  ASSUME NEW A, NEW S, NEW seed, NEW i \in Nat \ {0}, AlphaGrown(A, S, seed, i),
         A[i + 1] = Blinded(A[i], S[i])
  PROVE  AlphaGrown(A, S, seed, i + 1)
<1> DEFINE x == HashedScalar(A[i], S[i])
<1>1. A[i + 1] = A[i] \cup {x}
  BY DEF Blinded, Multiply, HashedScalar
<1>2. x \notin A[i]
  <2> SUFFICES ASSUME x \in A[i] PROVE FALSE
    OBVIOUS
  <2>1. CASE x = <<"secret", seed>>
    BY <2>1, ScalarsDiffer
  <2>2. CASE \E j \in 1..(i - 1) : x = HashedScalar(A[j], S[j])
    <3>1. PICK j \in 1..(i - 1) : x = HashedScalar(A[j], S[j])
      BY <2>2
    <3>2. A[i] = A[j]
      BY <3>1, ScalarsDiffer
    <3> QED BY <3>2 DEF AlphaGrown
  <2> QED BY <2>1, <2>2 DEF AlphaGrown
<1> HIDE DEF x
<1>3. ASSUME NEW e \in A[i + 1]
      PROVE  e = <<"secret", seed>> \/ \E j \in 1..((i + 1) - 1) : e = HashedScalar(A[j], S[j])
  <2>1. CASE e \in A[i]
    <3>1. \A j \in 1..(i - 1) : j \in 1..((i + 1) - 1)
      OBVIOUS
    <3> QED BY <2>1, <3>1 DEF AlphaGrown
  <2>2. CASE e = x
    <3>1. i \in 1..((i + 1) - 1)
      OBVIOUS
    <3> QED BY <2>2, <3>1 DEF x
  <2> QED BY <1>1, <2>1, <2>2
<1>4. ASSUME NEW j \in 1..((i + 1) - 1) PROVE A[j] \subseteq A[i + 1] /\ A[j] # A[i + 1]
  <2>1. CASE j = i
    BY <1>1, <1>2, <2>1
  <2>2. CASE j \in 1..(i - 1)
    <3>1. A[j] \subseteq A[i] /\ A[j] # A[i]
      BY <2>2 DEF AlphaGrown
    <3> QED BY <1>1, <3>1
  <2> QED BY <2>1, <2>2
<1> QED BY <1>3, <1>4 DEF AlphaGrown

LEMMA AlphasGrow ==
  ASSUME NEW seed, NEW path, NEW n \in Nat \ {0}, Len(path) = n, NEW i \in 1..n
  PROVE  AlphaGrown(Alphas(FirstAlpha(seed), path), SecretsFor(seed, path), seed, i)
<1> DEFINE A == Alphas(FirstAlpha(seed), path)
           S == SecretsFor(seed, path)
           T == {k \in Nat : k + 1 <= n => AlphaGrown(A, S, seed, k + 1)}
<1>1. A[1] = FirstAlpha(seed) /\ \A j \in 1..(n - 1) : A[j + 1] = Blinded(A[j], S[j])
  BY SecretsElements
<1> HIDE DEF A, S
<1>2. 0 \in T
  <2>1. A[1] = {<<"secret", seed>>}
    BY <1>1 DEF FirstAlpha, Multiply, Generator
  <2>2. AlphaGrown(A, S, seed, 1)
    BY <2>1 DEF AlphaGrown
  <2>3. 0 + 1 = 1
    OBVIOUS
  <2> QED BY <2>2, <2>3
<1>3. ASSUME NEW k \in Nat, k \in T PROVE k + 1 \in T
  <2> SUFFICES ASSUME (k + 1) + 1 <= n PROVE AlphaGrown(A, S, seed, (k + 1) + 1)
    OBVIOUS
  <2> DEFINE j == k + 1
  <2>1. j \in 1..(n - 1) /\ j \in Nat \ {0} /\ AlphaGrown(A, S, seed, j)
    BY <1>3
  <2> HIDE DEF j
  <2>2. AlphaGrown(A, S, seed, j + 1)
    BY <1>1, <2>1, AlphaGrowsOnce
  <2> QED BY <2>2 DEF j
<1> HIDE DEF T
<1>4. Nat \subseteq T
  BY <1>2, <1>3, NatSetInduction
<1>5. i - 1 \in T /\ (i - 1) + 1 = i
  BY <1>4
<1> QED BY <1>5 DEF T, A, S

(***************************************************************************)
(* No two nodes of a path are given the same group element or share the    *)
(* same secret with the sender, and a node that is not on it at this place *)
(* computes another secret, also if a path visits a node twice.            *)
(***************************************************************************)
SecretsApart(A, S, path, n) ==
  /\ \A i, j \in 1..n : i # j => A[i] # A[j] /\ S[i] # S[j]
  /\ \A i \in 1..n : \A m : m # path[i] => SharedSecret(A[i], m) # S[i]

LEMMA SecretsDiffer ==
  ASSUME NEW seed, NEW path, NEW n \in Nat \ {0}, Len(path) = n
  PROVE  SecretsApart(Alphas(FirstAlpha(seed), path), SecretsFor(seed, path), path, n)
<1> DEFINE A == Alphas(FirstAlpha(seed), path)
           S == SecretsFor(seed, path)
<1>1. \A i \in 1..n : AlphaGrown(A, S, seed, i)
  BY AlphasGrow
<1>2. \A i \in 1..n : S[i] = SharedSecret(A[i], path[i])
  BY SecretsElements
<1> HIDE DEF A, S
<1>3. ASSUME NEW i \in 1..n, NEW m PROVE KeyScalar(m) \notin A[i]
  BY <1>1, ScalarsDiffer DEF AlphaGrown
<1>4. \A i \in 1..n : \A m : SharedSecret(A[i], m) = A[i] \cup {KeyScalar(m)}
  BY DEF SharedSecret, Multiply, KeyScalar
<1>5. ASSUME NEW i \in 1..n, NEW j \in 1..n, i # j PROVE A[i] # A[j]
  <2>1. i \in 1..(j - 1) \/ j \in 1..(i - 1)
    BY <1>5
  <2> QED BY <1>1, <2>1 DEF AlphaGrown
<1>6. ASSUME NEW i \in 1..n, NEW j \in 1..n, S[i] = S[j] PROVE A[i] \subseteq A[j]
  <2>1. S[i] = A[i] \cup {KeyScalar(path[i])} /\ S[j] = A[j] \cup {KeyScalar(path[j])}
    BY <1>2, <1>4
  <2>2. KeyScalar(path[j]) \notin A[i]
    BY <1>3
  <2> QED BY <1>6, <2>1, <2>2
<1>7. ASSUME NEW i \in 1..n, NEW m, m # path[i] PROVE SharedSecret(A[i], m) # S[i]
  <2>1. KeyScalar(m) \in SharedSecret(A[i], m)
    BY <1>4
  <2>2. KeyScalar(m) \notin S[i]
    BY <1>2, <1>3, <1>4, <1>7, ScalarsDiffer
  <2> QED BY <2>1, <2>2
<1>8. ASSUME NEW i \in 1..n, NEW j \in 1..n, S[i] = S[j] PROVE A[i] = A[j]
  <2>1. A[i] \subseteq A[j]
    BY <1>6, <1>8
  <2>2. A[j] \subseteq A[i]
    BY <1>6, <1>8
  <2> QED BY <2>1, <2>2
<1>9. SecretsApart(A, S, path, n)
  BY <1>5, <1>7, <1>8 DEF SecretsApart
<1> QED BY <1>9 DEF A, S

-------------------------------------------------------------------------------
(***************************************************************************)
(* What process() makes of the onion that the i-th node is meant to get:   *)
(* the onion for the next node, or what the last node is told; whatever    *)
(* the payload, from which it takes off a layer.  Every other node finds   *)
(* that the MAC is wrong.                                                  *)
(***************************************************************************)
LastOutcome(final_info, data) ==
  IF final_info[1] = Flag("Fragment") THEN Fragment(final_info[2], data)
  ELSE IF final_info[1] = Flag("Deliver") THEN Reply(final_info[2], data)
  ELSE InvalidHeaderFlag

ProcessedAsMeant(seed, path, final_info, n) ==
  \A delta : \A i \in 1..n :
    /\ Process(path[i], MeantOnion(seed, path, final_info, i, delta)) =
         IF i < n
         THEN Relay(Address(path[i + 1]),
                    MeantOnion(seed, path, final_info, i + 1, PiInv(SecretsFor(seed, path)[i], delta)))
         ELSE LastOutcome(final_info, PiInv(SecretsFor(seed, path)[i], delta))
    /\ \A m : m # path[i] => Process(m, MeantOnion(seed, path, final_info, i, delta)) = MacMismatch
    /\ IsSeq(MeantOnion(seed, path, final_info, i, delta).beta, HeaderLength)

(***************************************************************************)
(* wrap() makes the onion that the first node is meant to get, and         *)
(* process() at one node of the path after the other makes of it the onion *)
(* meant for the next; nobody else gets past its MAC, and its size never   *)
(* changes. For every path up to the maximum and every payload.            *)
(***************************************************************************)
THEOREM OnionPeels ==
  ASSUME NEW seed, NEW path, NEW n \in 1..MaxPathLength, Len(path) = n,
         NEW final_info, IsSeq(final_info, 2), final_info[1] # Flag("Relay")
  PROVE  /\ ProcessedAsMeant(seed, path, final_info, n)
         /\ \A d : Wrap(seed, path, final_info, d).onion
                     = MeantOnion(seed, path, final_info, 1, Layered(SecretsFor(seed, path), d))
         /\ \A d : Wrap(seed, path, final_info, d).secrets = SecretsFor(seed, path)
<1> DEFINE A == Alphas(FirstAlpha(seed), path)
           S == SecretsFor(seed, path)
           B == BetasFor(seed, path, final_info)
           F == Fillers(S)
<1>1. n \in Nat \ {0}
  BY Lengths
<1>2. /\ IsSeq(S, n) /\ \A i \in 1..n : S[i] = SharedSecret(A[i], path[i])
      /\ A[1] = FirstAlpha(seed) /\ \A i \in 1..(n - 1) : A[i + 1] = Blinded(A[i], S[i])
  BY <1>1, SecretsElements
<1>3. BetasAsMeant(B, F, S, n, seed, path, final_info)
  <2>1. IsSeq(S, n)
    BY <1>2
  <2> HIDE DEF S
  <2>2. BetasAsMeant(Betas(seed, path, final_info, S), Fillers(S), S, n, seed, path, final_info)
    BY <2>1, BetasReadAsMeant
  <2> QED BY <2>2 DEF S, BetasFor
<1>4. SecretsApart(A, S, path, n)
  BY <1>1, SecretsDiffer
<1>5. \A i, delta : MeantOnion(seed, path, final_info, i, delta)
                      = [alpha |-> A[i], beta |-> B[i], gamma |-> Mac(S[i], B[i]), delta |-> delta]
  BY DEF MeantOnion
<1>6. ASSUME NEW d
      PROVE  /\ Wrap(seed, path, final_info, d).onion
                  = MeantOnion(seed, path, final_info, 1, Layered(S, d))
             /\ Wrap(seed, path, final_info, d).secrets = S
  BY <1>2 DEF Wrap, MeantOnion, FirstAlpha, SecretsFor, BetasFor
<1> HIDE DEF A, S, B, F
<1>7. ASSUME NEW i \in 1..n, NEW m, m # path[i], NEW delta
      PROVE  Process(m, [alpha |-> A[i], beta |-> B[i], gamma |-> Mac(S[i], B[i]), delta |-> delta]) = MacMismatch
  <2> DEFINE o == [alpha |-> A[i], beta |-> B[i], gamma |-> Mac(S[i], B[i]), delta |-> delta]
             secret == SharedSecret(o.alpha, m)
  <2>1. o.alpha = A[i] /\ o.beta = B[i] /\ o.gamma = Mac(S[i], B[i])
    OBVIOUS
  <2>2. secret # S[i]
    BY <1>4, <1>7, <2>1 DEF SecretsApart
  <2>3. Mac(secret, B[i]) # Mac(S[i], B[i])
    <3>1. <<"mac", secret, B[i]>> # <<"mac", S[i], B[i]>>
      BY <2>2
    <3> QED BY <3>1 DEF Mac
  <2> HIDE DEF o
  <2>4. ~Verifies(secret, o)
    BY <2>1, <2>3 DEF Verifies
  <2>5. Process(m, o) = MacMismatch
    BY <2>4 DEF Process
  <2> QED BY <2>5 DEF o
<1>8. ASSUME NEW i \in 1..(n - 1), NEW delta
      PROVE  Process(path[i], [alpha |-> A[i], beta |-> B[i], gamma |-> Mac(S[i], B[i]), delta |-> delta])
               = Relay(Address(path[i + 1]),
                       [alpha |-> A[i + 1], beta |-> B[i + 1], gamma |-> Mac(S[i + 1], B[i + 1]),
                        delta |-> PiInv(S[i], delta)])
  <2> DEFINE o == [alpha |-> A[i], beta |-> B[i], gamma |-> Mac(S[i], B[i]), delta |-> delta]
             secret == SharedSecret(o.alpha, path[i])
             routing == Routing(o.beta, secret)
  <2>1. o.alpha = A[i] /\ o.beta = B[i] /\ o.gamma = Mac(S[i], B[i]) /\ o.delta = delta
    OBVIOUS
  <2>2. secret = S[i] /\ A[i + 1] = Blinded(A[i], S[i]) /\ i \in 1..n
    BY <1>2, <2>1
  <2>3. routing = Routing(B[i], S[i])
    BY <2>1, <2>2
  <2> HIDE DEF o, secret, routing
  <2>4. /\ routing[1] = Flag("Relay") /\ routing[2] = Address(path[i + 1])
        /\ routing[3] = Mac(S[i + 1], B[i + 1]) /\ Drop(routing, HopBlocks) = B[i + 1]
    BY <1>3, <2>3 DEF BetasAsMeant, ReadsAsMeant
  <2>5. Verifies(secret, o)
    BY <2>1, <2>2 DEF Verifies
  <2>6. Process(path[i], o) = Relay(routing[2], [alpha |-> Blinded(o.alpha, secret),
                                                 beta  |-> Drop(routing, HopBlocks),
                                                 gamma |-> routing[3],
                                                 delta |-> PiInv(secret, o.delta)])
    BY <2>4, <2>5 DEF Process, secret, routing
  <2> QED BY <2>1, <2>2, <2>4, <2>6 DEF o
<1>9. ASSUME NEW delta
      PROVE  Process(path[n], [alpha |-> A[n], beta |-> B[n], gamma |-> Mac(S[n], B[n]), delta |-> delta])
               = LastOutcome(final_info, PiInv(S[n], delta))
  <2> DEFINE o == [alpha |-> A[n], beta |-> B[n], gamma |-> Mac(S[n], B[n]), delta |-> delta]
             secret == SharedSecret(o.alpha, path[n])
             routing == Routing(o.beta, secret)
  <2>1. o.alpha = A[n] /\ o.beta = B[n] /\ o.gamma = Mac(S[n], B[n]) /\ o.delta = delta
    OBVIOUS
  <2>2. secret = S[n]
    BY <1>1, <1>2, <2>1
  <2>3. routing = Routing(B[n], S[n])
    BY <2>1, <2>2
  <2> HIDE DEF o, secret, routing
  <2>4. routing[1] = final_info[1] /\ routing[2] = final_info[2]
    BY <1>3, <2>3 DEF BetasAsMeant, IsLastBeta
  <2>5. Verifies(secret, o)
    BY <2>1, <2>2 DEF Verifies
  <2>6. Process(path[n], o) = LastOutcome(final_info, PiInv(secret, o.delta))
    BY <2>4, <2>5 DEF Process, LastOutcome, secret, routing
  <2> QED BY <2>1, <2>2, <2>6 DEF o
<1>10. \A i \in 1..n : IsSeq(B[i], HeaderLength)
  BY <1>3 DEF BetasAsMeant, EndsWithFiller
<1>11. ASSUME NEW delta, NEW i \in 1..n
       PROVE  /\ Process(path[i], MeantOnion(seed, path, final_info, i, delta)) =
                   IF i < n THEN Relay(Address(path[i + 1]), MeantOnion(seed, path, final_info, i + 1, PiInv(S[i], delta)))
                   ELSE LastOutcome(final_info, PiInv(S[i], delta))
              /\ \A m : m # path[i] => Process(m, MeantOnion(seed, path, final_info, i, delta)) = MacMismatch
              /\ IsSeq(MeantOnion(seed, path, final_info, i, delta).beta, HeaderLength)
  <2>1. IsSeq(MeantOnion(seed, path, final_info, i, delta).beta, HeaderLength)
    BY <1>5, <1>10
  <2>2. CASE i < n
    <3>1. i \in 1..(n - 1)
      BY <2>2
    <3> QED BY <1>5, <1>7, <1>8, <2>1, <2>2, <3>1
  <2>3. CASE i = n
    BY <1>5, <1>7, <1>9, <2>1, <2>3
  <2> QED BY <1>1, <2>2, <2>3
<1>12. ProcessedAsMeant(seed, path, final_info, n)
  BY <1>11 DEF ProcessedAsMeant, S
<1> QED BY <1>6, <1>12 DEF S

-------------------------------------------------------------------------------
(***************************************************************************)
(* A payload with the first m of the layers that the keys make.            *)
(***************************************************************************)
Coated(text, tag, keys, m) == [text |-> text, layers |-> [j \in 1..m |-> <<tag, keys[j]>>]]

IsNextLayer(text, tag, other, keys, m, key) ==
  /\ Turn(Coated(text, tag, keys, m), <<tag, key>>, <<other, key>>) = Coated(text, tag, keys, m + 1)
  /\ Turn(Coated(text, tag, keys, m + 1), <<other, key>>, <<tag, key>>) = Coated(text, tag, keys, m)

LEMMA OneMoreLayer ==
  ASSUME NEW text, NEW tag, NEW other, tag # other, NEW keys, NEW m \in Nat, NEW key, key = keys[m + 1]
  PROVE  IsNextLayer(text, tag, other, keys, m, key)
<1> DEFINE s == [j \in 1..m |-> <<tag, keys[j]>>]
           t == [j \in 1..(m + 1) |-> <<tag, keys[j]>>]
           layer == <<tag, key>>
           undone == <<other, key>>
           d == Coated(text, tag, keys, m)
           e == Coated(text, tag, keys, m + 1)
           turned == Turn(d, layer, undone)
           E == {<<tag, keys[j]>> : j \in 1..(m + 1)}
<1>1. d = [text |-> text, layers |-> s] /\ e = [text |-> text, layers |-> t]
  BY DEF Coated
<1>2. s \in [1..m -> E] /\ layer \in E /\ (\A j \in 1..m : s[j] = <<tag, keys[j]>>)
      /\ t = [j \in 1..(m + 1) |-> t[j]] /\ (\A j \in 1..(m + 1) : t[j] = <<tag, keys[j]>>)
      /\ layer = <<tag, keys[m + 1]>>
  <2>1. s \in [1..m -> E]
    OBVIOUS
  <2>2. layer \in E
    <3>1. m + 1 \in 1..(m + 1)
      OBVIOUS
    <3> QED BY <3>1
  <2> QED BY <2>1, <2>2
<1>3. undone # layer /\ \A j \in 1..m : undone # <<tag, keys[j]>>
  OBVIOUS
<1> HIDE DEF s, t, layer, undone, d, e, E
<1>4. s \in Seq(E) /\ IsSeq(s, m)
  BY <1>2, SeqDef DEF IsSeq
<1>5. Len(s) = m
  BY <1>4, SeqOfElements
<1>6. /\ Append(s, layer) \in Seq(E) /\ Len(Append(s, layer)) = m + 1 /\ Append(s, layer)[m + 1] = layer
      /\ \A j \in 1..m : Append(s, layer)[j] = s[j]
  BY <1>2, <1>4, <1>5, AppendProperties
<1>7. Append(s, layer) = t
  <2> DEFINE a == Append(s, layer)
             k == m + 1
  <2>1. IsSeq(a, k)
    BY <1>6, SeqIsSeq
  <2>2. IsSeq(t, k)
    BY <1>2 DEF IsSeq
  <2>3. ASSUME NEW j \in 1..k PROVE a[j] = t[j]
    <3>1. j \in 1..m \/ j = m + 1
      OBVIOUS
    <3> QED BY <1>2, <1>6, <3>1
  <2> HIDE DEF a, k
  <2>4. a = t
    BY <2>1, <2>2, <2>3, SameElements
  <2> QED BY <2>4 DEF a
<1>8. turned = e
  <2>1. ~(d.layers # <<>> /\ d.layers[Len(d.layers)] = undone)
    <3> SUFFICES ASSUME s # <<>>, s[m] = undone PROVE FALSE
      BY <1>1, <1>5
    <3>1. m \in 1..m
      BY <1>4, <1>5, EmptySeq
    <3> QED BY <1>2, <1>3, <3>1
  <2>2. turned = [d EXCEPT !.layers = t]
    BY <1>1, <1>7, <2>1 DEF Turn
  <2> QED BY <1>1, <2>2
<1>9. Covered(d, tag, text)
  <2>1. d.layers = s /\ d = [text |-> text, layers |-> d.layers]
    BY <1>1
  <2>2. \A j \in 1..m : \E k : s[j] = <<tag, k>>
    BY <1>2
  <2> QED BY <1>4, <2>1, <2>2 DEF Covered
<1> HIDE DEF turned
<1>10. IsTurned(turned, d, tag, other, key, text)
  BY <1>9, TurnsBack DEF turned, layer, undone
<1> QED BY <1>8, <1>10 DEF IsTurned, turned, d, e, layer, undone, IsNextLayer

(***************************************************************************)
(* The payload that the i-th node of a path gets of a fragment, on which   *)
(* the sender has put all layers, the first node's last, and of a reply,   *)
(* from which every node before has taken a layer that was not there.      *)
(***************************************************************************)
Backwards(secrets) == [j \in 1..Len(secrets) |-> secrets[Len(secrets) + 1 - j]]

FragmentDelta(text, secrets, i) ==
  IF text = <<>> THEN Payload(text) ELSE Coated(text, "enc", Backwards(secrets), Len(secrets) + 1 - i)

ReplyDelta(text, secrets, i) ==
  IF text = <<>> THEN Payload(text) ELSE Coated(text, "dec", secrets, i - 1)

LEMMA NoLayers ==
  ASSUME NEW text, NEW tag, NEW keys
  PROVE  Coated(text, tag, keys, 0) = Payload(text)
<1> DEFINE s == [j \in 1..0 |-> <<tag, keys[j]>>]
<1>1. IsSeq(s, 0)
  BY DEF IsSeq
<1>2. s = <<>>
  <2>1. \A i \in 1..0 : s[i] = <<>>[i]
    OBVIOUS
  <2> HIDE DEF s
  <2> QED BY <1>1, <2>1, EmptyIsSeq, SameElements
<1> QED BY <1>2 DEF Coated, Payload

LEMMA FragmentLayer ==
  ASSUME NEW text, NEW secrets, NEW n \in Nat \ {0}, Len(secrets) = n, NEW i \in 1..n
  PROVE  /\ Pi(secrets[i], FragmentDelta(text, secrets, i + 1)) = FragmentDelta(text, secrets, i)
         /\ PiInv(secrets[i], FragmentDelta(text, secrets, i)) = FragmentDelta(text, secrets, i + 1)
<1>1. CASE text = <<>>
  BY <1>1 DEF FragmentDelta, Pi, PiInv, Payload
<1>2. CASE text # <<>>
  <2> DEFINE keys == Backwards(secrets)
             m == n - i
             d == Coated(text, "enc", keys, m)
             e == Coated(text, "enc", keys, m + 1)
             key == secrets[i]
  <2>1. m \in Nat /\ m + 1 = n + 1 - i /\ m = n + 1 - (i + 1) /\ m + 1 \in 1..n /\ n + 1 - (m + 1) = i
    OBVIOUS
  <2>2. key = keys[m + 1]
    BY <2>1 DEF Backwards
  <2>3. FragmentDelta(text, secrets, i + 1) = d /\ FragmentDelta(text, secrets, i) = e
    BY <1>2, <2>1 DEF FragmentDelta
  <2>4. d.text = text /\ e.text = text
    BY DEF Coated
  <2> HIDE DEF keys, m, key
  <2>5. PICK tag, other : tag = "enc" /\ other = "dec"
    OBVIOUS
  <2>6. IsNextLayer(text, tag, other, keys, m, key)
    <3>1. tag # other
      BY <2>5
    <3> QED BY <2>1, <2>2, <3>1, OneMoreLayer
  <2>7. Encrypt(key, d) = e /\ Decrypt(key, e) = d
    BY <2>5, <2>6 DEF Encrypt, Decrypt, IsNextLayer
  <2> HIDE DEF d, e
  <2>8. Pi(key, d) = e /\ PiInv(key, e) = d
    BY <1>2, <2>4, <2>7 DEF Pi, PiInv
  <2> QED BY <2>3, <2>8 DEF key
<1> QED BY <1>1, <1>2

LEMMA ReplyLayer ==
  ASSUME NEW text, NEW secrets, NEW i \in Nat \ {0}
  PROVE  /\ PiInv(secrets[i], ReplyDelta(text, secrets, i)) = ReplyDelta(text, secrets, i + 1)
         /\ Pi(secrets[i], ReplyDelta(text, secrets, i + 1)) = ReplyDelta(text, secrets, i)
<1>1. CASE text = <<>>
  BY <1>1 DEF ReplyDelta, Pi, PiInv, Payload
<1>2. CASE text # <<>>
  <2> DEFINE m == i - 1
             d == Coated(text, "dec", secrets, m)
             e == Coated(text, "dec", secrets, m + 1)
             key == secrets[i]
  <2>1. m \in Nat /\ m + 1 = i /\ m + 1 = (i + 1) - 1
    OBVIOUS
  <2>2. key = secrets[m + 1]
    BY <2>1
  <2>3. ReplyDelta(text, secrets, i) = d /\ ReplyDelta(text, secrets, i + 1) = e
    BY <1>2, <2>1 DEF ReplyDelta
  <2>4. d.text = text /\ e.text = text
    BY DEF Coated
  <2> HIDE DEF m, key
  <2>5. PICK tag, other : tag = "dec" /\ other = "enc"
    OBVIOUS
  <2>6. IsNextLayer(text, tag, other, secrets, m, key)
    <3>1. tag # other
      BY <2>5
    <3> QED BY <2>1, <2>2, <3>1, OneMoreLayer
  <2>7. Decrypt(key, d) = e /\ Encrypt(key, e) = d
    BY <2>5, <2>6 DEF Encrypt, Decrypt, IsNextLayer
  <2> HIDE DEF d, e
  <2>8. PiInv(key, d) = e /\ Pi(key, e) = d
    BY <1>2, <2>4, <2>7 DEF Pi, PiInv
  <2> QED BY <2>3, <2>8 DEF key
<1> QED BY <1>1, <1>2

(***************************************************************************)
(* What wrap() puts on a fragment, all nodes together take off; and what   *)
(* all nodes together take off a reply, unwrap_reply() puts on again.      *)
(***************************************************************************)
THEOREM LayersComeOff ==
  ASSUME NEW text, NEW secrets, NEW n \in Nat \ {0}, Len(secrets) = n
  PROVE  /\ Layered(secrets, Payload(text)) = FragmentDelta(text, secrets, 1)
         /\ FragmentDelta(text, secrets, n + 1) = Payload(text)
         /\ ReplyDelta(text, secrets, 1) = Payload(text)
         /\ UnwrapReply(secrets, ReplyDelta(text, secrets, n + 1)) = Payload(text)
<1> DEFINE c == n + 1
<1>1. FragmentDelta(text, secrets, c) = Payload(text)
  <2>1. n + 1 - (n + 1) = 0
    OBVIOUS
  <2> QED BY <2>1, NoLayers DEF FragmentDelta
<1>2. ReplyDelta(text, secrets, 1) = Payload(text)
  BY NoLayers DEF ReplyDelta
<1>3. Layered(secrets, Payload(text)) = FragmentDelta(text, secrets, 1)
  <2> DEFINE P == Deltas(secrets, Payload(text))
             G == {i \in 1..c : P[i] = FragmentDelta(text, secrets, i)}
  <2>1. /\ Layered(secrets, Payload(text)) = P[1] /\ P[c] = Payload(text)
        /\ \A i \in 1..n : P[i] = Pi(secrets[i], P[i + 1])
    BY DeltasDefined
  <2> HIDE DEF P
  <2>2. c \in Nat /\ c \in G /\ 1 \in 1..c /\ c - 1 = n
    BY <1>1, <2>1
  <2>3. ASSUME NEW i \in 1..n, i + 1 \in G PROVE i \in G
    <3>1. P[i] = Pi(secrets[i], FragmentDelta(text, secrets, i + 1))
      BY <2>1, <2>3
    <3>2. i \in 1..c
      OBVIOUS
    <3> QED BY <3>1, <3>2, FragmentLayer
  <2> HIDE DEF G, c
  <2>4. \A i \in 1..c : i \in G
    BY <2>2, <2>3, DownwardInduction
  <2> QED BY <2>1, <2>2, <2>4 DEF G
<1>4. UnwrapReply(secrets, ReplyDelta(text, secrets, c)) = Payload(text)
  <2> DEFINE d == ReplyDelta(text, secrets, c)
             P == Deltas(secrets, d)
             G == {i \in 1..c : P[i] = ReplyDelta(text, secrets, i)}
  <2>1. /\ Layered(secrets, d) = P[1] /\ P[c] = d
        /\ \A i \in 1..n : P[i] = Pi(secrets[i], P[i + 1])
    BY DeltasDefined
  <2> HIDE DEF P
  <2>2. c \in Nat /\ c \in G /\ 1 \in 1..c /\ c - 1 = n
    BY <2>1
  <2>3. ASSUME NEW i \in 1..n, i + 1 \in G PROVE i \in G
    <3>1. P[i] = Pi(secrets[i], ReplyDelta(text, secrets, i + 1))
      BY <2>1, <2>3
    <3>2. i \in 1..c /\ i \in Nat \ {0}
      OBVIOUS
    <3> QED BY <3>1, <3>2, ReplyLayer
  <2> HIDE DEF G, c, d
  <2>4. \A i \in 1..c : i \in G
    BY <2>2, <2>3, DownwardInduction
  <2>5. P[1] = Payload(text)
    BY <1>2, <2>2, <2>4 DEF G
  <2> QED BY <2>1, <2>5 DEF UnwrapReply, d
<1> QED BY <1>1, <1>2, <1>3, <1>4

-------------------------------------------------------------------------------
(***************************************************************************)
(* Which pieces of the nodes' key streams a block contains.  Two blocks    *)
(* that contain different ones differ.                                     *)
(***************************************************************************)
Stream(secret, m) == <<"stream", secret, m>>

LEMMA OtherAtoms ==
  /\ \A s, t, m, l : Stream(s, m) = Stream(t, l) <=> s = t /\ m = l
  /\ \A s, m, f : Stream(s, m) \notin Flag(f)
  /\ \A s, m, n : Stream(s, m) \notin Address(n)
  /\ \A s, m, key, blocks : Stream(s, m) \notin Mac(key, blocks)
  /\ \A s, m, seed, j : Stream(s, m) \notin {<<"padding", seed, j>>}
<1>1. \A s, t, m, l : Stream(s, m) = Stream(t, l) <=> s = t /\ m = l
  BY DEF Stream
<1>2. ASSUME NEW s, NEW m, NEW f PROVE Stream(s, m) \notin Flag(f)
  <2>1. Stream(s, m)[1] = "stream" /\ <<"flag", f>>[1] = "flag"
    BY DEF Stream
  <2> QED BY <2>1 DEF Flag
<1>3. ASSUME NEW s, NEW m, NEW n PROVE Stream(s, m) \notin Address(n)
  <2>1. Stream(s, m)[1] = "stream" /\ <<"address", n>>[1] = "address"
    BY DEF Stream
  <2> QED BY <2>1 DEF Address
<1>4. ASSUME NEW s, NEW m, NEW key, NEW blocks PROVE Stream(s, m) \notin Mac(key, blocks)
  <2>1. Stream(s, m)[1] = "stream" /\ <<"mac", key, blocks>>[1] = "mac"
    BY DEF Stream
  <2> QED BY <2>1 DEF Mac
<1>5. ASSUME NEW s, NEW m, NEW seed, NEW j PROVE Stream(s, m) \notin {<<"padding", seed, j>>}
  <2>1. Stream(s, m)[1] = "stream" /\ <<"padding", seed, j>>[1] = "padding"
    BY DEF Stream
  <2> QED BY <2>1
<1> QED BY <1>1, <1>2, <1>3, <1>4, <1>5

LEMMA XorStream ==
  ASSUME NEW a, NEW b, NEW secret, NEW m, b = SymDiff(a, {Stream(secret, m)}),
         NEW s, NEW l
  PROVE  IF s = secret /\ l = m THEN Stream(s, l) \in b <=> Stream(s, l) \notin a
         ELSE Stream(s, l) \in b <=> Stream(s, l) \in a
BY OtherAtoms DEF SymDiff

(***************************************************************************)
(* The i-th filler contains, at its place, one piece of the key stream of  *)
(* the i-th node, and none of the nodes behind it.                         *)
(***************************************************************************)
FillerStreams(f, S, n, i) ==
  \A j \in 1..(3 * i) : \A m :
    /\ \A k \in (i + 1)..n : Stream(S[k], m) \notin f[j]
    /\ i >= 1 => (Stream(S[i], m) \in f[j] <=> m = (HeaderLength - 3 * (i - 1)) + j)

LEMMA FillersStream ==
  ASSUME NEW S, NEW n \in 1..MaxPathLength, IsSeq(S, n), \A i, j \in 1..n : i # j => S[i] # S[j]
  PROVE  \A i \in 0..(n - 1) : FillerStreams(Fillers(S)[i], S, n, i)
<1> DEFINE F == Fillers(S)
           T == {k \in Nat : k <= n - 1 => FillerStreams(F[k], S, n, k)}
<1>1. n \in Nat \ {0} /\ MaxPathLength \in Nat
  BY Lengths
<1>2. Len(S) = n
  BY SeqOfElements
<1>3. \A i \in 1..(n - 1) : F[i] = FillerStep(F[i - 1], S[i], i)
  BY <1>1, <1>2, FillersDefined
<1>4. \A i \in 0..(n - 1) : IsSeq(F[i], 3 * i)
  BY <1>2, FillersAreSeqs
<1> HIDE DEF F
<1>5. 0 \in T
  BY DEF FillerStreams
<1>6. ASSUME NEW k \in Nat, k \in T PROVE k + 1 \in T
  <2> SUFFICES ASSUME k + 1 <= n - 1 PROVE FillerStreams(F[k + 1], S, n, k + 1)
    OBVIOUS
  <2> DEFINE i == k + 1
             h(j) == (HeaderLength - 3 * (i - 1)) + j
  <2>1. /\ i \in 1..(MaxPathLength - 1) /\ i \in 1..(n - 1) /\ i - 1 = k /\ i \in 1..n /\ i \in (k + 1)..n
        /\ i \in Nat /\ i >= 1 /\ FillerStreams(F[k], S, n, k) /\ IsSeq(F[k], 3 * k)
        /\ \A l \in (i + 1)..n : l \in (k + 1)..n /\ l # i /\ l \in 1..n
    BY <1>1, <1>4, <1>6
  <2> HIDE DEF i
  <2>2. IsFillerStep(FillerStep(F[i - 1], S[i], i), F[i - 1], S[i], i)
    BY <2>1, FillerStepElements
  <2>3. /\ \A j \in 1..(3 * (i - 1)) : F[i][j] = SymDiff(F[k][j], {Stream(S[i], h(j))})
        /\ \A j \in (3 * (i - 1) + 1)..(3 * i) : F[i][j] = {Stream(S[i], h(j))}
    BY <1>3, <2>1, <2>2 DEF IsFillerStep, Stream
  <2> HIDE DEF h
  <2>4. ASSUME NEW j \in 1..(3 * i), NEW m, NEW l \in i..n
        PROVE  Stream(S[l], m) \in F[i][j] <=> l = i /\ m = h(j)
    <3>1. S[l] = S[i] <=> l = i
      BY <2>1
    <3>2. CASE j \in 1..(3 * (i - 1))
      <4>1. Stream(S[l], m) \notin F[k][j]
        <5>1. l \in (k + 1)..n /\ j \in 1..(3 * k)
          BY <2>1, <3>2
        <5> QED BY <2>1, <5>1 DEF FillerStreams
      <4>2. F[i][j] = SymDiff(F[k][j], {Stream(S[i], h(j))})
        BY <2>3, <3>2
      <4> QED BY <3>1, <4>1, <4>2, XorStream
    <3>3. CASE j \in (3 * (i - 1) + 1)..(3 * i)
      <4>1. F[i][j] = {Stream(S[i], h(j))}
        BY <2>3, <3>3
      <4> QED BY <3>1, <4>1, OtherAtoms
    <3> QED BY <2>1, <3>2, <3>3
  <2>5. \A l \in (i + 1)..n : l \in i..n /\ l # i
    BY <2>1
  <2>6. i \in i..n
    BY <2>1
  <2>7. FillerStreams(F[i], S, n, i)
    BY <2>4, <2>5, <2>6 DEF FillerStreams, h
  <2> QED BY <2>7 DEF i
<1> HIDE DEF T
<1>7. Nat \subseteq T
  BY <1>5, <1>6, NatSetInduction
<1> QED BY <1>1, <1>7 DEF T, F

(***************************************************************************)
(* The routing blocks for the i-th node, up to the filler, contain none of *)
(* the key streams of the nodes before it, and at its place one piece of   *)
(* its own.                                                                *)
(***************************************************************************)
BetaStreams(beta, S, n, i) ==
  \A j \in 1..(HeaderLength - 3 * (i - 1)) : \A m :
    /\ \A k \in 1..(i - 1) : Stream(S[k], m) \notin beta[j]
    /\ i < n => (Stream(S[i], m) \in beta[j] <=> m = j)

Streamless(block) == \A s, m : Stream(s, m) \notin block

LEMMA BetasStream ==
  ASSUME NEW B, NEW F, NEW S, NEW n \in 1..MaxPathLength, NEW seed, NEW path, NEW final_info,
         BetasAsMeant(B, F, S, n, seed, path, final_info),
         Streamless(final_info[1]), Streamless(final_info[2]),
         \A i, j \in 1..n : i # j => S[i] # S[j]
  PROVE  \A i \in 1..n : BetaStreams(B[i], S, n, i)
<1> DEFINE l == HeaderLength
           G == {i \in 1..n : BetaStreams(B[i], S, n, i)}
<1>1. n \in Nat /\ l \in Nat /\ l = HeaderLength /\ MaxPathLength \in Nat /\ 3 * n <= l + 1 /\ n \in 1..n
  BY Lengths
<1> HIDE DEF l
<1>2. n \in G
  <2> SUFFICES ASSUME NEW j \in 1..(l - 3 * (n - 1)), NEW m, NEW k \in 1..(n - 1)
               PROVE  Stream(S[k], m) \notin B[n][j]
    BY <1>1 DEF BetaStreams
  <2>1. S[k] # S[n]
    BY <1>1
  <2>2. IsLastBeta(B[n], seed, final_info, S[n], F[n - 1], n)
    BY DEF BetasAsMeant
  <2>3. CASE j \in 1..2
    <3>1. B[n][j] = SymDiff(final_info[j], {Stream(S[n], j)})
      BY <2>2, <2>3 DEF IsLastBeta, Stream
    <3>2. Stream(S[k], m) \notin final_info[j]
      BY <2>3 DEF Streamless
    <3> QED BY <2>1, <3>1, <3>2, XorStream
  <2>4. CASE j \in 3..(l - 3 * (n - 1))
    <3>1. B[n][j] = {<<"padding", seed, j - 2>>}
      BY <1>1, <2>2, <2>4 DEF IsLastBeta
    <3> QED BY <3>1, OtherAtoms
  <2> QED BY <1>1, <2>3, <2>4
<1>3. ASSUME NEW i \in 1..(n - 1), i + 1 \in G PROVE i \in G
  <2>1. /\ i \in 1..n /\ i < n /\ i \in Nat /\ l >= 5 /\ i \in 1..((i + 1) - 1)
        /\ (i + 1) - 1 = i
    BY <1>1
  <2>2. IsHopBeta(B[i], path[i + 1], B[i + 1], S[i], S[i + 1])
    BY DEF BetasAsMeant
  <2>3. /\ B[i][1] = SymDiff(Flag("Relay"), {Stream(S[i], 1)})
        /\ B[i][2] = SymDiff(Address(path[i + 1]), {Stream(S[i], 2)})
        /\ B[i][3] = SymDiff(Mac(S[i + 1], B[i + 1]), {Stream(S[i], 3)})
        /\ \A j \in 4..l : B[i][j] = SymDiff(B[i + 1][j - 3], {Stream(S[i], j)})
    BY <1>1, <2>1, <2>2 DEF IsHopBeta, Stream
  <2>4. ASSUME NEW j \in 1..(l - 3 * (i - 1))
        PROVE  \E x : /\ B[i][j] = SymDiff(x, {Stream(S[i], j)})
                      /\ \A k \in 1..i : \A m : Stream(S[k], m) \notin x
    <3>1. CASE j = 1
      BY <2>3, <3>1, OtherAtoms
    <3>2. CASE j = 2
      BY <2>3, <3>2, OtherAtoms
    <3>3. CASE j = 3
      BY <2>3, <3>3, OtherAtoms
    <3>4. CASE j \in 4..l
      <4>1. j - 3 \in 1..(l - 3 * ((i + 1) - 1))
        BY <1>1, <2>1, <3>4
      <4>2. BetaStreams(B[i + 1], S, n, i + 1)
        BY <1>3
      <4>3. \A k \in 1..i : \A m : Stream(S[k], m) \notin B[i + 1][j - 3]
        BY <1>1, <2>1, <4>1, <4>2 DEF BetaStreams
      <4> QED BY <2>3, <3>4, <4>3
    <3>5. j = 1 \/ j = 2 \/ j = 3 \/ j \in 4..l
      BY <1>1, <2>1
    <3> QED BY <3>1, <3>2, <3>3, <3>4, <3>5
  <2>5. ASSUME NEW j \in 1..(l - 3 * (i - 1)), NEW m, NEW k \in 1..i
        PROVE  Stream(S[k], m) \in B[i][j] <=> k = i /\ m = j
    <3>1. PICK x : /\ B[i][j] = SymDiff(x, {Stream(S[i], j)})
                   /\ \A h \in 1..i : \A a : Stream(S[h], a) \notin x
      BY <2>4
    <3>2. k \in 1..n /\ i \in 1..n
      BY <1>1, <2>1
    <3>3. S[k] = S[i] <=> k = i
      BY <3>2
    <3>4. Stream(S[k], m) \notin x
      BY <3>1
    <3>5. Stream(S[k], m) \in B[i][j] <=> Stream(S[k], m) = Stream(S[i], j)
      BY <3>1, <3>4 DEF SymDiff
    <3> QED BY <3>3, <3>5, OtherAtoms
  <2>6. BetaStreams(B[i], S, n, i)
    <3>1. i \in 1..i /\ \A k \in 1..(i - 1) : k \in 1..i /\ k # i
      BY <2>1
    <3> QED BY <1>1, <2>5, <3>1 DEF BetaStreams
  <2> QED BY <2>1, <2>6
<1> HIDE DEF G
<1>4. \A i \in 1..n : i \in G
  BY <1>1, <1>2, <1>3, DownwardInduction
<1> QED BY <1>4 DEF G

(***************************************************************************)
(* The onions that two successive nodes of a path are meant to get have    *)
(* neither the group element nor the MAC nor any routing block in common,  *)
(* at whatever positions.                                                  *)
(***************************************************************************)
HeadersUnlike(A, B, S, i) ==
  /\ A[i + 1] # A[i]
  /\ Range(B[i + 1]) \cap Range(B[i]) = {}
  /\ Mac(S[i + 1], B[i + 1]) # Mac(S[i], B[i])

LEMMA BlocksUnlike ==
  ASSUME NEW B, NEW F, NEW S, NEW n \in 1..MaxPathLength, NEW i \in 1..(n - 1),
         EndsWithFiller(B[i], F[i - 1], i), EndsWithFiller(B[i + 1], F[i], i + 1),
         BetaStreams(B[i], S, n, i), BetaStreams(B[i + 1], S, n, i + 1),
         FillerStreams(F[i - 1], S, n, i - 1), FillerStreams(F[i], S, n, i),
         NEW j \in 1..HeaderLength, NEW h \in 1..HeaderLength
  PROVE  B[i][j] # B[i + 1][h]
<1> DEFINE l == HeaderLength
           w == 3 * (i - 1)
           v == 3 * i
           a == j - (l - w)
           b == h - (l - v)
<1>1. /\ n \in Nat /\ l \in Nat /\ l = HeaderLength /\ MaxPathLength \in Nat /\ i \in Nat /\ i < n
      /\ w \in Nat /\ v \in Nat /\ w = 3 * (i - 1) /\ v = 3 * i /\ v = 3 * ((i + 1) - 1) /\ v = w + 3
      /\ i \in 1..((i + 1) - 1) /\ j \in 1..l /\ h \in 1..l /\ i >= 1 /\ w <= l /\ v <= l
  BY Lengths
<1>2. CASE j \in 1..(l - w) /\ h \in 1..(l - v)
  <2>1. Stream(S[i], j) \in B[i][j]
    BY <1>1, <1>2 DEF BetaStreams
  <2>2. Stream(S[i], j) \notin B[i + 1][h]
    BY <1>1, <1>2 DEF BetaStreams
  <2> QED BY <2>1, <2>2
<1>3. CASE j \in 1..(l - w) /\ h \in (l - v + 1)..l
  <2>1. Stream(S[i], j) \in B[i][j]
    BY <1>1, <1>3 DEF BetaStreams
  <2>2. b \in 1..v /\ (l - v) + b = h /\ j # (l - w) + b
    BY <1>1, <1>3
  <2> HIDE DEF b, w, v, l
  <2>3. B[i + 1][h] = F[i][b]
    BY <1>1, <2>2 DEF EndsWithFiller
  <2>4. Stream(S[i], j) \notin F[i][b]
    BY <1>1, <2>2 DEF FillerStreams
  <2> QED BY <2>1, <2>3, <2>4
<1>4. CASE j \in (l - w + 1)..l /\ h \in 1..(l - v)
  <2> DEFINE g == i - 1
             m == (l - 3 * (g - 1)) + a
  <2>1. a \in 1..w /\ (l - w) + a = j /\ g >= 1 /\ g \in 1..((i + 1) - 1) /\ w = 3 * g /\ g = i - 1
    BY <1>1, <1>4
  <2> HIDE DEF a, w, v, l, g
  <2>2. B[i][j] = F[g][a]
    BY <1>1, <2>1 DEF EndsWithFiller
  <2>3. Stream(S[g], m) \in F[g][a]
    BY <1>1, <2>1 DEF FillerStreams, m
  <2>4. Stream(S[g], m) \notin B[i + 1][h]
    BY <1>1, <1>4, <2>1 DEF BetaStreams
  <2> QED BY <2>2, <2>3, <2>4
<1>5. CASE j \in (l - w + 1)..l /\ h \in (l - v + 1)..l
  <2> DEFINE g == i - 1
             m == (l - w) + b
  <2>1. a \in 1..w /\ (l - w) + a = j /\ w = 3 * g /\ g = i - 1 /\ i \in (g + 1)..n
        /\ b \in 1..v /\ (l - v) + b = h
    BY <1>1, <1>5
  <2> HIDE DEF a, b, w, v, l, g
  <2>2. B[i][j] = F[g][a] /\ B[i + 1][h] = F[i][b]
    BY <1>1, <2>1 DEF EndsWithFiller
  <2>3. Stream(S[i], m) \notin F[g][a]
    BY <1>1, <2>1 DEF FillerStreams
  <2>4. Stream(S[i], m) \in F[i][b]
    BY <1>1, <2>1 DEF FillerStreams, m
  <2> QED BY <2>2, <2>3, <2>4
<1> QED BY <1>1, <1>2, <1>3, <1>4, <1>5

(***************************************************************************)
(* What a relay passes on of the header has nothing in common with what it *)
(* got: group element, routing blocks in any position, MAC.                *)
(***************************************************************************)
THEOREM NothingStays ==
  ASSUME NEW seed, NEW path, NEW n \in 1..MaxPathLength, Len(path) = n,
         NEW final_info, IsSeq(final_info, 2), Streamless(final_info[1]), Streamless(final_info[2]),
         NEW i \in 1..(n - 1)
  PROVE  HeadersUnlike(Alphas(FirstAlpha(seed), path), BetasFor(seed, path, final_info),
                       SecretsFor(seed, path), i)
<1> DEFINE A == Alphas(FirstAlpha(seed), path)
           S == SecretsFor(seed, path)
           B == BetasFor(seed, path, final_info)
           F == Fillers(S)
<1>1. n \in Nat \ {0} /\ i \in 1..n /\ i + 1 \in 1..n /\ i # i + 1 /\ i - 1 \in 0..(n - 1) /\ i \in 0..(n - 1)
      /\ (i + 1) - 1 = i
  BY Lengths
<1>2. IsSeq(S, n)
  BY <1>1, SecretsElements
<1>3. BetasAsMeant(B, F, S, n, seed, path, final_info)
  <2> HIDE DEF S
  <2>1. BetasAsMeant(Betas(seed, path, final_info, S), Fillers(S), S, n, seed, path, final_info)
    BY <1>2, BetasReadAsMeant
  <2> QED BY <2>1 DEF S, BetasFor
<1>4. SecretsApart(A, S, path, n)
  BY <1>1, SecretsDiffer
<1> HIDE DEF A, S, B
<1>5. \A j, k \in 1..n : j # k => S[j] # S[k]
  BY <1>4 DEF SecretsApart
<1>6. \A j \in 0..(n - 1) : FillerStreams(F[j], S, n, j)
  BY <1>2, <1>5, FillersStream
<1> HIDE DEF F
<1>7. \A j \in 1..n : BetaStreams(B[j], S, n, j)
  BY <1>3, <1>5, BetasStream
<1>8. /\ EndsWithFiller(B[i], F[i - 1], i) /\ EndsWithFiller(B[i + 1], F[i], i + 1)
  BY <1>1, <1>3 DEF BetasAsMeant
<1>9. \A j, h \in 1..HeaderLength : B[i][j] # B[i + 1][h]
  BY <1>1, <1>6, <1>7, <1>8, BlocksUnlike
<1>10. Range(B[i + 1]) \cap Range(B[i]) = {}
  <2>1. DOMAIN B[i] = 1..HeaderLength /\ DOMAIN B[i + 1] = 1..HeaderLength
    BY <1>8, SeqOfElements DEF EndsWithFiller
  <2> QED BY <1>9, <2>1 DEF Range
<1>11. A[i + 1] # A[i] /\ S[i + 1] # S[i]
  BY <1>1, <1>4 DEF SecretsApart
<1>12. Mac(S[i + 1], B[i + 1]) # Mac(S[i], B[i])
  <2>1. <<"mac", S[i + 1], B[i + 1]>> # <<"mac", S[i], B[i]>>
    BY <1>11
  <2> QED BY <2>1 DEF Mac
<1>13. HeadersUnlike(A, B, S, i)
  BY <1>10, <1>11, <1>12 DEF HeadersUnlike
<1> QED BY <1>13 DEF A, B, S

(***************************************************************************)
(* Nor does the payload read alike before and after a node, unless it is   *)
(* empty, which is never enciphered.                                       *)
(***************************************************************************)
Noiseless(text) == \A d, j : text[1] # {<<"noise", d, j>>}

LEMMA CoatsUnlike ==
  ASSUME NEW text, NEW len \in Nat \ {0}, IsSeq(text, len),
         NEW tag, NEW keys, NEW m \in Nat, NEW k \in Nat \ {0}, m # k,
         m = 0 => Noiseless(text)
  PROVE  Read(Coated(text, tag, keys, m)) # Read(Coated(text, tag, keys, k))
<1> DEFINE d == Coated(text, tag, keys, m)
           e == Coated(text, tag, keys, k)
           s == [j \in 1..m |-> <<tag, keys[j]>>]
           t == [j \in 1..k |-> <<tag, keys[j]>>]
<1>1. d = [text |-> text, layers |-> s] /\ e = [text |-> text, layers |-> t]
  BY DEF Coated
<1>2. DOMAIN s = 1..m /\ DOMAIN t = 1..k /\ IsSeq(s, m) /\ IsSeq(t, k)
  BY DEF IsSeq
<1> HIDE DEF s, t, d, e
<1>3. s # t /\ Len(text) = len /\ Len(s) = m /\ Len(t) = k
  <2>1. Len(s) = m /\ Len(t) = k
    BY <1>2, SeqOfElements
  <2>2. Len(text) = len
    BY SeqOfElements
  <2> QED BY <2>1, <2>2
<1>4. t # <<>>
  BY <1>3, EmptyIsSeq
<1>5. Read(e) = [j \in 1..len |-> {<<"noise", e, j>>}]
  BY <1>1, <1>3, <1>4 DEF Read
<1>6. Read(e)[1] = {<<"noise", e, 1>>}
  BY <1>5
<1>7. d # e
  BY <1>1, <1>3
<1>8. CASE m = 0
  <2>1. s = <<>>
    BY <1>2, <1>8, EmptyIsSeq, SameElements
  <2>2. Read(d) = text
    BY <1>1, <2>1 DEF Read
  <2> QED BY <1>6, <1>8, <2>2 DEF Noiseless, d, e
<1>9. CASE m # 0
  <2>1. s # <<>>
    BY <1>3, <1>9, EmptyIsSeq
  <2>2. Read(d) = [j \in 1..len |-> {<<"noise", d, j>>}]
    BY <1>1, <1>3, <2>1 DEF Read
  <2>3. Read(d)[1] = {<<"noise", d, 1>>}
    BY <2>2
  <2>4. <<"noise", d, 1>> # <<"noise", e, 1>>
    BY <1>7
  <2>5. Read(d) # Read(e)
    BY <1>6, <2>3, <2>4
  <2> QED BY <2>5 DEF d, e
<1> QED BY <1>8, <1>9

(***************************************************************************)
(* A layer more or less changes what a payload reads as, unless there is   *)
(* nothing to encipher.                                                    *)
(***************************************************************************)
THEOREM PayloadsUnlike ==
  ASSUME NEW text, NEW len \in Nat \ {0}, IsSeq(text, len),
         NEW secrets, NEW n \in Nat \ {0}, Len(secrets) = n, NEW i \in 1..(n - 1)
  PROVE  /\ Read(FragmentDelta(text, secrets, i + 1)) # Read(FragmentDelta(text, secrets, i))
         /\ Noiseless(text) => Read(ReplyDelta(text, secrets, i + 1)) # Read(ReplyDelta(text, secrets, i))
<1>1. text # <<>>
  <2>1. Len(text) = len
    BY SeqOfElements
  <2> QED BY <2>1, EmptyIsSeq
<1>2. Read(FragmentDelta(text, secrets, i + 1)) # Read(FragmentDelta(text, secrets, i))
  <2> DEFINE keys == Backwards(secrets)
             m == n + 1 - i
             k == n + 1 - (i + 1)
  <2>1. m \in Nat \ {0} /\ k \in Nat \ {0} /\ m # k /\ m = n + 1 - i /\ k = n + 1 - (i + 1)
    OBVIOUS
  <2>2. /\ FragmentDelta(text, secrets, i + 1) = Coated(text, "enc", keys, k)
        /\ FragmentDelta(text, secrets, i) = Coated(text, "enc", keys, m)
    BY <1>1 DEF FragmentDelta
  <2> HIDE DEF keys, m, k
  <2>3. Read(Coated(text, "enc", keys, k)) # Read(Coated(text, "enc", keys, m))
    BY <2>1, CoatsUnlike
  <2> QED BY <2>2, <2>3
<1>3. ASSUME Noiseless(text)
      PROVE  Read(ReplyDelta(text, secrets, i + 1)) # Read(ReplyDelta(text, secrets, i))
  <2> DEFINE m == i - 1
             k == (i + 1) - 1
  <2>1. m \in Nat /\ k \in Nat \ {0} /\ m # k /\ m = i - 1 /\ k = (i + 1) - 1
    OBVIOUS
  <2>2. /\ ReplyDelta(text, secrets, i + 1) = Coated(text, "dec", secrets, k)
        /\ ReplyDelta(text, secrets, i) = Coated(text, "dec", secrets, m)
    BY <1>1 DEF ReplyDelta
  <2> HIDE DEF m, k
  <2>3. Read(Coated(text, "dec", secrets, m)) # Read(Coated(text, "dec", secrets, k))
    BY <1>3, <2>1, CoatsUnlike
  <2> QED BY <2>2, <2>3
<1> QED BY <1>2, <1>3

-------------------------------------------------------------------------------
(***************************************************************************)
(* The fragments of a set one after the other: F is n sequences, of sizes  *)
(* z[1] to z[n].                                                           *)
(***************************************************************************)
Parts(F, n, z) == IsSeq(F, n) /\ \A k \in 1..n : IsSeq(F[k], z[k])

LEMMA ConcatNothing ==
  ASSUME NEW s, NEW n, IsSeq(s, n)
  PROVE  <<>> \o s = s
<1>1. n \in Nat /\ 0 + n = n
  BY DEF IsSeq
<1>2. IsConcat(<<>> \o s, <<>>, 0, s, n)
  BY EmptyIsSeq, ConcatElements
<1>3. IsSeq(<<>> \o s, n) /\ \A i \in 1..n : (<<>> \o s)[i] = s[i]
  <2>1. \A i \in 1..n : i \in (0 + 1)..(0 + n) /\ i - 0 = i
    BY <1>1
  <2> QED BY <1>1, <1>2, <2>1 DEF IsConcat
<1> QED BY <1>3, SameElements

LEMMA ConcatAssociates ==
  ASSUME NEW r, NEW s, NEW t, NEW l, NEW m, NEW n, IsSeq(r, l), IsSeq(s, m), IsSeq(t, n)
  PROVE  (r \o s) \o t = r \o (s \o t)
<1> DEFINE S == {r[i] : i \in 1..l} \cup {s[i] : i \in 1..m} \cup {t[i] : i \in 1..n}
<1>1. l \in Nat /\ m \in Nat /\ n \in Nat /\ r \in [1..l -> S] /\ s \in [1..m -> S] /\ t \in [1..n -> S]
  BY DEF IsSeq
<1> HIDE DEF S
<1>2. r \in Seq(S) /\ s \in Seq(S) /\ t \in Seq(S)
  BY <1>1, SeqDef
<1> QED BY <1>2, ConcatAssociative

(***************************************************************************)
(* Flattening n + 1 sequences appends the last to the others.              *)
(***************************************************************************)
Flattened(F) ==
  LET flatten[i \in 1..Len(F)] == IF i = 1 THEN F[i] ELSE flatten[i - 1] \o F[i]
  IN  flatten

LEMMA FlattenDefined ==
  ASSUME NEW F, NEW n \in Nat \ {0}, Len(F) = n
  PROVE  /\ FlattenSeq(F) = Flattened(F)[n]
         /\ Flattened(F)[1] = F[1]
         /\ \A i \in 1..(n - 1) : Flattened(F)[i + 1] = Flattened(F)[i] \o F[i + 1]
<1> DEFINE Step(s, i) == s \o F[i]
           S == {k \in Nat : \E g : g = [i \in 1..(k + 1) |-> IF i = 1 THEN F[i] ELSE Step(g[i - 1], i)]}
<1> HIDE DEF Step
<1>1. 0 \in S
  <2> DEFINE h == [i \in 1..(0 + 1) |-> F[1]]
  <2>1. h = [i \in 1..(0 + 1) |-> IF i = 1 THEN F[i] ELSE Step(h[i - 1], i)]
    OBVIOUS
  <2> HIDE DEF h
  <2> QED BY <2>1
<1>2. ASSUME NEW k \in Nat, k \in S PROVE k + 1 \in S
  <2>1. PICK g : g = [i \in 1..(k + 1) |-> IF i = 1 THEN F[i] ELSE Step(g[i - 1], i)]
    BY <1>2
  <2> DEFINE h == [i \in 1..((k + 1) + 1) |-> IF i = (k + 1) + 1 THEN Step(g[k + 1], i) ELSE g[i]]
  <2>2. ASSUME NEW i \in 1..((k + 1) + 1)
        PROVE  h[i] = IF i = 1 THEN F[i] ELSE Step(h[i - 1], i)
    BY <2>1
  <2>3. h = [i \in 1..((k + 1) + 1) |-> h[i]]
    OBVIOUS
  <2> HIDE DEF h
  <2>4. h = [i \in 1..((k + 1) + 1) |-> IF i = 1 THEN F[i] ELSE Step(h[i - 1], i)]
    BY <2>2, <2>3
  <2> QED BY <2>4
<1>3. n - 1 \in S /\ (n - 1) + 1 = n
  <2>1. n - 1 \in Nat /\ (n - 1) + 1 = n
    OBVIOUS
  <2> HIDE DEF S
  <2>2. Nat \subseteq S
    BY <1>1, <1>2, NatSetInduction
  <2> QED BY <2>1, <2>2
<1>4. PICK g : g = [i \in 1..n |-> IF i = 1 THEN F[i] ELSE Step(g[i - 1], i)]
  BY <1>3
<1> DEFINE G == Flattened(F)
<1>5. G = [i \in 1..n |-> IF i = 1 THEN F[i] ELSE Step(G[i - 1], i)]
  BY <1>4 DEF Flattened, Step
<1>6. FlattenSeq(F) = G[n]
  BY DEF FlattenSeq, Flattened
<1> HIDE DEF G
<1>7. G[1] = F[1]
  BY <1>5
<1>8. ASSUME NEW i \in 1..(n - 1) PROVE G[i + 1] = Step(G[i], i + 1)
  <2>1. i + 1 \in 1..n /\ i + 1 # 1 /\ (i + 1) - 1 = i
    OBVIOUS
  <2>2. G[i + 1] = Step(G[(i + 1) - 1], i + 1)
    BY <1>5, <2>1
  <2> QED BY <2>1, <2>2
<1> QED BY <1>6, <1>7, <1>8 DEF G, Step

LEMMA FlattenNothing == FlattenSeq(<<>>) = <<>>
BY EmptyIsSeq DEF FlattenSeq

LEMMA FlattenMore ==
  ASSUME NEW F, NEW n \in Nat, IsSeq(F, n + 1), NEW z, IsSeq(F[n + 1], z)
  PROVE  FlattenSeq(F) = FlattenSeq(SubSeq(F, 1, n)) \o F[n + 1]
<1> DEFINE c == n + 1
           G == SubSeq(F, 1, n)
<1>1. c \in Nat \ {0} /\ n \in 0..c /\ 1 \in Nat \ {0} /\ 1 <= n + 1 /\ n - 1 + 1 = n /\ \A i \in 1..n : 1 + i - 1 = i
  OBVIOUS
<1>2. Len(F) = c /\ IsSeq(F, c)
  BY SeqOfElements
<1> HIDE DEF c
<1>3. IsPart(G, F, 1, n)
  BY <1>1, <1>2, PartElements
<1>4. IsSeq(G, n) /\ \A i \in 1..n : G[i] = F[i]
  BY <1>1, <1>3 DEF IsPart
<1>5. Len(G) = n
  BY <1>4, SeqOfElements
<1> HIDE DEF G
<1>6. /\ FlattenSeq(F) = Flattened(F)[c] /\ Flattened(F)[1] = F[1]
      /\ \A i \in 1..(c - 1) : Flattened(F)[i + 1] = Flattened(F)[i] \o F[i + 1]
  BY <1>1, <1>2, FlattenDefined
<1>7. c = n + 1 /\ c - 1 = n
  BY DEF c
<1>8. CASE n = 0
  <2>1. FlattenSeq(F) = F[1] /\ c = 1
    BY <1>6, <1>7, <1>8
  <2>2. G = <<>>
    BY <1>4, <1>8, EmptyIsSeq, SameElements
  <2>3. <<>> \o F[n + 1] = F[n + 1]
    BY ConcatNothing
  <2>4. F[n + 1] = F[1]
    BY <1>8
  <2>5. FlattenSeq(F) = FlattenSeq(G) \o F[n + 1]
    BY <2>1, <2>2, <2>3, <2>4, FlattenNothing
  <2> QED BY <2>5 DEF G
<1>9. CASE n # 0
  <2> DEFINE P == Flattened(F)
             Q == Flattened(G)
             S == {k \in Nat : k + 1 \in 1..n => P[k + 1] = Q[k + 1]}
  <2>1. /\ FlattenSeq(G) = Q[n] /\ Q[1] = G[1]
        /\ \A i \in 1..(n - 1) : Q[i + 1] = Q[i] \o G[i + 1]
    BY <1>5, <1>9, FlattenDefined
  <2>2. /\ FlattenSeq(F) = P[c] /\ P[1] = F[1]
        /\ \A i \in 1..n : P[i + 1] = P[i] \o F[i + 1]
    BY <1>6, <1>7
  <2> HIDE DEF P, Q
  <2>3. 0 \in S
    BY <1>4, <1>9, <2>1, <2>2
  <2>4. ASSUME NEW k \in Nat, k \in S PROVE k + 1 \in S
    <3> SUFFICES ASSUME (k + 1) + 1 \in 1..n PROVE P[(k + 1) + 1] = Q[(k + 1) + 1]
      OBVIOUS
    <3>1. k + 1 \in 1..(n - 1) /\ k + 1 \in 1..n
      OBVIOUS
    <3>2. P[k + 1] = Q[k + 1]
      BY <2>4, <3>1
    <3> QED BY <1>4, <2>1, <2>2, <3>1, <3>2
  <2> HIDE DEF S
  <2>5. n - 1 \in S /\ (n - 1) + 1 = n /\ n \in 1..n
    <3>1. n - 1 \in Nat
      BY <1>9
    <3> QED BY <1>9, <2>3, <2>4, <3>1, NatSetInduction
  <2>6. P[n] = Q[n]
    BY <2>5 DEF S
  <2> QED BY <1>7, <2>1, <2>2, <2>5, <2>6 DEF G
<1> QED BY <1>8, <1>9

(***************************************************************************)
(* The k-th of them starts behind the Used(F, k) elements of those before. *)
(***************************************************************************)
IsFlat(flat, F, n, z) ==
  /\ Used(F, 1) = 0 /\ \A k \in 1..(n + 1) : Used(F, k) \in Nat
  /\ \A k \in 1..n : Used(F, k + 1) = Used(F, k) + z[k]
  /\ IsSeq(flat, Used(F, n + 1))
  /\ \A k \in 1..n : Used(F, k + 1) <= Used(F, n + 1)
  /\ \A k \in 1..n : \A j \in 1..z[k] : flat[Used(F, k) + j] = F[k][j]

LEMMA PrefixElements ==
  ASSUME NEW s, NEW n, IsSeq(s, n), NEW m \in 0..n
  PROVE  IsSeq(SubSeq(s, 1, m), m) /\ \A i \in 1..m : SubSeq(s, 1, m)[i] = s[i]
<1>1. n \in Nat
  BY DEF IsSeq
<1>2. 1 \in Nat \ {0} /\ 1 <= m + 1 /\ m - 1 + 1 = m /\ \A i \in 1..m : 1 + i - 1 = i
  BY <1>1
<1>3. IsPart(SubSeq(s, 1, m), s, 1, m)
  BY <1>2, PartElements
<1> QED BY <1>2, <1>3 DEF IsPart

LEMMA PrefixOfPrefix ==
  ASSUME NEW s, NEW n, IsSeq(s, n), NEW m \in 0..n, NEW l \in 0..m
  PROVE  SubSeq(SubSeq(s, 1, m), 1, l) = SubSeq(s, 1, l)
<1>1. n \in Nat /\ l \in 0..n /\ \A i \in 1..l : i \in 1..m
  BY DEF IsSeq
<1>2. IsSeq(SubSeq(s, 1, m), m) /\ \A i \in 1..m : SubSeq(s, 1, m)[i] = s[i]
  BY PrefixElements
<1> DEFINE t == SubSeq(s, 1, m)
<1> HIDE DEF t
<1>3. IsSeq(t, m) /\ \A i \in 1..m : t[i] = s[i]
  BY <1>2 DEF t
<1>4. IsSeq(SubSeq(t, 1, l), l) /\ \A i \in 1..l : SubSeq(t, 1, l)[i] = t[i]
  BY <1>3, PrefixElements
<1>5. IsSeq(SubSeq(s, 1, l), l) /\ \A i \in 1..l : SubSeq(s, 1, l)[i] = s[i]
  BY <1>1, PrefixElements
<1>6. SubSeq(t, 1, l) = SubSeq(s, 1, l)
  BY <1>1, <1>3, <1>4, <1>5, SameElements
<1> QED BY <1>6 DEF t

FlatPrefix(F, k) == FlattenSeq(SubSeq(F, 1, k))

LEMMA FlattenPrefixes ==
  ASSUME NEW F, NEW n, NEW z, Parts(F, n, z)
  PROVE  /\ FlatPrefix(F, 0) = <<>> /\ FlatPrefix(F, n) = FlattenSeq(F)
         /\ \A k \in 0..(n - 1) : FlatPrefix(F, k + 1) = FlatPrefix(F, k) \o F[k + 1]
<1>1. n \in Nat /\ IsSeq(F, n) /\ \A k \in 1..n : IsSeq(F[k], z[k]) /\ z[k] \in Nat
  BY DEF Parts, IsSeq
<1> DEFINE W(k) == FlattenSeq(SubSeq(F, 1, k))
<1>2. W(0) = <<>>
  <2>1. IsSeq(SubSeq(F, 1, 0), 0)
    BY <1>1, PrefixElements
  <2>2. SubSeq(F, 1, 0) = <<>>
    BY <2>1, EmptyIsSeq, SameElements
  <2> QED BY <2>2, FlattenNothing
<1>3. ASSUME NEW k \in 0..(n - 1) PROVE W(k + 1) = W(k) \o F[k + 1]
  <2> DEFINE G == SubSeq(F, 1, k + 1)
             c == k + 1
  <2>1. c \in 0..n /\ k \in 0..c /\ k \in Nat /\ c \in 1..n /\ c \in 1..c
    BY <1>1
  <2>2. IsSeq(F, n)
    BY <1>1
  <2> HIDE DEF c
  <2>3. IsSeq(SubSeq(F, 1, c), c) /\ \A i \in 1..c : SubSeq(F, 1, c)[i] = F[i]
    BY <2>1, <2>2, PrefixElements
  <2>4. SubSeq(SubSeq(F, 1, c), 1, k) = SubSeq(F, 1, k)
    BY <2>1, <2>2, PrefixOfPrefix
  <2>5. IsSeq(G, k + 1) /\ G[k + 1] = F[k + 1] /\ SubSeq(G, 1, k) = SubSeq(F, 1, k) /\ IsSeq(F[k + 1], z[k + 1])
    BY <1>1, <2>1, <2>3, <2>4 DEF c
  <2> HIDE DEF G
  <2>6. FlattenSeq(G) = FlattenSeq(SubSeq(G, 1, k)) \o G[k + 1]
    BY <2>1, <2>5, FlattenMore
  <2> QED BY <2>5, <2>6 DEF G
<1>4. SubSeq(F, 1, n) = F
  <2>1. n \in 0..n
    BY <1>1
  <2> QED BY <1>1, <2>1, PrefixElements, SameElements
<1> QED BY <1>2, <1>3, <1>4 DEF FlatPrefix

LEMMA FlatElements ==
  ASSUME NEW F, NEW n, NEW z, Parts(F, n, z)
  PROVE  IsFlat(FlattenSeq(F), F, n, z)
<1>1. n \in Nat /\ IsSeq(F, n) /\ \A k \in 1..n : IsSeq(F[k], z[k]) /\ z[k] \in Nat
  BY DEF Parts, IsSeq
<1> DEFINE W(k) == FlattenSeq(SubSeq(F, 1, k))
           U(k) == Len(W(k))
           Good(k) == /\ IsSeq(W(k), U(k))
                      /\ \A q \in 1..k : /\ U(q - 1) \in Nat /\ U(q) = U(q - 1) + z[q] /\ U(q) <= U(k)
                                         /\ \A j \in 1..z[q] : W(k)[U(q - 1) + j] = F[q][j]
           S == {k \in Nat : k <= n => Good(k)}
<1>2. W(0) = <<>>
  BY FlattenPrefixes DEF FlatPrefix
<1>3. ASSUME NEW k \in 0..(n - 1) PROVE W(k + 1) = W(k) \o F[k + 1]
  BY FlattenPrefixes DEF FlatPrefix
<1>4. 0 \in S
  <2>1. \A q \in 1..0 : FALSE
    OBVIOUS
  <2>2. IsSeq(W(0), U(0))
    BY <1>2, EmptyIsSeq
  <2> QED BY <2>1, <2>2
<1>5. ASSUME NEW k \in Nat, k \in S PROVE k + 1 \in S
  <2> SUFFICES ASSUME k + 1 <= n PROVE Good(k + 1)
    OBVIOUS
  <2>1. k \in 0..(n - 1) /\ k + 1 \in 1..n /\ k <= n
    BY <1>1
  <2>2. Good(k)
    BY <1>5, <2>1
  <2>3. W(k + 1) = W(k) \o F[k + 1]
    BY <1>3, <2>1
  <2>4. IsSeq(F[k + 1], z[k + 1]) /\ z[k + 1] \in Nat
    BY <1>1, <2>1
  <2>5. IsSeq(W(k), U(k)) /\ U(k) \in Nat
    BY <2>2 DEF IsSeq
  <2> DEFINE w == W(k)
             v == W(k + 1)
             u == U(k)
             y == z[k + 1]
             f == F[k + 1]
  <2>6. v = w \o f /\ IsSeq(w, u) /\ IsSeq(f, y) /\ u \in Nat /\ y \in Nat
    BY <2>3, <2>4, <2>5
  <2>7. U(k + 1) = Len(v) /\ (k + 1) - 1 = k
    BY <2>1
  <2> HIDE DEF w, v, u, y, f
  <2>8. IsConcat(v, w, u, f, y)
    BY <2>6, ConcatElements
  <2>9. IsSeq(v, u + y) /\ Len(v) = u + y
    BY <2>8, SeqOfElements DEF IsConcat
  <2>10. IsSeq(W(k + 1), U(k + 1)) /\ U(k + 1) = U(k) + z[k + 1]
    BY <2>9 DEF v, u, y
  <2>11. ASSUME NEW q \in 1..(k + 1)
         PROVE  /\ U(q - 1) \in Nat /\ U(q) = U(q - 1) + z[q] /\ U(q) <= U(k + 1)
                /\ \A j \in 1..z[q] : W(k + 1)[U(q - 1) + j] = F[q][j]
    <3>1. CASE q = k + 1
      <4>1. \A j \in 1..y : v[u + j] = f[j]
        <5>1. \A j \in 1..y : u + j \in (u + 1)..(u + y) /\ (u + j) - u = j
          BY <2>6
        <5> QED BY <2>8, <5>1 DEF IsConcat
      <4>2. \A j \in 1..z[k + 1] : W(k + 1)[U(k) + j] = F[k + 1][j]
        BY <4>1 DEF v, u, y, f
      <4>3. U(k) \in Nat /\ U(k + 1) <= U(k + 1)
        BY <2>5, <2>10, <2>4
      <4> QED BY <2>7, <2>10, <3>1, <4>2, <4>3
    <3>2. CASE q \in 1..k
      <4>1. /\ U(q - 1) \in Nat /\ U(q) = U(q - 1) + z[q] /\ U(q) <= U(k)
            /\ \A j \in 1..z[q] : W(k)[U(q - 1) + j] = F[q][j]
        BY <2>2, <3>2
      <4>2. z[q] \in Nat
        BY <1>1, <2>1, <3>2
      <4> DEFINE a == U(q - 1)
                 b == z[q]
      <4>3. a \in Nat /\ b \in Nat /\ U(q) = a + b /\ a + b <= u
        BY <4>1, <4>2 DEF u
      <4> HIDE DEF a, b
      <4>4. \A j \in 1..b : a + j \in 1..u
        BY <2>6, <4>3
      <4>5. \A j \in 1..b : v[a + j] = w[a + j]
        BY <2>8, <4>4 DEF IsConcat
      <4>6. \A j \in 1..z[q] : W(k + 1)[U(q - 1) + j] = F[q][j]
        BY <4>1, <4>5 DEF v, w, a, b
      <4>7. U(q) <= U(k + 1)
        <5>1. U(k + 1) = u + y
          BY <2>10 DEF u, y
        <5> QED BY <2>6, <4>3, <5>1
      <4> QED BY <4>1, <4>6, <4>7
    <3> QED BY <2>1, <3>1, <3>2
  <2> QED BY <2>10, <2>11
<1>6. \A k \in 0..n : Good(k)
  <2> HIDE DEF Good
  <2>1. \A k \in Nat : k <= n => Good(k)
    <3> HIDE DEF S
    <3>1. Nat \subseteq S
      BY <1>4, <1>5, NatSetInduction
    <3> QED BY <3>1 DEF S
  <2> QED BY <1>1, <2>1
<1>7. SubSeq(F, 1, n) = F
  <2>1. n \in 0..n
    BY <1>1
  <2> QED BY <1>1, <2>1, PrefixElements, SameElements
<1>8. \A k \in 1..(n + 1) : Used(F, k) = U(k - 1)
  BY DEF Used
<1>9. /\ Used(F, 1) = U(0) /\ U(0) = 0 /\ Used(F, n + 1) = U(n)
      /\ \A k \in 1..n : Used(F, k) = U(k - 1) /\ Used(F, k + 1) = U(k)
  <2>1. (n + 1) - 1 = n /\ 1 - 1 = 0 /\ n + 1 \in 1..(n + 1) /\ 1 \in 1..(n + 1)
        /\ \A k \in 1..n : k + 1 \in 1..(n + 1) /\ k \in 1..(n + 1) /\ (k + 1) - 1 = k
    BY <1>1
  <2>2. U(0) = 0
    BY <1>2, EmptyIsSeq
  <2> HIDE DEF W
  <2> QED BY <1>8, <2>1, <2>2
<1>10. Good(n)
  BY <1>1, <1>6
<1>11. W(n) = FlattenSeq(F)
  BY <1>7
<1> HIDE DEF W
<1>12. ASSUME NEW k \in 1..n
       PROVE  /\ Used(F, k + 1) = Used(F, k) + z[k] /\ Used(F, k + 1) <= Used(F, n + 1)
              /\ \A j \in 1..z[k] : W(n)[Used(F, k) + j] = F[k][j]
  BY <1>9, <1>10
<1>13. \A k \in 1..(n + 1) : Used(F, k) \in Nat
  <2>1. \A k \in 1..n : U(k - 1) \in Nat
    BY <1>10
  <2>2. U(n) \in Nat
    BY <1>10 DEF IsSeq
  <2>3. \A k \in 1..(n + 1) : k \in 1..n \/ k = n + 1
    BY <1>1
  <2> QED BY <1>9, <2>1, <2>2, <2>3
<1>14. IsSeq(W(n), Used(F, n + 1))
  BY <1>9, <1>10
<1> QED BY <1>9, <1>11, <1>12, <1>13, <1>14 DEF IsFlat

LEMMA UsedGrows ==
  ASSUME NEW F, NEW n, NEW z, Parts(F, n, z)
  PROVE  \A q \in 1..(n + 1) : \A k \in 1..(q - 1) : Used(F, k) + z[k] <= Used(F, q)
<1>1. n \in Nat /\ \A k \in 1..n : z[k] \in Nat
  BY DEF Parts, IsSeq
<1>2. /\ \A k \in 1..(n + 1) : Used(F, k) \in Nat
      /\ \A k \in 1..n : Used(F, k + 1) = Used(F, k) + z[k]
  BY FlatElements DEF IsFlat
<1> DEFINE Good(q) == \A k \in 1..(q - 1) : Used(F, k) + z[k] <= Used(F, q)
           S == {q \in Nat : q + 1 \in 1..(n + 1) => Good(q + 1)}
<1>3. 0 \in S
  <2>1. \A k \in 1..((0 + 1) - 1) : FALSE
    OBVIOUS
  <2> QED BY <2>1
<1>4. ASSUME NEW q \in Nat, q \in S PROVE q + 1 \in S
  <2> SUFFICES ASSUME (q + 1) + 1 \in 1..(n + 1), NEW k \in 1..(((q + 1) + 1) - 1)
               PROVE  Used(F, k) + z[k] <= Used(F, (q + 1) + 1)
    OBVIOUS
  <2>1. q + 1 \in 1..n /\ q + 1 \in 1..(n + 1) /\ k \in 1..n /\ k \in 1..(n + 1) /\ (k = q + 1 \/ k \in 1..((q + 1) - 1))
    BY <1>1
  <2>2. Used(F, (q + 1) + 1) = Used(F, q + 1) + z[q + 1]
    BY <1>2, <2>1
  <2>3. CASE k = q + 1
    <3>1. Used(F, k) + z[k] = Used(F, (q + 1) + 1) /\ Used(F, k) + z[k] \in Nat
      BY <1>1, <1>2, <2>1, <2>2, <2>3
    <3> QED BY <3>1
  <2>4. CASE k \in 1..((q + 1) - 1)
    <3>1. Used(F, k) + z[k] <= Used(F, q + 1)
      BY <1>4, <2>1, <2>4
    <3>2. Used(F, k) \in Nat /\ z[k] \in Nat /\ Used(F, q + 1) \in Nat /\ z[q + 1] \in Nat
      BY <1>1, <1>2, <2>1
    <3> QED BY <2>2, <3>1, <3>2
  <2> QED BY <2>1, <2>3, <2>4
<1>5. SUFFICES ASSUME NEW q \in 1..(n + 1) PROVE Good(q)
  OBVIOUS
<1>6. q - 1 \in Nat /\ (q - 1) + 1 = q
  BY <1>1
<1> HIDE DEF Good
<1>7. q - 1 \in S
  <2> HIDE DEF S
  <2>1. Nat \subseteq S
    BY <1>3, <1>4, NatSetInduction
  <2> QED BY <1>6, <2>1
<1> QED BY <1>6, <1>7

(***************************************************************************)
(* It depends on the sizes of those before only.                           *)
(***************************************************************************)
UsedAlike(F, G, l) == \A k \in 1..(l + 1) : Used(F, k) = Used(G, k)

LEMMA SameUsed ==
  ASSUME NEW F, NEW n, NEW z, Parts(F, n, z), NEW G, NEW m, NEW y, Parts(G, m, y),
         NEW l \in Nat, l <= n, l <= m, \A k \in 1..l : z[k] = y[k]
  PROVE  UsedAlike(F, G, l)
<1>1. n \in Nat /\ m \in Nat
  BY DEF Parts, IsSeq
<1>2. Used(F, 1) = 0 /\ \A k \in 1..n : Used(F, k + 1) = Used(F, k) + z[k]
  BY FlatElements DEF IsFlat
<1>3. Used(G, 1) = 0 /\ \A k \in 1..m : Used(G, k + 1) = Used(G, k) + y[k]
  BY FlatElements DEF IsFlat
<1> DEFINE S == {k \in Nat : k + 1 \in 1..(l + 1) => Used(F, k + 1) = Used(G, k + 1)}
<1>4. 0 \in S
  BY <1>2, <1>3
<1>5. ASSUME NEW k \in Nat, k \in S PROVE k + 1 \in S
  <2> SUFFICES ASSUME (k + 1) + 1 \in 1..(l + 1) PROVE Used(F, (k + 1) + 1) = Used(G, (k + 1) + 1)
    OBVIOUS
  <2>1. k + 1 \in 1..l /\ k + 1 \in 1..n /\ k + 1 \in 1..m /\ k + 1 \in 1..(l + 1)
    BY <1>1
  <2>2. Used(F, k + 1) = Used(G, k + 1) /\ z[k + 1] = y[k + 1]
    BY <1>5, <2>1
  <2> QED BY <1>2, <1>3, <2>1, <2>2
<1>6. SUFFICES ASSUME NEW k \in 1..(l + 1) PROVE Used(F, k) = Used(G, k)
  BY DEF UsedAlike
<1>7. k - 1 \in Nat /\ (k - 1) + 1 = k
  OBVIOUS
<1>8. k - 1 \in S
  <2> HIDE DEF S
  <2>1. Nat \subseteq S
    BY <1>4, <1>5, NatSetInduction
  <2> QED BY <1>7, <2>1
<1> QED BY <1>7, <1>8

(***************************************************************************)
(* Every block of the fragments is covered with a piece of the mask of its *)
(* own, and the same mask uncovers them.                                   *)
(***************************************************************************)
MaskAtom(r, i) == <<"mask", r, i>>

IsMasked(masked, r, F, n, z) ==
  /\ Parts(masked, n, z)
  /\ \A k \in 1..n : \A j \in 1..z[k] :
       masked[k][j] = SymDiff(F[k][j], {MaskAtom(r, Used(F, k) + j)})
  /\ \A k \in 1..(n + 1) : Used(masked, k) = Used(F, k)

LEMMA MaskedElements ==
  ASSUME NEW r, NEW F, NEW n, NEW z, Parts(F, n, z)
  PROVE  IsMasked(Masked(r, F), r, F, n, z)
<1> DEFINE M == Masked(r, F)
           L == Len(FlattenSeq(F))
           mask == Mask(r, L)
<1>1. n \in Nat /\ IsSeq(F, n) /\ \A k \in 1..n : IsSeq(F[k], z[k]) /\ z[k] \in Nat
  BY DEF Parts, IsSeq
<1>2. IsFlat(FlattenSeq(F), F, n, z)
  BY FlatElements
<1>3. L = Used(F, n + 1) /\ L \in Nat
  BY <1>2, SeqOfElements DEF IsFlat
<1>4. DOMAIN F = 1..n
  BY <1>1, SeqOfElements
<1>5. M = [k \in 1..n |-> Xor(F[k], Drop(mask, Used(F, k)))]
  BY <1>4 DEF Masked
<1>6. IsSeq(mask, L) /\ \A i \in 1..L : mask[i] = {MaskAtom(r, i)}
  BY <1>3 DEF Mask, IsSeq, MaskAtom
<1> HIDE DEF L, mask, M
<1>7. ASSUME NEW k \in 1..n
      PROVE  /\ IsSeq(M[k], z[k])
             /\ \A j \in 1..z[k] : M[k][j] = SymDiff(F[k][j], {MaskAtom(r, Used(F, k) + j)})
  <2> DEFINE u == Used(F, k)
             y == z[k]
             f == F[k]
             d == Drop(mask, u)
  <2>1. M[k] = Xor(f, d) /\ IsSeq(f, y) /\ y \in Nat
    BY <1>1, <1>5
  <2>2. u \in Nat /\ u + y <= L
    <3>1. k \in 1..(n + 1)
      BY <1>1
    <3>2. Used(F, k + 1) = u + y /\ Used(F, k + 1) <= L /\ u \in Nat
      BY <1>2, <1>3, <3>1 DEF IsFlat
    <3> QED BY <3>2
  <2> HIDE DEF u, y, f, d
  <2>3. u \in 0..L /\ y <= L - u
    BY <1>3, <2>1, <2>2
  <2>4. IsSeq(d, L - u) /\ \A i \in 1..(L - u) : d[i] = mask[u + i]
    BY <1>6, <2>3, DropElements DEF d
  <2>5. IsXor(Xor(f, d), f, d, y)
    <3> DEFINE c == L - u
    <3>1. IsSeq(d, c) /\ y <= c
      BY <2>3, <2>4
    <3> HIDE DEF c
    <3> QED BY <2>1, <3>1, XorElements
  <2>6. ASSUME NEW j \in 1..y PROVE Xor(f, d)[j] = SymDiff(f[j], {MaskAtom(r, u + j)})
    <3>1. j \in 1..(L - u) /\ u + j \in 1..L
      BY <1>3, <2>1, <2>2, <2>3
    <3>2. d[j] = {MaskAtom(r, u + j)}
      BY <1>6, <2>4, <3>1
    <3>3. Xor(f, d)[j] = SymDiff(f[j], d[j])
      BY <2>5 DEF IsXor
    <3> QED BY <3>2, <3>3
  <2>7. IsSeq(Xor(f, d), y)
    BY <2>5 DEF IsXor
  <2> QED BY <2>1, <2>6, <2>7 DEF u, y, f
<1>8. IsSeq(M, n)
  BY <1>1, <1>5 DEF IsSeq
<1>9. Parts(M, n, z)
  BY <1>7, <1>8 DEF Parts
<1>10. \A k \in 1..(n + 1) : Used(M, k) = Used(F, k)
  <2>1. n \in Nat /\ n <= n /\ \A k \in 1..n : z[k] = z[k]
    BY <1>1
  <2> QED BY <1>9, <2>1, SameUsed DEF UsedAlike
<1> QED BY <1>7, <1>9, <1>10 DEF IsMasked, M

LEMMA MaskedTwice ==
  ASSUME NEW r, NEW F, NEW n, NEW z, Parts(F, n, z)
  PROVE  Masked(r, Masked(r, F)) = F
<1> DEFINE M == Masked(r, F)
           W == Masked(r, M)
<1>1. n \in Nat /\ IsSeq(F, n) /\ \A k \in 1..n : IsSeq(F[k], z[k])
  BY DEF Parts, IsSeq
<1>2. IsMasked(M, r, F, n, z)
  BY MaskedElements
<1>3. IsMasked(W, r, M, n, z)
  <2>1. Parts(M, n, z)
    BY <1>2 DEF IsMasked
  <2> HIDE DEF M
  <2> QED BY <2>1, MaskedElements
<1> HIDE DEF M, W
<1>4. ASSUME NEW k \in 1..n PROVE W[k] = F[k]
  <2>1. IsSeq(W[k], z[k]) /\ IsSeq(F[k], z[k])
    BY <1>1, <1>3 DEF IsMasked, Parts
  <2>2. ASSUME NEW j \in 1..z[k] PROVE W[k][j] = F[k][j]
    <3> DEFINE a == F[k][j]
               b == {MaskAtom(r, Used(F, k) + j)}
    <3>1. Used(M, k) = Used(F, k)
      <4>1. k \in 1..(n + 1)
        BY <1>1
      <4> QED BY <1>2, <4>1 DEF IsMasked
    <3>2. M[k][j] = SymDiff(a, b)
      BY <1>2 DEF IsMasked
    <3>3. W[k][j] = SymDiff(M[k][j], b)
      BY <1>3, <3>1 DEF IsMasked
    <3> HIDE DEF a, b
    <3>4. W[k][j] = a
      BY <3>2, <3>3, XorTwice
    <3> QED BY <3>4 DEF a
  <2> QED BY <2>1, <2>2, SameElements
<1>5. IsSeq(W, n)
  BY <1>3 DEF IsMasked, Parts
<1>6. W = F
  BY <1>1, <1>4, <1>5, SameElements
<1> QED BY <1>6 DEF W, M

IsHeadTail(s, n) ==
  /\ Head(s) = s[1] /\ IsSeq(Tail(s), n) /\ \A i \in 1..n : Tail(s)[i] = s[i + 1]

LEMMA HeadTailElements ==
  ASSUME NEW s, NEW n \in Nat, IsSeq(s, n + 1)
  PROVE  IsHeadTail(s, n)
<1> DEFINE c == n + 1
           S == {s[i] : i \in 1..c}
<1>1. c \in Nat /\ c # 0 /\ IsSeq(s, c) /\ c - 1 = n
  OBVIOUS
<1> HIDE DEF c
<1>2. s \in Seq(S) /\ Len(s) = c
  BY <1>1, SeqOfElements
<1> HIDE DEF S
<1>3. s # <<>>
  BY <1>1, <1>2, EmptyIsSeq
<1>4. /\ Head(s) = s[1] /\ Tail(s) \in Seq(S) /\ Len(Tail(s)) = n
      /\ \A i \in 1..n : Tail(s)[i] = s[i + 1]
  BY <1>1, <1>2, <1>3, HeadTailProperties
<1>5. IsSeq(Tail(s), n)
  BY <1>4, SeqIsSeq
<1> QED BY <1>4, <1>5 DEF IsHeadTail

IsPrepended(s, x, t, n) ==
  /\ IsSeq(s, n + 1) /\ s[1] = x /\ \A i \in 1..n : s[i + 1] = t[i]
  /\ Head(s) = x /\ Tail(s) = t

LEMMA PrependElements ==
  ASSUME NEW x, NEW t, NEW n, IsSeq(t, n)
  PROVE  IsPrepended(<<x>> \o t, x, t, n)
<1> DEFINE s == <<x>> \o t
           h == <<x>>
<1>1. n \in Nat /\ IsSeq(h, 1) /\ h[1] = x
  BY DEF IsSeq
<1> HIDE DEF h
<1>2. IsConcat(h \o t, h, 1, t, n)
  BY <1>1, ConcatElements
<1>3. s = h \o t /\ 1 + n = n + 1
  BY <1>1 DEF h
<1> HIDE DEF s
<1>4. IsSeq(s, n + 1) /\ s[1] = x
  <2> DEFINE one == 1
  <2>1. one \in 1..one /\ one = 1
    OBVIOUS
  <2> HIDE DEF one
  <2>2. IsConcat(s, h, one, t, n)
    BY <1>2, <1>3, <2>1
  <2>3. IsSeq(s, one + n) /\ s[one] = h[one]
    BY <2>1, <2>2 DEF IsConcat
  <2>4. s[1] = x
    BY <1>1, <2>1, <2>3
  <2>5. IsSeq(s, n + 1)
    BY <1>3, <2>1, <2>3
  <2> QED BY <2>4, <2>5
<1>5. \A i \in 1..n : s[i + 1] = t[i]
  <2>1. \A i \in 1..n : i + 1 \in (1 + 1)..(1 + n) /\ (i + 1) - 1 = i
    BY <1>1
  <2> QED BY <1>2, <1>3, <2>1 DEF IsConcat
<1>6. IsHeadTail(s, n)
  BY <1>1, <1>4, HeadTailElements
<1>7. Tail(s) = t
  BY <1>5, <1>6, SameElements DEF IsHeadTail
<1>8. IsPrepended(s, x, t, n)
  BY <1>4, <1>5, <1>6, <1>7 DEF IsPrepended, IsHeadTail
<1> QED BY <1>8 DEF s

(***************************************************************************)
(* The sizes of fragments that fill their payloads, the first together     *)
(* with the masked random value.                                           *)
(***************************************************************************)
Sizes(n) == [k \in 1..n |-> IF k = 1 THEN PayloadSize - 1 ELSE PayloadSize]

(***************************************************************************)
(* What aont() makes of the fragments F: the masked fragments, and before  *)
(* the first of them the masked random value.                              *)
(***************************************************************************)
IsTransformed(T, M, r, F, n) ==
  /\ IsMasked(M, r, F, n, Sizes(n))
  /\ IsSeq(T, n) /\ \A k \in 1..n : IsSeq(T[k], PayloadSize)
  /\ T[1][1] = SymDiff(r, RMask(M)) /\ \A j \in 1..(PayloadSize - 1) : T[1][j + 1] = M[1][j]
  /\ Head(T[1]) = SymDiff(r, RMask(M)) /\ Tail(T[1]) = M[1]
  /\ \A k \in 2..n : T[k] = M[k]

LEMMA TransformElements ==
  ASSUME NEW r, NEW F, NEW n \in Nat \ {0}, PayloadSize > 0, Parts(F, n, Sizes(n))
  PROVE  IsTransformed(Transform(r, F), Masked(r, F), r, F, n)
<1> DEFINE M == Masked(r, F)
           x == SymDiff(r, RMask(M))
           T == Transform(r, F)
           p == PayloadSize - 1
<1>1. PayloadSize \in Nat /\ p \in Nat /\ p + 1 = PayloadSize
  BY SizeAssumption
<1>2. IsMasked(M, r, F, n, Sizes(n))
  BY MaskedElements
<1>3. T = [M EXCEPT ![1] = <<x>> \o @]
  BY DEF Transform
<1> HIDE DEF M, x, T
<1>4. IsSeq(M, n) /\ DOMAIN M = 1..n /\ IsSeq(M[1], p) /\ \A k \in 2..n : IsSeq(M[k], PayloadSize)
  <2>1. IsSeq(M, n) /\ \A k \in 1..n : IsSeq(M[k], Sizes(n)[k])
    BY <1>2 DEF IsMasked, Parts
  <2>2. Sizes(n)[1] = p /\ \A k \in 2..n : Sizes(n)[k] = PayloadSize
    BY DEF Sizes
  <2>3. 1 \in 1..n /\ \A k \in 2..n : k \in 1..n
    OBVIOUS
  <2>4. DOMAIN M = 1..n
    BY <2>1, SeqOfElements
  <2> HIDE DEF p
  <2> QED BY <2>1, <2>2, <2>3, <2>4
<1>5. T[1] = <<x>> \o M[1] /\ (\A k \in 2..n : T[k] = M[k]) /\ IsSeq(T, n)
  <2> DEFINE y == <<x>> \o M[1]
  <2>1. T = [M EXCEPT ![1] = y]
    BY <1>3
  <2> HIDE DEF y
  <2>2. T = [k \in 1..n |-> IF k = 1 THEN y ELSE M[k]]
    BY <1>4, <2>1
  <2>3. T[1] = y /\ (\A k \in 2..n : T[k] = M[k]) /\ IsSeq(T, n)
    BY <2>2 DEF IsSeq
  <2> QED BY <2>3 DEF y
<1> HIDE DEF p
<1>6. IsPrepended(T[1], x, M[1], p)
  BY <1>4, <1>5, PrependElements
<1>7. IsSeq(T[1], PayloadSize) /\ T[1][1] = x /\ (\A j \in 1..p : T[1][j + 1] = M[1][j])
      /\ Head(T[1]) = x /\ Tail(T[1]) = M[1]
  BY <1>1, <1>6 DEF IsPrepended
<1>8. \A k \in 1..n : IsSeq(T[k], PayloadSize)
  <2>1. \A k \in 1..n : k = 1 \/ k \in 2..n
    OBVIOUS
  <2> QED BY <1>4, <1>5, <1>7, <2>1
<1>9. IsTransformed(T, M, r, F, n)
  BY <1>2, <1>5, <1>7, <1>8 DEF IsTransformed, p, x
<1> QED BY <1>9 DEF T, M

(***************************************************************************)
(* aont_inv() undoes aont().                                               *)
(***************************************************************************)
THEOREM TransformInverted ==
  ASSUME NEW r, NEW F, NEW n \in Nat \ {0}, PayloadSize > 0, Parts(F, n, Sizes(n))
  PROVE  Inverted(Transform(r, F)) = F
<1> DEFINE M == Masked(r, F)
           T == Transform(r, F)
           rest == [T EXCEPT ![1] = Tail(@)]
<1>1. IsTransformed(T, M, r, F, n)
  BY TransformElements
<1>2. Masked(r, M) = F
  BY MaskedTwice
<1> HIDE DEF M, T
<1>3. rest = M
  <2>1. DOMAIN T = 1..n /\ IsSeq(T, n) /\ IsSeq(M, n)
    BY <1>1, SeqOfElements DEF IsTransformed, IsMasked, Parts
  <2> DEFINE y == Tail(T[1])
  <2>2. y = M[1] /\ \A k \in 2..n : T[k] = M[k]
    BY <1>1 DEF IsTransformed
  <2> HIDE DEF y
  <2>3. rest = [k \in 1..n |-> IF k = 1 THEN y ELSE T[k]]
    BY <2>1 DEF y, IsSeq
  <2>4. \A k \in 1..n : (IF k = 1 THEN y ELSE T[k]) = M[k]
    BY <2>2
  <2>5. M = [k \in 1..n |-> M[k]]
    BY <2>1 DEF IsSeq
  <2> QED BY <2>3, <2>4, <2>5
<1>4. SymDiff(Head(T[1]), RMask(M)) = r
  <2>1. Head(T[1]) = SymDiff(r, RMask(M))
    BY <1>1 DEF IsTransformed
  <2> QED BY <2>1, XorTwice
<1>5. Inverted(T) = Masked(SymDiff(Head(T[1]), RMask(rest)), rest)
  BY DEF Inverted
<1>6. Inverted(T) = F
  BY <1>2, <1>3, <1>4, <1>5
<1> QED BY <1>6 DEF T

(***************************************************************************)
(* A message begins with zeros, and every further fragment with something  *)
(* that neither the mask nor the other fragments have in that place.       *)
(***************************************************************************)
IsMarked(F, n, marks) ==
  /\ F[1][1] = {}
  /\ \A k \in 2..n : /\ marks[k] \in F[k][2]
                     /\ \A r, i : marks[k] # MaskAtom(r, i)
                     /\ \A q \in 2..n : q # k => marks[k] \notin F[q][2]

(***************************************************************************)
(* What has to be so if aont_inv() returns something that begins with      *)
(* zeros: the random value came out as it went in.                         *)
(***************************************************************************)
LEMMA ZerosTell ==
  ASSUME NEW D, NEW m \in Nat \ {0}, PayloadSize > 1,
         IsSeq(D, m), \A i \in 1..m : IsSeq(D[i], PayloadSize), Defrag(D).error = "none",
         NEW rest, rest = [D EXCEPT ![1] = Tail(@)]
  PROVE  /\ Parts(rest, m, Sizes(m)) /\ rest[1] = Tail(D[1]) /\ \A i \in 2..m : rest[i] = D[i]
         /\ rest[1][1] = D[1][2]
         /\ D[1][2] = {MaskAtom(SymDiff(Head(D[1]), RMask(rest)), 1)}
<1> DEFINE p == PayloadSize - 1
           h == Tail(D[1])
           r == SymDiff(Head(D[1]), RMask(rest))
           W == Masked(r, rest)
           data == FlattenSeq(W)
<1>1. p \in Nat /\ p + 1 = PayloadSize /\ 1 \in 1..p /\ 1 \in 1..m /\ p = PayloadSize - 1
  BY SizeAssumption
<1> HIDE DEF p
<1>2. IsHeadTail(D[1], p)
  <2>1. IsSeq(D[1], p + 1)
    BY <1>1
  <2> QED BY <1>1, <2>1, HeadTailElements
<1>3. rest = [k \in 1..m |-> IF k = 1 THEN h ELSE D[k]]
  <2>1. DOMAIN D = 1..m
    BY SeqOfElements
  <2> QED BY <2>1 DEF IsSeq
<1>4. IsSeq(h, p) /\ h[1] = D[1][2]
  <2> DEFINE d == D[1]
  <2>1. IsHeadTail(d, p) /\ h = Tail(d)
    BY <1>2
  <2> HIDE DEF d, h
  <2>2. IsSeq(h, p) /\ \A i \in 1..p : h[i] = d[i + 1]
    BY <2>1 DEF IsHeadTail
  <2>3. h[1] = d[2]
    BY <1>1, <2>2
  <2> QED BY <2>2, <2>3 DEF d
<1> HIDE DEF h
<1>5. rest[1] = h /\ (\A i \in 2..m : rest[i] = D[i]) /\ IsSeq(rest, m)
  <2>1. rest[1] = h
    BY <1>1, <1>3
  <2>2. ASSUME NEW i \in 2..m PROVE rest[i] = D[i]
    BY <1>3
  <2>3. rest = [k \in 1..m |-> rest[k]]
    BY <1>3
  <2> QED BY <2>1, <2>2, <2>3 DEF IsSeq
<1>6. Parts(rest, m, Sizes(m))
  <2>1. ASSUME NEW k \in 1..m PROVE IsSeq(rest[k], Sizes(m)[k])
    <3>1. CASE k = 1
      BY <1>1, <1>4, <1>5, <3>1 DEF Sizes
    <3>2. CASE k \in 2..m
      <4>1. Sizes(m)[k] = PayloadSize
        BY <3>2 DEF Sizes
      <4> QED BY <1>5, <3>2, <4>1
    <3> QED BY <3>1, <3>2
  <2> QED BY <1>5, <2>1 DEF Parts
<1>7. Defrag(D) = IF data = <<>> \/ data[1] # {} THEN MissingFragments
                  ELSE [error |-> "none", destination |-> data[2], data |-> Drop(data, 2)]
  BY DEF Defrag, Inverted
<1> HIDE DEF r
<1>8. IsMasked(W, r, rest, m, Sizes(m))
  BY <1>6, MaskedElements
<1> HIDE DEF W
<1>9. Parts(W, m, Sizes(m))
  BY <1>8 DEF IsMasked
<1>10. IsFlat(data, W, m, Sizes(m))
  BY <1>9, FlatElements
<1> HIDE DEF data
<1>11. data[1] = {}
  BY <1>7 DEF MissingFragments
<1>12. data[1] = W[1][1]
  <2>1. Sizes(m)[1] = p /\ Used(W, 1) = 0 /\ 0 + 1 = 1
    BY <1>1, <1>10 DEF Sizes, IsFlat
  <2>2. data[Used(W, 1) + 1] = W[1][1]
    BY <1>1, <1>10, <2>1 DEF IsFlat
  <2> QED BY <2>1, <2>2
<1>13. W[1][1] = SymDiff(rest[1][1], {MaskAtom(r, 1)})
  <2>1. Sizes(m)[1] = p /\ Used(rest, 1) = 0 /\ 0 + 1 = 1
    BY <1>1, <1>6, FlatElements DEF Sizes, IsFlat
  <2>2. W[1][1] = SymDiff(rest[1][1], {MaskAtom(r, Used(rest, 1) + 1)})
    BY <1>1, <1>8, <2>1 DEF IsMasked
  <2> QED BY <2>1, <2>2
<1>14. \A a, b : SymDiff(a, b) = {} => a = b
  BY DEF SymDiff
<1>15. rest[1][1] = {MaskAtom(r, 1)}
  BY <1>11, <1>12, <1>13, <1>14
<1> QED BY <1>4, <1>5, <1>6, <1>15 DEF r, h

(***************************************************************************)
(* D holds m of the n parts of T, chosen by x; x chooses all of them once  *)
(* and in order.                                                           *)
(***************************************************************************)
Selects(D, m, T, x, n) == IsSeq(D, m) /\ \A i \in 1..m : x[i] \in 1..n /\ D[i] = T[x[i]]

IsIdentity(x, m, n) == m = n /\ \A i \in 1..n : x[i] = i

(***************************************************************************)
(* defrag() reports missing fragments whenever it is given fragments of a  *)
(* set, one of them or more, that are not all of them once and in order:   *)
(* with one missing, one twice, or two of them swapped.                    *)
(***************************************************************************)
THEOREM OnlyWholeSets ==
  ASSUME NEW r, NEW F, NEW n \in Nat \ {0}, PayloadSize > 1, Parts(F, n, Sizes(n)),
         NEW marks, IsMarked(F, n, marks),
         NEW m \in Nat \ {0}, NEW x, NEW D, Selects(D, m, Transform(r, F), x, n),
         Defrag(D).error = "none"
  PROVE  IsIdentity(x, m, n)
<1> DEFINE M == Masked(r, F)
           T == Transform(r, F)
           rest == [D EXCEPT ![1] = Tail(@)]
           r2 == SymDiff(Head(D[1]), RMask(rest))
<1>0. IsSeq(D, m) /\ (\A i \in 1..m : x[i] \in 1..n) /\ \A i \in 1..m : D[i] = T[x[i]]
  BY DEF Selects, T
<1>1. PayloadSize \in Nat /\ 1 \in 1..(PayloadSize - 1) /\ 2 \in 1..PayloadSize /\ 1 \in 1..n /\ 1 \in 1..m
      /\ 1 + 1 = 2 /\ \A k \in 2..n : k \in 1..n
  BY SizeAssumption
<1>2. IsTransformed(T, M, r, F, n)
  BY <1>1, TransformElements
<1> HIDE DEF M, T, rest
<1>3. \A i \in 1..m : D[i] = T[x[i]] /\ IsSeq(D[i], PayloadSize)
  BY <1>0, <1>2 DEF IsTransformed
<1>4. /\ Parts(rest, m, Sizes(m)) /\ rest[1] = Tail(D[1]) /\ \A i \in 2..m : rest[i] = D[i]
      /\ rest[1][1] = D[1][2]
      /\ D[1][2] = {MaskAtom(r2, 1)}
  BY <1>0, <1>3, ZerosTell DEF rest
<1>5. IsMasked(M, r, F, n, Sizes(n)) /\ Parts(M, n, Sizes(n))
  BY <1>2 DEF IsTransformed, IsMasked
<1>6. T[1][2] = M[1][1] /\ M[1][1] = {MaskAtom(r, 1)}
  <2>1. T[1][1 + 1] = M[1][1]
    BY <1>1, <1>2 DEF IsTransformed
  <2>2. Sizes(n)[1] = PayloadSize - 1 /\ Used(F, 1) = 0 /\ 0 + 1 = 1
    BY <1>1, FlatElements DEF Sizes, IsFlat
  <2>3. M[1][1] = SymDiff(F[1][1], {MaskAtom(r, Used(F, 1) + 1)})
    BY <1>1, <1>5, <2>2 DEF IsMasked
  <2>4. F[1][1] = {}
    BY DEF IsMarked
  <2>5. SymDiff({}, {MaskAtom(r, 1)}) = {MaskAtom(r, 1)}
    BY XorTwice
  <2> QED BY <1>1, <2>1, <2>2, <2>3, <2>4, <2>5
<1>7. ASSUME NEW k \in 2..n, NEW q \in 2..n
      PROVE  T[q] = M[q] /\ marks[k] \in M[k][2] /\ (k # q => marks[k] \notin M[q][2])
  <2>1. Sizes(n)[k] = PayloadSize /\ Sizes(n)[q] = PayloadSize
    BY DEF Sizes
  <2>2. PICK a : M[k][2] = SymDiff(F[k][2], {a}) /\ a # marks[k]
    <3>1. M[k][2] = SymDiff(F[k][2], {MaskAtom(r, Used(F, k) + 2)})
      BY <1>1, <1>5, <2>1 DEF IsMasked
    <3>2. MaskAtom(r, Used(F, k) + 2) # marks[k]
      BY DEF IsMarked
    <3> QED BY <3>1, <3>2
  <2>3. PICK b : M[q][2] = SymDiff(F[q][2], {b}) /\ b # marks[k]
    <3>1. M[q][2] = SymDiff(F[q][2], {MaskAtom(r, Used(F, q) + 2)})
      BY <1>1, <1>5, <2>1 DEF IsMasked
    <3>2. MaskAtom(r, Used(F, q) + 2) # marks[k]
      BY DEF IsMarked
    <3> QED BY <3>1, <3>2
  <2>4. marks[k] \in F[k][2] /\ (k # q => marks[k] \notin F[q][2])
    BY DEF IsMarked
  <2>5. T[q] = M[q]
    BY <1>2 DEF IsTransformed
  <2> QED BY <2>2, <2>3, <2>4, <2>5 DEF SymDiff
<1>8. \A k \in 2..n : \A s, i : marks[k] # MaskAtom(s, i)
  BY DEF IsMarked
<1>9. x[1] = 1
  <2> SUFFICES ASSUME x[1] # 1 PROVE FALSE
    OBVIOUS
  <2>1. x[1] \in 2..n
    BY <1>0, <1>1
  <2>2. D[1][2] = M[x[1]][2]
    BY <1>1, <1>3, <1>7, <2>1
  <2>3. marks[x[1]] \in D[1][2]
    BY <1>7, <2>1, <2>2
  <2> QED BY <1>4, <1>8, <2>1, <2>3
<1>10. FlattenSeq(M) = FlattenSeq(rest)
  <2>1. D[1] = T[1]
    BY <1>1, <1>3, <1>9
  <2>2. {MaskAtom(r, 1)} = {MaskAtom(r2, 1)}
    BY <1>4, <1>6, <2>1
  <2> DEFINE a == RMask(M)
             b == RMask(rest)
  <2>3. r = SymDiff(SymDiff(r, a), b)
    <3>1. r = r2
      <4> HIDE DEF r2
      <4>1. <<"mask", r, 1>> = <<"mask", r2, 1>>
        BY <2>2 DEF MaskAtom
      <4> QED BY <4>1
    <3>2. Head(D[1]) = SymDiff(r, a)
      BY <1>2, <2>1 DEF IsTransformed
    <3> QED BY <3>1, <3>2
  <2> HIDE DEF a, b
  <2>4. a = b
    BY <2>3 DEF SymDiff
  <2>5. {<<"hash", FlattenSeq(M)>>} = {<<"hash", FlattenSeq(rest)>>}
    BY <2>4 DEF a, b, RMask
  <2> DEFINE f == FlattenSeq(M)
             g == FlattenSeq(rest)
  <2> HIDE DEF f, g
  <2>6. {<<"hash", f>>} = {<<"hash", g>>}
    BY <2>5 DEF f, g
  <2>7. f = g
    <3>1. <<"hash", f>> = <<"hash", g>>
      BY <2>6
    <3> QED BY <3>1
  <2> QED BY <2>7 DEF f, g
<1>11. IsFlat(FlattenSeq(M), M, n, Sizes(n)) /\ IsFlat(FlattenSeq(M), rest, m, Sizes(m))
  BY <1>4, <1>5, <1>10, FlatElements
<1>12. Used(M, n + 1) = Used(rest, m + 1)
  <2> DEFINE a == Used(M, n + 1)
             b == Used(rest, m + 1)
             flat == FlattenSeq(M)
  <2>1. IsSeq(flat, a) /\ IsSeq(flat, b)
    BY <1>11 DEF IsFlat
  <2> HIDE DEF a, b, flat
  <2>2. a = b
    <3>1. Len(flat) = a
      BY <2>1, SeqOfElements
    <3>2. Len(flat) = b
      BY <2>1, SeqOfElements
    <3> QED BY <3>1, <3>2
  <2> QED BY <2>2 DEF a, b
<1>13. \A k \in Nat : k <= n /\ k <= m => Used(M, k + 1) = Used(rest, k + 1) /\ (k > 0 => Used(M, k) = Used(rest, k))
  <2> SUFFICES ASSUME NEW k \in Nat, k <= n, k <= m
               PROVE  Used(M, k + 1) = Used(rest, k + 1) /\ (k > 0 => Used(M, k) = Used(rest, k))
    OBVIOUS
  <2>1. \A i \in 1..k : Sizes(n)[i] = Sizes(m)[i]
    <3>1. \A i \in 1..k : i \in 1..n /\ i \in 1..m
      OBVIOUS
    <3> QED BY <3>1 DEF Sizes
  <2>2. \A i \in 1..(k + 1) : Used(M, i) = Used(rest, i)
    <3> DEFINE z == Sizes(n)
               y == Sizes(m)
    <3>1. Parts(M, n, z) /\ Parts(rest, m, y) /\ \A i \in 1..k : z[i] = y[i]
      BY <1>4, <1>5, <2>1
    <3> HIDE DEF z, y
    <3>2. UsedAlike(M, rest, k)
      BY <3>1, SameUsed
    <3> QED BY <3>2 DEF UsedAlike
  <2>3. k + 1 \in 1..(k + 1) /\ (k > 0 => k \in 1..(k + 1))
    OBVIOUS
  <2> QED BY <2>2, <2>3
<1>14. m = n
  <2>1. ASSUME m < n PROVE FALSE
    <3>1. m + 1 \in 1..((n + 1) - 1) /\ n + 1 \in 1..(n + 1) /\ m + 1 \in 2..n /\ m + 1 \in 1..(n + 1)
      BY <2>1
    <3>2. Used(M, m + 1) + Sizes(n)[m + 1] <= Used(M, n + 1)
      BY <1>5, <3>1, UsedGrows
    <3>3. Sizes(n)[m + 1] = PayloadSize
      BY <3>1 DEF Sizes
    <3>4. Used(M, m + 1) \in Nat
      BY <1>11, <3>1 DEF IsFlat
    <3>5. Used(M, m + 1) = Used(rest, m + 1)
      BY <1>13, <2>1
    <3> QED BY <1>1, <1>12, <3>2, <3>3, <3>4, <3>5
  <2>2. ASSUME n < m PROVE FALSE
    <3>1. n + 1 \in 1..((m + 1) - 1) /\ m + 1 \in 1..(m + 1) /\ n + 1 \in 2..m /\ n + 1 \in 1..(m + 1)
      BY <2>2
    <3>2. Used(rest, n + 1) + Sizes(m)[n + 1] <= Used(rest, m + 1)
      BY <1>4, <3>1, UsedGrows
    <3>3. Sizes(m)[n + 1] = PayloadSize
      BY <3>1 DEF Sizes
    <3>4. Used(rest, n + 1) \in Nat
      BY <1>11, <3>1 DEF IsFlat
    <3>5. Used(M, n + 1) = Used(rest, n + 1)
      BY <1>13, <2>2
    <3> QED BY <1>1, <1>12, <3>2, <3>3, <3>4, <3>5
  <2> QED BY <2>1, <2>2
<1>15. ASSUME NEW i \in 1..n PROVE x[i] = i
  <2>1. CASE i = 1
    BY <1>9, <2>1
  <2>2. CASE i \in 2..n
    <3>1. Sizes(n)[i] = PayloadSize /\ Sizes(m)[i] = PayloadSize /\ i \in 1..m /\ i \in 2..m
      BY <1>14, <2>2 DEF Sizes
    <3>2. Used(M, i) = Used(rest, i)
      BY <1>13, <1>14, <2>2
    <3>3. FlattenSeq(M)[Used(M, i) + 2] = M[i][2] /\ FlattenSeq(M)[Used(rest, i) + 2] = rest[i][2]
      BY <1>1, <1>11, <3>1 DEF IsFlat
    <3>4. M[i][2] = T[x[i]][2]
      BY <1>3, <1>4, <3>1, <3>2, <3>3
    <3>5. marks[i] \in T[x[i]][2]
      BY <1>7, <2>2, <3>4
    <3>6. x[i] # 1
      BY <1>6, <1>8, <2>2, <3>5
    <3>7. x[i] \in 2..n
      BY <1>0, <3>1, <3>6
    <3> QED BY <1>7, <2>2, <3>5, <3>7
  <2> QED BY <2>1, <2>2
<1> QED BY <1>14, <1>15 DEF IsIdentity

(***************************************************************************)
(* What stands before the first fragment stands before all of them.        *)
(***************************************************************************)
LEMMA FlattenBehind ==
  ASSUME NEW C, NEW n \in Nat \ {0}, NEW y, Parts(C, n, y), NEW before, NEW l, IsSeq(before, l),
         NEW F, F = [C EXCEPT ![1] = before \o @], NEW z, Parts(F, n, z)
  PROVE  FlattenSeq(F) = before \o FlattenSeq(C)
<1>1. IsSeq(C, n) /\ \A k \in 1..n : IsSeq(C[k], y[k])
  BY DEF Parts
<1>2. DOMAIN C = 1..n
  BY <1>1, SeqOfElements
<1>3. F[1] = before \o C[1] /\ \A k \in 2..n : F[k] = C[k]
  <2> DEFINE f == before \o C[1]
  <2>1. F = [C EXCEPT ![1] = f]
    OBVIOUS
  <2> HIDE DEF f
  <2>2. F = [k \in 1..n |-> IF k = 1 THEN f ELSE C[k]]
    BY <1>2, <2>1
  <2> QED BY <2>2 DEF f
<1> DEFINE V(k) == FlatPrefix(F, k)
           W(k) == FlatPrefix(C, k)
           S == {k \in Nat : k + 1 <= n => V(k + 1) = before \o W(k + 1)}
<1>4. V(0) = <<>> /\ V(n) = FlattenSeq(F) /\ \A k \in 0..(n - 1) : V(k + 1) = V(k) \o F[k + 1]
  BY FlattenPrefixes
<1>5. W(0) = <<>> /\ W(n) = FlattenSeq(C) /\ \A k \in 0..(n - 1) : W(k + 1) = W(k) \o C[k + 1]
  BY FlattenPrefixes
<1>6. \A k \in 0..n : \E m : IsSeq(W(k), m)
  <2> SUFFICES ASSUME NEW k \in 0..n PROVE \E m : IsSeq(W(k), m)
    OBVIOUS
  <2> DEFINE G == SubSeq(C, 1, k)
  <2>1. IsSeq(G, k) /\ \A i \in 1..k : G[i] = C[i]
    BY <1>1, PrefixElements
  <2>2. Parts(G, k, y)
    <3>1. \A i \in 1..k : i \in 1..n
      OBVIOUS
    <3> QED BY <1>1, <2>1, <3>1 DEF Parts
  <2>3. IsFlat(FlattenSeq(G), G, k, y)
    BY <2>2, FlatElements
  <2>4. IsSeq(FlattenSeq(G), Used(G, k + 1))
    BY <2>3 DEF IsFlat
  <2> QED BY <2>4 DEF FlatPrefix
<1> HIDE DEF V, W
<1>7. 0 \in S
  <2>1. 0 \in 0..(n - 1) /\ 0 + 1 = 1 /\ 1 \in 1..n
    OBVIOUS
  <2>2. V(0 + 1) = <<>> \o F[1] /\ W(0 + 1) = <<>> \o C[1]
    BY <1>4, <1>5, <2>1
  <2>3. IsSeq(C[1], y[1]) /\ IsSeq(F[1], z[1])
    BY <1>1, <2>1 DEF Parts
  <2>4. <<>> \o F[1] = F[1] /\ <<>> \o C[1] = C[1]
    BY <2>3, ConcatNothing
  <2>5. V(0 + 1) = before \o W(0 + 1)
    BY <1>3, <2>2, <2>4
  <2> QED BY <2>5
<1>8. ASSUME NEW k \in Nat, k \in S PROVE k + 1 \in S
  <2> SUFFICES ASSUME (k + 1) + 1 <= n PROVE V((k + 1) + 1) = before \o W((k + 1) + 1)
    OBVIOUS
  <2>1. k + 1 \in 0..(n - 1) /\ k + 1 \in 0..n /\ (k + 1) + 1 \in 2..n /\ (k + 1) + 1 \in 1..n /\ k + 1 <= n
    OBVIOUS
  <2> DEFINE w == W(k + 1)
             c == C[(k + 1) + 1]
  <2>2. V((k + 1) + 1) = (before \o w) \o c /\ W((k + 1) + 1) = w \o c
    BY <1>3, <1>4, <1>5, <1>8, <2>1
  <2>3. PICK m : IsSeq(w, m)
    BY <1>6, <2>1
  <2>4. PICK d : IsSeq(c, d)
    BY <1>1, <2>1
  <2> HIDE DEF w, c
  <2>5. (before \o w) \o c = before \o (w \o c)
    BY <2>3, <2>4, ConcatAssociates
  <2> QED BY <2>2, <2>5
<1>9. n - 1 \in S /\ (n - 1) + 1 = n
  <2> HIDE DEF S
  <2>1. Nat \subseteq S
    BY <1>7, <1>8, NatSetInduction
  <2>2. n - 1 \in Nat /\ (n - 1) + 1 = n
    OBVIOUS
  <2> QED BY <2>1, <2>2
<1>10. V(n) = before \o W(n)
  BY <1>9
<1> QED BY <1>4, <1>5, <1>10

(***************************************************************************)
(* The blocks of a message with n fragments, and those with the zeros and  *)
(* the destination in front.                                               *)
(***************************************************************************)
ContentSizes(n) == [k \in 1..n |-> IF k = 1 THEN PayloadSize - Overhead ELSE PayloadSize]

IsHeaded(F, C, destination, n) ==
  /\ Parts(F, n, Sizes(n)) /\ FlattenSeq(F) = <<{}, destination>> \o FlattenSeq(C)
  /\ F[1][1] = {} /\ F[1][2] = destination /\ \A j \in 1..(PayloadSize - Overhead) : F[1][j + 2] = C[1][j]
  /\ \A k \in 2..n : F[k] = C[k]

LEMMA HeadedElements ==
  ASSUME NEW C, NEW n \in Nat \ {0}, PayloadSize >= Overhead, Parts(C, n, ContentSizes(n)),
         NEW destination, NEW F, F = [C EXCEPT ![1] = <<{}, destination>> \o @]
  PROVE  IsHeaded(F, C, destination, n)
<1> DEFINE before == <<{}, destination>>
           p == PayloadSize - Overhead
           f == before \o C[1]
<1>1. IsSeq(before, 2) /\ before[1] = {} /\ before[2] = destination
  BY DEF IsSeq
<1>2. p \in Nat /\ 2 + p = PayloadSize - 1 /\ p = PayloadSize - Overhead
  BY SizeAssumption DEF Overhead
<1>3. IsSeq(C, n) /\ IsSeq(C[1], p) /\ \A k \in 2..n : IsSeq(C[k], PayloadSize)
  <2>1. ContentSizes(n)[1] = p /\ \A k \in 2..n : ContentSizes(n)[k] = PayloadSize
    BY DEF ContentSizes
  <2>2. 1 \in 1..n /\ \A k \in 2..n : k \in 1..n
    OBVIOUS
  <2> QED BY <2>1, <2>2 DEF Parts
<1>4. DOMAIN C = 1..n
  BY <1>3, SeqOfElements
<1>5. F = [C EXCEPT ![1] = before \o @] /\ F = [C EXCEPT ![1] = f]
  OBVIOUS
<1> HIDE DEF p, before
<1>6. IsConcat(f, before, 2, C[1], p)
  BY <1>1, <1>3, ConcatElements
<1> HIDE DEF f
<1>7. F[1] = f /\ (\A k \in 2..n : F[k] = C[k]) /\ IsSeq(F, n)
  <2>1. F = [k \in 1..n |-> IF k = 1 THEN f ELSE C[k]]
    BY <1>4, <1>5
  <2>2. F[1] = f
    <3>1. 1 \in 1..n
      OBVIOUS
    <3> QED BY <2>1, <3>1
  <2>3. ASSUME NEW k \in 2..n PROVE F[k] = C[k]
    BY <2>1
  <2>4. F = [k \in 1..n |-> F[k]]
    BY <2>1
  <2> QED BY <2>2, <2>3, <2>4 DEF IsSeq
<1>8. Parts(F, n, Sizes(n))
  <2>1. Sizes(n)[1] = PayloadSize - 1 /\ \A k \in 2..n : Sizes(n)[k] = PayloadSize
    BY DEF Sizes
  <2>2. IsSeq(f, 2 + p)
    BY <1>6 DEF IsConcat
  <2>3. IsSeq(F[1], Sizes(n)[1])
    BY <1>2, <1>7, <2>1, <2>2
  <2>4. \A k \in 2..n : IsSeq(F[k], Sizes(n)[k])
    BY <1>3, <1>7, <2>1
  <2>5. \A k \in 1..n : k = 1 \/ k \in 2..n
    OBVIOUS
  <2> QED BY <1>7, <2>3, <2>4, <2>5 DEF Parts
<1>9. FlattenSeq(F) = before \o FlattenSeq(C)
  BY <1>1, <1>5, <1>8, FlattenBehind
<1>10. f[1] = {} /\ f[2] = destination
  <2>1. 1 \in 1..2 /\ 2 \in 1..2
    OBVIOUS
  <2> QED BY <1>1, <1>6, <2>1 DEF IsConcat
<1>11. \A j \in 1..p : f[j + 2] = C[1][j]
  <2>1. \A j \in 1..p : j + 2 \in (2 + 1)..(2 + p) /\ (j + 2) - 2 = j
    BY <1>2
  <2> QED BY <1>6, <2>1 DEF IsConcat
<1> QED BY <1>2, <1>7, <1>8, <1>9, <1>10, <1>11 DEF IsHeaded, before

(***************************************************************************)
(* defrag() makes of all fragments of a message, in order, the message and *)
(* its destination.                                                        *)
(***************************************************************************)
THEOREM WholeSetRead ==
  ASSUME NEW r, NEW C, NEW n \in Nat \ {0}, PayloadSize >= Overhead, Parts(C, n, ContentSizes(n)),
         NEW destination, NEW F, F = [C EXCEPT ![1] = <<{}, destination>> \o @]
  PROVE  Defrag(Transform(r, F)) = [error |-> "none", destination |-> destination, data |-> FlattenSeq(C)]
<1> DEFINE before == <<{}, destination>>
           flat == FlattenSeq(C)
           data == before \o flat
           D == Transform(r, F)
<1>1. IsHeaded(F, C, destination, n)
  BY HeadedElements
<1>2. Inverted(D) = F
  <2>1. PayloadSize > 0
    BY SizeAssumption DEF Overhead
  <2> QED BY <1>1, <2>1, TransformInverted DEF IsHeaded
<1>3. FlattenSeq(Inverted(D)) = data
  BY <1>1, <1>2 DEF IsHeaded
<1> HIDE DEF D
<1>4. PICK l : IsSeq(flat, l)
  BY FlatElements DEF IsFlat
<1>5. IsSeq(before, 2) /\ before[1] = {} /\ before[2] = destination
  BY DEF IsSeq
<1> HIDE DEF flat, before
<1>6. IsConcat(data, before, 2, flat, l)
  BY <1>4, <1>5, ConcatElements
<1> HIDE DEF data
<1>7. l \in Nat
  BY <1>4 DEF IsSeq
<1>8. data[1] = {} /\ data[2] = destination
  <2>1. 1 \in 1..2 /\ 2 \in 1..2
    OBVIOUS
  <2> QED BY <1>5, <1>6, <2>1 DEF IsConcat
<1>9. data # <<>>
  <2>1. Len(data) = 2 + l
    BY <1>6, SeqOfElements DEF IsConcat
  <2> QED BY <1>7, <2>1, EmptyIsSeq
<1>10. Drop(data, 2) = flat
  <2> DEFINE m == 2 + l
  <2>1. 2 \in 0..m /\ m - 2 = l
    BY <1>7
  <2>2. IsSeq(data, m)
    BY <1>6 DEF IsConcat
  <2> HIDE DEF m
  <2>3. IsSeq(Drop(data, 2), l) /\ \A i \in 1..l : Drop(data, 2)[i] = data[2 + i]
    BY <2>1, <2>2, DropElements
  <2>4. \A i \in 1..l : data[2 + i] = flat[i]
    <3>1. \A i \in 1..l : 2 + i \in (2 + 1)..(2 + l) /\ (2 + i) - 2 = i
      BY <1>7
    <3> QED BY <1>6, <3>1 DEF IsConcat
  <2> QED BY <1>4, <2>3, <2>4, SameElements
<1>11. Defrag(D) = [error |-> "none", destination |-> destination, data |-> flat]
  BY <1>3, <1>8, <1>9, <1>10 DEF Defrag
<1> QED BY <1>11 DEF D, flat

(***************************************************************************)
(* No piece of the mask covers two blocks of the transformed fragments.    *)
(***************************************************************************)
Maskless(block) == \A a \in block : a[1] # "mask"

MaskAtoms(block) == {a \in block : a[1] = "mask"}

PiecesApart(T, n) ==
  \A k, q \in 1..n : \A i, j \in 1..PayloadSize :
    (k # q \/ i # j) => MaskAtoms(T[k][i]) \cap MaskAtoms(T[q][j]) = {}

(***************************************************************************)
(* In the transformed fragments of a set, no piece of the mask is in two   *)
(* blocks.                                                                 *)
(***************************************************************************)
THEOREM MaskPiecesApart ==
  ASSUME NEW r, Maskless(r), NEW F, NEW n \in Nat \ {0}, PayloadSize > 0, Parts(F, n, Sizes(n)),
         \A k \in 1..n : \A j \in 1..Sizes(n)[k] : Maskless(F[k][j])
  PROVE  PiecesApart(Transform(r, F), n)
<1> DEFINE M == Masked(r, F)
           T == Transform(r, F)
           Place(k, i) == IF k = 1 THEN i - 1 ELSE Used(F, k) + i
<1>1. PayloadSize \in Nat
  BY SizeAssumption
<1>2. IsTransformed(T, M, r, F, n)
  BY TransformElements
<1> HIDE DEF M, T
<1>3. IsMasked(M, r, F, n, Sizes(n))
  BY <1>2 DEF IsTransformed
<1>4. ASSUME NEW k \in 1..n, NEW j \in 1..Sizes(n)[k]
      PROVE  MaskAtoms(M[k][j]) \subseteq {MaskAtom(r, Used(F, k) + j)}
  <2>1. M[k][j] = SymDiff(F[k][j], {MaskAtom(r, Used(F, k) + j)})
    BY <1>3 DEF IsMasked
  <2>2. \A a \in F[k][j] : a[1] # "mask"
    BY DEF Maskless
  <2> DEFINE f == F[k][j]
             m == MaskAtom(r, Used(F, k) + j)
  <2> HIDE DEF f, m
  <2>3. M[k][j] = SymDiff(f, {m}) /\ \A a \in f : a[1] # "mask"
    BY <2>1, <2>2 DEF f, m
  <2>4. MaskAtoms(M[k][j]) \subseteq {m}
    BY <2>3 DEF MaskAtoms, SymDiff
  <2> QED BY <2>4 DEF m
<1>5. Sizes(n)[1] = PayloadSize - 1 /\ \A k \in 2..n : Sizes(n)[k] = PayloadSize
  BY DEF Sizes
<1>6. ASSUME NEW k \in 1..n, NEW i \in 1..PayloadSize
      PROVE  MaskAtoms(T[k][i]) \subseteq {MaskAtom(r, Place(k, i))}
  <2>1. CASE k = 1 /\ i = 1
    <3>1. T[1][1] = SymDiff(r, {<<"hash", FlattenSeq(M)>>})
      BY <1>2 DEF IsTransformed, RMask
    <3>2. \A a \in T[1][1] : a \in r \/ a = <<"hash", FlattenSeq(M)>>
      BY <3>1 DEF SymDiff
    <3>3. <<"hash", FlattenSeq(M)>>[1] # "mask"
      OBVIOUS
    <3>4. MaskAtoms(T[1][1]) = {}
      BY <3>2, <3>3 DEF MaskAtoms, Maskless
    <3> QED BY <2>1, <3>4
  <2>2. CASE k = 1 /\ i # 1
    <3>1. i - 1 \in 1..(PayloadSize - 1) /\ (i - 1) + 1 = i /\ 1 \in 1..n
      BY <1>1, <2>2
    <3>2. T[1][i] = M[1][i - 1]
      BY <1>2, <3>1 DEF IsTransformed
    <3>3. Used(F, 1) = 0 /\ 0 + (i - 1) = i - 1
      BY FlatElements, <3>1 DEF IsFlat
    <3>4. MaskAtoms(M[1][i - 1]) \subseteq {MaskAtom(r, Used(F, 1) + (i - 1))}
      BY <1>4, <1>5, <3>1
    <3> QED BY <2>2, <3>2, <3>3, <3>4
  <2>3. CASE k # 1
    <3>1. k \in 2..n
      BY <2>3
    <3>2. T[k] = M[k]
      BY <1>2, <3>1 DEF IsTransformed
    <3> QED BY <1>4, <1>5, <2>3, <3>1, <3>2
  <2> QED BY <2>1, <2>2, <2>3
<1>7. ASSUME NEW k \in 1..n, NEW q \in 1..n, NEW i \in 1..PayloadSize, NEW j \in 1..PayloadSize, k < q
      PROVE  Place(k, i) # Place(q, j)
  <2>1. q \in 1..(n + 1) /\ k \in 1..(q - 1) /\ k \in 1..(n + 1) /\ q \in 2..n
    BY <1>7
  <2>2. Used(F, k) + Sizes(n)[k] <= Used(F, q)
    BY <2>1, UsedGrows
  <2>3. Used(F, k) \in Nat /\ Used(F, q) \in Nat /\ Used(F, 1) = 0
    BY <2>1, FlatElements DEF IsFlat
  <2> DEFINE a == Used(F, k)
             b == Used(F, q)
             c == Sizes(n)[k]
  <2>4. a + c <= b /\ a \in Nat /\ b \in Nat /\ (k = 1 => a = 0 /\ c = PayloadSize - 1) /\ (k # 1 => c = PayloadSize)
    <3>1. k # 1 => k \in 2..n
      OBVIOUS
    <3> QED BY <1>5, <2>2, <2>3, <3>1
  <2>5. Place(q, j) = b + j /\ Place(k, i) = IF k = 1 THEN i - 1 ELSE a + i
    BY <2>1
  <2> HIDE DEF a, b, c, Place
  <2> QED BY <1>1, <2>4, <2>5
<1>8. ASSUME NEW k \in 1..n, NEW q \in 1..n, NEW i \in 1..PayloadSize, NEW j \in 1..PayloadSize, k # q \/ i # j
      PROVE  Place(k, i) # Place(q, j)
  <2>1. CASE k < q
    BY <1>7, <2>1
  <2>2. CASE q < k
    BY <1>7, <2>2
  <2>3. CASE k = q
    <3>1. k \in 1..(n + 1)
      OBVIOUS
    <3>2. Used(F, k) \in Nat
      BY <3>1, FlatElements DEF IsFlat
    <3> DEFINE a == Used(F, k)
    <3>3. a \in Nat /\ Place(k, i) = (IF k = 1 THEN i - 1 ELSE a + i) /\ Place(k, j) = (IF k = 1 THEN j - 1 ELSE a + j)
      BY <3>2
    <3> HIDE DEF a, Place
    <3> QED BY <1>8, <2>3, <3>3
  <2> QED BY <2>1, <2>2, <2>3
<1>9. \A a, b : MaskAtom(r, a) = MaskAtom(r, b) => a = b
  BY DEF MaskAtom
<1> HIDE DEF Place
<1>10. ASSUME NEW k \in 1..n, NEW q \in 1..n, NEW i \in 1..PayloadSize, NEW j \in 1..PayloadSize, k # q \/ i # j
       PROVE  MaskAtoms(T[k][i]) \cap MaskAtoms(T[q][j]) = {}
  <2>1. MaskAtoms(T[k][i]) \subseteq {MaskAtom(r, Place(k, i))} /\ MaskAtoms(T[q][j]) \subseteq {MaskAtom(r, Place(q, j))}
    BY <1>6
  <2>2. Place(k, i) # Place(q, j)
    BY <1>8, <1>10
  <2>3. MaskAtom(r, Place(k, i)) # MaskAtom(r, Place(q, j))
    BY <1>9, <2>2
  <2> QED BY <2>1, <2>3
<1>11. PiecesApart(T, n)
  BY <1>10 DEF PiecesApart
<1> QED BY <1>11 DEF T

===============================================================================
