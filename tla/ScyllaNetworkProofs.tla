-------------------------- MODULE ScyllaNetworkProofs --------------------------
(***************************************************************************)
(* Proofs about Scylla at work, for all nodes, paths, requests and replies *)
(* and every order in which onions are processed, delivered twice or lost: *)
(* the properties of ScyllaChannel, and that every step is one of the      *)
(* channel or none.                                                        *)
(***************************************************************************)
EXTENDS ScyllaChannel, ScyllaProofs, FiniteSetTheorems

(***************************************************************************)
(* A path is a sequence of nodes, one at least and MaxPathLength at most.  *)
(***************************************************************************)
IsPath(path, n) ==
  /\ n \in 1..MaxPathLength /\ n \in Nat \ {0}
  /\ Len(path) = n /\ DOMAIN path = 1..n /\ IsSeq(path, n)
  /\ \A i \in 1..n : path[i] \in Nodes

LEMMA PathElements ==
  ASSUME NEW path \in Paths
  PROVE  IsPath(path, Len(path))
<1>1. PICK n \in 0..MaxPathLength : path \in [1..n -> Nodes]
  BY DEF Paths, BoundedSeq, SeqOf
<1>2. IsSeq(path, n)
  BY <1>1 DEF IsSeq
<1>3. Len(path) = n /\ DOMAIN path = 1..n
  BY <1>2, SeqOfElements
<1>4. n # 0
  <2> SUFFICES ASSUME n = 0 PROVE FALSE
    OBVIOUS
  <2>1. path = <<>>
    BY <1>2, EmptyIsSeq, SameElements
  <2> QED BY <2>1 DEF Paths
<1> QED BY <1>1, <1>2, <1>3, <1>4, Lengths DEF IsPath

(***************************************************************************)
(* A request that create_onions() accepts, unless it is for no fragment.   *)
(***************************************************************************)
Proper(request) ==
  LET n == Len(request.paths)
  IN  /\ n \in Nat \ {0} /\ request.paths # <<>>
      /\ IsSeq(request.paths, n) /\ DOMAIN request.paths = 1..n
      /\ \A k \in 1..n : request.paths[k] \in Paths /\ IsPath(request.paths[k], Len(request.paths[k]))
      /\ Converge(request.paths)
      /\ PayloadSize >= Overhead
      /\ IsSeq(request.sizes, n) /\ DOMAIN request.sizes = 1..n
      /\ \A k \in 1..n : request.sizes[k] = ContentSizes(n)[k]

(***************************************************************************)
(* What its fragments are before and after the transform.                  *)
(***************************************************************************)
Headed(s, request) ==
  [Content(s, request.sizes) EXCEPT ![1] = <<{}, Destination(s)>> \o @]

Cut(s, request) == Transform({<<"r", s>>}, Headed(s, request))

ContentAtom(s, k, j) == <<"content", s, k, j>>

IsContent(content, s, request, n) ==
  /\ Parts(content, n, ContentSizes(n))
  /\ \A k \in 1..n : \A j \in 1..ContentSizes(n)[k] : content[k][j] = {ContentAtom(s, k, j)}

LEMMA ContentElements ==
  ASSUME NEW s, NEW request, Proper(request), NEW n, n = Len(request.paths)
  PROVE  IsContent(Content(s, request.sizes), s, request, n)
<1> DEFINE sizes == request.sizes
           C == Content(s, sizes)
<1>1. n \in Nat \ {0} /\ \A k \in 1..n : sizes[k] = ContentSizes(n)[k]
  BY DEF Proper
<1>2. PayloadSize \in Nat /\ PayloadSize - Overhead \in Nat
  BY SizeAssumption DEF Proper, Overhead
<1>3. \A k \in 1..n : sizes[k] \in Nat
  BY <1>1, <1>2 DEF ContentSizes
<1>4. IsSeq(sizes, n) /\ DOMAIN sizes = 1..n
  BY <1>1 DEF Proper
<1> HIDE DEF sizes
<1>5. C = [k \in 1..n |-> [j \in 1..sizes[k] |-> {<<"content", s, k, j>>}]]
  BY <1>4 DEF Content
<1>6. ASSUME NEW k \in 1..n
      PROVE  IsSeq(C[k], sizes[k]) /\ \A j \in 1..sizes[k] : C[k][j] = {ContentAtom(s, k, j)}
  <2>1. C[k] = [j \in 1..sizes[k] |-> {<<"content", s, k, j>>}]
    BY <1>5
  <2> QED BY <1>3, <2>1 DEF IsSeq, ContentAtom
<1>7. IsSeq(C, n)
  BY <1>1, <1>5 DEF IsSeq
<1>8. IsContent(C, s, request, n)
  BY <1>1, <1>6, <1>7 DEF IsContent, Parts
<1> QED BY <1>8 DEF sizes

LEMMA HeadedIsHeaded ==
  ASSUME NEW s, NEW request, Proper(request), NEW n, n = Len(request.paths)
  PROVE  IsHeaded(Headed(s, request), Content(s, request.sizes), Destination(s), n)
<1> DEFINE C == Content(s, request.sizes)
           destination == Destination(s)
           F == Headed(s, request)
<1>1. n \in Nat \ {0} /\ PayloadSize >= Overhead
  BY DEF Proper
<1>2. Parts(C, n, ContentSizes(n))
  BY ContentElements DEF IsContent
<1>3. F = [C EXCEPT ![1] = <<{}, destination>> \o @]
  BY DEF Headed
<1> HIDE DEF C, destination, F
<1>4. IsHeaded(F, C, destination, n)
  BY <1>1, <1>2, <1>3, HeadedElements
<1> QED BY <1>4 DEF C, destination, F

LEMMA HeadedIsMarked ==
  ASSUME NEW s, NEW request, Proper(request), NEW n, n = Len(request.paths)
  PROVE  IsMarked(Headed(s, request), n, [k \in 1..n |-> ContentAtom(s, k, 2)])
<1> DEFINE F == Headed(s, request)
           C == Content(s, request.sizes)
           marks == [k \in 1..n |-> ContentAtom(s, k, 2)]
<1>1. IsHeaded(F, C, Destination(s), n)
  BY HeadedIsHeaded
<1>2. IsContent(C, s, request, n)
  BY ContentElements
<1>3. n \in Nat \ {0} /\ PayloadSize >= Overhead /\ PayloadSize \in Nat
  BY SizeAssumption DEF Proper
<1> HIDE DEF F, C
<1>4. ASSUME NEW k \in 2..n PROVE F[k][2] = {ContentAtom(s, k, 2)}
  <2>1. ContentSizes(n)[k] = PayloadSize /\ k \in 1..n /\ 2 \in 1..PayloadSize
    BY <1>3 DEF ContentSizes, Overhead
  <2>2. C[k][2] = {ContentAtom(s, k, 2)}
    BY <1>2, <2>1 DEF IsContent
  <2> QED BY <1>1, <2>2 DEF IsHeaded
<1>5. \A k \in 2..n : marks[k] = ContentAtom(s, k, 2)
  OBVIOUS
<1>6. \A k, r, i : ContentAtom(s, k, 2) # MaskAtom(r, i)
  BY DEF ContentAtom, MaskAtom
<1>7. \A k, q : ContentAtom(s, k, 2) = ContentAtom(s, q, 2) => k = q
  BY DEF ContentAtom
<1> HIDE DEF marks
<1>8. F[1][1] = {}
  BY <1>1 DEF IsHeaded
<1>9. ASSUME NEW k \in 2..n, NEW q \in 2..n, q # k PROVE marks[k] \notin F[q][2]
  BY <1>4, <1>5, <1>7, <1>9
<1>10. IsMarked(F, n, marks)
  BY <1>4, <1>5, <1>6, <1>8, <1>9 DEF IsMarked
<1> QED BY <1>10 DEF F, marks

LEMMA HeadedIsMaskless ==
  ASSUME NEW s, NEW request, Proper(request), NEW n, n = Len(request.paths)
  PROVE  \A k \in 1..n : \A j \in 1..Sizes(n)[k] : Maskless(Headed(s, request)[k][j])
<1> DEFINE F == Headed(s, request)
           C == Content(s, request.sizes)
<1>1. IsHeaded(F, C, Destination(s), n)
  BY HeadedIsHeaded
<1>2. IsContent(C, s, request, n)
  BY ContentElements
<1>3. n \in Nat \ {0} /\ PayloadSize >= Overhead /\ PayloadSize \in Nat
  BY SizeAssumption DEF Proper
<1> HIDE DEF F, C
<1>4. \A k, j : Maskless({ContentAtom(s, k, j)})
  <2>1. \A k, j : <<"content", s, k, j>>[1] # "mask"
    OBVIOUS
  <2> QED BY <2>1 DEF Maskless, ContentAtom
<1>5. Maskless({}) /\ Maskless(Destination(s))
  <2>1. <<"destination", s>>[1] # "mask"
    OBVIOUS
  <2> QED BY <2>1 DEF Maskless, Destination
<1>6. ASSUME NEW k \in 1..n, NEW j \in 1..Sizes(n)[k] PROVE Maskless(F[k][j])
  <2>1. CASE k = 1
    <3>1. Sizes(n)[1] = PayloadSize - 1 /\ ContentSizes(n)[1] = PayloadSize - Overhead /\ Overhead = 3 /\ 1 \in 1..n
      BY <1>3 DEF Sizes, ContentSizes, Overhead
    <3>2. j = 1 \/ j = 2 \/ (j - 2 \in 1..(PayloadSize - Overhead) /\ (j - 2) + 2 = j)
      BY <1>3, <2>1, <3>1
    <3>3. CASE j = 1
      BY <1>1, <1>5, <2>1, <3>3 DEF IsHeaded
    <3>4. CASE j = 2
      BY <1>1, <1>5, <2>1, <3>4 DEF IsHeaded
    <3>5. CASE j - 2 \in 1..(PayloadSize - Overhead) /\ (j - 2) + 2 = j
      <4>1. F[1][j] = C[1][j - 2]
        BY <1>1, <3>5 DEF IsHeaded
      <4>2. C[1][j - 2] = {ContentAtom(s, 1, j - 2)}
        BY <1>2, <3>1, <3>5 DEF IsContent
      <4> QED BY <1>4, <2>1, <4>1, <4>2
    <3> QED BY <3>2, <3>3, <3>4, <3>5
  <2>2. CASE k \in 2..n
    <3>1. Sizes(n)[k] = PayloadSize /\ ContentSizes(n)[k] = PayloadSize
      BY <1>3, <2>2 DEF Sizes, ContentSizes
    <3>2. F[k] = C[k]
      BY <1>1, <2>2 DEF IsHeaded
    <3>3. C[k][j] = {ContentAtom(s, k, j)}
      BY <1>2, <3>1 DEF IsContent
    <3> QED BY <1>4, <3>2, <3>3
  <2> QED BY <2>1, <2>2
<1> QED BY <1>6 DEF F

(***************************************************************************)
(* What the transform makes of them, what defrag() makes of all of them in *)
(* order, and that it makes something of nothing else.                     *)
(***************************************************************************)
IsCut(T, s, request, n) ==
  /\ IsSeq(T, n) /\ \A k \in 1..n : IsSeq(T[k], PayloadSize)
  /\ PiecesApart(T, n)
  /\ Defrag(T) = [error |-> "none", destination |-> Destination(s),
                  data |-> FlattenSeq(Content(s, request.sizes))]

LEMMA CutElements ==
  ASSUME NEW s, NEW request, Proper(request), NEW n, n = Len(request.paths)
  PROVE  IsCut(Cut(s, request), s, request, n)
<1> DEFINE F == Headed(s, request)
           C == Content(s, request.sizes)
           r == {<<"r", s>>}
           destination == Destination(s)
<1>1. n \in Nat \ {0} /\ PayloadSize >= Overhead /\ PayloadSize > 0
  BY SizeAssumption DEF Proper, Overhead
<1>2. Parts(F, n, Sizes(n))
  BY HeadedIsHeaded DEF IsHeaded
<1>3. Parts(C, n, ContentSizes(n))
  BY ContentElements DEF IsContent
<1>4. F = [C EXCEPT ![1] = <<{}, destination>> \o @]
  BY DEF Headed
<1>5. Cut(s, request) = Transform(r, F)
  BY DEF Cut
<1>6. \A k \in 1..n : \A j \in 1..Sizes(n)[k] : Maskless(F[k][j])
  BY HeadedIsMaskless
<1>7. Maskless(r)
  <2>1. <<"r", s>>[1] # "mask"
    OBVIOUS
  <2> QED BY <2>1 DEF Maskless
<1> HIDE DEF F, C, r, destination
<1>8. PiecesApart(Transform(r, F), n)
  BY <1>1, <1>2, <1>6, <1>7, MaskPiecesApart
<1>9. IsTransformed(Transform(r, F), Masked(r, F), r, F, n)
  BY <1>1, <1>2, TransformElements
<1>10. Defrag(Transform(r, F)) = [error |-> "none", destination |-> destination, data |-> FlattenSeq(C)]
  BY <1>1, <1>3, <1>4, WholeSetRead
<1> QED BY <1>5, <1>8, <1>9, <1>10 DEF IsCut, IsTransformed, C, destination

LEMMA CutOnlyWhole ==
  ASSUME NEW s, NEW request, Proper(request), NEW n, n = Len(request.paths),
         NEW m \in Nat \ {0}, NEW x, NEW D, Selects(D, m, Cut(s, request), x, n),
         Defrag(D).error = "none"
  PROVE  IsIdentity(x, m, n)
<1> DEFINE F == Headed(s, request)
           r == {<<"r", s>>}
           marks == [k \in 1..n |-> ContentAtom(s, k, 2)]
<1>1. n \in Nat \ {0} /\ PayloadSize > 1
  BY SizeAssumption DEF Proper, Overhead
<1>2. Parts(F, n, Sizes(n))
  BY HeadedIsHeaded DEF IsHeaded
<1>3. IsMarked(F, n, marks)
  BY HeadedIsMarked
<1>4. Selects(D, m, Transform(r, F), x, n)
  BY DEF Cut
<1> HIDE DEF F, r, marks
<1> QED BY <1>1, <1>2, <1>3, <1>4, OnlyWholeSets

-------------------------------------------------------------------------------
(***************************************************************************)
(* The onions of a fragment and of a reply at every node of their paths.   *)
(***************************************************************************)
FragmentInfo(s, k) == FinalInfo("Fragment", FragmentReference(s, k))

FragmentOnion(s, request, k, hop) ==
  MeantOnion(<<s, k>>, request.paths[k], FragmentInfo(s, k), hop,
             FragmentDelta(Cut(s, request)[k], SecretsFor(<<s, k>>, request.paths[k]), hop))

ReplyInfo(r) == FinalInfo("Deliver", <<"reply", r>>)

ReplyOnion(r, path, hop) ==
  MeantOnion(r, path, ReplyInfo(r), hop, ReplyDelta(Text(r), SecretsFor(r, path), hop))

IsFinalInfo(info, flag, reference) ==
  /\ IsSeq(info, 2) /\ info[1] = Flag(flag) /\ info[2] = {reference}
  /\ Streamless(info[1])

LEMMA FinalInfoElements ==
  ASSUME NEW flag, NEW reference
  PROVE  IsFinalInfo(FinalInfo(flag, reference), flag, reference)
<1>1. \A x, y : <<"flag", flag>> # <<"stream", x, y>>
  OBVIOUS
<1>2. Streamless(Flag(flag))
  BY <1>1 DEF Streamless, Stream, Flag
<1> QED BY <1>2 DEF IsFinalInfo, FinalInfo, IsSeq

LEMMA Flags ==
  Flag("Fragment") # Flag("Relay") /\ Flag("Deliver") # Flag("Relay") /\ Flag("Deliver") # Flag("Fragment")
<1>1. "Fragment" # "Relay" /\ "Deliver" # "Relay" /\ "Deliver" # "Fragment"
  OBVIOUS
<1> QED BY <1>1, FlagsDiffer

(***************************************************************************)
(* Every node of the path finds the next one and the onion for it, the     *)
(* last one the fragment; any other node finds a wrong MAC.                *)
(***************************************************************************)
FragmentTravels(s, request, k, path, n) ==
  \A hop \in 1..n :
    /\ Process(path[hop], FragmentOnion(s, request, k, hop)) =
         IF hop < n THEN Relay(Address(path[hop + 1]), FragmentOnion(s, request, k, hop + 1))
         ELSE Fragment({FragmentReference(s, k)}, Payload(Cut(s, request)[k]))
    /\ \A m : m # path[hop] => Process(m, FragmentOnion(s, request, k, hop)) = MacMismatch
    /\ IsSeq(FragmentOnion(s, request, k, hop).beta, HeaderLength)
    /\ FragmentOnion(s, request, k, hop).delta.text = Cut(s, request)[k]

LEMMA FragmentFacts ==
  ASSUME NEW s, NEW request, NEW k, NEW path, path = request.paths[k], NEW n, n = Len(path),
         IsPath(path, n)
  PROVE  /\ FragmentTravels(s, request, k, path, n)
         /\ Wrap(<<s, k>>, path, FragmentInfo(s, k), Payload(Cut(s, request)[k])).onion
              = FragmentOnion(s, request, k, 1)
<1> DEFINE seed == <<s, k>>
           info == FragmentInfo(s, k)
           S == SecretsFor(seed, path)
           text == Cut(s, request)[k]
           O(hop) == MeantOnion(seed, path, info, hop, FragmentDelta(text, S, hop))
<1>1. n \in 1..MaxPathLength /\ n \in Nat \ {0} /\ Len(path) = n
  BY DEF IsPath
<1>2. IsSeq(info, 2) /\ info[1] = Flag("Fragment") /\ info[1] # Flag("Relay") /\ info[2] = {FragmentReference(s, k)}
  BY Flags, FinalInfoElements DEF IsFinalInfo, FragmentInfo
<1>3. \A hop : FragmentOnion(s, request, k, hop) = O(hop)
  BY DEF FragmentOnion
<1> HIDE DEF seed, info, text
<1>4. /\ ProcessedAsMeant(seed, path, info, n)
      /\ \A d : Wrap(seed, path, info, d).onion = MeantOnion(seed, path, info, 1, Layered(S, d))
  <2>1. PICK p : p = path
    OBVIOUS
  <2>2. Len(p) = n /\ IsSeq(info, 2) /\ info[1] # Flag("Relay")
    BY <1>1, <1>2, <2>1
  <2>3. /\ ProcessedAsMeant(seed, p, info, n)
        /\ \A d : Wrap(seed, p, info, d).onion = MeantOnion(seed, p, info, 1, Layered(SecretsFor(seed, p), d))
    BY <1>1, <2>2, OnionPeels
  <2> QED BY <2>1, <2>3
<1>5. Len(S) = n
  BY <1>1, SecretsElements
<1> HIDE DEF S
<1>6. /\ Layered(S, Payload(text)) = FragmentDelta(text, S, 1)
      /\ FragmentDelta(text, S, n + 1) = Payload(text)
  BY <1>1, <1>5, LayersComeOff
<1>7. \A hop \in 1..n : PiInv(S[hop], FragmentDelta(text, S, hop)) = FragmentDelta(text, S, hop + 1)
  BY <1>1, <1>5, FragmentLayer
<1>8. ASSUME NEW hop \in 1..n
      PROVE  /\ Process(path[hop], O(hop)) = IF hop < n THEN Relay(Address(path[hop + 1]), O(hop + 1))
                                             ELSE Fragment({FragmentReference(s, k)}, Payload(text))
             /\ \A m : m # path[hop] => Process(m, O(hop)) = MacMismatch
             /\ IsSeq(O(hop).beta, HeaderLength)
             /\ O(hop).delta.text = text
  <2> DEFINE d == FragmentDelta(text, S, hop)
             e == FragmentDelta(text, S, hop + 1)
  <2>1. PiInv(SecretsFor(seed, path)[hop], d) = e
    BY <1>7 DEF S
  <2>2. d.text = text
    BY DEF FragmentDelta, Payload, Coated
  <2>3. hop = n => e = Payload(text)
    BY <1>6
  <2> HIDE DEF d, e
  <2>4. /\ Process(path[hop], MeantOnion(seed, path, info, hop, d)) =
             IF hop < n
             THEN Relay(Address(path[hop + 1]),
                        MeantOnion(seed, path, info, hop + 1, PiInv(SecretsFor(seed, path)[hop], d)))
             ELSE LastOutcome(info, PiInv(SecretsFor(seed, path)[hop], d))
        /\ \A m : m # path[hop] => Process(m, MeantOnion(seed, path, info, hop, d)) = MacMismatch
        /\ IsSeq(MeantOnion(seed, path, info, hop, d).beta, HeaderLength)
    BY <1>4 DEF ProcessedAsMeant
  <2>5. LastOutcome(info, e) = Fragment({FragmentReference(s, k)}, e)
    BY <1>2 DEF LastOutcome
  <2>6. O(hop) = MeantOnion(seed, path, info, hop, d) /\ O(hop + 1) = MeantOnion(seed, path, info, hop + 1, e)
    BY DEF d, e
  <2>7. MeantOnion(seed, path, info, hop, d).delta = d
    BY DEF MeantOnion
  <2> HIDE DEF O
  <2>8. hop < n \/ hop = n
    BY <1>1
  <2> QED BY <2>1, <2>2, <2>3, <2>4, <2>5, <2>6, <2>7, <2>8
<1>9. Wrap(seed, path, info, Payload(text)).onion = O(1)
  BY <1>4, <1>6
<1> HIDE DEF O
<1>10. FragmentTravels(s, request, k, path, n)
  BY <1>3, <1>8 DEF FragmentTravels, text
<1> QED BY <1>3, <1>9, <1>10 DEF seed, info, text

ReplyTravels(r, path, n) ==
  \A hop \in 1..n :
    /\ Process(path[hop], ReplyOnion(r, path, hop)) =
         IF hop < n THEN Relay(Address(path[hop + 1]), ReplyOnion(r, path, hop + 1))
         ELSE Reply({<<"reply", r>>}, ReplyDelta(Text(r), SecretsFor(r, path), n + 1))
    /\ \A m : m # path[hop] => Process(m, ReplyOnion(r, path, hop)) = MacMismatch
    /\ IsSeq(ReplyOnion(r, path, hop).beta, HeaderLength)
    /\ ReplyOnion(r, path, hop).delta.text = Text(r)

LEMMA ReplyFacts ==
  ASSUME NEW r, NEW path, NEW n, n = Len(path), IsPath(path, n)
  PROVE  /\ ReplyTravels(r, path, n)
         /\ UseSurb(CreateSurb(r, path).onion, Text(r)) = ReplyOnion(r, path, 1)
         /\ CreateSurb(r, path).secrets = SecretsFor(r, path)
         /\ Read(UnwrapReply(SecretsFor(r, path), ReplyDelta(Text(r), SecretsFor(r, path), n + 1))) = Text(r)
<1> DEFINE info == ReplyInfo(r)
           S == SecretsFor(r, path)
           text == Text(r)
           O(hop) == MeantOnion(r, path, info, hop, ReplyDelta(text, S, hop))
<1>1. n \in 1..MaxPathLength /\ n \in Nat \ {0} /\ Len(path) = n
  BY DEF IsPath
<1>2. IsSeq(info, 2) /\ info[1] = Flag("Deliver") /\ info[1] # Flag("Relay") /\ info[1] # Flag("Fragment")
      /\ info[2] = {<<"reply", r>>}
  BY Flags, FinalInfoElements DEF IsFinalInfo, ReplyInfo
<1>3. \A hop : ReplyOnion(r, path, hop) = O(hop)
  BY DEF ReplyOnion
<1>4. CreateSurb(r, path) = Wrap(r, path, info, Payload(<<>>))
  BY DEF CreateSurb, ReplyInfo
<1> HIDE DEF info, text
<1>5. /\ ProcessedAsMeant(r, path, info, n)
      /\ \A d : Wrap(r, path, info, d).onion = MeantOnion(r, path, info, 1, Layered(S, d))
      /\ \A d : Wrap(r, path, info, d).secrets = S
  BY <1>1, <1>2, OnionPeels
<1>6. Len(S) = n
  BY <1>1, SecretsElements
<1> HIDE DEF S
<1>7. /\ ReplyDelta(text, S, 1) = Payload(text)
      /\ UnwrapReply(S, ReplyDelta(text, S, n + 1)) = Payload(text)
  BY <1>1, <1>6, LayersComeOff
<1>8. \A hop \in 1..n : PiInv(S[hop], ReplyDelta(text, S, hop)) = ReplyDelta(text, S, hop + 1)
  BY <1>1, ReplyLayer
<1>9. ASSUME NEW hop \in 1..n
      PROVE  /\ Process(path[hop], O(hop)) = IF hop < n THEN Relay(Address(path[hop + 1]), O(hop + 1))
                                             ELSE Reply({<<"reply", r>>}, ReplyDelta(text, S, n + 1))
             /\ \A m : m # path[hop] => Process(m, O(hop)) = MacMismatch
             /\ IsSeq(O(hop).beta, HeaderLength)
             /\ O(hop).delta.text = text
  <2> DEFINE d == ReplyDelta(text, S, hop)
             e == ReplyDelta(text, S, hop + 1)
  <2>1. PiInv(SecretsFor(r, path)[hop], d) = e
    BY <1>8 DEF S
  <2>2. d.text = text
    BY DEF ReplyDelta, Payload, Coated
  <2>3. hop = n => e = ReplyDelta(text, S, n + 1)
    OBVIOUS
  <2> HIDE DEF d, e
  <2>4. /\ Process(path[hop], MeantOnion(r, path, info, hop, d)) =
             IF hop < n
             THEN Relay(Address(path[hop + 1]),
                        MeantOnion(r, path, info, hop + 1, PiInv(SecretsFor(r, path)[hop], d)))
             ELSE LastOutcome(info, PiInv(SecretsFor(r, path)[hop], d))
        /\ \A m : m # path[hop] => Process(m, MeantOnion(r, path, info, hop, d)) = MacMismatch
        /\ IsSeq(MeantOnion(r, path, info, hop, d).beta, HeaderLength)
    BY <1>5 DEF ProcessedAsMeant
  <2>5. LastOutcome(info, e) = Reply({<<"reply", r>>}, e)
    BY <1>2 DEF LastOutcome
  <2>6. O(hop) = MeantOnion(r, path, info, hop, d) /\ O(hop + 1) = MeantOnion(r, path, info, hop + 1, e)
    BY DEF d, e
  <2>7. MeantOnion(r, path, info, hop, d).delta = d
    BY DEF MeantOnion
  <2> HIDE DEF O
  <2>8. hop < n \/ hop = n
    BY <1>1
  <2> QED BY <2>1, <2>2, <2>3, <2>4, <2>5, <2>6, <2>7, <2>8
<1>10. UseSurb(CreateSurb(r, path).onion, text) = O(1)
  <2> DEFINE any == Layered(S, Payload(<<>>))
  <2>1. CreateSurb(r, path).onion = MeantOnion(r, path, info, 1, any)
    BY <1>4, <1>5
  <2> HIDE DEF any
  <2>2. [MeantOnion(r, path, info, 1, any) EXCEPT !.delta = Payload(text)] = MeantOnion(r, path, info, 1, Payload(text))
    BY DEF MeantOnion
  <2> QED BY <1>7, <2>1, <2>2 DEF UseSurb
<1>11. CreateSurb(r, path).secrets = S
  BY <1>4, <1>5
<1>12. Read(UnwrapReply(S, ReplyDelta(text, S, n + 1))) = text
  BY <1>7 DEF Read, Payload
<1> HIDE DEF O
<1>13. ReplyTravels(r, path, n)
  BY <1>3, <1>9 DEF ReplyTravels, text, S
<1> QED BY <1>3, <1>10, <1>11, <1>12, <1>13 DEF text, S

(***************************************************************************)
(* create_onions() makes the onion of every fragment for the first node of *)
(* its path, if the request is a proper one, and otherwise nothing.        *)
(***************************************************************************)
Made(s, request) == CreateOnions(s, request.paths, Destination(s), Content(s, request.sizes))

IsMade(made, s, request) ==
  /\ made.error \in Errors
  /\ (made.error = "none" /\ request.paths # <<>>) =>
       /\ Proper(request)
       /\ DOMAIN made.onions = DOMAIN request.paths
       /\ \A k \in DOMAIN request.paths : made.onions[k] = FragmentOnion(s, request, k, 1)
  /\ ~(made.error = "none" /\ request.paths # <<>>) => DOMAIN made.onions = {}

LEMMA OnionsMade ==
  ASSUME NEW s, NEW request \in Requests
  PROVE  IsMade(Made(s, request), s, request)
<1> DEFINE paths == request.paths
           sizes == request.sizes
           C == Content(s, sizes)
           n == Len(paths)
           made == Made(s, request)
           first == <<{}, Destination(s)>> \o C[1]
           transformed == Transform({<<"r", s>>}, [C EXCEPT ![1] = first])
           onions == [k \in DOMAIN paths |->
                        Wrap(<<s, k>>, paths[k], FinalInfo("Fragment", FragmentReference(s, k)),
                             Payload(transformed[k])).onion]
<1>1. paths \in Seq(Paths) /\ sizes \in Seq(Nat)
  BY RequestAssumption
<1>2. IsSeq(paths, n) /\ n \in Nat /\ DOMAIN paths = 1..n /\ \A k \in 1..n : paths[k] \in Paths
  BY <1>1, SeqIsSeq, SeqOfElements
<1>3. IsSeq(sizes, Len(sizes)) /\ Len(sizes) \in Nat /\ DOMAIN sizes = 1..Len(sizes)
      /\ \A k \in 1..Len(sizes) : sizes[k] \in Nat
  BY <1>1, SeqIsSeq, SeqOfElements
<1>4. IsSeq(C, Len(sizes)) /\ Len(C) = Len(sizes)
  <2>1. IsSeq(C, Len(sizes))
    BY <1>3 DEF Content, IsSeq
  <2> QED BY <2>1, SeqOfElements
<1>5. \A k \in 1..Len(sizes) : Len(C[k]) = sizes[k]
  <2> SUFFICES ASSUME NEW k \in 1..Len(sizes) PROVE Len(C[k]) = sizes[k]
    OBVIOUS
  <2>1. C[k] = [j \in 1..sizes[k] |-> {<<"content", s, k, j>>}]
    BY <1>3 DEF Content
  <2>2. IsSeq(C[k], sizes[k])
    BY <1>3, <2>1 DEF IsSeq
  <2> QED BY <2>2, SeqOfElements
<1>6. made = IF Len(C) # Len(paths) THEN Refused("InvalidPathCount")
             ELSE IF C = <<>> THEN Accepted(<<>>)
             ELSE IF ~FragmentsFit(C) THEN Refused("InvalidFragmentSize")
             ELSE IF ~Converge(paths) THEN Refused("DivergingPaths")
             ELSE Accepted(onions)
  BY DEF Made, CreateOnions
<1>7. transformed = Cut(s, request)
  BY DEF Cut, Headed
<1> HIDE DEF C, made, transformed, paths, sizes
<1>8. paths = request.paths /\ sizes = request.sizes
  BY DEF paths, sizes
<1>9. \A e : Refused(e).error = e /\ DOMAIN Refused(e).onions = {}
  <2>1. DOMAIN <<>> = {}
    OBVIOUS
  <2> QED BY <2>1 DEF Refused
<1>10. Accepted(<<>>).error = "none" /\ DOMAIN Accepted(<<>>).onions = {}
  BY DEF Accepted
<1>11. Accepted(onions).error = "none" /\ Accepted(onions).onions = onions
  BY DEF Accepted
<1>12. CASE Len(C) # Len(paths)
  <2>1. made = Refused("InvalidPathCount")
    BY <1>6, <1>12
  <2>2. made.error = "InvalidPathCount" /\ DOMAIN made.onions = {}
    BY <1>9, <2>1
  <2> QED BY <2>2 DEF IsMade, made, Errors
<1>13. CASE Len(C) = Len(paths) /\ C = <<>>
  <2>1. made = Accepted(<<>>)
    BY <1>6, <1>13
  <2>2. paths = <<>>
    <3>1. n = 0
      BY <1>13, EmptyIsSeq
    <3> QED BY <1>2, <3>1, EmptyIsSeq, SameElements
  <2>3. made.error = "none" /\ DOMAIN made.onions = {}
    BY <1>10, <2>1
  <2> QED BY <1>8, <2>2, <2>3 DEF IsMade, made, Errors
<1>14. CASE Len(C) = Len(paths) /\ C # <<>> /\ ~FragmentsFit(C)
  <2>1. made = Refused("InvalidFragmentSize")
    BY <1>6, <1>14
  <2>2. made.error = "InvalidFragmentSize" /\ DOMAIN made.onions = {}
    BY <1>9, <2>1
  <2> QED BY <2>2 DEF IsMade, made, Errors
<1>15. CASE Len(C) = Len(paths) /\ C # <<>> /\ FragmentsFit(C) /\ ~Converge(paths)
  <2>1. made = Refused("DivergingPaths")
    BY <1>6, <1>15
  <2>2. made.error = "DivergingPaths" /\ DOMAIN made.onions = {}
    BY <1>9, <2>1
  <2> QED BY <2>2 DEF IsMade, made, Errors
<1>16. CASE Len(C) = Len(paths) /\ C # <<>> /\ FragmentsFit(C) /\ Converge(paths)
  <2>1. made = Accepted(onions)
    BY <1>6, <1>16
  <2>2. made.error = "none" /\ made.onions = onions
    BY <1>11, <2>1
  <2>3. n \in Nat \ {0} /\ Len(sizes) = n
    <3>1. Len(C) # 0
      <4> SUFFICES ASSUME Len(C) = 0 PROVE FALSE
        OBVIOUS
      <4> QED BY <1>4, <1>16, EmptyIsSeq, SameElements
    <3> QED BY <1>2, <1>4, <1>16, <3>1
  <2>4. paths # <<>>
    BY <2>3, EmptyIsSeq
  <2>5. Len(C[1]) + Overhead = PayloadSize /\ \A k \in 2..n : Len(C[k]) = PayloadSize
    BY <1>4, <1>16, <2>3 DEF FragmentsFit
  <2>6. sizes[1] + Overhead = PayloadSize /\ \A k \in 2..n : sizes[k] = PayloadSize
    <3>1. 1 \in 1..n /\ \A k \in 2..n : k \in 1..n
      BY <2>3
    <3> QED BY <1>5, <2>3, <2>5, <3>1
  <2>7. PayloadSize >= Overhead /\ sizes[1] = PayloadSize - Overhead
    <3>1. sizes[1] \in Nat
      <4>1. 1 \in 1..n
        BY <2>3
      <4> QED BY <1>3, <2>3, <4>1
    <3> QED BY <2>6, <3>1, SizeAssumption DEF Overhead
  <2>8. \A k \in 1..n : sizes[k] = ContentSizes(n)[k]
    BY <2>6, <2>7 DEF ContentSizes
  <2>9. \A k \in 1..n : paths[k] \in Paths /\ IsPath(paths[k], Len(paths[k]))
    BY <1>2, PathElements
  <2>10. Proper(request)
    BY <1>2, <1>3, <1>8, <1>16, <2>3, <2>4, <2>7, <2>8, <2>9 DEF Proper
  <2>11. DOMAIN onions = DOMAIN paths
    OBVIOUS
  <2>12. ASSUME NEW k \in DOMAIN paths PROVE onions[k] = FragmentOnion(s, request, k, 1)
    <3>1. onions[k] = Wrap(<<s, k>>, paths[k], FragmentInfo(s, k), Payload(Cut(s, request)[k])).onion
      BY <1>7 DEF FragmentInfo
    <3>2. IsPath(paths[k], Len(paths[k]))
      BY <1>2, <2>9, <2>12
    <3> QED BY <1>8, <3>1, <3>2, FragmentFacts
  <2> HIDE DEF onions
  <2> QED BY <1>8, <2>2, <2>4, <2>10, <2>11, <2>12 DEF IsMade, made, Errors
<1> QED BY <1>12, <1>13, <1>14, <1>15, <1>16

-------------------------------------------------------------------------------
(***************************************************************************)
(* Sorting: a fragment that comes behind sorted ones ends up behind those  *)
(* that are to come before it, and the result is sorted again.             *)
(***************************************************************************)
InOrder(kept, m) ==
  /\ IsSeq(kept, m) /\ \A i \in 1..m : kept[i].index \in Nat
  /\ \A i, j \in 1..m : i < j => kept[i].index <= kept[j].index

IsPlace(kept, m, k, place) ==
  /\ place \in 0..m
  /\ \A i \in 1..place : kept[i].index <= k
  /\ \A i \in (place + 1)..m : kept[i].index > k

LEMMA PlaceExists ==
  ASSUME NEW kept, NEW m, InOrder(kept, m), NEW k \in Nat
  PROVE  \E place : IsPlace(kept, m, k, place)
<1>1. m \in Nat
  BY DEF InOrder, IsSeq
<1> DEFINE S == {q \in Nat : q <= m => \E place : IsPlace(kept, q, k, place)}
<1>2. 0 \in S
  <2>1. IsPlace(kept, 0, k, 0)
    BY DEF IsPlace
  <2> QED BY <2>1
<1>3. ASSUME NEW q \in Nat, q \in S PROVE q + 1 \in S
  <2> SUFFICES ASSUME q + 1 <= m PROVE \E place : IsPlace(kept, q + 1, k, place)
    OBVIOUS
  <2>1. q <= m /\ q + 1 \in 1..m
    BY <1>1
  <2>2. PICK place : IsPlace(kept, q, k, place)
    BY <1>3, <2>1
  <2>3. CASE kept[q + 1].index <= k
    <3>1. \A i \in 1..(q + 1) : kept[i].index <= k
      <4> SUFFICES ASSUME NEW i \in 1..(q + 1) PROVE kept[i].index <= k
        OBVIOUS
      <4>1. i = q + 1 \/ (i < q + 1 /\ i \in 1..m)
        BY <1>1, <2>1
      <4>2. kept[q + 1].index \in Nat /\ (i \in 1..m => kept[i].index \in Nat)
        BY <2>1 DEF InOrder
      <4>3. i < q + 1 => kept[i].index <= kept[q + 1].index
        BY <2>1, <4>1 DEF InOrder
      <4> QED BY <2>3, <4>1, <4>2, <4>3
    <3>2. IsPlace(kept, q + 1, k, q + 1)
      BY <3>1 DEF IsPlace
    <3> QED BY <3>2
  <2>4. CASE ~(kept[q + 1].index <= k)
    <3>1. kept[q + 1].index > k
      <4>1. kept[q + 1].index \in Nat
        BY <2>1 DEF InOrder
      <4> QED BY <2>4, <4>1
    <3>2. place \in 0..(q + 1) /\ \A i \in (place + 1)..(q + 1) : i = q + 1 \/ i \in (place + 1)..q
      BY <2>2 DEF IsPlace
    <3>3. IsPlace(kept, q + 1, k, place)
      BY <2>2, <3>1, <3>2 DEF IsPlace
    <3> QED BY <3>3
  <2> QED BY <2>3, <2>4
<1>4. m \in S
  <2> HIDE DEF S
  <2> QED BY <1>1, <1>2, <1>3, NatSetInduction
<1> QED BY <1>4

(***************************************************************************)
(* Which element of the sequence with the new one at its end gets to a     *)
(* place of the sorted one, and the rank of each.                          *)
(***************************************************************************)
Origin(m, place, q) == IF q <= place THEN q ELSE IF q = place + 1 THEN m + 1 ELSE q - 1

RankIs(m, place, j) == IF j = m + 1 THEN place + 1 ELSE IF j <= place THEN j ELSE j + 1

LEMMA Ranks ==
  ASSUME NEW kept, NEW m, InOrder(kept, m), NEW k \in Nat, NEW place, IsPlace(kept, m, k, place),
         NEW s, IsSeq(s, m + 1), \A i \in 1..m : s[i] = kept[i], s[m + 1].index = k
  PROVE  \A j \in 1..(m + 1) : Rank(s, j) = RankIs(m, place, j)
<1> DEFINE x(i) == s[i].index
           Before(j) == {i \in 1..(m + 1) : x(i) < x(j) \/ (x(i) = x(j) /\ i <= j)}
<1>1. m \in Nat /\ place \in 0..m
  BY DEF InOrder, IsSeq, IsPlace
<1>2. \A j \in 1..(m + 1) : Rank(s, j) = Cardinality(Before(j))
  <2>1. DOMAIN s = 1..(m + 1)
    <3> DEFINE c == m + 1
    <3>1. IsSeq(s, c)
      OBVIOUS
    <3> HIDE DEF c
    <3>2. DOMAIN s = 1..c
      BY <3>1, SeqOfElements
    <3> QED BY <3>2 DEF c
  <2> QED BY <2>1 DEF Rank
<1>3. /\ \A i \in 1..m : x(i) \in Nat
      /\ \A i, j \in 1..m : i < j => x(i) <= x(j)
      /\ x(m + 1) = k
      /\ \A i \in 1..place : x(i) <= k
      /\ \A i \in (place + 1)..m : x(i) > k
  <2>1. \A i \in 1..place : i \in 1..m
    BY <1>1
  <2>2. \A i \in (place + 1)..m : i \in 1..m
    BY <1>1
  <2> QED BY <2>1, <2>2 DEF InOrder, IsPlace
<1> HIDE DEF x
<1>4. ASSUME NEW j \in 1..m, j <= place PROVE Cardinality(Before(j)) = j
  <2>1. ASSUME NEW i \in 1..(m + 1) PROVE (x(i) < x(j) \/ (x(i) = x(j) /\ i <= j)) <=> i \in 1..j
    <3>1. CASE i = m + 1
      <4>1. x(i) = k /\ x(j) <= k /\ x(j) \in Nat /\ ~(i <= j)
        BY <1>1, <1>3, <1>4, <3>1
      <4> QED BY <3>1, <4>1
    <3>2. CASE i \in 1..m /\ i <= j
      <4>1. x(i) <= x(j) /\ x(i) \in Nat /\ x(j) \in Nat
        BY <1>3, <3>2
      <4> QED BY <3>2, <4>1
    <3>3. CASE i \in 1..m /\ j < i
      <4>1. x(j) <= x(i) /\ x(i) \in Nat /\ x(j) \in Nat
        BY <1>3, <3>3
      <4> QED BY <3>3, <4>1
    <3> QED BY <1>1, <3>1, <3>2, <3>3
  <2>2. Before(j) = 1..j
    <3>1. \A i \in 1..j : i \in 1..(m + 1)
      BY <1>1
    <3> QED BY <2>1, <3>1
  <2> HIDE DEF Before
  <2>3. Cardinality(1..j) = j
    BY FS_Interval
  <2> QED BY <2>2, <2>3
<1>5. ASSUME NEW j \in 1..m, ~(j <= place) PROVE Cardinality(Before(j)) = j + 1
  <2>1. ASSUME NEW i \in 1..(m + 1) PROVE (x(i) < x(j) \/ (x(i) = x(j) /\ i <= j)) <=> i \in (1..j) \cup {m + 1}
    <3>1. CASE i = m + 1
      <4>1. x(i) = k /\ x(j) > k /\ x(j) \in Nat
        BY <1>1, <1>3, <1>5, <3>1
      <4> QED BY <3>1, <4>1
    <3>2. CASE i \in 1..m /\ i <= j
      <4>1. x(i) <= x(j) /\ x(i) \in Nat /\ x(j) \in Nat
        BY <1>3, <3>2
      <4> QED BY <3>2, <4>1
    <3>3. CASE i \in 1..m /\ j < i
      <4>1. x(j) <= x(i) /\ x(i) \in Nat /\ x(j) \in Nat /\ i # m + 1
        BY <1>1, <1>3, <3>3
      <4> QED BY <3>3, <4>1
    <3> QED BY <1>1, <3>1, <3>2, <3>3
  <2>2. Before(j) = (1..j) \cup {m + 1}
    <3>1. \A i \in (1..j) \cup {m + 1} : i \in 1..(m + 1)
      BY <1>1
    <3> QED BY <2>1, <3>1
  <2> HIDE DEF Before
  <2>3. IsFiniteSet(1..j) /\ Cardinality(1..j) = j
    BY FS_Interval
  <2>4. Cardinality((1..j) \cup {m + 1}) = j + 1
    <3>1. m + 1 \notin 1..j
      BY <1>1
    <3> QED BY <2>3, <3>1, FS_AddElement
  <2> QED BY <2>2, <2>4
<1>6. Cardinality(Before(m + 1)) = place + 1
  <2>1. ASSUME NEW i \in 1..(m + 1)
        PROVE  (x(i) < x(m + 1) \/ (x(i) = x(m + 1) /\ i <= m + 1)) <=> i \in (1..place) \cup {m + 1}
    <3>1. CASE i = m + 1
      BY <1>1, <3>1
    <3>2. CASE i \in 1..m /\ i <= place
      <4>1. x(i) <= k /\ x(i) \in Nat
        BY <1>3, <3>2
      <4> QED BY <1>1, <1>3, <3>2, <4>1
    <3>3. CASE i \in 1..m /\ ~(i <= place)
      <4>1. x(i) > k /\ x(i) \in Nat /\ i # m + 1
        BY <1>1, <1>3, <3>3
      <4> QED BY <1>3, <3>3, <4>1
    <3> QED BY <1>1, <3>1, <3>2, <3>3
  <2>2. Before(m + 1) = (1..place) \cup {m + 1}
    <3>1. \A i \in (1..place) \cup {m + 1} : i \in 1..(m + 1)
      BY <1>1
    <3> QED BY <2>1, <3>1
  <2> HIDE DEF Before
  <2>3. IsFiniteSet(1..place) /\ Cardinality(1..place) = place
    BY <1>1, FS_Interval
  <2>4. Cardinality((1..place) \cup {m + 1}) = place + 1
    <3>1. m + 1 \notin 1..place
      BY <1>1
    <3> QED BY <2>3, <3>1, FS_AddElement
  <2> QED BY <2>2, <2>4
<1> HIDE DEF Before
<1>7. ASSUME NEW j \in 1..(m + 1) PROVE Rank(s, j) = RankIs(m, place, j)
  <2>1. j = m + 1 \/ (j \in 1..m /\ j # m + 1)
    BY <1>1
  <2> QED BY <1>2, <1>4, <1>5, <1>6, <2>1 DEF RankIs
<1> QED BY <1>7

IsKept(t, kept, m, new, place) ==
  /\ IsSeq(t, m + 1)
  /\ \A q \in 1..(m + 1) : t[q] = IF q <= place THEN kept[q] ELSE IF q = place + 1 THEN new ELSE kept[q - 1]

LEMMA KeepElements ==
  ASSUME NEW kept, NEW m, InOrder(kept, m), NEW k \in Nat, NEW data, NEW place, IsPlace(kept, m, k, place)
  PROVE  IsKept(Keep(kept, k, data), kept, m, [index |-> k, data |-> data], place)
<1> DEFINE new == [index |-> k, data |-> data]
           s == Append(kept, new)
           S == {kept[i] : i \in 1..m} \cup {new}
           t == Sorted(s)
<1>1. m \in Nat /\ place \in 0..m /\ IsSeq(kept, m)
  BY DEF InOrder, IsSeq, IsPlace
<1>2. kept \in Seq(S) /\ Len(kept) = m
  <2>1. kept \in [1..m -> S]
    BY <1>1 DEF IsSeq
  <2> HIDE DEF S
  <2>2. kept \in Seq(S)
    BY <1>1, <2>1, SeqDef
  <2> QED BY <1>1, <2>2, SeqOfElements
<1>3. new \in S /\ new.index = k
  OBVIOUS
<1> HIDE DEF S, new
<1>4. /\ s \in Seq(S) /\ Len(s) = m + 1 /\ s[m + 1] = new
      /\ \A i \in 1..m : s[i] = kept[i]
  BY <1>2, <1>3, AppendProperties
<1> HIDE DEF s
<1>5. IsSeq(s, m + 1) /\ DOMAIN s = 1..(m + 1)
  <2>1. IsSeq(s, Len(s))
    BY <1>4, SeqIsSeq
  <2>2. DOMAIN s = 1..Len(s)
    BY <2>1, SeqOfElements
  <2> QED BY <1>4, <2>1, <2>2
<1>6. \A j \in 1..(m + 1) : Rank(s, j) = RankIs(m, place, j)
  BY <1>3, <1>4, <1>5, Ranks
<1>7. ASSUME NEW q \in 1..(m + 1)
      PROVE  (CHOOSE j \in 1..(m + 1) : Rank(s, j) = q) = Origin(m, place, q)
  <2>1. Origin(m, place, q) \in 1..(m + 1) /\ RankIs(m, place, Origin(m, place, q)) = q
    BY <1>1 DEF Origin, RankIs
  <2>2. \A j \in 1..(m + 1) : RankIs(m, place, j) = q => j = Origin(m, place, q)
    BY <1>1 DEF Origin, RankIs
  <2> DEFINE o == Origin(m, place, q)
  <2>3. o \in 1..(m + 1) /\ Rank(s, o) = q /\ \A j \in 1..(m + 1) : Rank(s, j) = q => j = o
    BY <1>6, <2>1, <2>2
  <2> HIDE DEF o
  <2>4. (CHOOSE j \in 1..(m + 1) : Rank(s, j) = q) = o
    BY <2>3
  <2> QED BY <2>4 DEF o
<1>8. t = [q \in 1..(m + 1) |-> s[Origin(m, place, q)]]
  <2> DEFINE d == 1..(m + 1)
             Chosen(q) == CHOOSE j \in d : Rank(s, j) = q
  <2>1. t = [q \in DOMAIN s |-> s[CHOOSE j \in DOMAIN s : Rank(s, j) = q]]
    BY DEF Sorted
  <2>2. DOMAIN s = d
    BY <1>5
  <2>3. t = [q \in d |-> s[Chosen(q)]]
    BY <2>1, <2>2
  <2>4. \A q \in d : Chosen(q) = Origin(m, place, q)
    BY <1>7
  <2> HIDE DEF Chosen
  <2>5. t = [q \in d |-> s[Origin(m, place, q)]]
    BY <2>3, <2>4
  <2> QED BY <2>5
<1> HIDE DEF t
<1>9. IsSeq(t, m + 1)
  BY <1>1, <1>8 DEF IsSeq
<1>10. ASSUME NEW q \in 1..(m + 1)
       PROVE  t[q] = IF q <= place THEN kept[q] ELSE IF q = place + 1 THEN new ELSE kept[q - 1]
  <2>1. t[q] = s[Origin(m, place, q)]
    BY <1>8
  <2>2. CASE q <= place
    <3>1. q \in 1..m /\ Origin(m, place, q) = q
      BY <1>1, <2>2 DEF Origin
    <3> QED BY <1>4, <2>1, <2>2, <3>1
  <2>3. CASE q = place + 1
    <3>1. Origin(m, place, q) = m + 1 /\ ~(q <= place)
      BY <1>1, <2>3 DEF Origin
    <3> QED BY <1>4, <2>1, <2>3, <3>1
  <2>4. CASE ~(q <= place) /\ q # place + 1
    <3>1. q - 1 \in 1..m /\ Origin(m, place, q) = q - 1
      BY <1>1, <2>4 DEF Origin
    <3> QED BY <1>4, <2>1, <2>4, <3>1
  <2> QED BY <2>2, <2>3, <2>4
<1>11. IsKept(t, kept, m, new, place)
  BY <1>9, <1>10 DEF IsKept
<1> QED BY <1>11 DEF new, t, s, Keep

IsGrown(t, kept, m, new) ==
  /\ InOrder(t, m + 1)
  /\ \A q \in 1..(m + 1) : t[q] = new \/ \E i \in 1..m : t[q] = kept[i]
  /\ \A i \in 1..m : \E q \in 1..(m + 1) : t[q] = kept[i]
  /\ \E q \in 1..(m + 1) : t[q] = new

LEMMA KeepGrows ==
  ASSUME NEW kept, NEW m, InOrder(kept, m), NEW k \in Nat, NEW data
  PROVE  IsGrown(Keep(kept, k, data), kept, m, [index |-> k, data |-> data])
<1> DEFINE t == Keep(kept, k, data)
           new == [index |-> k, data |-> data]
<1>1. PICK place : IsPlace(kept, m, k, place)
  BY PlaceExists
<1>2. IsKept(t, kept, m, new, place)
  BY <1>1, KeepElements
<1>3. m \in Nat /\ place \in 0..m /\ new.index = k
  BY <1>1 DEF InOrder, IsSeq, IsPlace
<1> HIDE DEF t, new
<1>4. /\ \A i \in 1..m : kept[i].index \in Nat
      /\ \A i, j \in 1..m : i < j => kept[i].index <= kept[j].index
      /\ \A i \in 1..m : i <= place => kept[i].index <= k
      /\ \A i \in 1..m : ~(i <= place) => kept[i].index > k
  BY <1>1, <1>3 DEF InOrder, IsPlace
<1>5. ASSUME NEW q \in 1..(m + 1)
      PROVE  \/ q <= place /\ q \in 1..m /\ t[q] = kept[q]
             \/ q = place + 1 /\ t[q] = new
             \/ q > place + 1 /\ q - 1 \in 1..m /\ t[q] = kept[q - 1]
  <2>1. t[q] = IF q <= place THEN kept[q] ELSE IF q = place + 1 THEN new ELSE kept[q - 1]
    BY <1>2 DEF IsKept
  <2> QED BY <1>3, <2>1
<1>6. ASSUME NEW q \in 1..(m + 1) PROVE t[q].index \in Nat
  BY <1>3, <1>4, <1>5
<1>7. ASSUME NEW p \in 1..(m + 1), NEW q \in 1..(m + 1), p < q PROVE t[p].index <= t[q].index
  <2>1. CASE q <= place
    <3>1. p \in 1..m /\ q \in 1..m /\ t[p] = kept[p] /\ t[q] = kept[q]
      <4>1. p <= place /\ p # place + 1 /\ ~(p > place + 1) /\ q # place + 1 /\ ~(q > place + 1)
        BY <1>3, <1>7, <2>1
      <4> QED BY <1>5, <4>1
    <3> QED BY <1>4, <1>7, <3>1
  <2>2. CASE q = place + 1
    <3>1. p \in 1..m /\ p <= place /\ t[p] = kept[p] /\ t[q] = new
      <4>1. p <= place /\ p # place + 1 /\ ~(p > place + 1) /\ ~(q <= place) /\ ~(q > place + 1)
        BY <1>3, <1>7, <2>2
      <4> QED BY <1>5, <4>1
    <3> QED BY <1>3, <1>4, <3>1
  <2>3. CASE q > place + 1
    <3>1. q - 1 \in 1..m /\ ~(q - 1 <= place) /\ t[q] = kept[q - 1]
      <4>1. ~(q <= place) /\ q # place + 1 /\ ~(q - 1 <= place)
        BY <1>3, <2>3
      <4> QED BY <1>5, <4>1
    <3>2. CASE p <= place
      <4>1. p \in 1..m /\ t[p] = kept[p]
        <5>1. p # place + 1 /\ ~(p > place + 1)
          BY <1>3, <3>2
        <5> QED BY <1>5, <3>2, <5>1
      <4>2. p < q - 1
        BY <1>3, <2>3, <3>2
      <4> QED BY <1>4, <3>1, <4>1, <4>2
    <3>3. CASE p = place + 1
      <4>1. t[p] = new
        <5>1. ~(p <= place) /\ ~(p > place + 1)
          BY <1>3, <3>3
        <5> QED BY <1>5, <3>3, <5>1
      <4>2. kept[q - 1].index \in Nat /\ kept[q - 1].index > k
        BY <1>4, <3>1
      <4> QED BY <1>3, <3>1, <4>1, <4>2
    <3>4. CASE p > place + 1
      <4>1. p - 1 \in 1..m /\ t[p] = kept[p - 1] /\ p - 1 < q - 1
        <5>1. ~(p <= place) /\ p # place + 1 /\ p - 1 < q - 1
          BY <1>3, <1>7, <3>4
        <5> QED BY <1>5, <3>4, <5>1
      <4> QED BY <1>4, <3>1, <4>1
    <3> QED BY <1>3, <3>2, <3>3, <3>4
  <2> QED BY <1>3, <2>1, <2>2, <2>3
<1>8. InOrder(t, m + 1)
  <2>1. IsSeq(t, m + 1)
    BY <1>2 DEF IsKept
  <2> QED BY <1>6, <1>7, <2>1 DEF InOrder
<1>9. \A q \in 1..(m + 1) : t[q] = new \/ \E i \in 1..m : t[q] = kept[i]
  BY <1>5
<1>10. ASSUME NEW i \in 1..m PROVE \E q \in 1..(m + 1) : t[q] = kept[i]
  <2>1. CASE i <= place
    <3>1. i \in 1..(m + 1) /\ i # place + 1 /\ ~(i > place + 1)
      BY <1>3, <2>1
    <3>2. t[i] = kept[i]
      BY <1>5, <3>1
    <3> QED BY <3>1, <3>2
  <2>2. CASE ~(i <= place)
    <3>1. i + 1 \in 1..(m + 1) /\ ~(i + 1 <= place) /\ i + 1 # place + 1 /\ (i + 1) - 1 = i
      BY <1>3, <2>2
    <3>2. t[i + 1] = kept[(i + 1) - 1]
      BY <1>5, <3>1
    <3> QED BY <3>1, <3>2
  <2> QED BY <2>1, <2>2
<1>11. \E q \in 1..(m + 1) : t[q] = new
  <2>1. place + 1 \in 1..(m + 1) /\ ~(place + 1 <= place) /\ ~(place + 1 > place + 1)
    BY <1>3
  <2> QED BY <1>5, <2>1
<1>12. IsGrown(t, kept, m, new)
  BY <1>8, <1>9, <1>10, <1>11 DEF IsGrown
<1> QED BY <1>12 DEF t, new

(***************************************************************************)
(* Sorted fragments with all indexes from 1 to n, and no more fragments    *)
(* than indexes, are those with the indexes 1 to n, in order.              *)
(***************************************************************************)
HasAll(t, l, n) ==
  /\ \A i \in 1..l : t[i].index \in 1..n
  /\ \A k \in 1..n : \E i \in 1..l : t[i].index = k

LEMMA AllInOrder ==
  ASSUME NEW t, NEW l, InOrder(t, l), NEW n \in Nat \ {0}, l <= n, HasAll(t, l, n)
  PROVE  IsIdentity([i \in 1..l |-> t[i].index], l, n)
<1>1. l \in Nat
  BY DEF InOrder, IsSeq
<1> DEFINE x(i) == t[i].index
<1>2. /\ \A i \in 1..l : x(i) \in 1..n
      /\ \A i, j \in 1..l : i < j => x(i) <= x(j)
      /\ \A k \in 1..n : \E i \in 1..l : x(i) = k
  BY DEF InOrder, HasAll
<1> HIDE DEF x
<1> DEFINE S == {q \in Nat : q + 1 <= l => x(q + 1) <= q + 1}
<1>3. ASSUME NEW i \in 1..(l - 1) PROVE x(i + 1) <= x(i) + 1
  <2>1. i \in 1..l /\ i + 1 \in 1..l
    BY <1>1
  <2>2. x(i) \in 1..n /\ x(i + 1) \in 1..n
    BY <1>2, <2>1
  <2>3. CASE x(i) = n
    BY <2>2, <2>3
  <2>4. CASE x(i) # n
    <3>1. x(i) + 1 \in 1..n
      BY <2>2, <2>4
    <3>2. PICK j \in 1..l : x(j) = x(i) + 1
      BY <1>2, <3>1
    <3>3. ~(j <= i)
      <4>1. j < i => x(j) <= x(i)
        BY <1>2, <2>1
      <4> QED BY <2>1, <2>2, <3>2, <4>1
    <3>4. i + 1 = j \/ i + 1 < j
      BY <3>3
    <3>5. i + 1 < j => x(i + 1) <= x(j)
      BY <1>2, <2>1
    <3> QED BY <2>2, <3>2, <3>4, <3>5
  <2> QED BY <2>3, <2>4
<1>4. 0 \in S
  <2> SUFFICES ASSUME 1 <= l PROVE x(1) <= 1
    OBVIOUS
  <2>1. 1 \in 1..l /\ 1 \in 1..n
    BY <1>1
  <2>2. PICK i \in 1..l : x(i) = 1
    BY <1>2, <2>1
  <2>3. 1 < i => x(1) <= x(i)
    BY <1>2, <2>1
  <2>4. i = 1 \/ 1 < i
    BY <1>1
  <2> QED BY <2>2, <2>3, <2>4
<1>5. ASSUME NEW q \in Nat, q \in S PROVE q + 1 \in S
  <2> SUFFICES ASSUME (q + 1) + 1 <= l PROVE x((q + 1) + 1) <= (q + 1) + 1
    OBVIOUS
  <2>1. q + 1 \in 1..(l - 1) /\ q + 1 \in 1..l /\ (q + 1) + 1 \in 1..l /\ q + 1 <= l
    BY <1>1
  <2>2. x(q + 1) <= q + 1
    BY <1>5, <2>1
  <2>3. x((q + 1) + 1) <= x(q + 1) + 1
    BY <1>3, <2>1
  <2>4. x(q + 1) \in 1..n /\ x((q + 1) + 1) \in 1..n
    BY <1>2, <2>1
  <2> QED BY <2>2, <2>3, <2>4
<1>6. \A i \in 1..l : x(i) <= i
  <2> SUFFICES ASSUME NEW i \in 1..l PROVE x(i) <= i
    OBVIOUS
  <2>1. i - 1 \in Nat /\ (i - 1) + 1 = i /\ i <= l
    BY <1>1
  <2> HIDE DEF S
  <2>2. i - 1 \in S
    BY <1>4, <1>5, <2>1, NatSetInduction
  <2> QED BY <2>1, <2>2 DEF S
<1>7. l = n /\ x(n) = n
  <2>1. PICK i \in 1..l : x(i) = n
    <3>1. n \in 1..n
      OBVIOUS
    <3> QED BY <1>2, <3>1
  <2>2. n <= i /\ i <= l
    BY <1>1, <1>6, <2>1
  <2>3. i = n /\ l = n
    BY <1>1, <2>2
  <2> QED BY <2>1, <2>3
<1> DEFINE G == {i \in 1..n : x(i) = i}
<1>8. n \in G
  BY <1>7
<1>9. ASSUME NEW i \in 1..(n - 1), i + 1 \in G PROVE i \in G
  <2>1. i \in 1..l /\ i \in 1..n /\ i \in 1..(l - 1)
    BY <1>7
  <2>2. x(i + 1) = i + 1 /\ x(i + 1) <= x(i) + 1 /\ x(i) <= i /\ x(i) \in 1..n
    BY <1>2, <1>3, <1>6, <1>9, <2>1
  <2> QED BY <2>1, <2>2
<1> HIDE DEF G
<1>10. \A i \in 1..n : i \in G
  BY <1>8, <1>9, DownwardInduction
<1>11. \A i \in 1..n : i \in 1..l /\ t[i].index = i
  BY <1>7, <1>10 DEF G, x
<1> QED BY <1>7, <1>11 DEF IsIdentity

-------------------------------------------------------------------------------
(***************************************************************************)
(* The inductive invariant.  Calls returned what their arguments demand;   *)
(* every onion under way is the one that wrap() meant for the place on its *)
(* path to which it has come, of a set that was accepted or of a reply     *)
(* block that was used; what is kept of a set is kept at the end of its    *)
(* paths, sorted, as aont() made it; and what was read is what was sent.   *)
(***************************************************************************)
AskedFor(s, request) == [request |-> request, error |-> Made(s, request).error]

CallsInv ==
  /\ asked = [s \in Sets |-> asked[s]]
  /\ \A s \in Sets : asked[s] = None \/ \E request \in Requests : asked[s] = AskedFor(s, request)
  /\ surbs = [r \in Replies |-> surbs[r]]
  /\ \A r \in Replies :
       surbs[r] = None \/ \E path \in ReplyPaths, used \in BOOLEAN : surbs[r] = HandedOut(r, path, used)

FragmentAt(s, request, k, hop) ==
  Under(s, k, request.paths[k], hop, request.paths[k][hop], FragmentOnion(s, request, k, hop))

ReplyAt(r, path, hop) == Under(r, 1, path, hop, path[hop], ReplyOnion(r, path, hop))

IsFragment(p, s, request) ==
  \E k \in DOMAIN request.paths : \E hop \in 1..Len(request.paths[k]) : p = FragmentAt(s, request, k, hop)

IsReply(p, r, path) == \E hop \in 1..Len(path) : p = ReplyAt(r, path, hop)

UsedBlock(r) == surbs[r] # None /\ surbs[r].used

WellMade(p) ==
  \/ \E s \in Sets : AcceptedSet(s) /\ IsFragment(p, s, asked[s].request)
  \/ \E r \in Replies : UsedBlock(r) /\ IsReply(p, r, surbs[r].path)

PacketsInv == \A p \in packets : WellMade(p)

Recipient(request) == Last(request.paths[1])

KeptWell(kept, s, request) ==
  /\ InOrder(kept, Len(kept))
  /\ \A i \in 1..Len(kept) :
       /\ kept[i].index \in DOMAIN request.paths
       /\ kept[i] = [index |-> kept[i].index, data |-> Cut(s, request)[kept[i].index]]

KeptFor(n, s) ==
  \/ fragments[n][s] = <<>>
  \/ /\ AcceptedSet(s) /\ n = Recipient(asked[s].request)
     /\ KeptWell(fragments[n][s], s, asked[s].request)

KeptInv ==
  /\ fragments = [n \in Nodes |-> [s \in Sets |-> fragments[n][s]]]
  /\ \A n \in Nodes, s \in Sets : KeptFor(n, s)

(***************************************************************************)
(* AllOrNothing, for one set.                                              *)
(***************************************************************************)
WholeOrNone(s) ==
  /\ messages[s] # None =>
       messages[s] = MessageOf(s, asked[s].request) /\ \E n \in Nodes : Complete(n, s)
  /\ (\E n \in Nodes : Complete(n, s) /\ ~Repetitive(n, s)) => messages[s] # None

ReadInv ==
  /\ messages = [s \in Sets |-> messages[s]]
  /\ texts = [r \in Replies |-> texts[r]]
  /\ \A s \in Sets : WholeOrNone(s)
  /\ \A r \in Replies : texts[r] # None => texts[r] = Text(r) /\ UsedBlock(r)

ScyllaInv == CallsInv /\ PacketsInv /\ KeptInv /\ ReadInv /\ lost \subseteq Sets \cup Replies

-------------------------------------------------------------------------------
(***************************************************************************)
(* What the invariant says of a set that was accepted, and of an onion     *)
(* under way.                                                              *)
(***************************************************************************)
LEMMA AcceptedFacts ==
  ASSUME CallsInv, NEW s \in Sets, AcceptedSet(s)
  PROVE  /\ asked[s].request \in Requests /\ Proper(asked[s].request)
         /\ asked[s] = AskedFor(s, asked[s].request)
<1>1. PICK request \in Requests : asked[s] = AskedFor(s, request)
  BY DEF CallsInv, AcceptedSet
<1>2. asked[s].request = request /\ asked[s].error = Made(s, request).error
  BY <1>1 DEF AskedFor
<1>3. IsMade(Made(s, request), s, request)
  BY OnionsMade
<1>4. Proper(request)
  BY <1>2, <1>3 DEF IsMade, AcceptedSet
<1> QED BY <1>1, <1>2, <1>4

LEMMA ProperPaths ==
  ASSUME NEW request, Proper(request), NEW k \in DOMAIN request.paths
  PROVE  /\ IsPath(request.paths[k], Len(request.paths[k]))
         /\ Last(request.paths[k]) = Recipient(request)
         /\ Last(request.paths[k]) = request.paths[k][Len(request.paths[k])]
         /\ k \in 1..Len(request.paths) /\ k \in Nat
<1> DEFINE n == Len(request.paths)
<1>1. n \in Nat \ {0} /\ k \in 1..n
  BY DEF Proper
<1>2. IsPath(request.paths[k], Len(request.paths[k]))
  BY <1>1 DEF Proper
<1>3. Last(request.paths[k]) = Recipient(request)
  <2>1. \A j \in 2..n : Last(request.paths[j]) = Last(request.paths[1])
    BY DEF Proper, Converge
  <2>2. k = 1 \/ k \in 2..n
    BY <1>1
  <2> QED BY <2>1, <2>2 DEF Recipient
<1> QED BY <1>1, <1>2, <1>3 DEF Last

IsUnder(p, item, k, route, hop) ==
  /\ p = [item |-> p.item, index |-> p.index, route |-> p.route, hop |-> p.hop, at |-> p.at, onion |-> p.onion]
  /\ p.item = item /\ p.index = k /\ p.route = route /\ p.hop = hop /\ p.at = route[hop]
  /\ p.at \in Nodes /\ p.hop \in 1..MaxPathLength /\ Len(p.onion.beta) = HeaderLength
  /\ \A m : m # p.at => Process(m, p.onion) = MacMismatch

FragmentPacket(p, s, request, k, hop) ==
  /\ IsUnder(p, s, k, request.paths[k], hop)
  /\ p.onion.delta.text = Cut(s, request)[k]
  /\ Process(p.at, p.onion) =
       IF hop < Len(p.route) THEN Relay(Address(p.route[hop + 1]), FragmentOnion(s, request, k, hop + 1))
       ELSE Fragment({FragmentReference(s, k)}, Payload(Cut(s, request)[k]))

LEMMA FragmentPacketFacts ==
  ASSUME NEW s, NEW request, Proper(request), NEW k \in DOMAIN request.paths,
         NEW hop \in 1..Len(request.paths[k]), NEW p, p = FragmentAt(s, request, k, hop)
  PROVE  FragmentPacket(p, s, request, k, hop)
<1>1. PICK path : path = request.paths[k]
  OBVIOUS
<1>2. PICK n : n = Len(path)
  OBVIOUS
<1>3. IsPath(path, n) /\ hop \in 1..n
  BY <1>1, <1>2, ProperPaths
<1>4. FragmentTravels(s, request, k, path, n)
  BY <1>1, <1>2, <1>3, FragmentFacts
<1> DEFINE onion == FragmentOnion(s, request, k, hop)
           next == FragmentOnion(s, request, k, hop + 1)
           data == Cut(s, request)[k]
<1>5. /\ Process(path[hop], onion) = IF hop < n THEN Relay(Address(path[hop + 1]), next)
                                     ELSE Fragment({FragmentReference(s, k)}, Payload(data))
      /\ \A m : m # path[hop] => Process(m, onion) = MacMismatch
      /\ IsSeq(onion.beta, HeaderLength)
      /\ onion.delta.text = data
  BY <1>3, <1>4 DEF FragmentTravels
<1>6. Len(onion.beta) = HeaderLength
  BY <1>5, SeqOfElements
<1>7. path[hop] \in Nodes /\ hop \in 1..MaxPathLength
  BY <1>3, SizeAssumption DEF IsPath
<1>8. p = [item |-> s, index |-> k, route |-> path, hop |-> hop, at |-> path[hop], onion |-> onion]
  BY <1>1 DEF FragmentAt, Under
<1> HIDE DEF onion, next, data
<1>9. IsUnder(p, s, k, path, hop)
  BY <1>5, <1>6, <1>7, <1>8 DEF IsUnder
<1> QED BY <1>1, <1>2, <1>5, <1>8, <1>9 DEF FragmentPacket, onion, next, data

ReplyPacket(p, r, path, hop) ==
  /\ IsUnder(p, r, 1, path, hop)
  /\ p.onion.delta.text = Text(r)
  /\ Process(p.at, p.onion) =
       IF hop < Len(p.route) THEN Relay(Address(p.route[hop + 1]), ReplyOnion(r, path, hop + 1))
       ELSE Reply({<<"reply", r>>}, ReplyDelta(Text(r), SecretsFor(r, path), Len(path) + 1))

LEMMA ReplyPacketFacts ==
  ASSUME NEW r, NEW path \in Paths, NEW hop \in 1..Len(path), NEW p, p = ReplyAt(r, path, hop)
  PROVE  ReplyPacket(p, r, path, hop)
<1>1. PICK n : n = Len(path)
  OBVIOUS
<1>2. IsPath(path, n) /\ hop \in 1..n
  BY <1>1, PathElements
<1>3. ReplyTravels(r, path, n)
  BY <1>1, <1>2, ReplyFacts
<1> DEFINE onion == ReplyOnion(r, path, hop)
           next == ReplyOnion(r, path, hop + 1)
           last == ReplyDelta(Text(r), SecretsFor(r, path), n + 1)
<1>4. /\ Process(path[hop], onion) = IF hop < n THEN Relay(Address(path[hop + 1]), next)
                                     ELSE Reply({<<"reply", r>>}, last)
      /\ \A m : m # path[hop] => Process(m, onion) = MacMismatch
      /\ IsSeq(onion.beta, HeaderLength)
      /\ onion.delta.text = Text(r)
  BY <1>2, <1>3 DEF ReplyTravels
<1>5. Len(onion.beta) = HeaderLength
  BY <1>4, SeqOfElements
<1>6. path[hop] \in Nodes /\ hop \in 1..MaxPathLength
  BY <1>2, SizeAssumption DEF IsPath
<1>7. p = [item |-> r, index |-> 1, route |-> path, hop |-> hop, at |-> path[hop], onion |-> onion]
  BY DEF ReplyAt, Under
<1>8. next = ReplyOnion(r, path, hop + 1) /\ last = ReplyDelta(Text(r), SecretsFor(r, path), Len(path) + 1)
  BY <1>1
<1> HIDE DEF onion, next, last
<1>9. IsUnder(p, r, 1, path, hop)
  BY <1>4, <1>5, <1>6, <1>7 DEF IsUnder
<1> QED BY <1>1, <1>4, <1>7, <1>8, <1>9 DEF ReplyPacket

(***************************************************************************)
(* Every onion under way is the one or the other.                          *)
(***************************************************************************)
OfFragment(p, s, k, hop) ==
  /\ AcceptedSet(s) /\ asked[s].request \in Requests /\ Proper(asked[s].request)
  /\ k \in DOMAIN asked[s].request.paths /\ hop \in 1..Len(asked[s].request.paths[k])
  /\ p = FragmentAt(s, asked[s].request, k, hop)
  /\ FragmentPacket(p, s, asked[s].request, k, hop)

OfReply(p, r, hop) ==
  /\ UsedBlock(r) /\ surbs[r].path \in ReplyPaths /\ surbs[r].path \in Paths
  /\ surbs[r] = HandedOut(r, surbs[r].path, TRUE)
  /\ hop \in 1..Len(surbs[r].path)
  /\ p = ReplyAt(r, surbs[r].path, hop)
  /\ ReplyPacket(p, r, surbs[r].path, hop)

LEMMA UsedFacts ==
  ASSUME CallsInv, NEW r \in Replies, surbs[r] # None
  PROVE  /\ surbs[r].path \in ReplyPaths /\ surbs[r].path \in Paths
         /\ surbs[r].used \in BOOLEAN
         /\ surbs[r] = HandedOut(r, surbs[r].path, surbs[r].used)
<1>1. PICK path \in ReplyPaths, used \in BOOLEAN : surbs[r] = HandedOut(r, path, used)
  BY DEF CallsInv
<1>2. surbs[r].path = path /\ surbs[r].used = used
  BY <1>1 DEF HandedOut
<1>3. ReplyPaths \subseteq Paths
  BY RequestAssumption
<1> QED BY <1>1, <1>2, <1>3

LEMMA PacketCases ==
  ASSUME ScyllaInv, NEW p \in packets
  PROVE  \/ \E s \in Sets : \E k, hop : OfFragment(p, s, k, hop)
         \/ \E r \in Replies : \E hop : OfReply(p, r, hop)
<1>1. CallsInv /\ PacketsInv
  BY DEF ScyllaInv
<1>2. CASE \E s \in Sets : AcceptedSet(s) /\ IsFragment(p, s, asked[s].request)
  <2>1. PICK s \in Sets : AcceptedSet(s) /\ IsFragment(p, s, asked[s].request)
    BY <1>2
  <2>2. PICK request : request = asked[s].request
    OBVIOUS
  <2>3. request \in Requests /\ Proper(request)
    BY <1>1, <2>1, <2>2, AcceptedFacts
  <2>4. PICK k \in DOMAIN request.paths : \E hop \in 1..Len(request.paths[k]) : p = FragmentAt(s, request, k, hop)
    BY <2>1, <2>2 DEF IsFragment
  <2>7. PICK hop \in 1..Len(request.paths[k]) : p = FragmentAt(s, request, k, hop)
    BY <2>4
  <2>5. FragmentPacket(p, s, request, k, hop)
    BY <2>3, <2>7, FragmentPacketFacts
  <2>6. OfFragment(p, s, k, hop)
    BY <2>1, <2>2, <2>3, <2>5, <2>7 DEF OfFragment
  <2> QED BY <2>6
<1>3. CASE \E r \in Replies : UsedBlock(r) /\ IsReply(p, r, surbs[r].path)
  <2>1. PICK r \in Replies : UsedBlock(r) /\ IsReply(p, r, surbs[r].path)
    BY <1>3
  <2>2. PICK path : path = surbs[r].path
    OBVIOUS
  <2>3. path \in ReplyPaths /\ path \in Paths /\ surbs[r] = HandedOut(r, path, TRUE)
    <3>1. surbs[r] # None /\ surbs[r].used
      BY <2>1 DEF UsedBlock
    <3>2. surbs[r].used \in BOOLEAN /\ path \in ReplyPaths /\ path \in Paths
          /\ surbs[r] = HandedOut(r, path, surbs[r].used)
      BY <1>1, <2>2, <3>1, UsedFacts
    <3>3. surbs[r].used = TRUE
      BY <3>1, <3>2
    <3> QED BY <3>2, <3>3
  <2>4. PICK hop \in 1..Len(path) : p = ReplyAt(r, path, hop)
    BY <2>1, <2>2 DEF IsReply
  <2>5. ReplyPacket(p, r, path, hop)
    BY <2>3, <2>4, ReplyPacketFacts
  <2>6. OfReply(p, r, hop)
    BY <2>1, <2>2, <2>3, <2>4, <2>5 DEF OfReply
  <2> QED BY <2>6
<1> QED BY <1>1, <1>2, <1>3 DEF PacketsInv, WellMade

-------------------------------------------------------------------------------
(***************************************************************************)
(* Calls that were made stay as they were made, and so does everything     *)
(* that came of them.                                                      *)
(***************************************************************************)
CallsGrow ==
  /\ \A s \in Sets : AcceptedSet(s) => asked'[s] = asked[s]
  /\ \A s \in Sets : AcceptedSet(s)' => Proper(asked'[s].request)
  /\ \A r \in Replies : UsedBlock(r) => surbs'[r] = surbs[r]

LEMMA CallsStay ==
  ASSUME CallsInv, UNCHANGED <<asked, surbs>>
  PROVE  CallsInv' /\ CallsGrow
<1>1. CallsInv'
  BY DEF CallsInv
<1>2. ASSUME NEW s \in Sets, AcceptedSet(s)' PROVE Proper(asked'[s].request)
  <2>1. AcceptedSet(s)
    BY <1>2 DEF AcceptedSet
  <2> QED BY <2>1, AcceptedFacts
<1> QED BY <1>1, <1>2 DEF CallsGrow

LEMMA StillMade ==
  ASSUME CallsGrow, NEW p, WellMade(p)
  PROVE  WellMade(p)'
<1>1. CASE \E s \in Sets : AcceptedSet(s) /\ IsFragment(p, s, asked[s].request)
  <2>1. PICK s \in Sets : AcceptedSet(s) /\ IsFragment(p, s, asked[s].request)
    BY <1>1
  <2>2. asked'[s] = asked[s]
    BY <2>1 DEF CallsGrow
  <2>3. AcceptedSet(s)' /\ IsFragment(p, s, asked[s].request)'
    BY <2>1, <2>2 DEF AcceptedSet, IsFragment
  <2> QED BY <2>3 DEF WellMade
<1>2. CASE \E r \in Replies : UsedBlock(r) /\ IsReply(p, r, surbs[r].path)
  <2>1. PICK r \in Replies : UsedBlock(r) /\ IsReply(p, r, surbs[r].path)
    BY <1>2
  <2>2. surbs'[r] = surbs[r]
    BY <2>1 DEF CallsGrow
  <2>3. UsedBlock(r)' /\ IsReply(p, r, surbs[r].path)'
    BY <2>1, <2>2 DEF UsedBlock, IsReply
  <2> QED BY <2>3 DEF WellMade
<1> QED BY <1>1, <1>2 DEF WellMade

LEMMA PacketsStay ==
  ASSUME PacketsInv, CallsGrow, \A p \in packets' : p \in packets \/ WellMade(p)'
  PROVE  PacketsInv'
BY StillMade DEF PacketsInv

LEMMA NothingArrived ==
  ASSUME NEW n, NEW s, fragments[n][s] = <<>>
  PROVE  Arrived(n, s) = {}
<1>1. Range(<<>>) = {}
  BY DEF Range
<1> QED BY <1>1 DEF Arrived

LEMMA KeptStays ==
  ASSUME KeptInv, CallsGrow, UNCHANGED fragments
  PROVE  KeptInv'
<1>1. ASSUME NEW n \in Nodes, NEW s \in Sets PROVE KeptFor(n, s)'
  <2>1. CASE fragments[n][s] = <<>>
    BY <2>1 DEF KeptFor
  <2>2. CASE fragments[n][s] # <<>>
    <3>1. AcceptedSet(s) /\ n = Recipient(asked[s].request) /\ KeptWell(fragments[n][s], s, asked[s].request)
      BY <2>2 DEF KeptInv, KeptFor
    <3>2. asked'[s] = asked[s]
      BY <3>1 DEF CallsGrow
    <3>3. AcceptedSet(s)'
      BY <3>1, <3>2 DEF AcceptedSet
    <3> QED BY <3>1, <3>2, <3>3 DEF KeptFor
  <2> QED BY <2>1, <2>2
<1> QED BY <1>1 DEF KeptInv

LEMMA WholeStays ==
  ASSUME KeptInv, CallsGrow, NEW s \in Sets, WholeOrNone(s), UNCHANGED <<fragments, messages>>
  PROVE  WholeOrNone(s)'
<1>1. ASSUME AcceptedSet(s) PROVE asked'[s] = asked[s] /\ AcceptedSet(s)'
  <2>1. asked'[s] = asked[s]
    BY <1>1 DEF CallsGrow
  <2> QED BY <1>1, <2>1 DEF AcceptedSet
<1>2. ASSUME NEW n \in Nodes, Complete(n, s) PROVE Complete(n, s)'
  BY <1>1, <1>2 DEF Complete, Arrived
<1>3. ASSUME NEW n \in Nodes, Complete(n, s)' PROVE Complete(n, s)
  <2>1. AcceptedSet(s)' /\ Proper(asked'[s].request)
    BY <1>3 DEF Complete, CallsGrow
  <2>2. 1 \in DOMAIN asked'[s].request.paths
    BY <2>1 DEF Proper
  <2>3. 1 \in Arrived(n, s)
    BY <1>3, <2>2 DEF Complete, Arrived
  <2>4. fragments[n][s] # <<>>
    BY <2>3, NothingArrived
  <2>5. AcceptedSet(s)
    BY <2>4 DEF KeptInv, KeptFor
  <2> QED BY <1>1, <1>3, <2>5 DEF Complete, Arrived
<1>4. ASSUME messages'[s] # None
      PROVE  messages'[s] = MessageOf(s, asked'[s].request) /\ \E n \in Nodes : Complete(n, s)'
  <2>1. messages[s] = MessageOf(s, asked[s].request)
    BY <1>4 DEF WholeOrNone
  <2>2. PICK n \in Nodes : Complete(n, s)
    BY <1>4 DEF WholeOrNone
  <2>3. asked'[s] = asked[s]
    BY <1>1, <2>2 DEF Complete
  <2> QED BY <1>2, <2>1, <2>2, <2>3
<1>5. ASSUME NEW n \in Nodes, Complete(n, s)', ~Repetitive(n, s)' PROVE messages'[s] # None
  <2>1. ~Repetitive(n, s)
    BY <1>5 DEF Repetitive, Arrived
  <2> QED BY <1>3, <1>5, <2>1 DEF WholeOrNone
<1>6. MessageOf(s, asked[s].request)' = MessageOf(s, asked'[s].request)
  BY DEF MessageOf
<1> QED BY <1>4, <1>5, <1>6 DEF WholeOrNone

(***************************************************************************)
(* A step that only makes calls and moves onions.                          *)
(***************************************************************************)
LEMMA OnlyCalls ==
  ASSUME ScyllaInv, CallsInv', CallsGrow, UNCHANGED <<fragments, messages, texts>>,
         \A p \in packets' : p \in packets \/ WellMade(p)', lost' \subseteq Sets \cup Replies
  PROVE  ScyllaInv'
<1>1. KeptInv /\ PacketsInv /\ ReadInv
  BY DEF ScyllaInv
<1>2. PacketsInv'
  BY <1>1, PacketsStay
<1>3. KeptInv'
  BY <1>1, KeptStays
<1>4. \A s \in Sets : WholeOrNone(s)'
  BY <1>1, WholeStays DEF ReadInv
<1>5. ASSUME NEW r \in Replies, texts'[r] # None PROVE texts'[r] = Text(r) /\ UsedBlock(r)'
  <2>1. texts[r] = Text(r) /\ UsedBlock(r)
    BY <1>1, <1>5 DEF ReadInv
  <2>2. surbs'[r] = surbs[r]
    BY <2>1 DEF CallsGrow
  <2> QED BY <2>1, <2>2 DEF UsedBlock
<1>6. ReadInv'
  <2>1. messages' = [s \in Sets |-> messages'[s]] /\ texts' = [r \in Replies |-> texts'[r]]
    BY <1>1 DEF ReadInv
  <2>2. \A r \in Replies : texts'[r] # None => texts'[r] = Text(r)' /\ UsedBlock(r)'
    BY <1>5 DEF Text
  <2> QED BY <1>4, <2>1, <2>2 DEF ReadInv
<1> QED BY <1>2, <1>3, <1>6 DEF ScyllaInv

LEMMA InitInv ==
  ASSUME Init
  PROVE  ScyllaInv
<1>1. CallsInv
  BY DEF Init, CallsInv
<1>2. PacketsInv
  BY DEF Init, PacketsInv
<1>3. KeptInv
  BY DEF Init, KeptInv, KeptFor
<1>4. ASSUME NEW s \in Sets PROVE WholeOrNone(s)
  <2>1. asked[s] = None /\ messages[s] = None
    BY DEF Init
  <2> QED BY <2>1 DEF WholeOrNone, Complete, AcceptedSet
<1>5. ReadInv
  BY <1>4 DEF Init, ReadInv
<1> QED BY <1>1, <1>2, <1>3, <1>5 DEF Init, ScyllaInv

(***************************************************************************)
(* No call returns None.                                                   *)
(***************************************************************************)
LEMMA CallsReturn ==
  /\ \A s \in Sets, request \in Requests : AskedFor(s, request) # None
  /\ \A r \in Replies, path \in ReplyPaths, used \in BOOLEAN : HandedOut(r, path, used) # None
<1>1. ASSUME NEW s \in Sets, NEW request \in Requests PROVE AskedFor(s, request) # None
  <2>1. Made(s, request).error \in Errors
    BY OnionsMade DEF IsMade
  <2> QED BY <2>1, NoneAssumption DEF AskedFor
<1> QED BY <1>1, NoneAssumption

LEMMA SendKeeps ==
  ASSUME ScyllaInv, NEW s \in Sets, NEW request \in Requests, Send(s, request)
  PROVE  ScyllaInv' /\ CallsGrow
<1> DEFINE made == Made(s, request)
<1>1. /\ asked[s] = None
      /\ asked' = [asked EXCEPT ![s] = [request |-> request, error |-> made.error]]
      /\ packets' = packets \cup
           {Under(s, k, request.paths[k], 1, request.paths[k][1], made.onions[k]) : k \in DOMAIN made.onions}
      /\ UNCHANGED <<surbs, fragments, messages, texts, lost>>
  BY DEF Send, Made
<1>2. IsMade(made, s, request)
  BY OnionsMade
<1> HIDE DEF made
<1>3. CallsInv
  BY DEF ScyllaInv
<1>4. asked'[s] = [request |-> request, error |-> made.error] /\ \A t \in Sets : t # s => asked'[t] = asked[t]
  BY <1>1, <1>3 DEF CallsInv
<1>5. asked'[s] = AskedFor(s, request)
  BY <1>4 DEF AskedFor, made
<1>6. CallsInv'
  <2>1. asked' = [t \in Sets |-> asked'[t]]
    BY <1>1, <1>3 DEF CallsInv
  <2>2. \A t \in Sets : asked'[t] = None \/ \E q \in Requests : asked'[t] = AskedFor(t, q)
    BY <1>3, <1>4, <1>5 DEF CallsInv
  <2>3. surbs' = [r \in Replies |-> surbs'[r]] /\ \A r \in Replies :
          surbs'[r] = None \/ \E path \in ReplyPaths, used \in BOOLEAN : surbs'[r] = HandedOut(r, path, used)
    BY <1>1, <1>3 DEF CallsInv
  <2> QED BY <2>1, <2>2, <2>3 DEF CallsInv
<1>7. ~AcceptedSet(s)
  BY <1>1 DEF AcceptedSet
<1>8. AcceptedSet(s)' => made.error = "none" /\ request.paths # <<>>
  BY <1>4 DEF AcceptedSet
<1>9. CallsGrow
  <2>1. ASSUME NEW t \in Sets, AcceptedSet(t)' PROVE Proper(asked'[t].request)
    <3>1. CASE t = s
      BY <1>2, <1>4, <1>8, <2>1, <3>1 DEF IsMade
    <3>2. CASE t # s
      <4>1. AcceptedSet(t)
        BY <1>4, <2>1, <3>2 DEF AcceptedSet
      <4> QED BY <1>3, <1>4, <3>2, <4>1, AcceptedFacts
    <3> QED BY <3>1, <3>2
  <2>2. \A t \in Sets : AcceptedSet(t) => asked'[t] = asked[t]
    BY <1>4, <1>7
  <2> QED BY <1>1, <2>1, <2>2 DEF CallsGrow
<1>10. ASSUME NEW p \in packets', p \notin packets PROVE WellMade(p)'
  <2>1. PICK k \in DOMAIN made.onions : p = Under(s, k, request.paths[k], 1, request.paths[k][1], made.onions[k])
    BY <1>1, <1>10
  <2>2. made.error = "none" /\ request.paths # <<>>
    BY <1>2, <2>1 DEF IsMade
  <2>3. Proper(request) /\ k \in DOMAIN request.paths /\ made.onions[k] = FragmentOnion(s, request, k, 1)
    BY <1>2, <2>1, <2>2 DEF IsMade
  <2>4. p = FragmentAt(s, request, k, 1)
    BY <2>1, <2>3 DEF FragmentAt
  <2>5. 1 \in 1..Len(request.paths[k])
    <3>1. Len(request.paths[k]) \in Nat \ {0}
      BY <2>3, ProperPaths DEF IsPath
    <3> QED BY <3>1
  <2>6. IsFragment(p, s, request)
    BY <2>3, <2>4, <2>5 DEF IsFragment
  <2>7. AcceptedSet(s)' /\ asked'[s].request = request
    <3>1. asked'[s] # None
      BY <1>5, CallsReturn
    <3> QED BY <1>4, <2>2, <3>1 DEF AcceptedSet
  <2>8. IsFragment(p, s, asked[s].request)'
    BY <2>6, <2>7 DEF IsFragment
  <2> QED BY <2>7, <2>8 DEF WellMade
<1>11. lost' \subseteq Sets \cup Replies
  BY <1>1 DEF ScyllaInv
<1> QED BY <1>1, <1>6, <1>9, <1>10, <1>11, OnlyCalls

LEMMA HandOutKeeps ==
  ASSUME ScyllaInv, NEW r \in Replies, NEW path \in ReplyPaths, HandOut(r, path)
  PROVE  ScyllaInv' /\ CallsGrow
<1>1. /\ surbs[r] = None
      /\ surbs' = [surbs EXCEPT ![r] = HandedOut(r, path, FALSE)]
      /\ UNCHANGED <<asked, packets, fragments, messages, texts, lost>>
  BY DEF HandOut
<1>2. CallsInv
  BY DEF ScyllaInv
<1>3. surbs'[r] = HandedOut(r, path, FALSE) /\ \A q \in Replies : q # r => surbs'[q] = surbs[q]
  BY <1>1, <1>2 DEF CallsInv
<1>4. CallsInv'
  <2>1. surbs' = [q \in Replies |-> surbs'[q]]
    BY <1>1, <1>2 DEF CallsInv
  <2>2. \A q \in Replies :
          surbs'[q] = None \/ \E p \in ReplyPaths, used \in BOOLEAN : surbs'[q] = HandedOut(q, p, used)
    BY <1>2, <1>3 DEF CallsInv
  <2>3. asked' = [s \in Sets |-> asked'[s]]
        /\ \A s \in Sets : asked'[s] = None \/ \E request \in Requests : asked'[s] = AskedFor(s, request)
    BY <1>1, <1>2 DEF CallsInv
  <2> QED BY <2>1, <2>2, <2>3 DEF CallsInv
<1>5. CallsGrow
  <2>1. ASSUME NEW s \in Sets, AcceptedSet(s)' PROVE Proper(asked'[s].request)
    <3>1. AcceptedSet(s)
      BY <1>1, <2>1 DEF AcceptedSet
    <3> QED BY <1>1, <1>2, <3>1, AcceptedFacts
  <2>2. \A q \in Replies : UsedBlock(q) => surbs'[q] = surbs[q]
    BY <1>1, <1>3 DEF UsedBlock
  <2> QED BY <1>1, <2>1, <2>2 DEF CallsGrow
<1>6. lost' \subseteq Sets \cup Replies
  BY <1>1 DEF ScyllaInv
<1> QED BY <1>1, <1>4, <1>5, <1>6, OnlyCalls

LEMMA Answered ==
  ASSUME ScyllaInv, NEW r \in Replies, Answer(r)
  PROVE  /\ surbs'[r] = HandedOut(r, surbs[r].path, TRUE) /\ UsedBlock(r)'
         /\ \A q \in Replies : q # r => surbs'[q] = surbs[q]
<1>1. /\ surbs[r] # None /\ ~surbs[r].used
      /\ surbs' = [surbs EXCEPT ![r].used = TRUE]
      /\ packets' = packets \cup
           {Under(r, 1, surbs[r].path, 1, surbs[r].path[1], UseSurb(surbs[r].onion, Text(r)))}
      /\ UNCHANGED <<asked, fragments, messages, texts, lost>>
  BY DEF Answer
<1>2. CallsInv
  BY DEF ScyllaInv
<1>3. PICK path : path = surbs[r].path
  OBVIOUS
<1>4. path \in ReplyPaths /\ path \in Paths /\ surbs[r] = HandedOut(r, path, FALSE)
  <2>1. surbs[r].used \in BOOLEAN /\ path \in ReplyPaths /\ path \in Paths
        /\ surbs[r] = HandedOut(r, path, surbs[r].used)
    BY <1>1, <1>2, <1>3, UsedFacts
  <2>2. surbs[r].used = FALSE
    BY <1>1, <2>1
  <2> QED BY <2>1, <2>2
<1>5. surbs'[r] = HandedOut(r, path, TRUE) /\ \A q \in Replies : q # r => surbs'[q] = surbs[q]
  <2>1. surbs'[r] = [surbs[r] EXCEPT !.used = TRUE]
    BY <1>1, <1>2 DEF CallsInv
  <2>2. [HandedOut(r, path, FALSE) EXCEPT !.used = TRUE] = HandedOut(r, path, TRUE)
    <3>1. PICK secrets, onion : secrets = CreateSurb(r, path).secrets /\ onion = CreateSurb(r, path).onion
      OBVIOUS
    <3>2. PICK yes, no : yes = TRUE /\ no = FALSE
      OBVIOUS
    <3>3. HandedOut(r, path, no) = [path |-> path, secrets |-> secrets, onion |-> onion, used |-> no]
      BY <3>1 DEF HandedOut
    <3>4. HandedOut(r, path, yes) = [path |-> path, secrets |-> secrets, onion |-> onion, used |-> yes]
      BY <3>1 DEF HandedOut
    <3>5. [[path |-> path, secrets |-> secrets, onion |-> onion, used |-> no] EXCEPT !.used = yes]
            = [path |-> path, secrets |-> secrets, onion |-> onion, used |-> yes]
      OBVIOUS
    <3>6. [HandedOut(r, path, no) EXCEPT !.used = yes] = HandedOut(r, path, yes)
      BY <3>3, <3>4, <3>5
    <3> QED BY <3>2, <3>6
  <2>3. \A q \in Replies : q # r => surbs'[q] = surbs[q]
    BY <1>1, <1>2 DEF CallsInv
  <2> QED BY <1>4, <2>1, <2>2, <2>3
<1>6. surbs'[r] # None
  BY <1>4, <1>5, CallsReturn
<1>7. surbs'[r].used
  <2>1. PICK yes : yes = TRUE
    OBVIOUS
  <2>2. HandedOut(r, path, yes).used = yes
    BY DEF HandedOut
  <2> QED BY <1>5, <2>1, <2>2
<1> QED BY <1>3, <1>5, <1>6, <1>7 DEF UsedBlock

LEMMA AnswerKeeps ==
  ASSUME ScyllaInv, NEW r \in Replies, Answer(r)
  PROVE  ScyllaInv' /\ CallsGrow
<1>1. /\ surbs[r] # None /\ ~surbs[r].used
      /\ surbs' = [surbs EXCEPT ![r].used = TRUE]
      /\ packets' = packets \cup
           {Under(r, 1, surbs[r].path, 1, surbs[r].path[1], UseSurb(surbs[r].onion, Text(r)))}
      /\ UNCHANGED <<asked, fragments, messages, texts, lost>>
  BY DEF Answer
<1>2. CallsInv
  BY DEF ScyllaInv
<1>3. PICK path : path = surbs[r].path
  OBVIOUS
<1>4. path \in ReplyPaths /\ path \in Paths /\ surbs[r] = HandedOut(r, path, FALSE)
  <2>1. surbs[r].used \in BOOLEAN /\ path \in ReplyPaths /\ path \in Paths
        /\ surbs[r] = HandedOut(r, path, surbs[r].used)
    BY <1>1, <1>2, <1>3, UsedFacts
  <2>2. surbs[r].used = FALSE
    BY <1>1, <2>1
  <2> QED BY <2>1, <2>2
<1>5. surbs'[r] = HandedOut(r, path, TRUE) /\ \A q \in Replies : q # r => surbs'[q] = surbs[q]
  BY <1>3, Answered
<1>6. CallsInv'
  <2>1. surbs' = [q \in Replies |-> surbs'[q]]
    BY <1>1, <1>2 DEF CallsInv
  <2>2. \A q \in Replies :
          surbs'[q] = None \/ \E p \in ReplyPaths, used \in BOOLEAN : surbs'[q] = HandedOut(q, p, used)
    BY <1>2, <1>4, <1>5 DEF CallsInv
  <2>3. asked' = [s \in Sets |-> asked'[s]]
        /\ \A s \in Sets : asked'[s] = None \/ \E request \in Requests : asked'[s] = AskedFor(s, request)
    BY <1>1, <1>2 DEF CallsInv
  <2> QED BY <2>1, <2>2, <2>3 DEF CallsInv
<1>7. CallsGrow
  <2>1. ASSUME NEW s \in Sets, AcceptedSet(s)' PROVE Proper(asked'[s].request)
    <3>1. AcceptedSet(s)
      BY <1>1, <2>1 DEF AcceptedSet
    <3> QED BY <1>1, <1>2, <3>1, AcceptedFacts
  <2>2. \A q \in Replies : UsedBlock(q) => surbs'[q] = surbs[q]
    BY <1>1, <1>5 DEF UsedBlock
  <2> QED BY <1>1, <2>1, <2>2 DEF CallsGrow
<1>8. ASSUME NEW p \in packets', p \notin packets PROVE WellMade(p)'
  <2>1. p = Under(r, 1, path, 1, path[1], UseSurb(surbs[r].onion, Text(r)))
    BY <1>1, <1>3, <1>8
  <2>2. PICK n : n = Len(path)
    OBVIOUS
  <2>3. IsPath(path, n)
    BY <1>4, <2>2, PathElements
  <2>4. UseSurb(CreateSurb(r, path).onion, Text(r)) = ReplyOnion(r, path, 1)
    BY <2>2, <2>3, ReplyFacts
  <2>5. surbs[r].onion = CreateSurb(r, path).onion
    BY <1>4 DEF HandedOut
  <2>6. p = ReplyAt(r, path, 1)
    BY <2>1, <2>4, <2>5 DEF ReplyAt
  <2>7. 1 \in 1..Len(path)
    BY <2>2, <2>3 DEF IsPath
  <2>8. surbs'[r].path = path /\ surbs'[r].used /\ surbs'[r] # None
    <3>1. HandedOut(r, path, TRUE).path = path /\ HandedOut(r, path, TRUE).used
      BY DEF HandedOut
    <3> QED BY <1>4, <1>5, <3>1, CallsReturn
  <2>9. UsedBlock(r)' /\ IsReply(p, r, surbs[r].path)'
    BY <2>6, <2>7, <2>8 DEF UsedBlock, IsReply
  <2> QED BY <2>9 DEF WellMade
<1>9. lost' \subseteq Sets \cup Replies
  BY <1>1 DEF ScyllaInv
<1> QED BY <1>1, <1>6, <1>7, <1>8, <1>9, OnlyCalls

-------------------------------------------------------------------------------
(***************************************************************************)
(* The three outcomes, and addresses and references, can be told apart.    *)
(***************************************************************************)
LEMMA OutcomesDiffer ==
  /\ \A x, o : Relay(x, o).kind = "Relay" /\ Relay(x, o).next = x /\ Relay(x, o).onion = o
  /\ \A x, d : Fragment(x, d).kind = "Fragment" /\ Fragment(x, d).reference = x /\ Fragment(x, d).data = d
  /\ \A x, d : Reply(x, d).kind = "Reply" /\ Reply(x, d).reference = x /\ Reply(x, d).data = d
  /\ "Relay" # "Fragment" /\ "Relay" # "Reply" /\ "Fragment" # "Reply"
BY DEF Relay, Fragment, Reply

LEMMA AddressesDiffer ==
  ASSUME NEW m, NEW n, Address(m) = Address(n)
  PROVE  m = n
<1>1. <<"address", m>> = <<"address", n>>
  BY DEF Address
<1> QED BY <1>1

LEMMA ReferencesDiffer ==
  ASSUME NEW s, NEW k, NEW t, NEW j, {FragmentReference(s, k)} = {FragmentReference(t, j)}
  PROVE  s = t /\ k = j
<1>1. <<"fragment", s, k>> = <<"fragment", t, j>>
  BY DEF FragmentReference
<1> QED BY <1>1

Moved(p, m, onion) == [p EXCEPT !.at = m, !.hop = @ + 1, !.onion = onion]

LEMMA MovedOn ==
  ASSUME NEW p, NEW item, NEW k, NEW route, NEW hop, IsUnder(p, item, k, route, hop), NEW m, NEW onion
  PROVE  Moved(p, m, onion) = Under(item, k, route, hop + 1, m, onion)
<1>1. p = [item |-> p.item, index |-> p.index, route |-> p.route, hop |-> p.hop, at |-> p.at, onion |-> p.onion]
      /\ p.item = item /\ p.index = k /\ p.route = route /\ p.hop = hop
  BY DEF IsUnder
<1>2. PICK at, was : at = p.at /\ was = p.onion
  OBVIOUS
<1>3. p = [item |-> item, index |-> k, route |-> route, hop |-> hop, at |-> at, onion |-> was]
  BY <1>1, <1>2
<1>4. [p EXCEPT !.at = m, !.hop = @ + 1, !.onion = onion]
        = [item |-> item, index |-> k, route |-> route, hop |-> hop + 1, at |-> m, onion |-> onion]
  <2>1. PICK next : next = hop + 1
    OBVIOUS
  <2>2. [[item |-> item, index |-> k, route |-> route, hop |-> hop, at |-> at, onion |-> was] EXCEPT !.at = m]
          = [item |-> item, index |-> k, route |-> route, hop |-> hop, at |-> m, onion |-> was]
    OBVIOUS
  <2>4. [[item |-> item, index |-> k, route |-> route, hop |-> hop, at |-> m, onion |-> was] EXCEPT !.hop = next]
          = [item |-> item, index |-> k, route |-> route, hop |-> next, at |-> m, onion |-> was]
    OBVIOUS
  <2>5. [[item |-> item, index |-> k, route |-> route, hop |-> next, at |-> m, onion |-> was] EXCEPT !.onion = onion]
          = [item |-> item, index |-> k, route |-> route, hop |-> next, at |-> m, onion |-> onion]
    OBVIOUS
  <2>6. [p EXCEPT !.at = m, !.hop = next, !.onion = onion]
          = [[[p EXCEPT !.at = m] EXCEPT !.hop = next] EXCEPT !.onion = onion]
    OBVIOUS
  <2>3. p.hop + 1 = next
    BY <1>1, <2>1
  <2> QED BY <1>3, <2>1, <2>2, <2>3, <2>4, <2>5, <2>6
<1> QED BY <1>4 DEF Under, Moved

LEMMA ForwardMoves ==
  ASSUME ScyllaInv, NEW p \in packets, Forward(p)
  PROVE  /\ \E q : /\ packets' = (packets \ {p}) \cup {q}
                   /\ \/ \E s \in Sets : \E k, hop : OfFragment(p, s, k, hop) /\ OfFragment(q, s, k, hop + 1)
                      \/ \E r \in Replies : \E hop : OfReply(p, r, hop) /\ OfReply(q, r, hop + 1)
         /\ UNCHANGED <<asked, surbs, fragments, messages, texts, lost>>
<1>1. PICK outcome : outcome = Process(p.at, p.onion)
  OBVIOUS
<1>2. outcome.kind = "Relay" /\ UNCHANGED <<asked, surbs, fragments, messages, texts, lost>>
  BY <1>1 DEF Forward
<1>3. PICK m \in Nodes :
        /\ outcome.next = Address(m)
        /\ packets' = (packets \ {p}) \cup {[p EXCEPT !.at = m, !.hop = @ + 1, !.onion = outcome.onion]}
  BY <1>1 DEF Forward
<1> DEFINE q == [p EXCEPT !.at = m, !.hop = @ + 1, !.onion = outcome.onion]
<1>4. ASSUME NEW s \in Sets, NEW k, NEW hop, OfFragment(p, s, k, hop)
      PROVE  OfFragment(q, s, k, hop + 1)
  <2>1. PICK request : request = asked[s].request
    OBVIOUS
  <2>2. PICK path : path = request.paths[k]
    OBVIOUS
  <2>3. /\ Proper(request) /\ k \in DOMAIN request.paths /\ hop \in 1..Len(path)
        /\ IsUnder(p, s, k, path, hop)
        /\ outcome = IF hop < Len(path) THEN Relay(Address(path[hop + 1]), FragmentOnion(s, request, k, hop + 1))
                     ELSE Fragment({FragmentReference(s, k)}, Payload(Cut(s, request)[k]))
    <3>1. FragmentPacket(p, s, request, k, hop) /\ Proper(request) /\ k \in DOMAIN request.paths
          /\ hop \in 1..Len(path)
      BY <1>4, <2>1, <2>2 DEF OfFragment
    <3>2. p.route = path
      BY <2>2, <3>1 DEF FragmentPacket, IsUnder
    <3> QED BY <1>1, <2>2, <3>1, <3>2 DEF FragmentPacket
  <2>4. hop < Len(path)
    BY <1>2, <2>3, OutcomesDiffer
  <2>5. outcome.next = Address(path[hop + 1]) /\ outcome.onion = FragmentOnion(s, request, k, hop + 1)
    BY <2>3, <2>4, OutcomesDiffer
  <2>6. m = path[hop + 1]
    BY <1>3, <2>5, AddressesDiffer
  <2>7. q = FragmentAt(s, request, k, hop + 1)
    <3>1. q = Under(s, k, path, hop + 1, m, outcome.onion)
      <4>1. PICK onion : onion = outcome.onion
        OBVIOUS
      <4>2. q = Moved(p, m, onion)
        BY <4>1 DEF Moved
      <4>3. IsUnder(p, s, k, path, hop)
        BY <2>3
      <4>4. Moved(p, m, onion) = Under(s, k, path, hop + 1, m, onion)
        BY <4>3, MovedOn
      <4> HIDE DEF q
      <4> QED BY <4>1, <4>2, <4>4
    <3> HIDE DEF q
    <3> QED BY <2>2, <2>5, <2>6, <3>1 DEF FragmentAt
  <2> HIDE DEF q
  <2>8. PICK next : next = hop + 1
    OBVIOUS
  <2>9. next \in 1..Len(request.paths[k])
    <3>1. Len(path) \in Nat
      BY <2>2, <2>3, ProperPaths DEF IsPath
    <3> QED BY <2>2, <2>3, <2>4, <2>8, <3>1
  <2>10. FragmentPacket(q, s, request, k, next)
    BY <2>3, <2>7, <2>8, <2>9, FragmentPacketFacts
  <2> QED BY <1>4, <2>1, <2>7, <2>8, <2>9, <2>10 DEF OfFragment
<1>5. ASSUME NEW r \in Replies, NEW hop, OfReply(p, r, hop)
      PROVE  OfReply(q, r, hop + 1)
  <2>1. PICK path : path = surbs[r].path
    OBVIOUS
  <2>2. /\ path \in Paths /\ hop \in 1..Len(path) /\ IsUnder(p, r, 1, path, hop)
        /\ outcome = IF hop < Len(path) THEN Relay(Address(path[hop + 1]), ReplyOnion(r, path, hop + 1))
                     ELSE Reply({<<"reply", r>>}, ReplyDelta(Text(r), SecretsFor(r, path), Len(path) + 1))
    <3>1. ReplyPacket(p, r, path, hop) /\ path \in Paths /\ hop \in 1..Len(path)
      BY <1>5, <2>1 DEF OfReply
    <3>2. p.route = path
      BY <3>1 DEF ReplyPacket, IsUnder
    <3> QED BY <1>1, <3>1, <3>2 DEF ReplyPacket
  <2>3. hop < Len(path)
    BY <1>2, <2>2, OutcomesDiffer
  <2>4. outcome.next = Address(path[hop + 1]) /\ outcome.onion = ReplyOnion(r, path, hop + 1)
    BY <2>2, <2>3, OutcomesDiffer
  <2>5. m = path[hop + 1]
    BY <1>3, <2>4, AddressesDiffer
  <2>6. q = ReplyAt(r, path, hop + 1)
    <3>1. PICK one : one = 1
      OBVIOUS
    <3>2. q = Under(r, one, path, hop + 1, m, outcome.onion)
      <4>1. PICK onion : onion = outcome.onion
        OBVIOUS
      <4>2. q = Moved(p, m, onion)
        BY <4>1 DEF Moved
      <4>3. IsUnder(p, r, one, path, hop)
        BY <2>2, <3>1
      <4>4. Moved(p, m, onion) = Under(r, one, path, hop + 1, m, onion)
        BY <4>3, MovedOn
      <4> HIDE DEF q
      <4> QED BY <4>1, <4>2, <4>4
    <3> HIDE DEF q
    <3> QED BY <2>4, <2>5, <3>1, <3>2 DEF ReplyAt
  <2> HIDE DEF q
  <2>7. PICK next : next = hop + 1
    OBVIOUS
  <2>8. next \in 1..Len(path)
    <3>1. Len(path) \in Nat
      BY <2>2, PathElements DEF IsPath
    <3> QED BY <2>2, <2>3, <2>7, <3>1
  <2>9. ReplyPacket(q, r, path, next)
    BY <2>2, <2>6, <2>7, <2>8, ReplyPacketFacts
  <2> QED BY <1>5, <2>1, <2>6, <2>7, <2>8, <2>9 DEF OfReply
<1> HIDE DEF q
<1>6. packets' = (packets \ {p}) \cup {q}
  BY <1>3 DEF q
<1>7. \/ \E s \in Sets : \E k, hop : OfFragment(p, s, k, hop)
      \/ \E r \in Replies : \E hop : OfReply(p, r, hop)
  BY PacketCases
<1> QED BY <1>2, <1>4, <1>5, <1>6, <1>7

LEMMA OfsAreMade ==
  ASSUME NEW p
  PROVE  /\ \A s \in Sets : \A k, hop : OfFragment(p, s, k, hop) => WellMade(p)
         /\ \A r \in Replies : \A hop : OfReply(p, r, hop) => WellMade(p)
<1>1. ASSUME NEW s \in Sets, NEW k, NEW hop, OfFragment(p, s, k, hop) PROVE WellMade(p)
  <2>1. IsFragment(p, s, asked[s].request) /\ AcceptedSet(s)
    BY <1>1 DEF OfFragment, IsFragment
  <2> QED BY <2>1 DEF WellMade
<1>2. ASSUME NEW r \in Replies, NEW hop, OfReply(p, r, hop) PROVE WellMade(p)
  <2>1. IsReply(p, r, surbs[r].path) /\ UsedBlock(r)
    BY <1>2 DEF OfReply, IsReply
  <2> QED BY <2>1 DEF WellMade
<1> QED BY <1>1, <1>2

LEMMA ForwardKeeps ==
  ASSUME ScyllaInv, NEW p \in packets, Forward(p)
  PROVE  ScyllaInv' /\ CallsGrow
<1>1. UNCHANGED <<asked, surbs, fragments, messages, texts, lost>>
  BY DEF Forward
<1>2. PICK q : packets' = (packets \ {p}) \cup {q} /\ WellMade(q)
  BY ForwardMoves, OfsAreMade
<1>3. CallsInv' /\ CallsGrow
  BY <1>1, CallsStay DEF ScyllaInv
<1>4. WellMade(q)'
  BY <1>2, <1>3, StillMade
<1>5. lost' \subseteq Sets \cup Replies
  BY <1>1 DEF ScyllaInv
<1>6. \A x \in packets' : x \in packets \/ WellMade(x)'
  BY <1>2, <1>4
<1> QED BY <1>1, <1>3, <1>5, <1>6, OnlyCalls

LEMMA ItemsSent ==
  ASSUME ScyllaInv, NEW p \in packets
  PROVE  p.item \in Sets \cup Replies
<1>1. CASE \E s \in Sets : \E k, hop : OfFragment(p, s, k, hop)
  BY <1>1 DEF OfFragment, FragmentPacket, IsUnder
<1>2. CASE \E r \in Replies : \E hop : OfReply(p, r, hop)
  BY <1>2 DEF OfReply, ReplyPacket, IsUnder
<1> QED BY <1>1, <1>2, PacketCases

LEMMA LoseKeeps ==
  ASSUME ScyllaInv, NEW p \in packets, Lose(p)
  PROVE  ScyllaInv' /\ CallsGrow
<1>1. packets' = packets \ {p} /\ UNCHANGED <<asked, surbs, fragments, messages, texts>>
      /\ lost' \subseteq lost \cup {p.item}
  BY DEF Lose
<1>2. CallsInv' /\ CallsGrow
  BY <1>1, CallsStay DEF ScyllaInv
<1>3. lost' \subseteq Sets \cup Replies
  BY <1>1, ItemsSent DEF ScyllaInv
<1>4. \A x \in packets' : x \in packets \/ WellMade(x)'
  BY <1>1
<1> QED BY <1>1, <1>2, <1>3, <1>4, OnlyCalls

LEMMA RepliesDiffer ==
  ASSUME NEW r, NEW q, {<<"reply", r>>} = {<<"reply", q>>}
  PROVE  r = q
<1>1. <<"reply", r>> = <<"reply", q>>
  OBVIOUS
<1> QED BY <1>1

LEMMA ReplyRead ==
  ASSUME ScyllaInv, NEW p \in packets, ReadReply(p)
  PROVE  /\ packets' = packets \ {p} /\ UNCHANGED <<asked, surbs, fragments, messages, lost>>
         /\ \E r \in Replies : /\ texts' = [texts EXCEPT ![r] = Text(r)]
                               /\ UsedBlock(r) /\ p.item = r /\ p.index = 1
<1>1. PICK outcome : outcome = Process(p.at, p.onion)
  OBVIOUS
<1>2. outcome.kind = "Reply" /\ packets' = packets \ {p} /\ UNCHANGED <<asked, surbs, fragments, messages, lost>>
  BY <1>1 DEF ReadReply
<1>3. PICK q \in Replies :
        /\ outcome.reference = {<<"reply", q>>}
        /\ texts' = [texts EXCEPT ![q] = Read(UnwrapReply(surbs[q].secrets, outcome.data))]
  BY <1>1 DEF ReadReply
<1>4. ASSUME NEW s \in Sets, NEW k, NEW hop, OfFragment(p, s, k, hop) PROVE FALSE
  <2>1. FragmentPacket(p, s, asked[s].request, k, hop)
    BY <1>4 DEF OfFragment
  <2>2. outcome.kind # "Reply"
    BY <1>1, <2>1, OutcomesDiffer DEF FragmentPacket
  <2> QED BY <1>2, <2>2
<1>5. PICK r \in Replies : \E hop : OfReply(p, r, hop)
  BY <1>4, PacketCases
<1>18. PICK hop : OfReply(p, r, hop)
  BY <1>5
<1>6. PICK path : path = surbs[r].path
  OBVIOUS
<1>7. /\ path \in Paths /\ surbs[r] = HandedOut(r, path, TRUE) /\ UsedBlock(r)
      /\ IsUnder(p, r, 1, path, hop)
      /\ outcome = IF hop < Len(p.route) THEN Relay(Address(p.route[hop + 1]), ReplyOnion(r, path, hop + 1))
                   ELSE Reply({<<"reply", r>>}, ReplyDelta(Text(r), SecretsFor(r, path), Len(path) + 1))
  BY <1>1, <1>18, <1>6 DEF OfReply, ReplyPacket
<1>8. outcome = Reply({<<"reply", r>>}, ReplyDelta(Text(r), SecretsFor(r, path), Len(path) + 1))
  BY <1>2, <1>7, OutcomesDiffer
<1>9. outcome.reference = {<<"reply", r>>}
      /\ outcome.data = ReplyDelta(Text(r), SecretsFor(r, path), Len(path) + 1)
  BY <1>8, OutcomesDiffer
<1>10. q = r
  BY <1>3, <1>9, RepliesDiffer
<1>11. PICK n : n = Len(path)
  OBVIOUS
<1>12. IsPath(path, n)
  BY <1>7, <1>11, PathElements
<1>13. /\ CreateSurb(r, path).secrets = SecretsFor(r, path)
       /\ Read(UnwrapReply(SecretsFor(r, path), ReplyDelta(Text(r), SecretsFor(r, path), n + 1))) = Text(r)
  BY <1>11, <1>12, ReplyFacts
<1>14. surbs[r].secrets = SecretsFor(r, path)
  BY <1>7, <1>13 DEF HandedOut
<1>15. Read(UnwrapReply(surbs[q].secrets, outcome.data)) = Text(r)
  BY <1>9, <1>10, <1>11, <1>13, <1>14
<1>16. texts' = [texts EXCEPT ![r] = Text(r)]
  BY <1>3, <1>10, <1>15
<1>17. p.item = r /\ p.index = 1
  BY <1>7 DEF IsUnder
<1> QED BY <1>2, <1>7, <1>16, <1>17

LEMMA ReadReplyKeeps ==
  ASSUME ScyllaInv, NEW p \in packets, ReadReply(p)
  PROVE  ScyllaInv' /\ CallsGrow
<1>1. packets' = packets \ {p} /\ UNCHANGED <<asked, surbs, fragments, messages, lost>>
  BY ReplyRead
<1>2. PICK r \in Replies : texts' = [texts EXCEPT ![r] = Text(r)] /\ UsedBlock(r)
  BY ReplyRead
<1>3. CallsInv' /\ CallsGrow
  BY <1>1, CallsStay DEF ScyllaInv
<1>4. PacketsInv'
  <2>1. PacketsInv /\ \A x \in packets' : x \in packets \/ WellMade(x)'
    BY <1>1 DEF ScyllaInv
  <2> QED BY <1>3, <2>1, PacketsStay
<1>5. KeptInv'
  BY <1>1, <1>3, KeptStays DEF ScyllaInv
<1>6. \A s \in Sets : WholeOrNone(s)'
  BY <1>1, <1>3, WholeStays DEF ScyllaInv, ReadInv
<1>7. texts' = [q \in Replies |-> texts'[q]]
      /\ \A q \in Replies : texts'[q] = IF q = r THEN Text(r) ELSE texts[q]
  BY <1>2 DEF ScyllaInv, ReadInv
<1>8. ASSUME NEW q \in Replies, texts'[q] # None PROVE texts'[q] = Text(q) /\ UsedBlock(q)'
  <2>1. texts'[q] = Text(q) /\ UsedBlock(q)
    BY <1>2, <1>7, <1>8 DEF ScyllaInv, ReadInv
  <2> QED BY <1>1, <2>1 DEF UsedBlock
<1>9. ReadInv'
  <2>1. messages' = [s \in Sets |-> messages'[s]]
    BY <1>1 DEF ScyllaInv, ReadInv
  <2>2. \A q \in Replies : texts'[q] # None => texts'[q] = Text(q)' /\ UsedBlock(q)'
    BY <1>8 DEF Text
  <2> QED BY <1>6, <1>7, <2>1, <2>2 DEF ReadInv
<1>10. lost' \subseteq Sets \cup Replies
  BY <1>1 DEF ScyllaInv
<1> QED BY <1>3, <1>4, <1>5, <1>9, <1>10 DEF ScyllaInv

-------------------------------------------------------------------------------
(***************************************************************************)
(* A fragment that reaches its node joins the others of its set, and       *)
(* defrag() makes the message of them exactly when all are there, once.    *)
(***************************************************************************)
Indexes(t) == {f.index : f \in Range(t)}

LEMMA IndexElements ==
  ASSUME NEW t, NEW l, IsSeq(t, l)
  PROVE  Indexes(t) = {t[i].index : i \in 1..l}
<1>1. DOMAIN t = 1..l
  BY SeqOfElements
<1> QED BY <1>1 DEF Indexes, Range

DataOf(t) == [i \in DOMAIN t |-> t[i].data]

IsMessage(t, s, request, n) ==
  /\ Defrag(DataOf(t)).error = "none" =>
       /\ Len(t) = n /\ Indexes(t) = 1..n
       /\ Defrag(DataOf(t)).destination = Destination(s)
       /\ Defrag(DataOf(t)).data = FlattenSeq(Content(s, request.sizes))
  /\ (Indexes(t) = 1..n /\ Len(t) <= n) => Defrag(DataOf(t)).error = "none"

LEMMA MessageMade ==
  ASSUME NEW s, NEW request, Proper(request), NEW n, n = Len(request.paths),
         NEW t, KeptWell(t, s, request), Len(t) \in Nat \ {0}
  PROVE  IsMessage(t, s, request, n)
<1>1. PICK l : l = Len(t)
  OBVIOUS
<1>2. l \in Nat \ {0} /\ InOrder(t, l) /\ IsSeq(t, l) /\ n \in Nat \ {0}
  BY <1>1 DEF KeptWell, InOrder, Proper
<1>3. \A i \in 1..l : t[i].index \in 1..n /\ t[i].data = Cut(s, request)[t[i].index]
  <2> SUFFICES ASSUME NEW i \in 1..l PROVE t[i].index \in 1..n /\ t[i].data = Cut(s, request)[t[i].index]
    OBVIOUS
  <2>1. PICK index : index = t[i].index
    OBVIOUS
  <2>2. index \in DOMAIN request.paths /\ t[i] = [index |-> index, data |-> Cut(s, request)[index]]
    BY <1>1, <2>1 DEF KeptWell
  <2>3. index \in 1..n
    BY <2>2 DEF Proper
  <2>4. [index |-> index, data |-> Cut(s, request)[index]].data = Cut(s, request)[index]
    OBVIOUS
  <2> QED BY <2>1, <2>2, <2>3, <2>4
<1> DEFINE D == DataOf(t)
           x == [i \in 1..l |-> t[i].index]
           T == Cut(s, request)
<1>4. IsSeq(D, l) /\ \A i \in 1..l : D[i] = t[i].data
  <2>1. DOMAIN t = 1..l
    BY <1>2, SeqOfElements
  <2>2. D = [i \in 1..l |-> t[i].data]
    BY <2>1 DEF DataOf
  <2> HIDE DEF D
  <2> QED BY <1>2, <2>2 DEF IsSeq
<1>5. Indexes(t) = {t[i].index : i \in 1..l}
  BY <1>2, IndexElements
<1>6. IsCut(T, s, request, n)
  BY CutElements
<1>7. \A i \in 1..l : x[i] = t[i].index
  OBVIOUS
<1>8. \A i \in 1..l : x[i] \in 1..n /\ D[i] = T[x[i]]
  BY <1>3, <1>4, <1>7
<1> HIDE DEF D, x, T
<1>9. ASSUME l = n, \A i \in 1..n : x[i] = i
      PROVE  Indexes(t) = 1..n /\ D = T
  <2>1. Indexes(t) = 1..n
    BY <1>5, <1>7, <1>9
  <2>2. IsSeq(T, n) /\ IsSeq(D, n) /\ \A i \in 1..n : D[i] = T[i]
    BY <1>4, <1>6, <1>8, <1>9 DEF IsCut
  <2>3. D = T
    BY <2>2, SameElements
  <2> QED BY <2>1, <2>3
<1>10. T = Cut(s, request)
  BY DEF T
<1>11. ASSUME Defrag(D).error = "none"
       PROVE  /\ Len(t) = n /\ Indexes(t) = 1..n
              /\ Defrag(D).destination = Destination(s)
              /\ Defrag(D).data = FlattenSeq(Content(s, request.sizes))
  <2>1. l = n /\ \A i \in 1..n : x[i] = i
    <3>1. Selects(D, l, Cut(s, request), x, n)
      BY <1>4, <1>8, <1>10 DEF Selects
    <3>2. IsIdentity(x, l, n)
      BY <1>2, <1>11, <3>1, CutOnlyWhole
    <3> QED BY <3>2 DEF IsIdentity
  <2>2. Defrag(D) = Defrag(T)
    BY <1>9, <2>1
  <2> QED BY <1>1, <1>6, <1>9, <2>1, <2>2 DEF IsCut
<1>12. ASSUME Indexes(t) = 1..n, Len(t) <= n
       PROVE  Defrag(D).error = "none"
  <2>1. \A k \in 1..n : \E i \in 1..l : t[i].index = k
    BY <1>5, <1>12
  <2>2. l = n /\ \A i \in 1..n : t[i].index = i
    <3>1. l <= n /\ HasAll(t, l, n)
      BY <1>1, <1>3, <1>12, <2>1 DEF HasAll
    <3>2. IsIdentity([i \in 1..l |-> t[i].index], l, n)
      BY <1>2, <3>1, AllInOrder
    <3>3. l = n /\ \A i \in 1..n : i \in 1..l
      BY <3>2 DEF IsIdentity
    <3> QED BY <3>2, <3>3 DEF IsIdentity
  <2>3. D = T
    BY <1>7, <1>9, <2>2
  <2> QED BY <1>6, <2>3 DEF IsCut
<1> QED BY <1>11, <1>12 DEF IsMessage, D

(***************************************************************************)
(* What Collect does, to which set and at which node.                      *)
(***************************************************************************)
Collects(p, s, k, n, t) ==
  /\ OfFragment(p, s, k, Len(asked[s].request.paths[k]))
  /\ p.item = s /\ p.index = k /\ p.at = n /\ n \in Nodes /\ n = Recipient(asked[s].request)
  /\ p.hop = Len(p.route)
  /\ t = Keep(fragments[n][s], k, Cut(s, asked[s].request)[k])
  /\ fragments' = [fragments EXCEPT ![n][s] = t]
  /\ messages' = IF Defrag(DataOf(t)).error = "none"
                 THEN [messages EXCEPT ![s] = [destination |-> Defrag(DataOf(t)).destination,
                                               data |-> Defrag(DataOf(t)).data]]
                 ELSE messages

CollectsOf(p, outcome, u, j) ==
  LET kept   == Keep(fragments[p.at][u], j, Read(outcome.data))
      result == Defrag([i \in DOMAIN kept |-> kept[i].data])
  IN  /\ outcome.reference = {FragmentReference(u, j)}
      /\ fragments' = [fragments EXCEPT ![p.at][u] = kept]
      /\ messages' = IF result.error = "none"
                     THEN [messages EXCEPT ![u] = [destination |-> result.destination,
                                                   data |-> result.data]]
                     ELSE messages

LEMMA Collected ==
  ASSUME ScyllaInv, NEW p \in packets, Collect(p)
  PROVE  /\ \E s \in Sets : \E k, n, t : Collects(p, s, k, n, t)
         /\ packets' = packets \ {p} \/ (p.item \in Repeated /\ ~Kept(p) /\ UNCHANGED packets)
         /\ UNCHANGED <<asked, surbs, texts, lost>>
<1>1. PICK outcome : outcome = Process(p.at, p.onion)
  OBVIOUS
<1>2. /\ outcome.kind = "Fragment"
      /\ packets' = packets \ {p} \/ (p.item \in Repeated /\ ~Kept(p) /\ UNCHANGED packets)
      /\ UNCHANGED <<asked, surbs, texts, lost>>
  BY <1>1 DEF Collect
<1>20. PICK u \in Sets : \E j \in Indices : CollectsOf(p, Process(p.at, p.onion), u, j)
  BY DEF Collect, CollectsOf
<1>21. PICK j \in Indices : CollectsOf(p, Process(p.at, p.onion), u, j)
  BY <1>20
<1> DEFINE gathered == Keep(fragments[p.at][u], j, Read(outcome.data))
<1>3. /\ outcome.reference = {FragmentReference(u, j)}
      /\ fragments' = [fragments EXCEPT ![p.at][u] = gathered]
      /\ messages' = IF Defrag(DataOf(gathered)).error = "none"
                     THEN [messages EXCEPT ![u] = [destination |-> Defrag(DataOf(gathered)).destination,
                                                   data |-> Defrag(DataOf(gathered)).data]]
                     ELSE messages
  BY <1>1, <1>21 DEF CollectsOf, DataOf
<1> HIDE DEF gathered
<1>4. ASSUME NEW r \in Replies, NEW hop, OfReply(p, r, hop) PROVE FALSE
  <2>1. ReplyPacket(p, r, surbs[r].path, hop)
    BY <1>4 DEF OfReply
  <2>2. outcome.kind # "Fragment"
    BY <1>1, <2>1, OutcomesDiffer DEF ReplyPacket
  <2> QED BY <1>2, <2>2
<1>5. PICK s \in Sets : \E k, hop : OfFragment(p, s, k, hop)
  BY <1>4, PacketCases
<1>6. PICK k, hop : OfFragment(p, s, k, hop)
  BY <1>5
<1>7. PICK request : request = asked[s].request
  OBVIOUS
<1>8. PICK path : path = request.paths[k]
  OBVIOUS
<1>9. /\ Proper(request) /\ k \in DOMAIN request.paths /\ hop \in 1..Len(path)
      /\ IsUnder(p, s, k, path, hop)
      /\ outcome = IF hop < Len(path) THEN Relay(Address(path[hop + 1]), FragmentOnion(s, request, k, hop + 1))
                   ELSE Fragment({FragmentReference(s, k)}, Payload(Cut(s, request)[k]))
  <2>1. FragmentPacket(p, s, request, k, hop) /\ Proper(request) /\ k \in DOMAIN request.paths
        /\ hop \in 1..Len(path)
    BY <1>6, <1>7, <1>8 DEF OfFragment
  <2>2. p.route = path
    BY <1>8, <2>1 DEF FragmentPacket, IsUnder
  <2> QED BY <1>1, <1>8, <2>1, <2>2 DEF FragmentPacket
<1>10. ~(hop < Len(path))
  BY <1>2, <1>9, OutcomesDiffer
<1>11. outcome.reference = {FragmentReference(s, k)} /\ outcome.data = Payload(Cut(s, request)[k])
  BY <1>9, <1>10, OutcomesDiffer
<1>12. hop = Len(path)
  <2>1. Len(path) \in Nat
    BY <1>8, <1>9, ProperPaths DEF IsPath
  <2> QED BY <1>9, <1>10, <2>1
<1>13. u = s /\ j = k
  BY <1>3, <1>11, ReferencesDiffer
<1>14. Read(outcome.data) = Cut(s, request)[k]
  BY <1>11 DEF Read, Payload
<1>15. p.item = s /\ p.index = k /\ p.at \in Nodes /\ p.at = Recipient(request) /\ p.hop = Len(p.route)
  <2>1. p.at = path[hop] /\ p.item = s /\ p.index = k /\ p.at \in Nodes /\ p.hop = hop /\ p.route = path
    BY <1>9 DEF IsUnder
  <2>2. path[Len(path)] = Recipient(request)
    BY <1>8, <1>9, ProperPaths
  <2> QED BY <1>12, <2>1, <2>2
<1>16. PICK n : n = p.at
  OBVIOUS
<1>17. PICK t : t = Keep(fragments[n][s], k, Cut(s, request)[k])
  OBVIOUS
<1>22. gathered = t
  BY <1>13, <1>14, <1>16, <1>17 DEF gathered
<1>18. /\ fragments' = [fragments EXCEPT ![n][s] = t]
       /\ messages' = IF Defrag(DataOf(t)).error = "none"
                      THEN [messages EXCEPT ![s] = [destination |-> Defrag(DataOf(t)).destination,
                                                    data |-> Defrag(DataOf(t)).data]]
                      ELSE messages
  BY <1>3, <1>13, <1>16, <1>22
<1>19. Collects(p, s, k, n, t)
  BY <1>6, <1>7, <1>8, <1>12, <1>15, <1>16, <1>17, <1>18 DEF Collects
<1> QED BY <1>2, <1>19

(***************************************************************************)
(* What is kept of the set then.                                           *)
(***************************************************************************)
IsJoined(t, kept, s, request, k, n) ==
  /\ KeptWell(t, s, request) /\ Len(t) = Len(kept) + 1 /\ Len(t) \in Nat \ {0} /\ Len(kept) \in Nat
  /\ Indexes(t) = Indexes(kept) \cup {k}
  /\ Indexes(t) \subseteq 1..n

LEMMA Joins ==
  ASSUME NEW s, NEW request, Proper(request), NEW n, n = Len(request.paths), NEW k \in DOMAIN request.paths,
         NEW kept, kept = <<>> \/ KeptWell(kept, s, request), NEW t, t = Keep(kept, k, Cut(s, request)[k])
  PROVE  IsJoined(t, kept, s, request, k, n)
<1>1. PICK m : m = Len(kept)
  OBVIOUS
<1>2. k \in 1..n /\ k \in Nat /\ n \in Nat /\ DOMAIN request.paths = 1..n
  BY DEF Proper
<1>3. InOrder(kept, m) /\ \A i \in 1..m : /\ kept[i].index \in 1..n
                                         /\ kept[i] = [index |-> kept[i].index, data |-> Cut(s, request)[kept[i].index]]
  <2>1. CASE kept = <<>>
    <3>1. m = 0 /\ IsSeq(kept, 0) /\ 1..0 = {}
      BY <1>1, <2>1, EmptyIsSeq
    <3> QED BY <3>1 DEF InOrder
  <2>2. CASE KeptWell(kept, s, request)
    BY <1>1, <1>2, <2>2 DEF KeptWell
  <2> QED BY <2>1, <2>2
<1>4. m \in Nat /\ IsSeq(kept, m)
  BY <1>3 DEF InOrder, IsSeq
<1> DEFINE new == [index |-> k, data |-> Cut(s, request)[k]]
<1>5. new.index = k /\ new = [index |-> new.index, data |-> Cut(s, request)[new.index]]
  <2>1. PICK data : data = Cut(s, request)[k]
    OBVIOUS
  <2>2. [index |-> k, data |-> data].index = k
    OBVIOUS
  <2> QED BY <2>1, <2>2
<1>6. IsGrown(t, kept, m, new)
  <2>1. PICK data : data = Cut(s, request)[k]
    OBVIOUS
  <2> QED BY <1>2, <1>3, <2>1, KeepGrows
<1> HIDE DEF new
<1>7. PICK l : l = m + 1
  OBVIOUS
<1>8. /\ InOrder(t, l) /\ IsSeq(t, l) /\ l \in Nat \ {0}
      /\ \A q \in 1..l : t[q] = new \/ \E i \in 1..m : t[q] = kept[i]
      /\ \A i \in 1..m : \E q \in 1..l : t[q] = kept[i]
      /\ \E q \in 1..l : t[q] = new
  <2>1. IsGrown(t, kept, m, new) /\ l = m + 1
    BY <1>6, <1>7
  <2>2. InOrder(t, l)
    BY <2>1 DEF IsGrown
  <2>3. \A q \in 1..l : t[q] = new \/ \E i \in 1..m : t[q] = kept[i]
    BY <2>1 DEF IsGrown
  <2>4. (\A i \in 1..m : \E q \in 1..l : t[q] = kept[i]) /\ \E q \in 1..l : t[q] = new
    BY <2>1 DEF IsGrown
  <2>5. IsSeq(t, l) /\ l \in Nat \ {0}
    BY <1>4, <1>7, <2>2 DEF InOrder
  <2> QED BY <2>2, <2>3, <2>4, <2>5
<1>9. Len(t) = l
  BY <1>8, SeqOfElements
<1>10. Indexes(t) = {t[q].index : q \in 1..l} /\ Indexes(kept) = {kept[i].index : i \in 1..m}
  BY <1>4, <1>8, IndexElements
<1>11. KeptWell(t, s, request)
  <2>1. ASSUME NEW q \in 1..l
        PROVE  t[q].index \in 1..n /\ t[q] = [index |-> t[q].index, data |-> Cut(s, request)[t[q].index]]
    <3>1. CASE t[q] = new
      BY <1>2, <1>5, <3>1
    <3>2. CASE \E i \in 1..m : t[q] = kept[i]
      <4>1. PICK i \in 1..m : t[q] = kept[i]
        BY <3>2
      <4> QED BY <1>3, <4>1
    <3> QED BY <1>8, <3>1, <3>2
  <2> QED BY <1>2, <1>8, <1>9, <2>1 DEF KeptWell
<1>12. Indexes(t) = Indexes(kept) \cup {k}
  <2>1. Indexes(t) \subseteq Indexes(kept) \cup {k}
    BY <1>5, <1>8, <1>10
  <2>2. Indexes(kept) \subseteq Indexes(t)
    BY <1>8, <1>10
  <2>3. k \in Indexes(t)
    BY <1>5, <1>8, <1>10
  <2> QED BY <2>1, <2>2, <2>3
<1>13. Indexes(t) \subseteq 1..n
  BY <1>2, <1>3, <1>10, <1>12
<1> QED BY <1>1, <1>4, <1>7, <1>8, <1>9, <1>11, <1>12, <1>13 DEF IsJoined

CollectFacts(s, k, n, t, request, size) ==
  /\ AcceptedSet(s) /\ Proper(request) /\ request = asked[s].request /\ request \in Requests
  /\ size = Len(request.paths) /\ DOMAIN request.paths = 1..size /\ size \in Nat \ {0} /\ k \in 1..size
  /\ n = Recipient(request) /\ n \in Nodes
  /\ KeptWell(t, s, request) /\ t # <<>>
  /\ Len(t) = Len(fragments[n][s]) + 1 /\ Len(fragments[n][s]) \in Nat
  /\ Indexes(t) = Indexes(fragments[n][s]) \cup {k} /\ Indexes(t) \subseteq 1..size
  /\ IsMessage(t, s, request, size)
  /\ fragments'[n][s] = t /\ \A m \in Nodes, u \in Sets : (m # n \/ u # s) => fragments'[m][u] = fragments[m][u]
  /\ fragments' = [m \in Nodes |-> [u \in Sets |-> fragments'[m][u]]]
  /\ messages' = [u \in Sets |-> messages'[u]]
  /\ \A u \in Sets : u # s => messages'[u] = messages[u]
  /\ messages'[s] = IF Defrag(DataOf(t)).error = "none" THEN MessageOf(s, request) ELSE messages[s]

LEMMA CollectMeans ==
  ASSUME ScyllaInv, NEW s \in Sets, NEW p, NEW k, NEW n, NEW t, Collects(p, s, k, n, t)
  PROVE  CollectFacts(s, k, n, t, asked[s].request, Len(asked[s].request.paths))
<1>1. PICK request : request = asked[s].request
  OBVIOUS
<1>2. PICK size : size = Len(request.paths)
  OBVIOUS
<1>3. /\ AcceptedSet(s) /\ Proper(request) /\ request \in Requests /\ k \in DOMAIN request.paths
      /\ n = Recipient(request) /\ n \in Nodes
  BY <1>1 DEF Collects, OfFragment
<1>4. DOMAIN request.paths = 1..size /\ size \in Nat \ {0} /\ k \in 1..size
  BY <1>2, <1>3 DEF Proper
<1>5. PICK kept : kept = fragments[n][s]
  OBVIOUS
<1>6. kept = <<>> \/ KeptWell(kept, s, request)
  BY <1>1, <1>3, <1>5 DEF ScyllaInv, KeptInv, KeptFor
<1>7. t = Keep(kept, k, Cut(s, request)[k])
  BY <1>1, <1>5 DEF Collects
<1>8. IsJoined(t, kept, s, request, k, size)
  BY <1>2, <1>3, <1>6, <1>7, Joins
<1>9. IsMessage(t, s, request, size)
  BY <1>2, <1>3, <1>8, MessageMade DEF IsJoined
<1>10. t # <<>>
  BY <1>8, EmptyIsSeq DEF IsJoined
<1>11. /\ fragments'[n][s] = t
       /\ \A m \in Nodes, u \in Sets : (m # n \/ u # s) => fragments'[m][u] = fragments[m][u]
       /\ fragments' = [m \in Nodes |-> [u \in Sets |-> fragments'[m][u]]]
  <2>1. fragments' = [fragments EXCEPT ![n][s] = t]
    BY DEF Collects
  <2>2. fragments = [m \in Nodes |-> [u \in Sets |-> fragments[m][u]]]
    BY DEF ScyllaInv, KeptInv
  <2>3. fragments' = [m \in Nodes |-> [u \in Sets |-> IF m = n /\ u = s THEN t ELSE fragments[m][u]]]
    BY <1>3, <2>1, <2>2
  <2> QED BY <1>3, <2>3
<1>12. /\ messages' = [u \in Sets |-> messages'[u]]
       /\ \A u \in Sets : u # s => messages'[u] = messages[u]
       /\ messages'[s] = IF Defrag(DataOf(t)).error = "none" THEN MessageOf(s, request) ELSE messages[s]
  <2>1. messages = [u \in Sets |-> messages[u]]
    BY DEF ScyllaInv, ReadInv
  <2>2. messages' = IF Defrag(DataOf(t)).error = "none"
                    THEN [messages EXCEPT ![s] = [destination |-> Defrag(DataOf(t)).destination,
                                                  data |-> Defrag(DataOf(t)).data]]
                    ELSE messages
    BY DEF Collects
  <2>3. CASE Defrag(DataOf(t)).error = "none"
    <3>1. messages' = [messages EXCEPT ![s] = MessageOf(s, request)]
      BY <1>9, <2>2, <2>3 DEF IsMessage, MessageOf
    <3> QED BY <2>1, <2>3, <3>1
  <2>4. CASE Defrag(DataOf(t)).error # "none"
    <3>1. messages' = messages
      BY <2>2, <2>4
    <3> QED BY <2>1, <2>4, <3>1
  <2> QED BY <2>3, <2>4
<1> QED BY <1>1, <1>2, <1>3, <1>4, <1>5, <1>8, <1>9, <1>10, <1>11, <1>12 DEF CollectFacts, IsJoined

LEMMA ArrivedIndexes ==
  ASSUME NEW n, NEW s
  PROVE  Arrived(n, s) = Indexes(fragments[n][s]) /\ Arrived(n, s)' = Indexes(fragments'[n][s])
BY DEF Arrived, Indexes

(***************************************************************************)
(* What has arrived, before and after.                                     *)
(***************************************************************************)
LEMMA ArrivedThen ==
  ASSUME NEW s, NEW k, NEW n, NEW t, NEW request, NEW size,
         CollectFacts(s, k, n, t, request, size)
  PROVE  /\ Arrived(n, s)' = Arrived(n, s) \cup {k} /\ Arrived(n, s)' = Indexes(t)
         /\ Arrived(n, s) \subseteq 1..size /\ Arrived(n, s)' \subseteq 1..size
BY ArrivedIndexes DEF CollectFacts

LEMMA CompleteOnlyThere ==
  ASSUME KeptInv, CallsInv, NEW s \in Sets, NEW n \in Nodes, Complete(n, s)
  PROVE  n = Recipient(asked[s].request) /\ fragments[n][s] # <<>>
<1>1. AcceptedSet(s) /\ Proper(asked[s].request)
  BY AcceptedFacts DEF Complete
<1>2. 1 \in DOMAIN asked[s].request.paths
  BY <1>1 DEF Proper
<1>3. Arrived(n, s) # {}
  BY <1>2 DEF Complete
<1>4. fragments[n][s] # <<>>
  BY <1>3, NothingArrived
<1> QED BY <1>4 DEF KeptInv, KeptFor

LEMMA CollectKeepsKept ==
  ASSUME ScyllaInv, CallsGrow, NEW s \in Sets, NEW k, NEW n, NEW t, NEW request, NEW size,
         CollectFacts(s, k, n, t, request, size), UNCHANGED asked
  PROVE  KeptInv'
<1>1. ASSUME NEW m \in Nodes, NEW u \in Sets PROVE KeptFor(m, u)'
  <2>1. CASE m = n /\ u = s
    <3>1. AcceptedSet(s)'
      BY DEF CollectFacts, AcceptedSet
    <3>2. fragments'[m][u] = t /\ KeptWell(t, s, asked'[s].request) /\ n = Recipient(asked'[s].request)
      BY <2>1 DEF CollectFacts
    <3> QED BY <2>1, <3>1, <3>2 DEF KeptFor
  <2>2. CASE m # n \/ u # s
    <3>1. fragments'[m][u] = fragments[m][u]
      BY <2>2 DEF CollectFacts
    <3>2. KeptFor(m, u)
      BY DEF ScyllaInv, KeptInv
    <3> QED BY <3>1, <3>2 DEF KeptFor, AcceptedSet
  <2> QED BY <2>1, <2>2
<1> QED BY <1>1 DEF KeptInv, CollectFacts

LEMMA CollectKeepsWhole ==
  ASSUME ScyllaInv, NEW s \in Sets, NEW k, NEW n, NEW t, NEW request, NEW size,
         CollectFacts(s, k, n, t, request, size), UNCHANGED asked, NEW u \in Sets
  PROVE  WholeOrNone(u)'
<1>1. \A m \in Nodes : Complete(m, u)' <=> AcceptedSet(u) /\ Arrived(m, u)' = DOMAIN asked[u].request.paths
  BY DEF Complete, AcceptedSet
<1>2. WholeOrNone(u)
  BY DEF ScyllaInv, ReadInv
<1>3. MessageOf(u, asked[u].request)' = MessageOf(u, asked[u].request)
  BY DEF MessageOf
<1>4. CASE u # s
  <2>1. \A m \in Nodes : fragments'[m][u] = fragments[m][u]
    BY <1>4 DEF CollectFacts
  <2>2. messages'[u] = messages[u]
    BY <1>4 DEF CollectFacts
  <2>3. \A m \in Nodes : Arrived(m, u)' = Arrived(m, u)
    BY <2>1, ArrivedIndexes
  <2>4. \A m \in Nodes : (Complete(m, u)' <=> Complete(m, u)) /\ (Repetitive(m, u)' <=> Repetitive(m, u))
    BY <1>1, <2>1, <2>3 DEF Complete, Repetitive
  <2> QED BY <1>2, <1>3, <2>2, <2>4 DEF WholeOrNone
<1>5. CASE u = s
  <2>1. /\ AcceptedSet(s) /\ request = asked[s].request /\ DOMAIN request.paths = 1..size
        /\ size \in Nat \ {0} /\ n \in Nodes /\ n = Recipient(request) /\ Len(t) \in Nat
        /\ IsMessage(t, s, request, size) /\ fragments'[n][s] = t
        /\ messages'[s] = IF Defrag(DataOf(t)).error = "none" THEN MessageOf(s, request) ELSE messages[s]
    BY DEF CollectFacts
  <2>2. Complete(n, s)' <=> Indexes(t) = 1..size
    BY <1>1, <1>5, <2>1, ArrivedThen
  <2>3. \A m \in Nodes : m # n => ~Complete(m, s)'
    <3> SUFFICES ASSUME NEW m \in Nodes, m # n, Complete(m, s)' PROVE FALSE
      OBVIOUS
    <3>1. fragments'[m][s] = fragments[m][s]
      BY DEF CollectFacts
    <3>2. Arrived(m, s)' = Arrived(m, s)
      BY <3>1, ArrivedIndexes
    <3>3. Complete(m, s)
      BY <1>1, <1>5, <3>2 DEF Complete
    <3> QED BY <2>1, <3>3, CompleteOnlyThere DEF ScyllaInv
  <2>4. Defrag(DataOf(t)).error = "none" => messages'[s] = MessageOf(s, request) /\ Complete(n, s)'
    BY <2>1, <2>2 DEF IsMessage
  <2>5. ASSUME Defrag(DataOf(t)).error # "none", messages'[s] # None
        PROVE  messages'[s] = MessageOf(s, request) /\ Complete(n, s)'
    <3>1. messages'[s] = messages[s]
      BY <2>1, <2>5
    <3>2. messages[s] = MessageOf(s, request) /\ \E m \in Nodes : Complete(m, s)
      BY <1>2, <1>5, <2>1, <2>5, <3>1 DEF WholeOrNone
    <3>3. Complete(n, s)
      BY <2>1, <3>2, CompleteOnlyThere DEF ScyllaInv
    <3>4. Arrived(n, s) = 1..size
      BY <2>1, <3>3 DEF Complete
    <3>5. Indexes(t) = 1..size
      <4>1. k \in 1..size
        BY DEF CollectFacts
      <4>2. Arrived(n, s)' = Arrived(n, s) \cup {k} /\ Arrived(n, s)' = Indexes(t)
        BY ArrivedThen
      <4> QED BY <3>4, <4>1, <4>2
    <3> QED BY <2>2, <3>1, <3>2, <3>5
  <2>6. ASSUME Complete(n, s)', ~Repetitive(n, s)' PROVE messages'[s] # None
    <3>1. Indexes(t) = 1..size
      BY <2>2, <2>6
    <3>2. Cardinality(1..size) = size
      BY <2>1, FS_Interval
    <3>3. Arrived(n, s)' = 1..size
      BY <3>1, ArrivedThen
    <3>4. ~(Len(t) > Cardinality(Arrived(n, s)'))
      BY <2>1, <2>6 DEF Repetitive
    <3>5. Len(t) <= size
      BY <2>1, <3>2, <3>3, <3>4
    <3>6. messages'[s] = MessageOf(s, request)
      BY <2>1, <3>1, <3>5 DEF IsMessage
    <3>7. MessageOf(s, request) \in Messages
      BY DEF Messages, CollectFacts
    <3> QED BY <3>6, <3>7, NoneAssumption
  <2>7. messages'[s] # None => messages'[s] = MessageOf(s, request) /\ Complete(n, s)'
    BY <2>4, <2>5
  <2>8. MessageOf(s, asked[s].request)' = MessageOf(s, request)
    BY <1>3, <1>5, <2>1
  <2> QED BY <1>5, <2>1, <2>3, <2>6, <2>7, <2>8 DEF WholeOrNone
<1> QED BY <1>4, <1>5

LEMMA CollectKeeps ==
  ASSUME ScyllaInv, NEW p \in packets, Collect(p)
  PROVE  ScyllaInv' /\ CallsGrow
<1>1. packets' \subseteq packets /\ UNCHANGED <<asked, surbs, texts, lost>>
  BY Collected
<1>2. PICK s \in Sets : \E k, n, t : Collects(p, s, k, n, t)
  BY Collected
<1>3. PICK k, n, t : Collects(p, s, k, n, t)
  BY <1>2
<1>4. PICK request, size : CollectFacts(s, k, n, t, request, size)
  BY <1>3, CollectMeans
<1>5. CallsInv' /\ CallsGrow
  BY <1>1, CallsStay DEF ScyllaInv
<1>6. PacketsInv'
  <2>1. PacketsInv /\ \A x \in packets' : x \in packets \/ WellMade(x)'
    BY <1>1 DEF ScyllaInv
  <2> QED BY <1>5, <2>1, PacketsStay
<1>7. KeptInv'
  BY <1>1, <1>4, <1>5, CollectKeepsKept
<1>8. \A u \in Sets : WholeOrNone(u)'
  BY <1>1, <1>4, CollectKeepsWhole
<1>9. ReadInv'
  <2>1. messages' = [u \in Sets |-> messages'[u]]
    BY <1>4 DEF CollectFacts
  <2>2. texts' = [r \in Replies |-> texts'[r]]
    BY <1>1 DEF ScyllaInv, ReadInv
  <2>3. \A r \in Replies : texts'[r] # None => texts'[r] = Text(r)' /\ UsedBlock(r)'
    BY <1>1 DEF ScyllaInv, ReadInv, Text, UsedBlock
  <2> QED BY <1>8, <2>1, <2>2, <2>3 DEF ReadInv
<1>10. lost' \subseteq Sets \cup Replies
  BY <1>1 DEF ScyllaInv
<1> QED BY <1>5, <1>6, <1>7, <1>9, <1>10 DEF ScyllaInv

LEMMA StepKeeps ==
  ASSUME ScyllaInv, [Next]_vars
  PROVE  ScyllaInv' /\ CallsGrow
<1>1. ASSUME NEW s \in Sets, NEW request \in Requests, Send(s, request) PROVE ScyllaInv' /\ CallsGrow
  BY <1>1, SendKeeps
<1>2. ASSUME NEW r \in Replies, NEW path \in ReplyPaths, HandOut(r, path) PROVE ScyllaInv' /\ CallsGrow
  BY <1>2, HandOutKeeps
<1>3. ASSUME NEW r \in Replies, Answer(r) PROVE ScyllaInv' /\ CallsGrow
  BY <1>3, AnswerKeeps
<1>4. ASSUME NEW p \in packets, Forward(p) PROVE ScyllaInv' /\ CallsGrow
  BY <1>4, ForwardKeeps
<1>5. ASSUME NEW p \in packets, Collect(p) PROVE ScyllaInv' /\ CallsGrow
  BY <1>5, CollectKeeps
<1>6. ASSUME NEW p \in packets, ReadReply(p) PROVE ScyllaInv' /\ CallsGrow
  BY <1>6, ReadReplyKeeps
<1>7. ASSUME NEW p \in packets, Lose(p) PROVE ScyllaInv' /\ CallsGrow
  BY <1>7, LoseKeeps
<1>8. ASSUME UNCHANGED vars PROVE ScyllaInv' /\ CallsGrow
  <2>1. UNCHANGED <<asked, surbs, packets, fragments, messages, texts, lost>>
    BY <1>8 DEF vars
  <2>2. CallsInv' /\ CallsGrow
    BY <2>1, CallsStay DEF ScyllaInv
  <2>3. lost' \subseteq Sets \cup Replies /\ \A x \in packets' : x \in packets \/ WellMade(x)'
    BY <2>1 DEF ScyllaInv
  <2> QED BY <2>1, <2>2, <2>3, OnlyCalls
<1> QED BY <1>1, <1>2, <1>3, <1>4, <1>5, <1>6, <1>7, <1>8 DEF Next, Handle

(***************************************************************************)
(* ScyllaInv holds in every state: onions under way are those that wrap()  *)
(* meant for the node they are at, nodes keep genuine fragments in order,  *)
(* and what was read is what was sent.                                     *)
(***************************************************************************)
THEOREM ScyllaSafe == Spec => []ScyllaInv
<1>1. Init => ScyllaInv
  BY InitInv
<1>2. ScyllaInv /\ [Next]_vars => ScyllaInv'
  BY StepKeeps
<1> QED BY <1>1, <1>2, PTL DEF Spec

-------------------------------------------------------------------------------
LEMMA KeptFacts ==
  ASSUME ScyllaInv, NEW n \in Nodes, NEW s \in Sets, NEW i \in DOMAIN fragments[n][s]
  PROVE  LET request == asked[s].request
             f       == fragments[n][s][i]
         IN  /\ AcceptedSet(s) /\ Proper(request) /\ request \in Requests
             /\ KeptWell(fragments[n][s], s, request) /\ DOMAIN fragments[n][s] = 1..Len(fragments[n][s])
             /\ f.index \in 1..Len(request.paths) /\ f.data = Cut(s, request)[f.index]
<1>1. PICK request : request = asked[s].request
  OBVIOUS
<1>2. PICK t : t = fragments[n][s]
  OBVIOUS
<1>3. t # <<>>
  <2>1. DOMAIN <<>> = {}
    OBVIOUS
  <2> QED BY <1>2, <2>1
<1>4. AcceptedSet(s) /\ KeptWell(t, s, request)
  BY <1>1, <1>2, <1>3 DEF ScyllaInv, KeptInv, KeptFor
<1>5. Proper(request) /\ request \in Requests
  BY <1>1, <1>4, AcceptedFacts DEF ScyllaInv
<1>6. IsSeq(t, Len(t)) /\ DOMAIN t = 1..Len(t)
  <2>1. IsSeq(t, Len(t))
    BY <1>4 DEF KeptWell, InOrder
  <2> QED BY <2>1, SeqOfElements
<1>7. PICK index : index = t[i].index
  OBVIOUS
<1>8. index \in DOMAIN request.paths /\ t[i] = [index |-> index, data |-> Cut(s, request)[index]]
  BY <1>2, <1>4, <1>6, <1>7 DEF KeptWell
<1>9. index \in 1..Len(request.paths)
  BY <1>5, <1>8 DEF Proper
<1>10. [index |-> index, data |-> Cut(s, request)[index]].data = Cut(s, request)[index]
  OBVIOUS
<1>11. t[i].data = Cut(s, request)[t[i].index]
  BY <1>7, <1>8, <1>10
<1> QED BY <1>1, <1>2, <1>4, <1>5, <1>6, <1>7, <1>9, <1>11

LEMMA InvType ==
  ASSUME ScyllaInv
  PROVE  TypeOK
<1>1. ASSUME NEW s \in Sets, asked[s] # None
      PROVE  asked[s].request \in Requests /\ asked[s].error \in Errors
  <2>1. PICK request \in Requests : asked[s] = AskedFor(s, request)
    BY <1>1 DEF ScyllaInv, CallsInv
  <2>2. Made(s, request).error \in Errors
    BY OnionsMade DEF IsMade
  <2> QED BY <2>1, <2>2 DEF AskedFor
<1>2. ASSUME NEW r \in Replies, surbs[r] # None PROVE surbs[r].path \in ReplyPaths /\ surbs[r].used \in BOOLEAN
  BY <1>2, UsedFacts DEF ScyllaInv
<1>3. ASSUME NEW p \in packets
      PROVE  /\ p.item \in Sets \cup Replies /\ p.at \in Nodes /\ p.hop \in 1..MaxPathLength
             /\ Len(p.onion.beta) = HeaderLength
             /\ Len(p.onion.delta.text) = (IF p.item \in Sets THEN PayloadSize ELSE TextSize)
  <2>1. CASE \E s \in Sets : \E k, hop : OfFragment(p, s, k, hop)
    <3>1. PICK s \in Sets : \E k, hop : OfFragment(p, s, k, hop)
      BY <2>1
    <3>2. PICK k, hop : OfFragment(p, s, k, hop)
      BY <3>1
    <3>3. PICK request : request = asked[s].request
      OBVIOUS
    <3>4. FragmentPacket(p, s, request, k, hop) /\ Proper(request) /\ k \in DOMAIN request.paths
      BY <3>2, <3>3 DEF OfFragment
    <3>5. PICK n : n = Len(request.paths)
      OBVIOUS
    <3>6. IsCut(Cut(s, request), s, request, n) /\ k \in 1..n
      BY <3>4, <3>5, CutElements DEF Proper
    <3>7. IsSeq(Cut(s, request)[k], PayloadSize)
      BY <3>6 DEF IsCut
    <3>8. Len(Cut(s, request)[k]) = PayloadSize
      BY <3>7, SeqOfElements
    <3> QED BY <3>4, <3>8 DEF FragmentPacket, IsUnder
  <2>2. CASE \E r \in Replies : \E hop : OfReply(p, r, hop)
    <3>1. PICK r \in Replies : \E hop : OfReply(p, r, hop)
      BY <2>2
    <3>2. PICK hop : OfReply(p, r, hop)
      BY <3>1
    <3>3. PICK path : path = surbs[r].path
      OBVIOUS
    <3>4. ReplyPacket(p, r, path, hop)
      BY <3>2, <3>3 DEF OfReply
    <3>5. Len(Text(r)) = TextSize
      <4>1. IsSeq(Text(r), TextSize)
        BY RequestAssumption DEF Text, IsSeq
      <4> QED BY <4>1, SeqOfElements
    <3>6. r \notin Sets
      BY ItemAssumption
    <3> QED BY <3>4, <3>5, <3>6 DEF ReplyPacket, IsUnder
  <2> QED BY <2>1, <2>2, PacketCases
<1>4. ASSUME NEW n \in Nodes, NEW s \in Sets, NEW i \in DOMAIN fragments[n][s]
      PROVE  fragments[n][s][i].index \in Indices /\ Len(fragments[n][s][i].data) = PayloadSize
  <2>1. PICK request : request = asked[s].request
    OBVIOUS
  <2>2. PICK f : f = fragments[n][s][i]
    OBVIOUS
  <2>3. Proper(request) /\ request \in Requests /\ f.index \in 1..Len(request.paths)
        /\ f.data = Cut(s, request)[f.index]
    BY <2>1, <2>2, KeptFacts
  <2>4. f.index \in DOMAIN request.paths
    BY <2>3 DEF Proper
  <2>5. f.index \in Indices
    BY <2>3, <2>4 DEF Indices
  <2>6. IsSeq(Cut(s, request)[f.index], PayloadSize)
    BY <2>3, CutElements DEF IsCut
  <2>7. Len(f.data) = PayloadSize
    BY <2>3, <2>6, SeqOfElements
  <2> QED BY <2>2, <2>5, <2>7
<1>5. ASSUME NEW n \in Nodes, NEW s \in Sets,
             NEW i \in DOMAIN fragments[n][s], NEW j \in DOMAIN fragments[n][s], i < j
      PROVE  fragments[n][s][i].index <= fragments[n][s][j].index
  <2>1. KeptWell(fragments[n][s], s, asked[s].request) /\ DOMAIN fragments[n][s] = 1..Len(fragments[n][s])
    BY KeptFacts
  <2> QED BY <1>5, <2>1 DEF KeptWell, InOrder
<1>6. lost \subseteq Sets \cup Replies
  BY DEF ScyllaInv
<1> QED BY <1>1, <1>2, <1>3, <1>4, <1>5, <1>6 DEF TypeOK

LEMMA InvPeels ==
  ASSUME ScyllaInv
  PROVE  PeelsAsWrapped /\ OnlyForItsNode
<1>1. ASSUME NEW p \in packets, NEW s \in Sets, NEW k, NEW hop, OfFragment(p, s, k, hop)
      PROVE  /\ p.at = p.route[p.hop] /\ p.item \in Sets
             /\ p.hop < Len(p.route) =>
                  Process(p.at, p.onion).kind = "Relay" /\ Process(p.at, p.onion).next = Address(p.route[p.hop + 1])
             /\ ~(p.hop < Len(p.route)) =>
                  /\ Process(p.at, p.onion).kind = "Fragment"
                  /\ Process(p.at, p.onion).reference = {FragmentReference(p.item, p.index)}
             /\ \A n \in Nodes \ {p.at} : Process(n, p.onion) = MacMismatch
  <2>1. FragmentPacket(p, s, asked[s].request, k, hop)
    BY <1>1 DEF OfFragment
  <2>2. p.item = s /\ p.index = k /\ p.hop = hop /\ p.at = p.route[p.hop]
        /\ \A n \in Nodes \ {p.at} : Process(n, p.onion) = MacMismatch
    BY <2>1 DEF FragmentPacket, IsUnder
  <2> QED BY <2>1, <2>2, OutcomesDiffer DEF FragmentPacket
<1>2. ASSUME NEW p \in packets, NEW r \in Replies, NEW hop, OfReply(p, r, hop)
      PROVE  /\ p.at = p.route[p.hop] /\ p.item \notin Sets
             /\ p.hop < Len(p.route) =>
                  Process(p.at, p.onion).kind = "Relay" /\ Process(p.at, p.onion).next = Address(p.route[p.hop + 1])
             /\ ~(p.hop < Len(p.route)) =>
                  /\ Process(p.at, p.onion).kind = "Reply"
                  /\ Process(p.at, p.onion).reference = {<<"reply", p.item>>}
             /\ \A n \in Nodes \ {p.at} : Process(n, p.onion) = MacMismatch
  <2>1. ReplyPacket(p, r, surbs[r].path, hop)
    BY <1>2 DEF OfReply
  <2>2. p.item = r /\ p.hop = hop /\ p.at = p.route[p.hop]
        /\ \A n \in Nodes \ {p.at} : Process(n, p.onion) = MacMismatch
    BY <2>1 DEF ReplyPacket, IsUnder
  <2>3. r \notin Sets
    BY ItemAssumption
  <2> QED BY <2>1, <2>2, <2>3, OutcomesDiffer DEF ReplyPacket
<1>3. PeelsAsWrapped
  BY <1>1, <1>2, PacketCases DEF PeelsAsWrapped
<1>4. OnlyForItsNode
  BY <1>1, <1>2, PacketCases DEF OnlyForItsNode
<1> QED BY <1>3, <1>4

LEMMA InvMask ==
  ASSUME ScyllaInv
  PROVE  MaskUsedOnce
<1>1. ASSUME NEW n \in Nodes, NEW s \in Sets,
             NEW f \in Range(fragments[n][s]), NEW g \in Range(fragments[n][s]),
             NEW i \in DOMAIN f.data, NEW j \in DOMAIN g.data, f.index # g.index \/ i # j
      PROVE  {a \in f.data[i] : a[1] = "mask"} \cap {a \in g.data[j] : a[1] = "mask"} = {}
  <2>1. PICK request : request = asked[s].request
    OBVIOUS
  <2>2. PICK size : size = Len(request.paths)
    OBVIOUS
  <2>3. PICK x \in DOMAIN fragments[n][s] : f = fragments[n][s][x]
    BY DEF Range
  <2>4. PICK y \in DOMAIN fragments[n][s] : g = fragments[n][s][y]
    BY DEF Range
  <2>5. Proper(request) /\ f.index \in 1..size /\ f.data = Cut(s, request)[f.index]
    BY <2>1, <2>2, <2>3, KeptFacts
  <2>6. g.index \in 1..size /\ g.data = Cut(s, request)[g.index]
    BY <2>1, <2>2, <2>4, KeptFacts
  <2>7. IsCut(Cut(s, request), s, request, size)
    BY <2>2, <2>5, CutElements
  <2>8. IsSeq(f.data, PayloadSize) /\ IsSeq(g.data, PayloadSize)
    BY <2>5, <2>6, <2>7 DEF IsCut
  <2>9. i \in 1..PayloadSize /\ j \in 1..PayloadSize
    <3>1. DOMAIN f.data = 1..PayloadSize
      BY <2>8, SeqOfElements
    <3>2. DOMAIN g.data = 1..PayloadSize
      BY <2>8, SeqOfElements
    <3> QED BY <3>1, <3>2
  <2>10. MaskAtoms(f.data[i]) \cap MaskAtoms(g.data[j]) = {}
    BY <1>1, <2>5, <2>6, <2>7, <2>9 DEF IsCut, PiecesApart
  <2> QED BY <2>10 DEF MaskAtoms
<1> QED BY <1>1 DEF MaskUsedOnce

LEMMA InvWhole ==
  ASSUME ScyllaInv
  PROVE  AllOrNothing
BY DEF ScyllaInv, ReadInv, WholeOrNone, AllOrNothing

(***************************************************************************)
(* Types: what a node keeps of a set stays sorted and fills its payloads,  *)
(* and no onion tells by its size how far it has come.                     *)
(***************************************************************************)
THEOREM TypeCorrect == Spec => []TypeOK
BY ScyllaSafe, InvType, PTL

(***************************************************************************)
(* Every onion is peeled at every node of its path as it was wrapped, over *)
(* any interleaving of any number of onions.                               *)
(***************************************************************************)
THEOREM Peels == Spec => []PeelsAsWrapped
<1>1. ScyllaInv => PeelsAsWrapped
  BY InvPeels
<1> QED BY <1>1, ScyllaSafe, PTL

(***************************************************************************)
(* Whoever else gets an onion finds a wrong MAC.                           *)
(***************************************************************************)
THEOREM RejectedElsewhere == Spec => []OnlyForItsNode
<1>1. ScyllaInv => OnlyForItsNode
  BY InvPeels
<1> QED BY <1>1, ScyllaSafe, PTL

(***************************************************************************)
(* No piece of the mask is used twice in a set.                            *)
(***************************************************************************)
THEOREM MaskNeverRepeats == Spec => []MaskUsedOnce
BY ScyllaSafe, InvMask, PTL

(***************************************************************************)
(* The message is made whole or not at all, in whatever order fragments    *)
(* arrive, and whichever are lost or come twice.                           *)
(***************************************************************************)
THEOREM WholeOrNothing == Spec => []AllOrNothing
BY ScyllaSafe, InvWhole, PTL

-------------------------------------------------------------------------------
(***************************************************************************)
(* What a relay passes on has no part in common with what it got.          *)
(***************************************************************************)
Unlike(o, m) ==
  /\ o.alpha # m.alpha
  /\ Range(o.beta) \cap Range(m.beta) = {}
  /\ o.gamma # m.gamma
  /\ Read(o.delta) # Read(m.delta)

LEMMA HeadersChange ==
  ASSUME NEW seed, NEW path, NEW n, IsPath(path, n), NEW info, IsSeq(info, 2),
         Streamless(info[1]), Streamless(info[2]), NEW i \in 1..(n - 1), NEW d, NEW e, Read(e) # Read(d)
  PROVE  Unlike(MeantOnion(seed, path, info, i + 1, e), MeantOnion(seed, path, info, i, d))
<1>1. n \in 1..MaxPathLength /\ Len(path) = n /\ n \in Nat \ {0}
  BY DEF IsPath
<1>2. PICK next : next = i + 1
  OBVIOUS
<1> DEFINE A == Alphas(FirstAlpha(seed), path)
           B == BetasFor(seed, path, info)
           S == SecretsFor(seed, path)
<1>3. HeadersUnlike(A, B, S, i)
  BY <1>1, NothingStays
<1>4. /\ MeantOnion(seed, path, info, next, e) = [alpha |-> A[next], beta |-> B[next], gamma |-> Mac(S[next], B[next]), delta |-> e]
      /\ MeantOnion(seed, path, info, i, d) = [alpha |-> A[i], beta |-> B[i], gamma |-> Mac(S[i], B[i]), delta |-> d]
  BY DEF MeantOnion
<1> HIDE DEF A, B, S
<1> QED BY <1>2, <1>3, <1>4 DEF Unlike, HeadersUnlike

LEMMA InfosStreamless ==
  ASSUME NEW s, NEW k
  PROVE  /\ IsSeq(FragmentInfo(s, k), 2) /\ Streamless(FragmentInfo(s, k)[1]) /\ Streamless(FragmentInfo(s, k)[2])
         /\ IsSeq(ReplyInfo(s), 2) /\ Streamless(ReplyInfo(s)[1]) /\ Streamless(ReplyInfo(s)[2])
<1>1. Streamless({FragmentReference(s, k)})
  <2>1. "fragment" # "stream"
    OBVIOUS
  <2>2. \A x, m : <<"fragment", s, k>> # <<"stream", x, m>>
    BY <2>1
  <2> QED BY <2>2 DEF Streamless, Stream, FragmentReference
<1>2. Streamless({<<"reply", s>>})
  <2>1. \A x, m : <<"reply", s>>[1] # <<"stream", x, m>>[1]
    OBVIOUS
  <2>2. \A x, m : <<"reply", s>> # <<"stream", x, m>>
    BY <2>1
  <2> QED BY <2>2 DEF Streamless, Stream
<1>3. IsFinalInfo(FragmentInfo(s, k), "Fragment", FragmentReference(s, k))
  <2>1. PICK flag, reference : flag = "Fragment" /\ reference = FragmentReference(s, k)
    OBVIOUS
  <2>2. IsFinalInfo(FinalInfo(flag, reference), flag, reference)
    BY FinalInfoElements
  <2> QED BY <2>1, <2>2 DEF FragmentInfo
<1>4. IsFinalInfo(ReplyInfo(s), "Deliver", <<"reply", s>>)
  <2>1. PICK flag, reference : flag = "Deliver" /\ reference = <<"reply", s>>
    OBVIOUS
  <2>2. IsFinalInfo(FinalInfo(flag, reference), flag, reference)
    BY FinalInfoElements
  <2> QED BY <2>1, <2>2 DEF ReplyInfo
<1> QED BY <1>1, <1>2, <1>3, <1>4 DEF IsFinalInfo

LEMMA FragmentsChange ==
  ASSUME NEW s, NEW request, Proper(request), NEW k \in DOMAIN request.paths,
         NEW i \in 1..(Len(request.paths[k]) - 1)
  PROVE  Unlike(FragmentOnion(s, request, k, i + 1), FragmentOnion(s, request, k, i))
<1>1. PICK path, n : path = request.paths[k] /\ n = Len(path)
  OBVIOUS
<1>2. PICK seed, info, text, next : seed = <<s, k>> /\ info = FragmentInfo(s, k) /\ text = Cut(s, request)[k] /\ next = i + 1
  OBVIOUS
<1>3. IsPath(path, n) /\ i \in 1..(n - 1)
  BY <1>1, ProperPaths
<1>4. IsSeq(text, PayloadSize) /\ PayloadSize \in Nat \ {0}
  <2>1. IsCut(Cut(s, request), s, request, Len(request.paths)) /\ k \in 1..Len(request.paths)
    BY CutElements, ProperPaths
  <2>2. PayloadSize \in Nat \ {0}
    BY SizeAssumption DEF Proper, Overhead
  <2> QED BY <1>2, <2>1, <2>2 DEF IsCut
<1>5. PICK S : S = SecretsFor(seed, path)
  OBVIOUS
<1>6. Len(S) = n /\ n \in Nat \ {0}
  <2>1. n \in Nat \ {0} /\ Len(path) = n
    BY <1>3 DEF IsPath
  <2> QED BY <1>5, <2>1, SecretsElements
<1>7. Read(FragmentDelta(text, S, next)) # Read(FragmentDelta(text, S, i))
  BY <1>2, <1>3, <1>4, <1>6, PayloadsUnlike
<1>8. IsSeq(info, 2) /\ Streamless(info[1]) /\ Streamless(info[2])
  BY <1>2, InfosStreamless
<1>9. Unlike(MeantOnion(seed, path, info, next, FragmentDelta(text, S, next)),
             MeantOnion(seed, path, info, i, FragmentDelta(text, S, i)))
  BY <1>2, <1>3, <1>7, <1>8, HeadersChange
<1> QED BY <1>1, <1>2, <1>5, <1>9 DEF FragmentOnion

LEMMA RepliesChange ==
  ASSUME NEW r, NEW path \in Paths, NEW i \in 1..(Len(path) - 1), TextSize # 0
  PROVE  Unlike(ReplyOnion(r, path, i + 1), ReplyOnion(r, path, i))
<1>1. PICK n : n = Len(path)
  OBVIOUS
<1>2. PICK info, text, next : info = ReplyInfo(r) /\ text = Text(r) /\ next = i + 1
  OBVIOUS
<1>3. IsPath(path, n) /\ i \in 1..(n - 1)
  BY <1>1, PathElements
<1>4. IsSeq(text, TextSize) /\ TextSize \in Nat \ {0} /\ Noiseless(text)
  <2>1. TextSize \in Nat \ {0}
    BY RequestAssumption
  <2>2. IsSeq(text, TextSize) /\ text[1] = {<<"text", r, 1>>}
    BY <1>2, <2>1 DEF Text, IsSeq
  <2>3. \A d, j : <<"text", r, 1>> # <<"noise", d, j>>
    <3>1. "text" # "noise"
      OBVIOUS
    <3> QED BY <3>1
  <2>4. Noiseless(text)
    BY <2>2, <2>3 DEF Noiseless
  <2> QED BY <2>1, <2>2, <2>4
<1>5. PICK S : S = SecretsFor(r, path)
  OBVIOUS
<1>6. Len(S) = n /\ n \in Nat \ {0}
  <2>1. n \in Nat \ {0} /\ Len(path) = n
    BY <1>3 DEF IsPath
  <2> QED BY <1>5, <2>1, SecretsElements
<1>7. Read(ReplyDelta(text, S, next)) # Read(ReplyDelta(text, S, i))
  BY <1>2, <1>3, <1>4, <1>6, PayloadsUnlike
<1>8. IsSeq(info, 2) /\ Streamless(info[1]) /\ Streamless(info[2])
  BY <1>2, InfosStreamless
<1>9. Unlike(MeantOnion(r, path, info, next, ReplyDelta(text, S, next)),
             MeantOnion(r, path, info, i, ReplyDelta(text, S, i)))
  BY <1>2, <1>3, <1>7, <1>8, HeadersChange
<1> QED BY <1>2, <1>5, <1>9 DEF ReplyOnion

LEMMA StepChanges ==
  ASSUME ScyllaInv, PacketsInv', CallsInv', CallsGrow, TextSize # 0,
         NEW p \in packets, NEW q \in packets', q.item = p.item, q.index = p.index, q.hop = p.hop + 1
  PROVE  Unlike(q.onion, p.onion)
<1>1. CASE \E s \in Sets : \E k, hop : OfFragment(p, s, k, hop)
  <2>1. PICK s \in Sets : \E k, hop : OfFragment(p, s, k, hop)
    BY <1>1
  <2>2. PICK k, hop : OfFragment(p, s, k, hop)
    BY <2>1
  <2>3. PICK request : request = asked[s].request
    OBVIOUS
  <2>4. AcceptedSet(s) /\ Proper(request) /\ k \in DOMAIN request.paths /\ p = FragmentAt(s, request, k, hop)
        /\ hop \in 1..Len(request.paths[k])
    BY <2>2, <2>3 DEF OfFragment
  <2>5. p.item = s /\ p.index = k /\ p.hop = hop /\ p.onion = FragmentOnion(s, request, k, hop)
    BY <2>4 DEF FragmentAt, Under
  <2>6. asked'[s].request = request
    BY <2>3, <2>4 DEF CallsGrow
  <2>7. WellMade(q)'
    BY DEF PacketsInv
  <2>8. ~\E r \in Replies : UsedBlock(r)' /\ IsReply(q, r, surbs'[r].path)
    <3> SUFFICES ASSUME NEW r \in Replies, IsReply(q, r, surbs'[r].path) PROVE FALSE
      OBVIOUS
    <3>1. q.item = r
      BY DEF IsReply, ReplyAt, Under
    <3> QED BY <2>5, <3>1, ItemAssumption
  <2>9. PICK u \in Sets : IsFragment(q, u, asked'[u].request)
    BY <2>7, <2>8 DEF WellMade, IsFragment, IsReply
  <2>10. PICK j, i : i \in 1..Len(asked'[u].request.paths[j]) /\ q = FragmentAt(u, asked'[u].request, j, i)
    BY <2>9 DEF IsFragment
  <2>11. q.item = u /\ q.index = j /\ q.hop = i /\ q.onion = FragmentOnion(u, asked'[u].request, j, i)
    BY <2>10 DEF FragmentAt, Under
  <2>12. u = s /\ j = k /\ i = hop + 1
    BY <2>5, <2>11
  <2>13. q.onion = FragmentOnion(s, request, k, hop + 1) /\ hop + 1 \in 1..Len(request.paths[k])
    BY <2>6, <2>10, <2>11, <2>12
  <2>14. hop \in 1..(Len(request.paths[k]) - 1)
    <3>1. Len(request.paths[k]) \in Nat
      BY <2>4, ProperPaths DEF IsPath
    <3> QED BY <2>4, <2>13, <3>1
  <2> QED BY <2>4, <2>5, <2>13, <2>14, FragmentsChange
<1>2. CASE \E r \in Replies : \E hop : OfReply(p, r, hop)
  <2>1. PICK r \in Replies : \E hop : OfReply(p, r, hop)
    BY <1>2
  <2>2. PICK hop : OfReply(p, r, hop)
    BY <2>1
  <2>3. PICK path : path = surbs[r].path
    OBVIOUS
  <2>4. UsedBlock(r) /\ path \in Paths /\ p = ReplyAt(r, path, hop) /\ hop \in 1..Len(path)
    BY <2>2, <2>3 DEF OfReply
  <2>5. p.item = r /\ p.hop = hop /\ p.onion = ReplyOnion(r, path, hop)
    BY <2>4 DEF ReplyAt, Under
  <2>6. surbs'[r].path = path
    BY <2>3, <2>4 DEF CallsGrow
  <2>7. WellMade(q)'
    BY DEF PacketsInv
  <2>8. ~\E s \in Sets : AcceptedSet(s)' /\ IsFragment(q, s, asked'[s].request)
    <3> SUFFICES ASSUME NEW s \in Sets, IsFragment(q, s, asked'[s].request) PROVE FALSE
      OBVIOUS
    <3>1. q.item = s
      BY DEF IsFragment, FragmentAt, Under
    <3> QED BY <2>5, <3>1, ItemAssumption
  <2>9. PICK u \in Replies : IsReply(q, u, surbs'[u].path)
    BY <2>7, <2>8 DEF WellMade, IsFragment, IsReply
  <2>10. PICK i : i \in 1..Len(surbs'[u].path) /\ q = ReplyAt(u, surbs'[u].path, i)
    BY <2>9 DEF IsReply
  <2>11. q.item = u /\ q.hop = i /\ q.onion = ReplyOnion(u, surbs'[u].path, i)
    BY <2>10 DEF ReplyAt, Under
  <2>12. u = r /\ i = hop + 1
    BY <2>5, <2>11
  <2>13. q.onion = ReplyOnion(r, path, hop + 1) /\ hop + 1 \in 1..Len(path)
    BY <2>6, <2>10, <2>11, <2>12
  <2>14. hop \in 1..(Len(path) - 1)
    <3>1. Len(path) \in Nat
      BY <2>4, PathElements DEF IsPath
    <3> QED BY <2>4, <2>13, <3>1
  <2> QED BY <2>4, <2>5, <2>13, <2>14, RepliesChange
<1> QED BY <1>1, <1>2, PacketCases

(***************************************************************************)
(* No step passes anything on that was there before it, if the text of a   *)
(* reply is not empty, for an empty one is never enciphered.               *)
(***************************************************************************)
THEOREM Unrecognisable ==
  ASSUME TextSize # 0
  PROVE  Spec => NothingRecognisable
<1>1. ASSUME ScyllaInv, [Next]_vars, NEW p \in packets, NEW q \in packets',
             q.item = p.item, q.index = p.index, q.hop = p.hop + 1
      PROVE  Unlike(q.onion, p.onion)
  <2>1. ScyllaInv' /\ CallsGrow
    BY <1>1, StepKeeps
  <2>2. PacketsInv' /\ CallsInv'
    BY <2>1 DEF ScyllaInv
  <2> QED BY <1>1, <2>1, <2>2, StepChanges
<1>2. ScyllaInv /\ [Next]_vars =>
        [\A p \in packets, q \in packets' :
           (q.item = p.item /\ q.index = p.index /\ q.hop = p.hop + 1) =>
             /\ q.onion.alpha # p.onion.alpha
             /\ Range(q.onion.beta) \cap Range(p.onion.beta) = {}
             /\ q.onion.gamma # p.onion.gamma
             /\ Read(q.onion.delta) # Read(p.onion.delta)]_vars
  BY <1>1 DEF Unlike
<1> QED BY <1>2, ScyllaSafe, PTL DEF Spec, NothingRecognisable

-------------------------------------------------------------------------------
(***************************************************************************)
(* What is under way is one onion per fragment and per reply, and is not   *)
(* yet kept, unless it is where it may come again.  What was lost has left *)
(* a gap that nothing will fill.                                           *)
(***************************************************************************)
OneOfEach == \A p, q \in packets : (p.item = q.item /\ p.index = q.index) => p = q

KeptOnlyAtEnd ==
  \A p \in packets : p.item \in Sets =>
    \A n \in Nodes : p.index \in Arrived(n, p.item) => p.hop = Len(p.route)

RepliesGone ==
  \A r \in Replies : (texts[r] # None \/ r \in lost) => UsedBlock(r) /\ \A p \in packets : p.item # r

Missing(s, k) ==
  /\ \A n \in Nodes : k \notin Arrived(n, s)
  /\ \A p \in packets : ~(p.item = s /\ p.index = k)

SetsBroken ==
  \A s \in Sets : s \in lost => AcceptedSet(s) /\ \E k \in DOMAIN asked[s].request.paths : Missing(s, k)

WayInv == OneOfEach /\ KeptOnlyAtEnd /\ RepliesGone /\ SetsBroken

FragmentKnown(p) ==
  /\ p.item \in Sets /\ p.item \notin Replies /\ AcceptedSet(p.item) /\ p.index \in DOMAIN asked[p.item].request.paths
  /\ p.hop = Len(p.route) => p.at = Recipient(asked[p.item].request)

ReplyKnown(p) == p.item \in Replies /\ p.item \notin Sets /\ p.index = 1 /\ UsedBlock(p.item)

LEMMA PacketKnown ==
  ASSUME ScyllaInv, NEW p \in packets
  PROVE  FragmentKnown(p) \/ ReplyKnown(p)
<1>1. ASSUME NEW s \in Sets, NEW k, NEW hop, OfFragment(p, s, k, hop) PROVE FragmentKnown(p)
  <2>1. PICK request : request = asked[s].request
    OBVIOUS
  <2>2. AcceptedSet(s) /\ Proper(request) /\ k \in DOMAIN request.paths /\ FragmentPacket(p, s, request, k, hop)
    BY <1>1, <2>1 DEF OfFragment
  <2>3. p.item = s /\ p.index = k /\ p.route = request.paths[k] /\ p.at = p.route[hop] /\ p.hop = hop
    BY <2>2 DEF FragmentPacket, IsUnder
  <2>4. request.paths[k][Len(request.paths[k])] = Recipient(request)
    BY <2>2, ProperPaths
  <2>5. p.hop = Len(p.route) => p.at = Recipient(request)
    BY <2>3, <2>4
  <2> QED BY <2>1, <2>2, <2>3, <2>5, ItemAssumption DEF FragmentKnown
<1>2. ASSUME NEW r \in Replies, NEW hop, OfReply(p, r, hop) PROVE ReplyKnown(p)
  <2>1. UsedBlock(r) /\ p.item = r /\ p.index = 1
    BY <1>2 DEF OfReply, ReplyPacket, IsUnder
  <2> QED BY <2>1, ItemAssumption DEF ReplyKnown
<1> QED BY <1>1, <1>2, PacketCases

LEMMA InitWay ==
  ASSUME Init
  PROVE  WayInv
<1>1. packets = {} /\ lost = {} /\ \A r \in Replies : texts[r] = None
  BY DEF Init
<1> QED BY <1>1 DEF WayInv, OneOfEach, KeptOnlyAtEnd, RepliesGone, SetsBroken

(***************************************************************************)
(* Nothing arrives, is lost or is read, and new onions are of an item that *)
(* there was no onion of.                                                  *)
(***************************************************************************)
LEMMA OnlySent ==
  ASSUME ScyllaInv, WayInv, CallsGrow, UNCHANGED <<fragments, texts, lost>>, NEW i \in Sets \cup Replies,
         \A p \in packets' : p \in packets \/ p.item = i,
         \A p \in packets' : (p.item = i /\ i \in Sets) => \A n \in Nodes : Arrived(n, i) = {},
         \A p, q \in packets' : (p.item = i /\ q.item = i /\ p.index = q.index) => p = q,
         (i \in lost \/ (i \in Replies /\ texts[i] # None)) => packets' = packets
  PROVE  WayInv'
<1>1. \A n, s : Arrived(n, s)' = Arrived(n, s)
  BY DEF Arrived
<1>2. OneOfEach'
  <2>1. \A p \in packets' : p.item # i => p \in packets
    OBVIOUS
  <2> QED BY <2>1 DEF WayInv, OneOfEach
<1>3. KeptOnlyAtEnd'
  <2> SUFFICES ASSUME NEW p \in packets', p.item \in Sets, NEW n \in Nodes, p.index \in Arrived(n, p.item)
               PROVE  p.hop = Len(p.route)
    BY <1>1 DEF KeptOnlyAtEnd
  <2>1. p \in packets
    OBVIOUS
  <2> QED BY <2>1 DEF WayInv, KeptOnlyAtEnd
<1>4. RepliesGone'
  <2> SUFFICES ASSUME NEW r \in Replies, texts[r] # None \/ r \in lost
               PROVE  UsedBlock(r)' /\ \A p \in packets' : p.item # r
    BY DEF RepliesGone
  <2>1. UsedBlock(r) /\ \A p \in packets : p.item # r
    BY DEF WayInv, RepliesGone
  <2>2. surbs'[r] = surbs[r]
    BY <2>1 DEF CallsGrow
  <2>3. \A p \in packets' : p.item # r
    BY <2>1
  <2> QED BY <2>1, <2>2, <2>3 DEF UsedBlock
<1>5. SetsBroken'
  <2> SUFFICES ASSUME NEW s \in Sets, s \in lost
               PROVE  AcceptedSet(s)' /\ \E k \in DOMAIN asked'[s].request.paths : Missing(s, k)'
    BY DEF SetsBroken
  <2>1. AcceptedSet(s)
    BY DEF WayInv, SetsBroken
  <2>2. PICK k \in DOMAIN asked[s].request.paths : Missing(s, k)
    BY DEF WayInv, SetsBroken
  <2>3. asked'[s] = asked[s]
    BY <2>1 DEF CallsGrow
  <2>4. Missing(s, k)'
    <3>1. \A n \in Nodes : k \notin Arrived(n, s)'
      BY <1>1, <2>2 DEF Missing
    <3>2. ASSUME NEW p \in packets', p.item = s PROVE p \in packets
      BY <3>2
    <3> QED BY <2>2, <3>1, <3>2 DEF Missing
  <2> QED BY <2>1, <2>2, <2>3, <2>4 DEF AcceptedSet
<1> QED BY <1>2, <1>3, <1>4, <1>5 DEF WayInv

LEMMA SendKeepsWay ==
  ASSUME ScyllaInv, WayInv, NEW s \in Sets, NEW request \in Requests, Send(s, request)
  PROVE  WayInv'
<1> DEFINE made == Made(s, request)
<1>1. /\ asked[s] = None
      /\ packets' = packets \cup
           {Under(s, k, request.paths[k], 1, request.paths[k][1], made.onions[k]) : k \in DOMAIN made.onions}
      /\ UNCHANGED <<surbs, fragments, messages, texts, lost>>
  BY DEF Send, Made
<1> HIDE DEF made
<1>2. CallsGrow
  BY SendKeeps
<1>3. ~AcceptedSet(s)
  BY <1>1 DEF AcceptedSet
<1>4. \A p \in packets : p.item # s
  BY <1>3, PacketKnown DEF FragmentKnown, ReplyKnown
<1>5. \A p \in packets' : p \in packets \/ \E k \in DOMAIN made.onions :
        p = Under(s, k, request.paths[k], 1, request.paths[k][1], made.onions[k])
  BY <1>1
<1>6. \A k, route, hop, at, onion : Under(s, k, route, hop, at, onion).item = s /\ Under(s, k, route, hop, at, onion).index = k
  BY DEF Under
<1>7. ASSUME NEW p \in packets', NEW q \in packets', p.item = s, q.item = s, p.index = q.index PROVE p = q
  <2>1. PICK k : p = Under(s, k, request.paths[k], 1, request.paths[k][1], made.onions[k])
    BY <1>4, <1>5, <1>7
  <2>2. PICK j : q = Under(s, j, request.paths[j], 1, request.paths[j][1], made.onions[j])
    BY <1>4, <1>5, <1>7
  <2>3. k = j
    BY <1>6, <1>7, <2>1, <2>2
  <2> QED BY <2>1, <2>2, <2>3
<1>8. \A n \in Nodes : Arrived(n, s) = {}
  <2> SUFFICES ASSUME NEW n \in Nodes PROVE fragments[n][s] = <<>>
    BY NothingArrived
  <2> QED BY <1>3 DEF ScyllaInv, KeptInv, KeptFor
<1>9. s \notin lost /\ s \notin Replies
  BY <1>3, ItemAssumption DEF WayInv, SetsBroken
<1>10. \A p \in packets' : p \in packets \/ p.item = s
  BY <1>5, <1>6
<1> QED BY <1>1, <1>2, <1>7, <1>8, <1>9, <1>10, OnlySent

LEMMA HandOutKeepsWay ==
  ASSUME ScyllaInv, WayInv, NEW r \in Replies, NEW path \in ReplyPaths, HandOut(r, path)
  PROVE  WayInv'
<1>1. UNCHANGED <<asked, packets, fragments, messages, texts, lost>>
  BY DEF HandOut
<1>2. CallsGrow
  BY HandOutKeeps
<1>3. r \in Sets \cup Replies /\ r \notin Sets
  BY ItemAssumption
<1>4. \A p, q \in packets' : (p.item = r /\ q.item = r /\ p.index = q.index) => p = q
  BY <1>1 DEF WayInv, OneOfEach
<1> QED BY <1>1, <1>2, <1>3, <1>4, OnlySent

LEMMA AnswerKeepsWay ==
  ASSUME ScyllaInv, WayInv, NEW r \in Replies, Answer(r)
  PROVE  WayInv'
<1>1. /\ ~surbs[r].used
      /\ packets' = packets \cup
           {Under(r, 1, surbs[r].path, 1, surbs[r].path[1], UseSurb(surbs[r].onion, Text(r)))}
      /\ UNCHANGED <<asked, fragments, messages, texts, lost>>
  BY DEF Answer
<1>2. CallsGrow
  BY AnswerKeeps
<1>3. r \in Sets \cup Replies /\ r \notin Sets
  BY ItemAssumption
<1>4. ~UsedBlock(r)
  BY <1>1 DEF UsedBlock
<1>5. \A p \in packets : p.item # r
  BY <1>3, <1>4, PacketKnown DEF FragmentKnown, ReplyKnown
<1>6. r \notin lost /\ texts[r] = None
  BY <1>4 DEF WayInv, RepliesGone
<1>7. PICK onion, at : onion = UseSurb(surbs[r].onion, Text(r)) /\ at = surbs[r].path[1]
  OBVIOUS
<1>8. \A p \in packets' : p \in packets \/ p = Under(r, 1, surbs[r].path, 1, at, onion)
  BY <1>1, <1>7
<1>9. Under(r, 1, surbs[r].path, 1, at, onion).item = r
  BY DEF Under
<1>10. \A p \in packets' : p \in packets \/ p.item = r
  BY <1>8, <1>9
<1>11. \A p, q \in packets' : (p.item = r /\ q.item = r /\ p.index = q.index) => p = q
  BY <1>5, <1>8
<1> QED BY <1>1, <1>2, <1>3, <1>6, <1>10, <1>11, OnlySent

LEMMA SetsStayBroken ==
  ASSUME WayInv, CallsGrow, lost' = lost,
         \A s \in Sets : \A k : Missing(s, k) => Missing(s, k)'
  PROVE  SetsBroken'
<1> SUFFICES ASSUME NEW s \in Sets, s \in lost
             PROVE  AcceptedSet(s)' /\ \E k \in DOMAIN asked'[s].request.paths : Missing(s, k)'
  BY DEF SetsBroken
<1>1. AcceptedSet(s)
  BY DEF WayInv, SetsBroken
<1>2. PICK k \in DOMAIN asked[s].request.paths : Missing(s, k)
  BY DEF WayInv, SetsBroken
<1>3. asked'[s] = asked[s]
  BY <1>1 DEF CallsGrow
<1>4. Missing(s, k)'
  BY <1>2
<1> QED BY <1>1, <1>2, <1>3, <1>4 DEF AcceptedSet

LEMMA ForwardKeepsWay ==
  ASSUME ScyllaInv, WayInv, NEW p \in packets, Forward(p)
  PROVE  WayInv'
<1>1. UNCHANGED <<asked, surbs, fragments, messages, texts, lost>>
  BY ForwardMoves
<1>2. PICK q : /\ packets' = (packets \ {p}) \cup {q}
               /\ \/ \E s \in Sets : \E k, hop : OfFragment(p, s, k, hop) /\ OfFragment(q, s, k, hop + 1)
                  \/ \E r \in Replies : \E hop : OfReply(p, r, hop) /\ OfReply(q, r, hop + 1)
  BY ForwardMoves
<1>3. q.item = p.item /\ q.index = p.index
  <2>1. CASE \E s \in Sets : \E k, hop : OfFragment(p, s, k, hop) /\ OfFragment(q, s, k, hop + 1)
    <3>1. PICK s \in Sets : \E k, hop : OfFragment(p, s, k, hop) /\ OfFragment(q, s, k, hop + 1)
      BY <2>1
    <3>2. PICK k, hop : OfFragment(p, s, k, hop) /\ OfFragment(q, s, k, hop + 1)
      BY <3>1
    <3>3. p.item = s /\ p.index = k
      BY <3>2 DEF OfFragment, FragmentPacket, IsUnder
    <3>4. q.item = s /\ q.index = k
      BY <3>2 DEF OfFragment, FragmentPacket, IsUnder
    <3> QED BY <3>3, <3>4
  <2>2. CASE \E r \in Replies : \E hop : OfReply(p, r, hop) /\ OfReply(q, r, hop + 1)
    BY <2>2 DEF OfReply, ReplyPacket, IsUnder
  <2> QED BY <1>2, <2>1, <2>2
<1>4. p.item \in Sets => p.hop # Len(p.route)
  <2> SUFFICES ASSUME p.item \in Sets PROVE p.hop # Len(p.route)
    OBVIOUS
  <2>1. ASSUME NEW r \in Replies, NEW hop, OfReply(p, r, hop) PROVE FALSE
    <3>1. p.item = r
      BY <2>1 DEF OfReply, ReplyPacket, IsUnder
    <3> QED BY <3>1, ItemAssumption
  <2>2. PICK s \in Sets : \E k, hop : OfFragment(p, s, k, hop) /\ OfFragment(q, s, k, hop + 1)
    BY <1>2, <2>1
  <2>3. PICK k, hop : OfFragment(p, s, k, hop) /\ OfFragment(q, s, k, hop + 1)
    BY <2>2
  <2>4. PICK path : path = asked[s].request.paths[k]
    OBVIOUS
  <2>5. p.hop = hop /\ p.route = path /\ hop \in 1..Len(path) /\ hop + 1 \in 1..Len(path)
    BY <2>3, <2>4 DEF OfFragment, FragmentPacket, IsUnder
  <2>6. Len(path) \in Nat
    BY <2>3, <2>4, ProperPaths DEF OfFragment, IsPath
  <2> QED BY <2>5, <2>6
<1>5. \A n, s : Arrived(n, s)' = Arrived(n, s)
  BY <1>1 DEF Arrived
<1>6. CallsGrow
  BY ForwardKeeps
<1>7. OneOfEach'
  <2> SUFFICES ASSUME NEW x \in packets', NEW y \in packets', x.item = y.item, x.index = y.index PROVE x = y
    BY DEF OneOfEach
  <2>1. \A z \in packets : (z.item = p.item /\ z.index = p.index) => z = p
    BY DEF WayInv, OneOfEach
  <2>2. (x \in packets /\ x # p) \/ x = q
    BY <1>2
  <2>3. (y \in packets /\ y # p) \/ y = q
    BY <1>2
  <2>4. (x \in packets /\ y \in packets) => x = y
    BY DEF WayInv, OneOfEach
  <2> QED BY <1>3, <2>1, <2>2, <2>3, <2>4
<1>8. KeptOnlyAtEnd'
  <2> SUFFICES ASSUME NEW x \in packets', x.item \in Sets, NEW n \in Nodes, x.index \in Arrived(n, x.item)
               PROVE  x.hop = Len(x.route)
    BY <1>5 DEF KeptOnlyAtEnd
  <2>1. CASE x \in packets
    BY <2>1 DEF WayInv, KeptOnlyAtEnd
  <2>2. CASE x = q
    <3>1. p.item \in Sets /\ p.index \in Arrived(n, p.item)
      BY <1>3, <2>2
    <3>2. p.hop = Len(p.route)
      BY <3>1 DEF WayInv, KeptOnlyAtEnd
    <3> QED BY <1>4, <3>1, <3>2
  <2> QED BY <1>2, <2>1, <2>2
<1>9. RepliesGone'
  <2>1. \A x \in packets' : x \in packets \/ x.item = p.item
    BY <1>2, <1>3
  <2> QED BY <1>1, <2>1 DEF WayInv, RepliesGone, UsedBlock
<1>10. SetsBroken'
  <2>1. \A x \in packets' : \E z \in packets : x.item = z.item /\ x.index = z.index
    BY <1>2, <1>3
  <2>2. \A s \in Sets : \A k : Missing(s, k) => Missing(s, k)'
    BY <1>5, <2>1 DEF Missing
  <2> QED BY <1>1, <1>6, <2>2, SetsStayBroken
<1> QED BY <1>7, <1>8, <1>9, <1>10 DEF WayInv

LEMMA CollectKeepsWay ==
  ASSUME ScyllaInv, WayInv, NEW p \in packets, Collect(p)
  PROVE  WayInv'
<1>1. packets' \subseteq packets /\ UNCHANGED <<asked, surbs, texts, lost>>
  BY Collected
<1>2. PICK s \in Sets : \E k, n, t : Collects(p, s, k, n, t)
  BY Collected
<1>3. PICK k, n, t : Collects(p, s, k, n, t)
  BY <1>2
<1>4. PICK request, size : CollectFacts(s, k, n, t, request, size)
  BY <1>3, CollectMeans
<1>5. p.item = s /\ p.index = k /\ p.hop = Len(p.route)
  BY <1>3 DEF Collects
<1>6. ASSUME NEW m \in Nodes, NEW u \in Sets, NEW j, j \in Arrived(m, u)'
      PROVE  j \in Arrived(m, u) \/ (u = s /\ j = k)
  <2>1. CASE m = n /\ u = s
    <3>1. Arrived(m, u)' = Arrived(m, u) \cup {k}
      BY <1>4, <2>1, ArrivedThen
    <3> QED BY <1>6, <2>1, <3>1
  <2>2. CASE m # n \/ u # s
    <3>1. fragments'[m][u] = fragments[m][u]
      BY <1>4, <2>2 DEF CollectFacts
    <3>2. Arrived(m, u)' = Arrived(m, u)
      BY <3>1, ArrivedIndexes
    <3> QED BY <1>6, <3>2
  <2> QED BY <2>1, <2>2
<1>7. OneOfEach'
  BY <1>1 DEF WayInv, OneOfEach
<1>8. KeptOnlyAtEnd'
  <2> SUFFICES ASSUME NEW x \in packets', x.item \in Sets, NEW m \in Nodes, x.index \in Arrived(m, x.item)'
               PROVE  x.hop = Len(x.route)
    BY DEF KeptOnlyAtEnd
  <2>1. x \in packets
    BY <1>1
  <2>2. CASE x.index \in Arrived(m, x.item)
    BY <2>1, <2>2 DEF WayInv, KeptOnlyAtEnd
  <2>3. CASE x.item = s /\ x.index = k
    <3>1. x = p
      BY <1>5, <2>1, <2>3 DEF WayInv, OneOfEach
    <3> QED BY <1>5, <3>1
  <2>4. PICK u \in Sets : u = x.item
    OBVIOUS
  <2>5. PICK j : j = x.index
    OBVIOUS
  <2>6. j \in Arrived(m, u)'
    BY <2>4, <2>5
  <2> QED BY <1>6, <2>2, <2>3, <2>4, <2>5, <2>6
<1>9. RepliesGone'
  BY <1>1 DEF WayInv, RepliesGone, UsedBlock
<1>10. SetsBroken'
  <2>1. ASSUME NEW u \in Sets, NEW j, Missing(u, j) PROVE Missing(u, j)'
    <3>1. ~(u = s /\ j = k)
      BY <1>5, <2>1 DEF Missing
    <3>2. \A m \in Nodes : j \notin Arrived(m, u)'
      BY <1>6, <2>1, <3>1 DEF Missing
    <3> QED BY <1>1, <2>1, <3>2 DEF Missing
  <2>2. CallsGrow
    BY CollectKeeps
  <2> QED BY <1>1, <2>1, <2>2, SetsStayBroken
<1> QED BY <1>7, <1>8, <1>9, <1>10 DEF WayInv

LEMMA ReadReplyKeepsWay ==
  ASSUME ScyllaInv, WayInv, NEW p \in packets, ReadReply(p)
  PROVE  WayInv'
<1>1. packets' = packets \ {p} /\ UNCHANGED <<asked, surbs, fragments, messages, lost>>
  BY ReplyRead
<1>2. PICK r \in Replies : texts' = [texts EXCEPT ![r] = Text(r)] /\ UsedBlock(r) /\ p.item = r /\ p.index = 1
  BY ReplyRead
<1>3. \A n, s : Arrived(n, s)' = Arrived(n, s)
  BY <1>1 DEF Arrived
<1>4. OneOfEach'
  BY <1>1 DEF WayInv, OneOfEach
<1>5. KeptOnlyAtEnd'
  BY <1>1, <1>3 DEF WayInv, KeptOnlyAtEnd
<1>6. RepliesGone'
  <2> SUFFICES ASSUME NEW q \in Replies, texts'[q] # None \/ q \in lost'
               PROVE  UsedBlock(q)' /\ \A x \in packets' : x.item # q
    BY DEF RepliesGone
  <2>1. CASE q = r
    <3>1. ASSUME NEW x \in packets', x.item = r PROVE FALSE
      <4>1. x \in packets /\ x # p
        BY <1>1
      <4>2. x.index = 1
        BY <3>1, <4>1, PacketKnown, ItemAssumption DEF FragmentKnown, ReplyKnown
      <4>3. x = p
        BY <1>2, <3>1, <4>1, <4>2 DEF WayInv, OneOfEach
      <4> QED BY <4>1, <4>3
    <3> QED BY <1>1, <1>2, <2>1, <3>1 DEF UsedBlock
  <2>2. CASE q # r
    <3>1. texts'[q] = texts[q]
      BY <1>2, <2>2 DEF ScyllaInv, ReadInv
    <3> QED BY <1>1, <3>1 DEF WayInv, RepliesGone, UsedBlock
  <2> QED BY <2>1, <2>2
<1>7. SetsBroken'
  <2>1. CallsGrow
    BY ReadReplyKeeps
  <2>2. \A s \in Sets : \A k : Missing(s, k) => Missing(s, k)'
    BY <1>1, <1>3 DEF Missing
  <2> QED BY <1>1, <2>1, <2>2, SetsStayBroken
<1> QED BY <1>4, <1>5, <1>6, <1>7 DEF WayInv

(***************************************************************************)
(* A fragment that is still under way and arrived before is where it may   *)
(* come again, so that losing it is losing nothing.                        *)
(***************************************************************************)
LEMMA ArrivedIsKept ==
  ASSUME ScyllaInv, WayInv, NEW p \in packets, FragmentKnown(p), NEW n \in Nodes, p.index \in Arrived(n, p.item)
  PROVE  Kept(p)
<1>1. PICK s \in Sets : s = p.item
  BY DEF FragmentKnown
<1>2. fragments[n][s] # <<>>
  BY <1>1, NothingArrived
<1>3. n = Recipient(asked[s].request)
  BY <1>2 DEF ScyllaInv, KeptInv, KeptFor
<1>4. p.hop = Len(p.route)
  BY <1>1 DEF WayInv, KeptOnlyAtEnd
<1>5. p.at = n
  BY <1>1, <1>3, <1>4 DEF FragmentKnown
<1>6. \E f \in Range(fragments[p.at][p.item]) : f.index = p.index
  BY <1>5 DEF Arrived
<1> QED BY <1>6 DEF Kept, FragmentKnown

LEMMA LoseKeepsWay ==
  ASSUME ScyllaInv, WayInv, NEW p \in packets, Lose(p)
  PROVE  WayInv'
<1>1. packets' = packets \ {p} /\ UNCHANGED <<asked, surbs, fragments, messages, texts>>
      /\ lost' = IF Kept(p) THEN lost ELSE lost \cup {p.item}
  BY DEF Lose
<1>2. \A n, s : Arrived(n, s)' = Arrived(n, s)
  BY <1>1 DEF Arrived
<1>3. OneOfEach'
  BY <1>1 DEF WayInv, OneOfEach
<1>4. KeptOnlyAtEnd'
  BY <1>1, <1>2 DEF WayInv, KeptOnlyAtEnd
<1>5. \A x \in packets' : x \in packets /\ x # p
  BY <1>1
<1>6. RepliesGone'
  <2> SUFFICES ASSUME NEW q \in Replies, texts'[q] # None \/ q \in lost'
               PROVE  UsedBlock(q)' /\ \A x \in packets' : x.item # q
    BY DEF RepliesGone
  <2>1. CASE q = p.item
    <3>1. ReplyKnown(p)
      BY <2>1, PacketKnown DEF FragmentKnown
    <3>2. ASSUME NEW x \in packets', x.item = q PROVE FALSE
      <4>1. x.index = 1
        BY <1>5, <3>2, PacketKnown, ItemAssumption DEF FragmentKnown, ReplyKnown
      <4>2. x = p
        BY <1>5, <2>1, <3>1, <3>2, <4>1 DEF WayInv, OneOfEach, ReplyKnown
      <4> QED BY <1>5, <4>2
    <3> QED BY <1>1, <2>1, <3>1, <3>2 DEF ReplyKnown, UsedBlock
  <2>2. CASE q # p.item
    <3>1. texts[q] # None \/ q \in lost
      BY <1>1, <2>2
    <3> QED BY <1>1, <3>1 DEF WayInv, RepliesGone, UsedBlock
  <2> QED BY <2>1, <2>2
<1>7. \A s \in Sets : \A k : Missing(s, k) => Missing(s, k)'
  BY <1>1, <1>2 DEF Missing
<1>8. SetsBroken'
  <2> SUFFICES ASSUME NEW s \in Sets, s \in lost'
               PROVE  AcceptedSet(s)' /\ \E k \in DOMAIN asked'[s].request.paths : Missing(s, k)'
    BY DEF SetsBroken
  <2>1. CASE s \in lost
    <3>1. AcceptedSet(s) /\ \E k \in DOMAIN asked[s].request.paths : Missing(s, k)
      BY <2>1 DEF WayInv, SetsBroken
    <3> QED BY <1>1, <1>7, <3>1 DEF AcceptedSet
  <2>2. CASE s \notin lost
    <3>1. s = p.item /\ ~Kept(p)
      BY <1>1, <2>2
    <3>2. FragmentKnown(p)
      BY <3>1, PacketKnown DEF ReplyKnown
    <3>3. PICK k : k = p.index
      OBVIOUS
    <3>4. \A n \in Nodes : k \notin Arrived(n, s)'
      BY <1>2, <3>1, <3>2, <3>3, ArrivedIsKept
    <3>5. \A x \in packets' : ~(x.item = s /\ x.index = k)
      BY <1>5, <3>1, <3>3 DEF WayInv, OneOfEach
    <3>6. Missing(s, k)'
      BY <3>4, <3>5 DEF Missing
    <3>7. AcceptedSet(s) /\ k \in DOMAIN asked[s].request.paths
      BY <3>1, <3>2, <3>3 DEF FragmentKnown
    <3> QED BY <1>1, <3>6, <3>7 DEF AcceptedSet
  <2> QED BY <2>1, <2>2
<1> QED BY <1>3, <1>4, <1>6, <1>8 DEF WayInv

LEMMA StepKeepsWay ==
  ASSUME ScyllaInv, WayInv, [Next]_vars
  PROVE  WayInv'
<1>1. ASSUME UNCHANGED vars PROVE WayInv'
  <2>1. UNCHANGED <<asked, surbs, packets, fragments, messages, texts, lost>>
    BY <1>1 DEF vars
  <2> QED BY <2>1 DEF WayInv, OneOfEach, KeptOnlyAtEnd, RepliesGone, SetsBroken, Missing, Arrived, UsedBlock,
                       AcceptedSet
<1> QED BY <1>1, SendKeepsWay, HandOutKeepsWay, AnswerKeepsWay, ForwardKeepsWay, CollectKeepsWay,
           ReadReplyKeepsWay, LoseKeepsWay DEF Next, Handle


(***************************************************************************)
(* WayInv, which ScyllaInv does not need, in every state.                  *)
(***************************************************************************)
LEMMA WaySafe == Spec => [](ScyllaInv /\ WayInv)
<1>1. Init => ScyllaInv /\ WayInv
  BY InitInv, InitWay
<1>2. ScyllaInv /\ WayInv /\ [Next]_vars => ScyllaInv' /\ WayInv'
  BY StepKeeps, StepKeepsWay
<1> QED BY <1>1, <1>2, PTL DEF Spec

-------------------------------------------------------------------------------
(***************************************************************************)
(* What the channel sees of Scylla, and what a step does that the channel  *)
(* sees as one of its own.                                                 *)
(***************************************************************************)
AnyItem == Sets \cup Replies

SentOf(i) == IF i \in Sets THEN SentMessage(i) ELSE SentText(i)
ReceivedOf(i) == IF i \in Sets THEN messages[i] ELSE ReceivedText(i)
Doomed == lost \cup {s \in Sets : Spoiled(s)}

OnTheWay(i) == i \in AnyItem /\ SentOf(i) # None /\ ReceivedOf(i) = None /\ i \notin Doomed

SentStay == \A j \in AnyItem : SentOf(j)' = SentOf(j)
ReceivedStay == \A j \in AnyItem : ReceivedOf(j)' = ReceivedOf(j)

SeenSent(i) ==
  /\ i \in AnyItem /\ SentOf(i) = None /\ SentOf(i)' \in Messages \cup Texts
  /\ \A j \in AnyItem : j # i => SentOf(j)' = SentOf(j)
  /\ ReceivedStay /\ Doomed' = Doomed

SeenReceived(i) ==
  /\ OnTheWay(i)
  /\ ReceivedOf(i)' = SentOf(i)
  /\ \A j \in AnyItem : j # i => ReceivedOf(j)' = ReceivedOf(j)
  /\ SentStay /\ Doomed' = Doomed

SeenLost(i) == OnTheWay(i) /\ Doomed' = Doomed \cup {i} /\ SentStay /\ ReceivedStay

Unseen == SentStay /\ ReceivedStay /\ Doomed' = Doomed

Seen == Unseen \/ \E i : SeenSent(i) \/ SeenReceived(i) \/ SeenLost(i)

(***************************************************************************)
(* The refinement mapping of ScyllaChannel, in these terms.                *)
(***************************************************************************)
LEMMA SeenIsStep ==
  ASSUME Seen
  PROVE  [Channel!Next]_Channel!vars
<1> DEFINE sent == [i \in Sets \cup Replies |-> IF i \in Sets THEN SentMessage(i) ELSE SentText(i)]
           received == [i \in Sets \cup Replies |-> IF i \in Sets THEN messages[i] ELSE ReceivedText(i)]
           gone == lost \cup {s \in Sets : Spoiled(s)}
<1>1. sent = [i \in AnyItem |-> SentOf(i)] /\ sent' = [i \in AnyItem |-> SentOf(i)']
  BY DEF AnyItem, SentOf
<1>2. received = [i \in AnyItem |-> ReceivedOf(i)] /\ received' = [i \in AnyItem |-> ReceivedOf(i)']
  BY DEF AnyItem, ReceivedOf
<1>3. gone = Doomed /\ gone' = Doomed'
  BY DEF Doomed
<1>4. /\ Channel!vars = <<sent, received, gone>>
      /\ Channel!vars' = <<sent', received', gone'>>
  BY DEF Channel!vars
<1>5. \A i : Channel!UnderWay(i) <=> sent[i] # None /\ received[i] = None /\ i \notin gone
  BY DEF Channel!UnderWay
<1>6. \A i : Channel!Send(i) <=> /\ sent[i] = None /\ \E c \in Messages \cup Texts : sent' = [sent EXCEPT ![i] = c]
                                 /\ received' = received /\ gone' = gone
  BY DEF Channel!Send
<1>7. \A i : Channel!Receive(i) <=> /\ Channel!UnderWay(i) /\ received' = [received EXCEPT ![i] = sent[i]]
                                    /\ sent' = sent /\ gone' = gone
  BY DEF Channel!Receive
<1>8. \A i : Channel!Lose(i) <=> /\ Channel!UnderWay(i) /\ gone' = gone \cup {i}
                                 /\ sent' = sent /\ received' = received
  BY DEF Channel!Lose
<1>9. Channel!Next <=> \E i \in AnyItem : Channel!Send(i) \/ Channel!Receive(i) \/ Channel!Lose(i)
  BY DEF Channel!Next, AnyItem
<1> HIDE DEF sent, received, gone
<1>10. \A i \in AnyItem : sent[i] = SentOf(i) /\ received[i] = ReceivedOf(i)
  BY <1>1, <1>2
<1>11. SentStay => sent' = sent
  BY <1>1 DEF SentStay
<1>12. ReceivedStay => received' = received
  BY <1>2 DEF ReceivedStay
<1>13. CASE Unseen
  BY <1>3, <1>4, <1>11, <1>12, <1>13 DEF Unseen
<1>14. ASSUME NEW i, SeenSent(i) PROVE Channel!Next
  <2>1. i \in AnyItem /\ sent[i] = None /\ received' = received /\ gone' = gone
    BY <1>3, <1>10, <1>12, <1>14 DEF SeenSent
  <2>2. sent' = [sent EXCEPT ![i] = SentOf(i)']
    BY <1>1, <1>14 DEF SeenSent
  <2>3. Channel!Send(i)
    BY <1>6, <1>14, <2>1, <2>2 DEF SeenSent
  <2> QED BY <1>9, <2>1, <2>3
<1>15. ASSUME NEW i, SeenReceived(i) PROVE Channel!Next
  <2>1. i \in AnyItem /\ sent' = sent /\ gone' = gone
    BY <1>3, <1>11, <1>15 DEF SeenReceived, OnTheWay
  <2>2. Channel!UnderWay(i)
    BY <1>3, <1>5, <1>10, <1>15 DEF SeenReceived, OnTheWay
  <2>3. received' = [received EXCEPT ![i] = sent[i]]
    BY <1>2, <1>10, <1>15, <2>1 DEF SeenReceived
  <2>4. Channel!Receive(i)
    BY <1>7, <2>1, <2>2, <2>3
  <2> QED BY <1>9, <2>1, <2>4
<1>16. ASSUME NEW i, SeenLost(i) PROVE Channel!Next
  <2>1. i \in AnyItem /\ sent' = sent /\ received' = received /\ gone' = gone \cup {i}
    BY <1>3, <1>11, <1>12, <1>16 DEF SeenLost, OnTheWay
  <2>2. Channel!UnderWay(i)
    BY <1>3, <1>5, <1>10, <1>16 DEF SeenLost, OnTheWay
  <2>3. Channel!Lose(i)
    BY <1>8, <2>1, <2>2
  <2> QED BY <1>9, <2>1, <2>3
<1> QED BY <1>13, <1>14, <1>15, <1>16 DEF Seen

(***************************************************************************)
(* What the channel sees depends on little, and is never None where a      *)
(* message was accepted or a reply block was used.                         *)
(***************************************************************************)
LEMMA SeenFacts ==
  /\ \A s \in Sets : s \in AnyItem /\ SentOf(s) = SentMessage(s) /\ ReceivedOf(s) = messages[s]
                     /\ (s \in Doomed <=> s \in lost \/ Spoiled(s))
  /\ \A r \in Replies : r \in AnyItem /\ SentOf(r) = SentText(r) /\ ReceivedOf(r) = ReceivedText(r)
                        /\ (r \in Doomed <=> r \in lost)
  /\ \A i \in AnyItem : i \in Sets \/ i \in Replies
<1>1. \A r \in Replies : r \notin Sets
  BY ItemAssumption
<1> QED BY <1>1 DEF AnyItem, SentOf, ReceivedOf, Doomed

SentWell ==
  /\ \A s \in Sets : AcceptedSet(s) =>
       SentOf(s) = MessageOf(s, asked[s].request) /\ SentOf(s) \in Messages /\ SentOf(s) # None
  /\ \A r \in Replies : UsedBlock(r) =>
       SentOf(r) = [text |-> Text(r)] /\ SentOf(r) \in Texts /\ SentOf(r) # None

LEMMA SentOnce ==
  ASSUME ScyllaInv
  PROVE  SentWell
<1>1. ASSUME NEW s \in Sets, AcceptedSet(s)
      PROVE  SentOf(s) = MessageOf(s, asked[s].request) /\ SentOf(s) \in Messages
  <2>1. asked[s].request \in Requests
    BY <1>1, AcceptedFacts DEF ScyllaInv
  <2> QED BY <1>1, <2>1, SeenFacts DEF SentMessage, Messages
<1>2. ASSUME NEW r \in Replies, UsedBlock(r) PROVE SentOf(r) = [text |-> Text(r)] /\ SentOf(r) \in Texts
  BY <1>2, SeenFacts DEF SentText, Texts, UsedBlock
<1> QED BY <1>1, <1>2, NoneAssumption DEF SentWell

LEMMA SentStays ==
  ASSUME UNCHANGED <<asked, surbs>>
  PROVE  SentStay
<1>1. \A s \in Sets : SentMessage(s)' = SentMessage(s)
  BY DEF SentMessage, AcceptedSet, MessageOf
<1>2. \A r \in Replies : SentText(r)' = SentText(r)
  BY DEF SentText
<1> QED BY <1>1, <1>2 DEF SentStay, SentOf, AnyItem

LEMMA ReceivedStays ==
  ASSUME UNCHANGED <<messages, texts>>
  PROVE  ReceivedStay
BY DEF ReceivedStay, ReceivedOf, ReceivedText

LEMMA SpoiledStays ==
  ASSUME UNCHANGED <<fragments, messages>>
  PROVE  \A s : Spoiled(s)' = Spoiled(s)
BY DEF Spoiled, Repetitive, Arrived

LEMMA DoomedStays ==
  ASSUME UNCHANGED <<fragments, messages, lost>>
  PROVE  Doomed' = Doomed
BY SpoiledStays DEF Doomed

LEMMA SendSeen ==
  ASSUME ScyllaInv, ScyllaInv', NEW s \in Sets, NEW request \in Requests, Send(s, request)
  PROVE  Seen
<1>1. asked[s] = None /\ UNCHANGED <<surbs, fragments, messages, texts, lost>>
      /\ asked' = [asked EXCEPT ![s] = AskedFor(s, request)]
  BY DEF Send, AskedFor, Made
<1>2. \A u \in Sets : u # s => asked'[u] = asked[u]
  BY <1>1 DEF ScyllaInv, CallsInv
<1>3. \A u \in Sets : u # s => SentMessage(u)' = SentMessage(u)
  BY <1>2 DEF SentMessage, AcceptedSet, MessageOf
<1>4. \A r \in Replies : SentText(r)' = SentText(r)
  BY <1>1 DEF SentText
<1>5. \A j \in AnyItem : j # s => SentOf(j)' = SentOf(j)
  BY <1>3, <1>4 DEF SentOf, AnyItem
<1>6. ReceivedStay /\ Doomed' = Doomed
  BY <1>1, ReceivedStays, DoomedStays
<1>7. SentOf(s) = None
  BY <1>1, SeenFacts DEF SentMessage, AcceptedSet
<1>8. CASE AcceptedSet(s)'
  <2>1. SentOf(s)' \in Messages
    <3>1. SentWell'
      BY SentOnce, PTL
    <3> QED BY <1>8, <3>1 DEF SentWell
  <2>2. SeenSent(s)
    BY <1>5, <1>6, <1>7, <2>1, SeenFacts DEF SeenSent
  <2> QED BY <2>2 DEF Seen
<1>9. CASE ~AcceptedSet(s)'
  <2>1. SentOf(s)' = None
    BY <1>9 DEF SentOf, SentMessage
  <2>2. SentStay
    BY <1>5, <1>7, <2>1 DEF SentStay
  <2> QED BY <1>6, <2>2 DEF Seen, Unseen
<1> QED BY <1>8, <1>9

LEMMA HandOutSeen ==
  ASSUME ScyllaInv, NEW r \in Replies, NEW path \in ReplyPaths, HandOut(r, path)
  PROVE  Seen
<1>1. /\ surbs[r] = None
      /\ surbs' = [surbs EXCEPT ![r] = HandedOut(r, path, FALSE)]
      /\ UNCHANGED <<asked, packets, fragments, messages, texts, lost>>
  BY DEF HandOut
<1>2. surbs'[r] = HandedOut(r, path, FALSE) /\ \A q \in Replies : q # r => surbs'[q] = surbs[q]
  BY <1>1 DEF ScyllaInv, CallsInv
<1>3. ~surbs'[r].used
  BY <1>2 DEF HandedOut
<1>4. \A q \in Replies : SentText(q)' = SentText(q)
  BY <1>1, <1>2, <1>3 DEF SentText
<1>5. \A s \in Sets : SentMessage(s)' = SentMessage(s)
  BY <1>1 DEF SentMessage, AcceptedSet, MessageOf
<1>6. SentStay
  BY <1>4, <1>5 DEF SentStay, SentOf, AnyItem
<1> QED BY <1>1, <1>6, ReceivedStays, DoomedStays DEF Seen, Unseen

LEMMA AnswerSeen ==
  ASSUME ScyllaInv, ScyllaInv', NEW r \in Replies, Answer(r)
  PROVE  Seen
<1>1. ~surbs[r].used /\ UNCHANGED <<asked, fragments, messages, texts, lost>>
  BY DEF Answer
<1>2. UsedBlock(r)' /\ \A q \in Replies : q # r => surbs'[q] = surbs[q]
  BY Answered
<1>3. \A q \in Replies : q # r => SentText(q)' = SentText(q)
  BY <1>2 DEF SentText
<1>4. \A s \in Sets : SentMessage(s)' = SentMessage(s)
  BY <1>1 DEF SentMessage, AcceptedSet, MessageOf
<1>5. \A j \in AnyItem : j # r => SentOf(j)' = SentOf(j)
  BY <1>3, <1>4 DEF SentOf, AnyItem
<1>6. SentOf(r) = None
  BY <1>1, SeenFacts DEF SentText
<1>7. SentOf(r)' \in Texts
  <2>1. SentWell'
    BY SentOnce, PTL
  <2> QED BY <1>2, <2>1 DEF SentWell
<1>8. ReceivedStay /\ Doomed' = Doomed
  BY <1>1, ReceivedStays, DoomedStays
<1>9. SeenSent(r)
  BY <1>5, <1>6, <1>7, <1>8, SeenFacts DEF SeenSent
<1> QED BY <1>9 DEF Seen

LEMMA ReadReplySeen ==
  ASSUME ScyllaInv, WayInv, NEW p \in packets, ReadReply(p)
  PROVE  Seen
<1>1. UNCHANGED <<asked, surbs, fragments, messages, lost>>
  BY ReplyRead
<1>2. PICK r \in Replies : texts' = [texts EXCEPT ![r] = Text(r)] /\ UsedBlock(r) /\ p.item = r
  BY ReplyRead
<1>3. texts[r] = None /\ r \notin lost
  BY <1>2 DEF WayInv, RepliesGone
<1>4. OnTheWay(r)
  BY <1>2, <1>3, SeenFacts, SentOnce DEF OnTheWay, ReceivedText, SentWell
<1>5. texts'[r] = Text(r) /\ \A q \in Replies : q # r => texts'[q] = texts[q]
  BY <1>2 DEF ScyllaInv, ReadInv
<1>6. ReceivedOf(r)' = SentOf(r)
  <2>1. ReceivedOf(r)' = ReceivedText(r)'
    BY ItemAssumption DEF ReceivedOf
  <2>2. ReceivedText(r)' = [text |-> Text(r)]
    BY <1>5, NoneAssumption DEF ReceivedText
  <2> QED BY <1>2, <2>1, <2>2, SentOnce DEF SentWell
<1>7. \A j \in AnyItem : j # r => ReceivedOf(j)' = ReceivedOf(j)
  BY <1>1, <1>5 DEF ReceivedOf, ReceivedText, AnyItem
<1>8. SeenReceived(r)
  BY <1>1, <1>4, <1>6, <1>7, SentStays, DoomedStays DEF SeenReceived
<1> QED BY <1>8 DEF Seen

LEMMA LoseSeen ==
  ASSUME ScyllaInv, WayInv, NEW p \in packets, Lose(p)
  PROVE  Seen
<1>1. UNCHANGED <<asked, surbs, fragments, messages, texts>>
      /\ lost' = IF Kept(p) THEN lost ELSE lost \cup {p.item}
  BY DEF Lose
<1>2. SentStay /\ ReceivedStay
  BY <1>1, SentStays, ReceivedStays
<1>3. \A s : Spoiled(s)' = Spoiled(s)
  BY <1>1, SpoiledStays
<1>4. CASE Kept(p) \/ p.item \in Doomed
  <2>1. Doomed' = Doomed
    BY <1>1, <1>3, <1>4 DEF Doomed
  <2> QED BY <1>2, <2>1 DEF Seen, Unseen
<1>5. CASE ~Kept(p) /\ p.item \notin Doomed
  <2>1. Doomed' = Doomed \cup {p.item}
    BY <1>1, <1>3, <1>5 DEF Doomed
  <2>2. CASE FragmentKnown(p)
    <3>1. PICK s \in Sets : s = p.item
      BY <2>2 DEF FragmentKnown
    <3>2. AcceptedSet(s) /\ p.index \in DOMAIN asked[s].request.paths
      BY <2>2, <3>1 DEF FragmentKnown
    <3>3. \A n \in Nodes : ~Complete(n, s)
      BY <1>5, <2>2, <3>1, <3>2, ArrivedIsKept DEF Complete
    <3>4. messages[s] = None
      BY <3>3 DEF ScyllaInv, ReadInv, WholeOrNone
    <3>5. OnTheWay(s)
      BY <1>5, <3>1, <3>2, <3>4, SeenFacts, SentOnce DEF OnTheWay, SentWell
    <3>6. SeenLost(s)
      BY <1>2, <2>1, <3>1, <3>5 DEF SeenLost
    <3> QED BY <3>6 DEF Seen
  <2>3. CASE ReplyKnown(p)
    <3>1. PICK r \in Replies : r = p.item
      BY <2>3 DEF ReplyKnown
    <3>2. UsedBlock(r)
      BY <2>3, <3>1 DEF ReplyKnown
    <3>3. texts[r] = None
      BY <3>1 DEF WayInv, RepliesGone
    <3>4. OnTheWay(r)
      BY <1>5, <3>1, <3>2, <3>3, SeenFacts, SentOnce DEF OnTheWay, SentWell, ReceivedText
    <3>5. SeenLost(r)
      BY <1>2, <2>1, <3>1, <3>4 DEF SeenLost
    <3> QED BY <3>5 DEF Seen
  <2> QED BY <2>2, <2>3, PacketKnown
<1> QED BY <1>4, <1>5

LEMMA ForwardSeen ==
  ASSUME ScyllaInv, NEW p \in packets, Forward(p)
  PROVE  Seen
<1>1. UNCHANGED <<asked, surbs, fragments, messages, texts, lost>>
  BY ForwardMoves
<1> QED BY <1>1, SentStays, ReceivedStays, DoomedStays DEF Seen, Unseen

(***************************************************************************)
(* A set has fragments at one node only, so only there some can be there   *)
(* twice, and what is there twice stays there.                             *)
(***************************************************************************)
LEMMA RepetitiveThen ==
  ASSUME ScyllaInv, NEW s \in Sets, NEW k, NEW n, NEW t, NEW request, NEW size,
         CollectFacts(s, k, n, t, request, size)
  PROVE  /\ \A m \in Nodes : \A u \in Sets : (m # n \/ u # s) => Repetitive(m, u)' = Repetitive(m, u)
         /\ \A m \in Nodes : m # n => ~Repetitive(m, s)
         /\ Repetitive(n, s) => Repetitive(n, s)'
         /\ (Indexes(t) = 1..size /\ Len(t) = size) => ~Repetitive(n, s)
<1>1. ASSUME NEW m \in Nodes, NEW u \in Sets, m # n \/ u # s PROVE Repetitive(m, u)' = Repetitive(m, u)
  <2>1. fragments'[m][u] = fragments[m][u]
    BY <1>1 DEF CollectFacts
  <2>2. Arrived(m, u)' = Arrived(m, u)
    BY <2>1, ArrivedIndexes
  <2> QED BY <2>1, <2>2 DEF Repetitive
<1>2. ASSUME NEW m \in Nodes, m # n PROVE ~Repetitive(m, s)
  <2>1. fragments[m][s] = <<>>
    BY <1>2 DEF ScyllaInv, KeptInv, KeptFor, CollectFacts
  <2>2. Arrived(m, s) = {}
    BY <2>1, NothingArrived
  <2>3. Len(fragments[m][s]) = 0 /\ Cardinality(Arrived(m, s)) = 0
    BY <2>1, <2>2, FS_EmptySet
  <2> QED BY <2>3 DEF Repetitive
<1>3. PICK A : A = Arrived(n, s)
  OBVIOUS
<1>4. Arrived(n, s)' = A \cup {k} /\ Indexes(t) = A \cup {k} /\ A \subseteq 1..size
  BY <1>3, ArrivedThen
<1>5. size \in Nat \ {0} /\ Len(t) = Len(fragments[n][s]) + 1 /\ Len(fragments[n][s]) \in Nat /\ fragments'[n][s] = t
  BY DEF CollectFacts
<1>6. IsFiniteSet(A) /\ Cardinality(A) \in Nat /\ IsFiniteSet(1..size) /\ Cardinality(1..size) = size
  <2>1. IsFiniteSet(1..size) /\ Cardinality(1..size) = size
    BY <1>5, FS_Interval
  <2>2. IsFiniteSet(A)
    BY <1>4, <2>1, FS_Subset
  <2> QED BY <2>1, <2>2, FS_CardinalityType
<1>7. Cardinality(A \cup {k}) \in {Cardinality(A), Cardinality(A) + 1}
  BY <1>6, FS_AddElement
<1>8. PICK before, then, length : /\ before = Cardinality(A) /\ then = Cardinality(A \cup {k})
                                  /\ length = Len(fragments[n][s])
  OBVIOUS
<1>9. before \in Nat /\ length \in Nat /\ (then = before \/ then = before + 1) /\ Len(t) = length + 1
  BY <1>5, <1>6, <1>7, <1>8
<1>10. Repetitive(n, s) <=> length > before
  BY <1>3, <1>8 DEF Repetitive
<1>11. Repetitive(n, s)' <=> length + 1 > then
  BY <1>4, <1>5, <1>8 DEF Repetitive
<1>12. Repetitive(n, s) => Repetitive(n, s)'
  BY <1>9, <1>10, <1>11
<1>13. ASSUME Indexes(t) = 1..size, Len(t) = size PROVE ~Repetitive(n, s)
  <2>1. then = size
    BY <1>4, <1>6, <1>8, <1>13
  <2>2. length + 1 = size
    BY <1>9, <1>13
  <2> QED BY <1>9, <1>10, <2>1, <2>2
<1> QED BY <1>1, <1>2, <1>12, <1>13

(***************************************************************************)
(* The fragment that completes a set without repetition delivers its       *)
(* message; one that repeats another spoils the set, unless it was read.   *)
(***************************************************************************)
LEMMA CollectSeen ==
  ASSUME ScyllaInv, WayInv, NEW p \in packets, Collect(p)
  PROVE  Seen
<1>1. UNCHANGED <<asked, surbs, texts, lost>>
  BY Collected
<1>2. PICK s \in Sets : \E k, n, t : Collects(p, s, k, n, t)
  BY Collected
<1>3. PICK k, n, t : Collects(p, s, k, n, t)
  BY <1>2
<1>4. PICK request, size : CollectFacts(s, k, n, t, request, size)
  BY <1>3, CollectMeans
<1>5. p.item = s /\ p.index = k
  BY <1>3 DEF Collects
<1>6. /\ AcceptedSet(s) /\ request = asked[s].request /\ DOMAIN request.paths = 1..size /\ n \in Nodes
      /\ IsMessage(t, s, request, size)
      /\ \A u \in Sets : u # s => messages'[u] = messages[u]
      /\ messages'[s] = IF Defrag(DataOf(t)).error = "none" THEN MessageOf(s, request) ELSE messages[s]
  BY <1>4 DEF CollectFacts
<1>7. /\ \A m \in Nodes : \A u \in Sets : (m # n \/ u # s) => Repetitive(m, u)' = Repetitive(m, u)
      /\ \A m \in Nodes : m # n => ~Repetitive(m, s)
      /\ Repetitive(n, s) => Repetitive(n, s)'
      /\ (Indexes(t) = 1..size /\ Len(t) = size) => ~Repetitive(n, s)
  BY <1>4, RepetitiveThen
<1>8. SentStay
  BY <1>1, SentStays
<1>9. SentOf(s) = MessageOf(s, request) /\ SentOf(s) # None
  BY <1>6, SentOnce DEF SentWell
<1>10. \A j \in AnyItem : j # s => ReceivedOf(j)' = ReceivedOf(j)
  BY <1>1, <1>6 DEF ReceivedOf, ReceivedText, AnyItem
<1>11. \A u \in Sets : u # s => Spoiled(u)' = Spoiled(u)
  BY <1>6, <1>7 DEF Spoiled
<1>12. ReceivedOf(s) = messages[s] /\ ReceivedOf(s)' = messages'[s]
  BY DEF ReceivedOf
<1>13. CASE messages'[s] # None /\ messages[s] = None
  <2>1. Defrag(DataOf(t)).error = "none" /\ messages'[s] = MessageOf(s, request)
    BY <1>6, <1>13
  <2>2. Len(t) = size /\ Indexes(t) = 1..size
    BY <1>6, <2>1 DEF IsMessage
  <2>3. ~Spoiled(s) /\ ~Spoiled(s)'
    BY <1>7, <1>13, <2>2 DEF Spoiled
  <2>4. s \notin lost
    <3> SUFFICES ASSUME s \in lost PROVE FALSE
      OBVIOUS
    <3>1. PICK j \in DOMAIN request.paths : Missing(s, j)
      BY <1>6 DEF WayInv, SetsBroken
    <3>2. j \in Arrived(n, s) \cup {k}
      <4>1. Arrived(n, s)' = Arrived(n, s) \cup {k} /\ Arrived(n, s)' = Indexes(t)
        BY <1>4, ArrivedThen
      <4> QED BY <1>6, <2>2, <4>1
    <3> QED BY <1>5, <1>6, <3>1, <3>2 DEF Missing
  <2>5. OnTheWay(s)
    BY <1>9, <1>12, <1>13, <2>3, <2>4, SeenFacts DEF OnTheWay
  <2>6. Doomed' = Doomed
    BY <1>1, <1>11, <2>3 DEF Doomed
  <2>7. SeenReceived(s)
    BY <1>8, <1>9, <1>10, <1>12, <2>1, <2>5, <2>6 DEF SeenReceived
  <2> QED BY <2>7 DEF Seen
<1>14. CASE messages[s] # None
  <2>1. messages[s] = MessageOf(s, request)
    BY <1>6, <1>14 DEF ScyllaInv, ReadInv, WholeOrNone
  <2>2. messages'[s] = messages[s]
    BY <1>6, <2>1
  <2>3. ReceivedStay
    BY <1>10, <1>12, <2>2 DEF ReceivedStay
  <2>4. ~Spoiled(s) /\ ~Spoiled(s)'
    BY <1>14, <2>2 DEF Spoiled
  <2>5. Doomed' = Doomed
    BY <1>1, <1>11, <2>4 DEF Doomed
  <2> QED BY <1>8, <2>3, <2>5 DEF Seen, Unseen
<1>15. CASE messages'[s] = None /\ messages[s] = None
  <2>1. ReceivedStay
    BY <1>10, <1>12, <1>15 DEF ReceivedStay
  <2>2. Spoiled(s) => Spoiled(s)'
    BY <1>7, <1>15 DEF Spoiled
  <2>3. CASE s \in Doomed \/ ~Spoiled(s)'
    <3>1. Doomed' = Doomed
      BY <1>1, <1>11, <2>2, <2>3 DEF Doomed
    <3> QED BY <1>8, <2>1, <3>1 DEF Seen, Unseen
  <2>4. CASE s \notin Doomed /\ Spoiled(s)'
    <3>1. Doomed' = Doomed \cup {s}
      BY <1>1, <1>11, <2>4 DEF Doomed
    <3>2. OnTheWay(s)
      BY <1>9, <1>12, <1>15, <2>4, SeenFacts DEF OnTheWay
    <3>3. SeenLost(s)
      BY <1>8, <2>1, <3>1, <3>2 DEF SeenLost
    <3> QED BY <3>3 DEF Seen
  <2> QED BY <2>3, <2>4
<1> QED BY <1>13, <1>14, <1>15

LEMMA InitSeen ==
  ASSUME Init
  PROVE  Channel!Init
<1>1. /\ \A s \in Sets : asked[s] = None /\ messages[s] = None
      /\ \A r \in Replies : surbs[r] = None /\ texts[r] = None
      /\ \A n \in Nodes : \A s \in Sets : fragments[n][s] = <<>>
      /\ lost = {}
  BY DEF Init
<1>2. \A s \in Sets : SentMessage(s) = None
  BY <1>1 DEF SentMessage, AcceptedSet
<1>3. \A r \in Replies : SentText(r) = None /\ ReceivedText(r) = None
  BY <1>1 DEF SentText, ReceivedText
<1>4. ASSUME NEW n \in Nodes, NEW s \in Sets PROVE ~Repetitive(n, s)
  <2>1. Arrived(n, s) = {}
    BY <1>1, NothingArrived
  <2>2. Len(fragments[n][s]) = 0 /\ Cardinality(Arrived(n, s)) = 0
    BY <1>1, <2>1, FS_EmptySet
  <2> QED BY <2>2 DEF Repetitive
<1>5. lost \cup {s \in Sets : Spoiled(s)} = {}
  BY <1>1, <1>4 DEF Spoiled
<1> QED BY <1>1, <1>2, <1>3, <1>5 DEF Channel!Init

LEMMA StepSeen ==
  ASSUME ScyllaInv, WayInv, ScyllaInv', [Next]_vars
  PROVE  Seen
<1>1. ASSUME UNCHANGED vars PROVE Seen
  <2>1. UNCHANGED <<asked, surbs, packets, fragments, messages, texts, lost>>
    BY <1>1 DEF vars
  <2> QED BY <2>1, SentStays, ReceivedStays, DoomedStays DEF Seen, Unseen
<1> QED BY <1>1, SendSeen, HandOutSeen, AnswerSeen, ForwardSeen, CollectSeen, ReadReplySeen, LoseSeen
        DEF Next, Handle

(***************************************************************************)
(* Scylla implements the channel, whatever is lost, late or out of order:  *)
(* every message and every reply is received at most once, exactly as it   *)
(* was sent, and only if no part of it was lost or came twice before the   *)
(* rest.  (That one of the two happens needs fairness: ImplementsChannel.) *)
(***************************************************************************)
THEOREM ChannelRefined == Spec => Channel!Spec
<1>1. Init => Channel!Init
  BY InitSeen
<1>2. (ScyllaInv /\ WayInv) /\ (ScyllaInv /\ WayInv)' /\ [Next]_vars => [Channel!Next]_Channel!vars
  BY StepSeen, SeenIsStep
<1> QED BY <1>1, <1>2, WaySafe, PTL DEF Spec, Channel!Spec
===============================================================================
