------------------------------ MODULE BlockTheorems ------------------------------
(***************************************************************************)
(* Facts about sequences of blocks, of whatever kind, that the proofs      *)
(* about the packet formats rest on, and induction over the hops of a      *)
(* route.                                                                  *)
(***************************************************************************)
EXTENDS Blocks, SequenceTheorems, WellFoundedInduction, TLAPS

(***************************************************************************)
(* s is a sequence of n elements, of no set in particular.                 *)
(***************************************************************************)
IsSeq(s, n) == n \in Nat /\ s = [i \in 1..n |-> s[i]]

(***************************************************************************)
(* A sequence in this sense is one over the set of its elements, and the   *)
(* other way round.                                                        *)
(***************************************************************************)
LEMMA SeqOfElements ==
  ASSUME NEW s, NEW n, IsSeq(s, n)
  PROVE  /\ s \in Seq({s[i] : i \in 1..n}) /\ Len(s) = n /\ n \in Nat
         /\ DOMAIN s = 1..n
<1> DEFINE T == {s[i] : i \in 1..n}
<1>1. s \in [1..n -> T] /\ n \in Nat
  BY DEF IsSeq
<1>2. s \in Seq(T)
  BY <1>1, SeqDef
<1>3. Len(s) = n
  BY <1>1, <1>2, LenProperties
<1>4. DOMAIN s = 1..n
  BY <1>1
<1> QED BY <1>1, <1>2, <1>3, <1>4

LEMMA SeqIsSeq ==
  ASSUME NEW S, NEW s \in Seq(S)
  PROVE  IsSeq(s, Len(s)) /\ Len(s) \in Nat
BY LenProperties DEF IsSeq

LEMMA SameElements ==
  ASSUME NEW s, NEW t, NEW n, IsSeq(s, n), IsSeq(t, n), \A i \in 1..n : s[i] = t[i]
  PROVE  s = t
BY DEF IsSeq

(***************************************************************************)
(* Which elements concatenation, a part of a sequence, dropping the first  *)
(* elements, and the exclusive or have.                                    *)
(***************************************************************************)
IsConcat(r, s, m, t, n) ==
  /\ IsSeq(r, m + n)
  /\ \A i \in 1..m : r[i] = s[i]
  /\ \A i \in (m + 1)..(m + n) : r[i] = t[i - m]

LEMMA ConcatElements ==
  ASSUME NEW s, NEW t, NEW m, NEW n, IsSeq(s, m), IsSeq(t, n)
  PROVE  IsConcat(s \o t, s, m, t, n)
<1> DEFINE T == {s[i] : i \in 1..m} \cup {t[i] : i \in 1..n}
<1>1. m \in Nat /\ n \in Nat /\ s \in [1..m -> T] /\ t \in [1..n -> T]
  BY DEF IsSeq
<1>2. s \in Seq(T) /\ t \in Seq(T)
  <2> HIDE DEF T
  <2> QED BY <1>1, SeqDef
<1>3. Len(s) = m /\ Len(t) = n
  BY SeqOfElements
<1> HIDE DEF T
<1>4. /\ s \o t \in Seq(T) /\ Len(s \o t) = m + n
      /\ \A i \in 1..(m + n) : (s \o t)[i] = IF i <= m THEN s[i] ELSE t[i - m]
  BY <1>2, <1>3, ConcatProperties
<1>5. IsSeq(s \o t, m + n)
  BY <1>4, SeqIsSeq
<1> QED BY <1>1, <1>4, <1>5 DEF IsConcat

IsPart(r, s, a, b) ==
  /\ IsSeq(r, b - a + 1)
  /\ \A i \in 1..(b - a + 1) : r[i] = s[a + i - 1]

LEMMA PartElements ==
  ASSUME NEW s, NEW n, IsSeq(s, n), NEW a \in Nat \ {0}, NEW b \in 0..n, a <= b + 1
  PROVE  IsPart(SubSeq(s, a, b), s, a, b)
<1> DEFINE T == {s[i] : i \in 1..n}
           r == SubSeq(s, a, b)
<1>1. n \in Nat
  BY DEF IsSeq
<1>2. \A i \in a..b : s[i] \in T
  BY <1>1
<1> HIDE DEF T
<1>3. /\ r \in Seq(T) /\ Len(r) = IF a <= b THEN b - a + 1 ELSE 0
      /\ \A i \in 1..(b - a + 1) : r[i] = s[a + i - 1]
  BY <1>1, <1>2, SubSeqProperties
<1>4. b - a + 1 = Len(r)
  BY <1>1, <1>3
<1>5. IsSeq(r, b - a + 1)
  BY <1>3, <1>4, SeqIsSeq
<1> QED BY <1>3, <1>5 DEF IsPart

LEMMA DropElements ==
  ASSUME NEW s, NEW n, IsSeq(s, n), NEW k \in 0..n
  PROVE  /\ IsSeq(Drop(s, k), n - k)
         /\ \A i \in 1..(n - k) : Drop(s, k)[i] = s[k + i]
<1>1. Len(s) = n /\ n \in Nat
  BY SeqOfElements
<1>2. k + 1 \in Nat \ {0} /\ n \in 0..n /\ k + 1 <= n + 1
  BY <1>1
<1>3. /\ IsSeq(SubSeq(s, k + 1, n), n - (k + 1) + 1)
      /\ \A i \in 1..(n - (k + 1) + 1) : SubSeq(s, k + 1, n)[i] = s[(k + 1) + i - 1]
  BY <1>2, PartElements DEF IsPart
<1>4. n - (k + 1) + 1 = n - k /\ \A i \in Nat : (k + 1) + i - 1 = k + i
  BY <1>1
<1> QED BY <1>1, <1>3, <1>4 DEF Drop

IsXor(r, s, t, m) == IsSeq(r, m) /\ \A i \in 1..m : r[i] = SymDiff(s[i], t[i])

LEMMA XorElements ==
  ASSUME NEW s, NEW t, NEW m, NEW n, IsSeq(s, m), IsSeq(t, n), m <= n
  PROVE  IsXor(Xor(s, t), s, t, m)
<1>1. Len(s) = m /\ Len(t) = n /\ m \in Nat
  BY SeqOfElements
<1>2. Xor(s, t) = [i \in 1..m |-> SymDiff(s[i], t[i])]
  BY <1>1 DEF Xor
<1> QED BY <1>1, <1>2 DEF IsSeq, IsXor

LEMMA ZerosElements ==
  ASSUME NEW n \in Nat
  PROVE  IsSeq(Zeros(n), n) /\ \A i \in 1..n : Zeros(n)[i] = {}
BY DEF Zeros, IsSeq

LEMMA KeyStreamElements ==
  ASSUME NEW secret, NEW n \in Nat
  PROVE  IsSeq(KeyStream(secret, n), n)
BY DEF KeyStream, IsSeq

LEMMA EmptyIsSeq == IsSeq(<<>>, 0) /\ Len(<<>>) = 0
<1>1. <<>> \in Seq({}) /\ Len(<<>>) = 0
  BY EmptySeq
<1> QED BY <1>1, SeqIsSeq

(***************************************************************************)
(* What is encrypted twice with the same piece of key stream is back, and  *)
(* zeros become the key stream.                                            *)
(***************************************************************************)
LEMMA XorTwice ==
  ASSUME NEW a, NEW b
  PROVE  SymDiff(SymDiff(a, b), b) = a /\ SymDiff({}, b) = b
BY DEF SymDiff

(***************************************************************************)
(* A payload on which there are only layers of one kind, those of          *)
(* encryption or those of decryption.  One more of them is taken off again *)
(* by the other of the two under the same key.                             *)
(***************************************************************************)
Covered(d, tag, text) ==
  \E m \in Nat : /\ d = [text |-> text, layers |-> d.layers]
                 /\ IsSeq(d.layers, m)
                 /\ \A i \in 1..m : \E k : d.layers[i] = <<tag, k>>

IsTurned(turned, d, tag, other, key, text) ==
  /\ Covered(turned, tag, text)
  /\ Len(turned.layers) = Len(d.layers) + 1 /\ Len(d.layers) \in Nat
  /\ Turn(turned, <<other, key>>, <<tag, key>>) = d

LEMMA TurnsBack ==
  ASSUME NEW d, NEW text, NEW tag, NEW other, tag # other, Covered(d, tag, text), NEW key,
         NEW turned, turned = Turn(d, <<tag, key>>, <<other, key>>)
  PROVE  IsTurned(turned, d, tag, other, key, text)
<1>1. PICK m \in Nat : /\ d = [text |-> text, layers |-> d.layers]
                       /\ IsSeq(d.layers, m)
                       /\ \A i \in 1..m : \E k : d.layers[i] = <<tag, k>>
  BY DEF Covered
<1> DEFINE s == d.layers
           layer == <<tag, key>>
           t == Append(s, layer)
           S == {s[i] : i \in 1..m} \cup {layer}
           e == [text |-> text, layers |-> t]
<1>2. s \in Seq(S) /\ Len(s) = m /\ IsSeq(s, m)
  <2>1. s \in [1..m -> S]
    BY <1>1 DEF IsSeq
  <2> HIDE DEF S
  <2>2. s \in Seq(S)
    BY <2>1, SeqDef
  <2> QED BY <1>1, <2>2, SeqOfElements
<1>3. layer \in S
  OBVIOUS
<1>4. \A k, l : <<tag, k>> # <<other, l>>
  OBVIOUS
<1>5. \A i \in 1..m : \E k : s[i] = <<tag, k>>
  BY <1>1
<1> HIDE DEF S
<1>6. /\ t \in Seq(S) /\ Len(t) = m + 1 /\ t[m + 1] = layer
      /\ \A i \in 1..m : t[i] = s[i]
  BY <1>2, <1>3, AppendProperties
<1>7. d = [text |-> text, layers |-> s]
  BY <1>1
<1>8. layer = <<tag, key>>
  OBVIOUS
<1>9. turned = e
  <2>1. ~(s # <<>> /\ s[Len(s)] = <<other, key>>)
    <3> SUFFICES ASSUME s # <<>>, s[m] = <<other, key>> PROVE FALSE
      BY <1>2
    <3>1. m \in 1..m
      BY <1>2, EmptySeq
    <3> QED BY <1>4, <1>5, <3>1
  <2> HIDE DEF s
  <2>2. d.layers = s
    BY <1>7
  <2>3. [d EXCEPT !.layers = t] = e
    <3> HIDE DEF t
    <3> QED BY <1>7
  <2> QED BY <1>2, <1>8, <2>1, <2>2, <2>3 DEF Turn
<1> HIDE DEF s, layer, t
<1>10. /\ IsSeq(t, m + 1)
       /\ \A i \in 1..(m + 1) : \E k : t[i] = <<tag, k>>
  <2>1. IsSeq(t, m + 1)
    BY <1>6, SeqIsSeq
  <2>2. ASSUME NEW i \in 1..(m + 1) PROVE \E k : t[i] = <<tag, k>>
    <3>1. CASE i \in 1..m
      BY <1>5, <1>6, <3>1
    <3>2. CASE i = m + 1
      BY <1>6, <1>8, <3>2
    <3> QED BY <3>1, <3>2
  <2> QED BY <2>1, <2>2
<1>11. e.layers = t /\ e.text = text /\ e = [text |-> text, layers |-> e.layers]
  OBVIOUS
<1> HIDE DEF e
<1>12. Covered(e, tag, text)
  <2>1. m + 1 \in Nat
    OBVIOUS
  <2> QED BY <1>10, <1>11, <2>1 DEF Covered
<1>13. SubSeq(t, 1, Len(t) - 1) = s
  <2>1. Len(t) - 1 = m /\ m \in 0..(m + 1) /\ 1 <= m + 1 /\ 1 \in Nat \ {0}
    BY <1>6
  <2> DEFINE c == m + 1
  <2>2. IsSeq(t, c) /\ m \in 0..c
    BY <1>10
  <2> HIDE DEF c
  <2>3. IsPart(SubSeq(t, 1, m), t, 1, m)
    BY <2>1, <2>2, PartElements
  <2>4. m - 1 + 1 = m /\ \A i \in 1..m : 1 + i - 1 = i
    OBVIOUS
  <2>5. IsSeq(SubSeq(t, 1, m), m) /\ \A i \in 1..m : SubSeq(t, 1, m)[i] = s[i]
    BY <1>6, <2>3, <2>4 DEF IsPart
  <2>6. SubSeq(t, 1, m) = s
    BY <1>2, <2>5, SameElements
  <2> QED BY <2>1, <2>6
<1>14. Turn(e, <<other, key>>, <<tag, key>>) = d
  <2>1. t # <<>> /\ t[Len(t)] = <<tag, key>>
    BY <1>6, <1>8, EmptySeq
  <2>2. e = [text |-> text, layers |-> t]
    BY <1>11
  <2>3. Turn(e, <<other, key>>, <<tag, key>>) = [e EXCEPT !.layers = SubSeq(t, 1, Len(t) - 1)]
    BY <1>11, <2>1 DEF Turn
  <2>4. [e EXCEPT !.layers = s] = [text |-> text, layers |-> s]
    BY <2>2
  <2> QED BY <1>7, <1>13, <2>3, <2>4
<1>15. Len(e.layers) = Len(d.layers) + 1 /\ Len(d.layers) \in Nat
  BY <1>2, <1>6, <1>7, <1>11
<1> QED BY <1>9, <1>12, <1>14, <1>15 DEF IsTurned

-------------------------------------------------------------------------------
(***************************************************************************)
(* Induction, and induction from n down to 1.                              *)
(***************************************************************************)
LEMMA NatSetInduction ==
  ASSUME NEW S, 0 \in S, \A n \in Nat : n \in S => n + 1 \in S
  PROVE  Nat \subseteq S
<1>1. SUFFICES ASSUME Nat \ S # {} PROVE FALSE
  OBVIOUS
<1>2. PICK x \in Nat \ S : \A y \in Nat \ S : ~(<<y, x>> \in OpToRel(<, Nat))
  <2> DEFINE T == Nat \ S
  <2>1. T \subseteq Nat /\ T # {}
    BY <1>1
  <2> QED BY <2>1, NatLessThanWellFounded, WFMin
<1>3. x - 1 \in Nat /\ x - 1 \notin S
  <2>1. x # 0
    OBVIOUS
  <2> QED BY <2>1
<1>4. <<x - 1, x>> \in OpToRel(<, Nat)
  BY <1>3 DEF OpToRel
<1> QED BY <1>2, <1>3, <1>4

LEMMA DownwardInduction ==
  ASSUME NEW n \in Nat, NEW S, n \in S, \A i \in 1..(n - 1) : i + 1 \in S => i \in S
  PROVE  \A i \in 1..n : i \in S
<1> DEFINE T == {k \in Nat : n - k \in 1..n => n - k \in S}
<1>1. 0 \in T
  OBVIOUS
<1>2. ASSUME NEW k \in Nat, k \in T PROVE k + 1 \in T
  <2> SUFFICES ASSUME n - (k + 1) \in 1..n PROVE n - (k + 1) \in S
    OBVIOUS
  <2> DEFINE i == n - (k + 1)
  <2>1. i \in 1..(n - 1) /\ i + 1 = n - k /\ n - k \in 1..n
    OBVIOUS
  <2>2. i + 1 \in S
    BY <1>2, <2>1
  <2> HIDE DEF i
  <2>3. i \in S
    BY <2>1, <2>2
  <2> QED BY <2>3 DEF i
<1> HIDE DEF T
<1>3. Nat \subseteq T
  BY <1>1, <1>2, NatSetInduction
<1> SUFFICES ASSUME NEW i \in 1..n PROVE i \in S
  OBVIOUS
<1>4. n - i \in T /\ n - (n - i) = i
  BY <1>3
<1> QED BY <1>4 DEF T

===============================================================================
