--------------------------- MODULE LatencySimProofs ---------------------------
(***************************************************************************)
(* Proofs about the event queues, for every queue, and about the           *)
(* simulation, for all nodes, routes, message sizes, timeouts and bounds.  *)
(***************************************************************************)
EXTENDS LatencySim, TLAPS, FiniteSetTheorems, SequenceTheorems, WellFoundedInduction

(***************************************************************************)
(* The positions of a queue of length n.                                   *)
(***************************************************************************)
LEMMA InitialSegment ==
  ASSUME NEW n \in Nat
  PROVE  IsFiniteSet(1..n) /\ Cardinality(1..n) = n
BY FS_Interval

(***************************************************************************)
(* A queue as a function of its positions.                                 *)
(***************************************************************************)
LEMMA QueueEntries ==
  ASSUME NEW S, NEW q \in Queues(S)
  PROVE  /\ Len(q) \in Nat
         /\ DOMAIN q = 1..Len(q)
         /\ \A i \in 1..Len(q) : /\ q[i] \in [time : Nat, item : S]
                                 /\ q[i].time \in Nat
                                 /\ q[i].item \in S
                                 /\ q[i] = Entry(q[i].time, q[i].item)
<1>1. /\ Len(q) \in Nat
      /\ q \in [1..Len(q) -> [time : Nat, item : S]]
  BY LenProperties DEF Queues
<1>2. ASSUME NEW i \in 1..Len(q)
      PROVE  /\ q[i] \in [time : Nat, item : S]
             /\ q[i].time \in Nat
             /\ q[i].item \in S
             /\ q[i] = Entry(q[i].time, q[i].item)
  BY <1>1 DEF Entry
<1> QED BY <1>1, <1>2

(***************************************************************************)
(* On a sorted list the predicate "time <= t" holds of a first part and of *)
(* nothing after it: partition_point is defined.  The length of that part  *)
(* is the number of entries that satisfy the predicate.                    *)
(***************************************************************************)
LEMMA PartitionPointProperties ==
  ASSUME NEW S, NEW q \in Queues(S), NEW t \in Nat, SortedByTime(q)
  PROVE  /\ PartitionPoint(q, t) \in 0..Len(q)
         /\ \A i \in 1..PartitionPoint(q, t) : q[i].time <= t
         /\ \A i \in (PartitionPoint(q, t) + 1)..Len(q) : t < q[i].time
<1> DEFINE T == {i \in 1..Len(q) : q[i].time <= t}
           k == Cardinality(T)
<1>1. Len(q) \in Nat /\ \A i \in 1..Len(q) : q[i].time \in Nat
  BY QueueEntries
<1>2. /\ IsFiniteSet(1..Len(q))
      /\ Cardinality(1..Len(q)) = Len(q)
  BY <1>1, InitialSegment
<1>3. /\ IsFiniteSet(T)
      /\ k \in 0..Len(q)
  <2>1. IsFiniteSet(T) /\ Cardinality(T) <= Cardinality(1..Len(q))
    BY <1>2, FS_Subset
  <2> QED BY <2>1, <1>2, <1>1, FS_CardinalityType
<1>4. ASSUME NEW i \in T PROVE i <= k
  <2>1. i \in 1..Len(q) /\ 1..i \subseteq T
    BY <1>1 DEF SortedByTime
  <2>2. Cardinality(1..i) <= k
    BY <2>1, <1>3, FS_Subset
  <2>3. Cardinality(1..i) = i
    BY <2>1, <1>1, InitialSegment
  <2> QED BY <2>2, <2>3
<1>5. T = 1..k
  <2>1. IsFiniteSet(1..k) /\ Cardinality(1..k) = k
    BY <1>3, <1>1, InitialSegment
  <2>2. T \in SUBSET (1..k)
    BY <1>4, <1>3, <1>1
  <2> QED BY <2>1, <2>2, FS_Subset
<1>6. /\ \A i \in 1..k : q[i].time <= t
      /\ \A i \in (k + 1)..Len(q) : t < q[i].time
  <2>1. \A i \in 1..k : q[i].time <= t
    BY <1>5
  <2>2. ASSUME NEW i \in (k + 1)..Len(q) PROVE t < q[i].time
    <3>1. i \in 1..Len(q) /\ i \notin 1..k
      BY <1>3, <1>1
    <3>2. ~ (q[i].time <= t)
      BY <3>1, <1>5
    <3> QED BY <3>1, <3>2, <1>1
  <2> QED BY <2>1, <2>2
<1> HIDE DEF k
<1> QED BY <1>3, <1>6 DEF PartitionPoint

(***************************************************************************)
(* Positions of the list InsertAll returns: the entries due at or before t *)
(* first, then the new ones in their order, then the later entries.        *)
(***************************************************************************)
LEMMA InsertAllEntries ==
  ASSUME NEW S, NEW q \in Queues(S), NEW t \in Nat, SortedByTime(q),
         NEW xs \in Seq(S)
  PROVE  LET k == PartitionPoint(q, t)
             r == InsertAll(q, t, xs)
         IN  /\ r \in Queues(S)
             /\ Len(r) = Len(q) + Len(xs)
             /\ \A i \in 1..Len(r) :
                  r[i] = IF i <= k THEN q[i]
                         ELSE IF i <= k + Len(xs) THEN Entry(t, xs[i - k])
                         ELSE q[i - Len(xs)]
<1> DEFINE k == PartitionPoint(q, t)
           n == Len(xs)
           E == [time : Nat, item : S]
           r == InsertAll(q, t, xs)
<1>1. k \in 0..Len(q) /\ Len(q) \in Nat /\ \A i \in 1..Len(q) : q[i] \in E
  BY PartitionPointProperties, QueueEntries
<1>2. n \in Nat /\ \A i \in 1..n : Entry(t, xs[i]) \in E
  BY LenProperties DEF Entry
<1>3. r = [i \in 1..(Len(q) + n) |-> IF i <= k THEN q[i]
                                    ELSE IF i <= k + n THEN Entry(t, xs[i - k])
                                    ELSE q[i - n]]
  BY DEF InsertAll
<1> HIDE DEF k, n, E, r
<1>4. ASSUME NEW i \in 1..(Len(q) + n) PROVE r[i] \in E
  <2>1. CASE i <= k
    BY <2>1, <1>1, <1>3
  <2>2. CASE ~ (i <= k) /\ i <= k + n
    <3>1. i - k \in 1..n
      BY <2>2, <1>1, <1>2
    <3> QED BY <3>1, <2>2, <1>2, <1>3
  <2>3. CASE ~ (i <= k) /\ ~ (i <= k + n)
    <3>1. i - n \in 1..Len(q)
      BY <2>3, <1>1, <1>2
    <3> QED BY <3>1, <2>3, <1>1, <1>3
  <2> QED BY <2>1, <2>2, <2>3
<1>5. r \in Seq(E) /\ Len(r) = Len(q) + n
  <2>1. Len(q) + n \in Nat
    BY <1>1, <1>2
  <2>2. r \in [1..(Len(q) + n) -> E]
    BY <1>3, <1>4
  <2> QED BY <2>1, <2>2, IsASeq, LenProperties
<1>6. \A i \in 1..Len(r) : r[i] = IF i <= k THEN q[i]
                                 ELSE IF i <= k + n THEN Entry(t, xs[i - k])
                                 ELSE q[i - n]
  BY <1>3, <1>5
<1> QED BY <1>5, <1>6 DEF k, n, E, r, Queues

(***************************************************************************)
(* The entries of a queue, without their places in it.                     *)
(***************************************************************************)
Entries(q) == {q[i] : i \in 1..Len(q)}

(***************************************************************************)
(* Insertion at the partition point keeps a queue sorted, adds nothing due *)
(* before u when t is not before u, and adds exactly the items of xs.      *)
(***************************************************************************)
LEMMA InsertAllProperties ==
  ASSUME NEW S, NEW q \in Queues(S), NEW t \in Nat, SortedByTime(q),
         NEW xs \in Seq(S)
  PROVE  LET r == InsertAll(q, t, xs)
         IN  /\ r \in Queues(S)
             /\ SortedByTime(r)
             /\ \A u \in Nat : u <= t /\ NothingBefore(q, u) => NothingBefore(r, u)
             /\ Items(r) = Items(q) \cup {xs[i] : i \in 1..Len(xs)}
             /\ Entries(r) = Entries(q) \cup {Entry(t, xs[i]) : i \in 1..Len(xs)}
<1> DEFINE k == PartitionPoint(q, t)
           n == Len(xs)
           r == InsertAll(q, t, xs)
<1>1. /\ k \in 0..Len(q) /\ Len(q) \in Nat
      /\ \A i \in 1..k : q[i].time <= t
      /\ \A i \in (k + 1)..Len(q) : t < q[i].time
      /\ \A i \in 1..Len(q) : q[i].time \in Nat
  BY PartitionPointProperties, QueueEntries
<1>2. n \in Nat
  BY LenProperties
<1>3. /\ r \in Queues(S) /\ Len(r) = Len(q) + n
      /\ \A i \in 1..Len(r) : r[i] = IF i <= k THEN q[i]
                                     ELSE IF i <= k + n THEN Entry(t, xs[i - k])
                                     ELSE q[i - n]
  BY InsertAllEntries
<1> HIDE DEF k, n, r
<1>4. \A i \in 1..Len(r) :
        /\ i <= k => i \in 1..Len(q) /\ r[i].time = q[i].time /\ r[i].item = q[i].item
        /\ ~(i <= k) /\ i <= k + n => i - k \in 1..n /\ r[i].time = t /\ r[i].item = xs[i - k]
        /\ ~(i <= k + n) => /\ i - n \in (k + 1)..Len(q)
                             /\ r[i].time = q[i - n].time /\ r[i].item = q[i - n].item
  BY <1>1, <1>2, <1>3 DEF Entry
<1>5. SortedByTime(r)
  <2> SUFFICES ASSUME NEW i \in 1..Len(r), NEW j \in 1..Len(r), i <= j
               PROVE  r[i].time <= r[j].time
    BY DEF SortedByTime
  <2>1. CASE j <= k
    BY <2>1, <1>1, <1>2, <1>3, <1>4 DEF SortedByTime
  <2>2. CASE ~(j <= k) /\ j <= k + n
    BY <2>2, <1>1, <1>2, <1>3, <1>4
  <2>3. CASE ~(j <= k + n) /\ i <= k + n
    <3>1. t < r[j].time /\ r[j].time \in Nat
      <4>1. j - n \in (k + 1)..Len(q) /\ r[j].time = q[j - n].time
        BY <2>3, <1>4
      <4> QED BY <1>1, <4>1
    <3>2. r[i].time <= t /\ r[i].time \in Nat
      BY <2>3, <1>1, <1>2, <1>3, <1>4
    <3> QED BY <3>1, <3>2
  <2>4. CASE ~(j <= k + n) /\ ~(i <= k + n)
    <3>1. i - n \in 1..Len(q) /\ j - n \in 1..Len(q) /\ i - n <= j - n
      BY <2>4, <1>1, <1>2, <1>3
    <3>2. q[i - n].time <= q[j - n].time
      BY <3>1 DEF SortedByTime
    <3> QED BY <2>4, <3>2, <1>4
  <2> QED BY <2>1, <2>2, <2>3, <2>4
<1>6. ASSUME NEW u \in Nat, u <= t, NothingBefore(q, u) PROVE NothingBefore(r, u)
  <2> SUFFICES ASSUME NEW i \in 1..Len(r) PROVE u <= r[i].time
    BY DEF NothingBefore
  <2>1. CASE i <= k
    BY <2>1, <1>4, <1>6 DEF NothingBefore
  <2>2. CASE ~(i <= k) /\ i <= k + n
    BY <2>2, <1>4, <1>6
  <2>3. CASE ~(i <= k + n)
    <3>1. i - n \in 1..Len(q)
      BY <2>3, <1>4, <1>1
    <3> QED BY <2>3, <3>1, <1>4, <1>6 DEF NothingBefore
  <2> QED BY <2>1, <2>2, <2>3, <1>1, <1>2, <1>3
<1>7. Items(r) = Items(q) \cup {xs[i] : i \in 1..n}
  <2>1. ASSUME NEW i \in 1..Len(r) PROVE r[i].item \in Items(q) \cup {xs[j] : j \in 1..n}
    BY <1>4, <1>1, <1>2, <1>3 DEF Items
  <2>2. ASSUME NEW i \in 1..Len(q) PROVE q[i].item \in Items(r)
    <3>1. CASE i <= k
      BY <3>1, <1>4, <1>1, <1>2, <1>3 DEF Items
    <3>2. CASE ~(i <= k)
      <4>1. i + n \in 1..Len(r) /\ ~(i + n <= k + n) /\ (i + n) - n = i
        BY <3>2, <1>1, <1>2, <1>3
      <4> QED BY <4>1, <1>4 DEF Items
    <3> QED BY <3>1, <3>2
  <2>3. ASSUME NEW i \in 1..n PROVE xs[i] \in Items(r)
    <3>1. i + k \in 1..Len(r) /\ ~(i + k <= k) /\ i + k <= k + n /\ (i + k) - k = i
      BY <1>1, <1>2, <1>3
    <3> QED BY <3>1, <1>4 DEF Items
  <2> QED BY <2>1, <2>2, <2>3 DEF Items
<1>8. Entries(r) = Entries(q) \cup {Entry(t, xs[i]) : i \in 1..n}
  <2>1. ASSUME NEW i \in 1..Len(r) PROVE r[i] \in Entries(q) \cup {Entry(t, xs[j]) : j \in 1..n}
    <3>1. CASE i <= k
      BY <3>1, <1>1, <1>2, <1>3 DEF Entries
    <3>2. CASE ~(i <= k) /\ i <= k + n
      BY <3>2, <1>1, <1>2, <1>3
    <3>3. CASE ~(i <= k + n)
      <4>1. i - n \in 1..Len(q) /\ r[i] = q[i - n]
        BY <3>3, <1>1, <1>2, <1>3
      <4> QED BY <4>1 DEF Entries
    <3> QED BY <3>1, <3>2, <3>3
  <2>2. ASSUME NEW i \in 1..Len(q) PROVE q[i] \in Entries(r)
    <3>1. CASE i <= k
      BY <3>1, <1>1, <1>2, <1>3 DEF Entries
    <3>2. CASE ~(i <= k)
      <4>1. i + n \in 1..Len(r) /\ ~(i + n <= k + n) /\ ~(i + n <= k) /\ (i + n) - n = i
        BY <3>2, <1>1, <1>2, <1>3
      <4>2. r[i + n] = q[i]
        BY <4>1, <1>3
      <4> QED BY <4>1, <4>2 DEF Entries
    <3> QED BY <3>1, <3>2
  <2>3. ASSUME NEW i \in 1..n PROVE Entry(t, xs[i]) \in Entries(r)
    <3>1. i + k \in 1..Len(r) /\ ~(i + k <= k) /\ i + k <= k + n /\ (i + k) - k = i
      BY <1>1, <1>2, <1>3
    <3>2. r[i + k] = Entry(t, xs[i])
      BY <3>1, <1>3
    <3> QED BY <3>1, <3>2 DEF Entries
  <2> QED BY <2>1, <2>2, <2>3 DEF Entries
<1> QED BY <1>3, <1>5, <1>6, <1>7, <1>8 DEF r, n

(***************************************************************************)
(* Popping the front of a nonempty queue: what was due is the least time,  *)
(* and only the front's item can disappear.                                *)
(***************************************************************************)
LEMMA PopProperties ==
  ASSUME NEW S, NEW q \in Queues(S), q # <<>>, SortedByTime(q)
  PROVE  /\ NextTime(q) \in Nat
         /\ NextItem(q) \in S
         /\ NothingBefore(q, NextTime(q))
         /\ Pop(q) \in Queues(S)
         /\ SortedByTime(Pop(q))
         /\ NothingBefore(Pop(q), NextTime(q))
         /\ NextItem(q) \in Items(q)
         /\ Items(q) = Items(Pop(q)) \cup {NextItem(q)}
         /\ Entries(q) = Entries(Pop(q)) \cup {Entry(NextTime(q), NextItem(q))}
<1>1. Len(q) \in Nat /\ 1 \in 1..Len(q) /\ Head(q) = q[1]
  BY DEF Queues
<1>2. /\ Pop(q) \in Queues(S) /\ Len(Pop(q)) = Len(q) - 1
      /\ \A i \in 1..(Len(q) - 1) : Pop(q)[i] = q[i + 1]
  BY HeadTailProperties DEF Queues, Pop
<1>3. NextTime(q) \in Nat /\ NextItem(q) \in S
  BY <1>1, QueueEntries DEF NextTime, NextItem
<1>4. NothingBefore(q, NextTime(q))
  BY <1>1 DEF NothingBefore, NextTime, SortedByTime
<1>5. SortedByTime(Pop(q))
  BY <1>1, <1>2 DEF SortedByTime
<1>6. NothingBefore(Pop(q), NextTime(q))
  BY <1>1, <1>2, <1>4 DEF NothingBefore
<1>7. Items(q) = Items(Pop(q)) \cup {NextItem(q)}
  <2>1. ASSUME NEW i \in 1..Len(q) PROVE q[i].item \in Items(Pop(q)) \cup {NextItem(q)}
    <3>1. CASE i = 1
      BY <3>1, <1>1 DEF NextItem
    <3>2. CASE i # 1
      <4>1. i - 1 \in 1..(Len(q) - 1) /\ (i - 1) + 1 = i
        BY <3>2, <1>1
      <4> QED BY <4>1, <1>2 DEF Items
    <3> QED BY <3>1, <3>2
  <2>2. ASSUME NEW i \in 1..Len(Pop(q)) PROVE Pop(q)[i].item \in Items(q)
    <3>1. i + 1 \in 1..Len(q) /\ Pop(q)[i] = q[i + 1]
      BY <1>1, <1>2
    <3> QED BY <3>1 DEF Items
  <2>3. NextItem(q) \in Items(q)
    BY <1>1 DEF Items, NextItem
  <2> QED BY <2>1, <2>2, <2>3 DEF Items
<1>8. Entries(q) = Entries(Pop(q)) \cup {Entry(NextTime(q), NextItem(q))}
  <2>1. Entry(NextTime(q), NextItem(q)) = q[1]
    BY <1>1, QueueEntries DEF NextTime, NextItem
  <2>2. ASSUME NEW i \in 1..Len(q) PROVE q[i] \in Entries(Pop(q)) \cup {q[1]}
    <3>1. CASE i = 1
      BY <3>1
    <3>2. CASE i # 1
      <4>1. i - 1 \in 1..(Len(q) - 1) /\ (i - 1) + 1 = i
        BY <3>2, <1>1
      <4> QED BY <4>1, <1>2 DEF Entries
    <3> QED BY <3>1, <3>2
  <2>3. ASSUME NEW i \in 1..Len(Pop(q)) PROVE Pop(q)[i] \in Entries(q)
    <3>1. i + 1 \in 1..Len(q) /\ Pop(q)[i] = q[i + 1]
      BY <1>1, <1>2
    <3> QED BY <3>1 DEF Entries
  <2>4. q[1] \in Entries(q)
    BY <1>1 DEF Entries
  <2> QED BY <2>1, <2>2, <2>3, <2>4 DEF Entries
<1> QED BY <1>2, <1>3, <1>4, <1>5, <1>6, <1>7, <1>8

(***************************************************************************)
(* The ranks of a set of positions number them from 1, in order.           *)
(***************************************************************************)
LEMMA RankProperties ==
  ASSUME NEW m \in Nat, NEW K, K \subseteq 1..m
  PROVE  /\ IsFiniteSet(K)
         /\ Cardinality(K) \in Nat
         /\ \A i \in K : Rank(K, i) \in 1..Cardinality(K)
         /\ \A i, j \in K : i < j => Rank(K, i) < Rank(K, j)
         /\ \A n \in 1..Cardinality(K) : \E i \in K : Rank(K, i) = n
<1> DEFINE Upto(i) == {j \in K : j <= i}
<1>1. IsFiniteSet(K) /\ Cardinality(K) \in Nat
  BY InitialSegment, FS_Subset, FS_CardinalityType
<1>0. \A i \in K : i \in Nat
  OBVIOUS
<1>2. ASSUME NEW i \in K
      PROVE  IsFiniteSet(Upto(i)) /\ Rank(K, i) \in 1..Cardinality(K)
  <2>1. IsFiniteSet(Upto(i)) /\ Cardinality(Upto(i)) <= Cardinality(K)
    BY <1>1, FS_Subset
  <2>2. Cardinality(Upto(i)) \in Nat /\ Cardinality(Upto(i)) # 0
    <3>1. i \in Upto(i)
      OBVIOUS
    <3> QED BY <2>1, <3>1, FS_CardinalityType, FS_EmptySet
  <2> QED BY <1>1, <2>1, <2>2 DEF Rank
<1>3. ASSUME NEW i \in K, NEW j \in K, i < j
      PROVE  Rank(K, i) < Rank(K, j)
  <2>1. Upto(i) \subseteq Upto(j) /\ j \in Upto(j) /\ j \notin Upto(i)
    <3>1. \A x \in K : x <= i => x <= j
      BY <1>3, <1>0
    <3>2. j <= j /\ ~(j <= i)
      BY <1>3, <1>0
    <3> QED BY <3>1, <3>2
  <2>2. Cardinality(Upto(i)) <= Cardinality(Upto(j)) /\ Cardinality(Upto(i)) # Cardinality(Upto(j))
    BY <2>1, <1>2, FS_Subset
  <2> QED BY <2>2, <1>2 DEF Rank
<1>4. \A i \in K : Rank(K, i) \in Nat
  <2> HIDE DEF Upto
  <2> QED BY <1>1, <1>2
<1>5. ASSUME NEW n \in 1..Cardinality(K) PROVE \E i \in K : Rank(K, i) = n
  <2> DEFINE N == 1..Cardinality(K)
             f == [i \in K |-> Rank(K, i)]
  <2>1. f \in Injection(K, N)
    <3>1. f \in [K -> N]
      BY <1>2
    <3>2. ASSUME NEW i \in K, NEW j \in K, f[i] = f[j] PROVE i = j
      <4>1. Rank(K, i) = Rank(K, j)
        BY <3>2
      <4>2. Rank(K, i) \in Nat /\ Rank(K, j) \in Nat
        BY <1>4
      <4>3. ~(i < j) /\ ~(j < i)
        BY <4>1, <4>2, <1>3
      <4> QED BY <4>3, <1>0
    <3> QED BY <3>1, <3>2 DEF Injection, IsInjective
  <2>2. IsFiniteSet(N) /\ Cardinality(N) = Cardinality(K)
    BY <1>1, InitialSegment
  <2>3. f \in Surjection(K, N)
    BY <2>1, <2>2, FS_Injection
  <2> QED BY <2>3 DEF Surjection
<1> QED BY <1>1, <1>2, <1>3, <1>5

(***************************************************************************)
(* What an order of the items means: no pair of W is one of an item and of *)
(* one behind it.  And no item of K is due after t.                        *)
(***************************************************************************)
Avoids(q, W) == \A i, j \in 1..Len(q) : i < j => <<q[i].item, q[j].item>> \notin W

NoneAfter(q, t, K) == \A i \in 1..Len(q) : q[i].item \in K => q[i].time <= t

(***************************************************************************)
(* Cancelling x keeps the order of the entries that stay: each of them is  *)
(* an entry of q, at the position of its rank, and every entry whose item  *)
(* is not x stays.                                                         *)
(***************************************************************************)
LEMMA CancelProperties ==
  ASSUME NEW S, NEW q \in Queues(S), SortedByTime(q), NEW x
  PROVE  LET r == Cancel(q, x)
         IN  /\ r \in Queues(S)
             /\ SortedByTime(r)
             /\ \A u : NothingBefore(q, u) => NothingBefore(r, u)
             /\ Items(r) = Items(q) \ {x}
             /\ Entries(r) = {e \in Entries(q) : e.item # x}
             /\ \A W : Avoids(q, W) => Avoids(r, W)
             /\ \A t, K : NoneAfter(q, t, K) => NoneAfter(r, t, K)
<1> DEFINE kept == {i \in 1..Len(q) : q[i].item # x}
           c == Cardinality(kept)
           pos(n) == CHOOSE i \in kept : Rank(kept, i) = n
           r == Cancel(q, x)
<1>1. Len(q) \in Nat /\ \A i \in 1..Len(q) : q[i] \in [time : Nat, item : S]
  BY QueueEntries
<1>2. /\ c \in Nat
      /\ \A i \in kept : Rank(kept, i) \in 1..c
      /\ \A i, j \in kept : i < j => Rank(kept, i) < Rank(kept, j)
      /\ \A n \in 1..c : \E i \in kept : Rank(kept, i) = n
  <2>1. kept \subseteq 1..Len(q)
    OBVIOUS
  <2> HIDE DEF kept
  <2> QED BY <1>1, <2>1, RankProperties
<1>3. \A i \in kept : i \in 1..Len(q) /\ i \in Nat /\ q[i].item # x
  BY <1>1
<1>4. \A i \in 1..Len(q) : q[i].item # x => i \in kept
  OBVIOUS
<1>5. r = [n \in 1..c |-> q[pos(n)]]
  BY DEF Cancel
<1> HIDE DEF kept, c, r
<1>6. \A n \in 1..c : pos(n) \in kept /\ Rank(kept, pos(n)) = n
  BY <1>2
<1>7. \A n \in 1..c : r[n] = q[pos(n)]
  BY <1>5
<1>8. \A n, m \in 1..c : n <= m => pos(n) <= pos(m)
  <2> SUFFICES ASSUME NEW n \in 1..c, NEW m \in 1..c, n <= m
               PROVE  pos(n) <= pos(m)
    OBVIOUS
  <2>1. /\ pos(n) \in kept /\ pos(m) \in kept /\ pos(n) \in Nat /\ pos(m) \in Nat
        /\ Rank(kept, pos(n)) = n /\ Rank(kept, pos(m)) = m
    BY <1>6, <1>3
  <2> HIDE DEF pos
  <2> QED BY <2>1, <1>2
<1> HIDE DEF pos
<1>9. r \in Queues(S) /\ Len(r) = c
  <2> DEFINE E == [time : Nat, item : S]
  <2>1. r \in [1..c -> E]
    BY <1>1, <1>3, <1>5, <1>6
  <2> HIDE DEF E
  <2>2. r \in Seq(E) /\ Len(r) = c
    BY <2>1, <1>2, IsASeq, LenProperties
  <2> QED BY <2>2 DEF Queues, E
<1>10. SortedByTime(r)
  BY <1>3, <1>6, <1>7, <1>8, <1>9 DEF SortedByTime
<1>11. ASSUME NEW u, NothingBefore(q, u) PROVE NothingBefore(r, u)
  BY <1>3, <1>6, <1>7, <1>9, <1>11 DEF NothingBefore
<1>12. Entries(r) = {e \in Entries(q) : e.item # x} /\ Items(r) = Items(q) \ {x}
  <2>1. ASSUME NEW n \in 1..Len(r)
        PROVE  r[n] \in Entries(q) /\ r[n].item \in Items(q) \ {x}
    BY <1>3, <1>6, <1>7, <1>9 DEF Items, Entries
  <2>2. ASSUME NEW i \in 1..Len(q), q[i].item # x
        PROVE  q[i] \in Entries(r) /\ q[i].item \in Items(r)
    <3>1. i \in kept /\ Rank(kept, i) \in 1..c
      BY <2>2, <1>4, <1>2
    <3>2. pos(Rank(kept, i)) = i
      <4> DEFINE p == pos(Rank(kept, i))
      <4>1. p \in kept /\ Rank(kept, p) = Rank(kept, i)
        BY <3>1, <1>6
      <4> HIDE DEF p
      <4>2. Rank(kept, i) \in Nat /\ ~(p < i) /\ ~(i < p)
        BY <4>1, <3>1, <1>2
      <4>3. p = i
        BY <4>1, <4>2, <3>1, <1>3
      <4> QED BY <4>3 DEF p
    <3> QED BY <3>1, <3>2, <1>7, <1>9 DEF Items, Entries
  <2>3. Items(r) = Items(q) \ {x}
    BY <2>1, <2>2 DEF Items
  <2>4. Entries(r) = {e \in Entries(q) : e.item # x}
    BY <2>1, <2>2 DEF Items, Entries
  <2> QED BY <2>3, <2>4
<1>13. ASSUME NEW W, Avoids(q, W) PROVE Avoids(r, W)
  <2> SUFFICES ASSUME NEW n \in 1..Len(r), NEW m \in 1..Len(r), n < m
               PROVE  <<r[n].item, r[m].item>> \notin W
    BY DEF Avoids
  <2>1. n \in 1..c /\ m \in 1..c /\ n <= m
    BY <1>2, <1>9
  <2>2. pos(n) \in 1..Len(q) /\ pos(m) \in 1..Len(q) /\ pos(n) <= pos(m) /\ pos(n) # pos(m)
    BY <1>3, <1>6, <1>8, <2>1
  <2>3. pos(n) < pos(m)
    BY <1>1, <2>2
  <2> QED BY <1>7, <1>13, <2>1, <2>2, <2>3 DEF Avoids
<1>14. ASSUME NEW t, NEW K, NoneAfter(q, t, K) PROVE NoneAfter(r, t, K)
  BY <1>3, <1>6, <1>7, <1>9, <1>14 DEF NoneAfter
<1> QED BY <1>9, <1>10, <1>11, <1>12, <1>13, <1>14 DEF r

(***************************************************************************)
(* A queue of items of S in which nothing is due before t, and what leaves *)
(* it one.                                                                 *)
(***************************************************************************)
DueFrom(q, S, t) == q \in Queues(S) /\ SortedByTime(q) /\ NothingBefore(q, t)

LEMMA DueEmpty ==
  ASSUME NEW S, NEW t
  PROVE  DueFrom(<<>>, S, t)
BY EmptySeq DEF DueFrom, Queues, SortedByTime, NothingBefore

LEMMA DueInsertAll ==
  ASSUME NEW S, NEW t \in Nat, NEW q, DueFrom(q, S, t), NEW v \in Nat, t <= v,
         NEW xs \in Seq(S)
  PROVE  DueFrom(InsertAll(q, v, xs), S, t)
BY InsertAllProperties DEF DueFrom

LEMMA DueInsert ==
  ASSUME NEW S, NEW t \in Nat, NEW q, DueFrom(q, S, t), NEW v \in Nat, t <= v, NEW x \in S
  PROVE  DueFrom(Insert(q, v, x), S, t)
<1>1. <<x>> \in Seq(S)
  OBVIOUS
<1> QED BY <1>1, DueInsertAll DEF Insert

LEMMA DueCancel ==
  ASSUME NEW S, NEW t, NEW q, DueFrom(q, S, t), NEW x
  PROVE  DueFrom(Cancel(q, x), S, t)
BY CancelProperties DEF DueFrom

(***************************************************************************)
(* The queue whose front is least can be popped, and no queue whose front  *)
(* is at or after v holds anything before v.                               *)
(***************************************************************************)
LEMMA DuePop ==
  ASSUME NEW S, NEW t, NEW q, DueFrom(q, S, t), q # <<>>
  PROVE  /\ NextTime(q) \in Nat /\ NextItem(q) \in S
         /\ DueFrom(Pop(q), S, NextTime(q))
BY PopProperties DEF DueFrom

LEMMA DueLater ==
  ASSUME NEW S, NEW t, NEW q, DueFrom(q, S, t), NEW v \in Nat,
         q # <<>> => v <= NextTime(q)
  PROVE  DueFrom(q, S, v)
<1>1. CASE q = <<>>
  BY <1>1, DueEmpty
<1>2. CASE q # <<>>
  <2>1. NextTime(q) \in Nat /\ NothingBefore(q, NextTime(q))
    BY <1>2, PopProperties DEF DueFrom
  <2>2. \A i \in 1..Len(q) : q[i].time \in Nat
    BY QueueEntries DEF DueFrom
  <2> QED BY <1>2, <2>1, <2>2 DEF DueFrom, NothingBefore
<1> QED BY <1>1, <1>2

(***************************************************************************)
(* What popping and inserting leave of an order of the items.              *)
(***************************************************************************)
LEMMA PopOrder ==
  ASSUME NEW S, NEW q \in Queues(S), q # <<>>
  PROVE  /\ \A W : Avoids(q, W) =>
              Avoids(Pop(q), W) /\ \A f \in Items(Pop(q)) : <<NextItem(q), f>> \notin W
         /\ \A t, K : NoneAfter(q, t, K) => NoneAfter(Pop(q), t, K)
<1> DEFINE r == Pop(q)
<1>1. Len(q) \in Nat /\ 1 \in 1..Len(q) /\ Head(q) = q[1]
  BY DEF Queues
<1>2. Len(r) = Len(q) - 1 /\ \A i \in 1..(Len(q) - 1) : r[i] = q[i + 1]
  BY HeadTailProperties DEF Queues, Pop
<1> HIDE DEF r
<1>3. \A i \in 1..Len(r) : i + 1 \in 1..Len(q) /\ 1 < i + 1 /\ r[i] = q[i + 1]
  BY <1>1, <1>2
<1>4. ASSUME NEW W, Avoids(q, W) PROVE Avoids(r, W) /\ \A f \in Items(r) : <<NextItem(q), f>> \notin W
  <2>1. Avoids(r, W)
    <3> SUFFICES ASSUME NEW i \in 1..Len(r), NEW j \in 1..Len(r), i < j
                 PROVE  <<r[i].item, r[j].item>> \notin W
      BY DEF Avoids
    <3>1. i + 1 < j + 1
      BY <1>1, <1>2
    <3> QED BY <1>3, <1>4, <3>1 DEF Avoids
  <2>2. ASSUME NEW i \in 1..Len(r) PROVE <<NextItem(q), r[i].item>> \notin W
    BY <1>1, <1>3, <1>4 DEF Avoids, NextItem
  <2> QED BY <2>1, <2>2 DEF Items
<1>5. ASSUME NEW t, NEW K, NoneAfter(q, t, K) PROVE NoneAfter(r, t, K)
  BY <1>3, <1>5 DEF NoneAfter
<1> QED BY <1>4, <1>5 DEF r

LEMMA InsertAllOrder ==
  ASSUME NEW S, NEW t \in Nat, NEW q \in Queues(S), SortedByTime(q), NEW xs \in Seq(S),
         NEW K, NoneAfter(q, t, K),
         NEW W, Avoids(q, W), Avoids([i \in 1..Len(xs) |-> Entry(t, xs[i])], W),
         \A e \in Items(q), i \in 1..Len(xs) :
           <<e, xs[i]>> \notin W /\ (e \notin K => <<xs[i], e>> \notin W)
  PROVE  Avoids(InsertAll(q, t, xs), W)
<1> DEFINE k == PartitionPoint(q, t)
           n == Len(xs)
           r == InsertAll(q, t, xs)
           new == [i \in 1..Len(xs) |-> Entry(t, xs[i])]
<1>1. /\ k \in 0..Len(q) /\ Len(q) \in Nat
      /\ \A i \in (k + 1)..Len(q) : t < q[i].time
      /\ \A i \in 1..Len(q) : q[i].time \in Nat
  BY PartitionPointProperties, QueueEntries
<1>2. n \in Nat
  BY LenProperties
<1>3. /\ Len(r) = Len(q) + n
      /\ \A i \in 1..Len(r) : r[i] = IF i <= k THEN q[i]
                                     ELSE IF i <= k + n THEN Entry(t, xs[i - k])
                                     ELSE q[i - n]
  BY InsertAllEntries
<1>4. \A i, j \in 1..n : i < j => <<xs[i], xs[j]>> \notin W
  <2>1. Len(new) = n
    <3> DEFINE E == [time : Nat, item : S]
    <3>1. new \in [1..n -> E]
      BY ElementOfSeq DEF Entry
    <3> HIDE DEF new, n, E
    <3> SUFFICES ASSUME NEW l \in Nat, NEW o \in Nat, 1..l = 1..o
                 PROVE  l = o
      <4>1. new \in Seq(E)
        BY <1>2, <3>1, IsASeq
      <4>2. Len(new) \in Nat /\ 1..Len(new) = 1..n
        BY <3>1, <4>1, LenProperties
      <4> QED BY <1>2, <4>2
    <3>2. (l = 0 \/ l \in 1..o) /\ (o = 0 \/ o \in 1..l)
      OBVIOUS
    <3> QED BY <3>2
  <2>2. \A i \in 1..n : new[i].item = xs[i]
    BY DEF Entry
  <2> HIDE DEF new
  <2>3. Avoids(new, W)
    BY DEF new
  <2> QED BY <2>1, <2>2, <2>3 DEF Avoids
<1> HIDE DEF k, n, r
<1>5. \A i \in 1..Len(r) :
        /\ i <= k => i \in 1..Len(q) /\ r[i].item = q[i].item
        /\ ~(i <= k) /\ i <= k + n => i - k \in 1..n /\ r[i].item = xs[i - k]
        /\ ~(i <= k + n) => i - n \in (k + 1)..Len(q) /\ i - n \in 1..Len(q) /\ r[i].item = q[i - n].item
  BY <1>1, <1>2, <1>3 DEF Entry
<1>6. \A i \in (k + 1)..Len(q) : q[i].item \notin K
  <2> SUFFICES ASSUME NEW i \in (k + 1)..Len(q), q[i].item \in K PROVE FALSE
    OBVIOUS
  <2>1. i \in 1..Len(q)
    BY <1>1
  <2>2. t < q[i].time /\ q[i].time <= t /\ q[i].time \in Nat
    BY <1>1, <2>1 DEF NoneAfter
  <2> QED BY <2>2
<1>7. \A i \in 1..Len(q) : q[i].item \in Items(q)
  BY DEF Items
<1> SUFFICES ASSUME NEW i \in 1..Len(r), NEW j \in 1..Len(r), i < j
             PROVE  <<r[i].item, r[j].item>> \notin W
  BY DEF Avoids, r
<1>8. i \in Nat /\ j \in Nat
  BY <1>1, <1>2, <1>3
<1>9. CASE j <= k
  <2>1. i <= k
    BY <1>1, <1>8, <1>9
  <2> QED BY <1>5, <1>9, <2>1 DEF Avoids
<1>10. CASE ~(j <= k) /\ j <= k + n /\ i <= k
  <2>1. i \in 1..Len(q) /\ q[i].item \in Items(q) /\ r[i].item = q[i].item
    BY <1>5, <1>7, <1>10
  <2>2. j - k \in 1..n /\ r[j].item = xs[j - k]
    BY <1>5, <1>10
  <2> QED BY <2>1, <2>2 DEF n
<1>11. CASE ~(j <= k) /\ j <= k + n /\ ~(i <= k)
  <2>1. i <= k + n /\ i - k < j - k
    BY <1>1, <1>2, <1>8, <1>11
  <2> QED BY <1>4, <1>5, <1>11, <2>1
<1>12. CASE ~(j <= k + n) /\ i <= k
  <2>1. i \in 1..Len(q) /\ j - n \in 1..Len(q) /\ i < j - n
    BY <1>1, <1>2, <1>5, <1>8, <1>12
  <2>2. r[i].item = q[i].item /\ r[j].item = q[j - n].item
    BY <1>5, <1>12
  <2> QED BY <2>1, <2>2 DEF Avoids
<1>13. CASE ~(j <= k + n) /\ ~(i <= k) /\ i <= k + n
  <2>1. q[j - n].item \notin K /\ q[j - n].item \in Items(q)
    BY <1>5, <1>6, <1>7, <1>13
  <2> QED BY <1>5, <1>13, <2>1 DEF n
<1>14. CASE ~(j <= k + n) /\ ~(i <= k + n)
  <2>1. i - n < j - n
    BY <1>2, <1>8
  <2> QED BY <1>5, <1>14, <2>1 DEF Avoids
<1>15. ~(j <= k + n) => ~(j <= k)
  BY <1>1, <1>2, <1>8
<1> QED BY <1>9, <1>10, <1>11, <1>12, <1>13, <1>14, <1>15

LEMMA InsertAllTimes ==
  ASSUME NEW S, NEW t \in Nat, NEW q \in Queues(S), SortedByTime(q), NEW xs \in Seq(S),
         NEW v, NEW K, NoneAfter(q, v, K), \A i \in 1..Len(xs) : xs[i] \in K => t <= v
  PROVE  NoneAfter(InsertAll(q, t, xs), v, K)
<1> DEFINE k == PartitionPoint(q, t)
           n == Len(xs)
           r == InsertAll(q, t, xs)
<1>1. k \in 0..Len(q) /\ Len(q) \in Nat /\ n \in Nat
  BY PartitionPointProperties, QueueEntries, LenProperties
<1>2. /\ Len(r) = Len(q) + n
      /\ \A i \in 1..Len(r) : r[i] = IF i <= k THEN q[i]
                                     ELSE IF i <= k + n THEN Entry(t, xs[i - k])
                                     ELSE q[i - n]
  BY InsertAllEntries
<1> HIDE DEF k, r
<1> SUFFICES ASSUME NEW i \in 1..Len(r), r[i].item \in K PROVE r[i].time <= v
  BY DEF NoneAfter, r
<1>3. CASE i <= k
  <2>1. i \in 1..Len(q) /\ r[i] = q[i]
    BY <1>1, <1>2, <1>3
  <2> QED BY <2>1 DEF NoneAfter
<1>4. CASE ~(i <= k) /\ i <= k + n
  <2>1. i - k \in 1..Len(xs) /\ r[i] = Entry(t, xs[i - k])
    BY <1>1, <1>2, <1>4
  <2>2. r[i].time = t /\ r[i].item = xs[i - k]
    BY <2>1 DEF Entry
  <2> QED BY <2>1, <2>2
<1>5. CASE ~(i <= k) /\ ~(i <= k + n)
  <2>1. i - n \in 1..Len(q) /\ r[i] = q[i - n]
    BY <1>1, <1>2, <1>5
  <2> QED BY <2>1 DEF NoneAfter
<1> QED BY <1>3, <1>4, <1>5

-------------------------------------------------------------------------------
(***************************************************************************)
(* TypeOK and NoEventInThePast together are inductive: an insertion needs  *)
(* a sorted queue, and a sorted queue stays sorted only under insertions.  *)
(* SimInv is their conjunction, with the queues gathered in DueFrom.       *)
(***************************************************************************)
QueuesInv ==
  /\ timestamp \in Nat
  /\ DOMAIN ingress = Nodes /\ ingress = [n \in Nodes |-> ingress[n]]
  /\ DOMAIN events = Users /\ events = [u \in Users |-> events[u]]
  /\ \A n \in Nodes : DueFrom(ingress[n], Packets, timestamp)
  /\ \A u \in Users : DueFrom(events[u], UserEvents, timestamp)

RecordsInv ==
  /\ fragments \in [Users -> SUBSET (Nat \X Nat)]
  /\ \A u \in Users : \A s \in DOMAIN t_first[u] : s \in Nat /\ t_first[u][s] \in Nat
  /\ \A u \in Users : \A id \in DOMAIN original_messages[u] :
       id \in Nat /\ original_messages[u][id] \in Messages
  /\ deliveries \in Seq([fragment_set : Nat, delivery_time : Int, first_to_last : Int])
  /\ next_message_id \in Nat /\ next_fragment_set \in Nat /\ packet_count \in Nat
  /\ drops \in 0..MaxDrops

SimInv == QueuesInv /\ RecordsInv

LEMMA SimInvMeaning == SimInv <=> TypeOK /\ NoEventInThePast
<1>1. SimInv => TypeOK /\ NoEventInThePast
  <2> SUFFICES ASSUME SimInv PROVE TypeOK /\ NoEventInThePast
    OBVIOUS
  <2>1. ingress \in [Nodes -> Queues(Packets)] /\ events \in [Users -> Queues(UserEvents)]
    BY DEF SimInv, QueuesInv, DueFrom
  <2>2. TypeOK
    BY <2>1 DEF SimInv, QueuesInv, RecordsInv, TypeOK
  <2>3. NoEventInThePast
    BY DEF SimInv, QueuesInv, NoEventInThePast, DueFrom
  <2> QED BY <2>2, <2>3
<1>2. TypeOK /\ NoEventInThePast => SimInv
  BY DEF SimInv, QueuesInv, RecordsInv, DueFrom, TypeOK, NoEventInThePast
<1> QED BY <1>1, <1>2

-------------------------------------------------------------------------------
(***************************************************************************)
(* What NodeTurn and UserTurn give the action they guard: in the next      *)
(* state's time every queue, popped or not, is due later.                  *)
(***************************************************************************)
LEMMA NodeTurnFacts ==
  ASSUME QueuesInv, NEW n \in Nodes, NodeTurn(n)
  PROVE  /\ timestamp' \in Nat
         /\ NextItem(ingress[n]) \in Packets
         /\ DueFrom(Pop(ingress[n]), Packets, timestamp')
         /\ \A m \in Nodes : DueFrom(ingress[m], Packets, timestamp')
         /\ \A u \in Users : DueFrom(events[u], UserEvents, timestamp')
<1>1. /\ NextTime(ingress[n]) \in Nat /\ NextItem(ingress[n]) \in Packets
      /\ DueFrom(Pop(ingress[n]), Packets, NextTime(ingress[n]))
  BY DuePop DEF QueuesInv, NodeTurn
<1>2. timestamp' = NextTime(ingress[n])
  BY DEF NodeTurn
<1>3. ASSUME NEW m \in Nodes PROVE DueFrom(ingress[m], Packets, timestamp')
  BY <1>1, <1>2, DueLater DEF QueuesInv, NodeTurn
<1>4. ASSUME NEW u \in Users PROVE DueFrom(events[u], UserEvents, timestamp')
  <2>1. ASSUME events[u] # <<>> PROVE timestamp' <= NextTime(events[u])
    <3>1. timestamp' < NextTime(events[u])
      BY <2>1, <1>2 DEF NodeTurn
    <3>2. NextTime(events[u]) \in Nat
      BY <2>1, DuePop DEF QueuesInv
    <3> QED BY <3>1, <3>2, <1>1, <1>2
  <2> QED BY <2>1, <1>1, <1>2, DueLater DEF QueuesInv
<1> QED BY <1>1, <1>2, <1>3, <1>4

LEMMA UserTurnFacts ==
  ASSUME QueuesInv, NEW u \in Users, NEW kind, UserTurn(u, kind)
  PROVE  /\ timestamp' \in Nat
         /\ NextItem(events[u]) \in UserEvents
         /\ NextItem(events[u]).kind = kind
         /\ DueFrom(Pop(events[u]), UserEvents, timestamp')
         /\ \A m \in Nodes : DueFrom(ingress[m], Packets, timestamp')
         /\ \A v \in Users : DueFrom(events[v], UserEvents, timestamp')
<1>1. /\ NextTime(events[u]) \in Nat /\ NextItem(events[u]) \in UserEvents
      /\ DueFrom(Pop(events[u]), UserEvents, NextTime(events[u]))
  BY DuePop DEF QueuesInv, UserTurn
<1>2. timestamp' = NextTime(events[u]) /\ NextItem(events[u]).kind = kind
  BY DEF UserTurn
<1>3. ASSUME NEW m \in Nodes PROVE DueFrom(ingress[m], Packets, timestamp')
  BY <1>1, <1>2, DueLater DEF QueuesInv, UserTurn
<1>4. ASSUME NEW v \in Users PROVE DueFrom(events[v], UserEvents, timestamp')
  BY <1>1, <1>2, DueLater DEF QueuesInv, UserTurn
<1> QED BY <1>1, <1>2, <1>3, <1>4

(***************************************************************************)
(* Putting a packet into its first node keeps the nodes' queues in order,  *)
(* whichever queues the nodes had.                                         *)
(***************************************************************************)
LEMMA SendToFacts ==
  ASSUME NEW t \in Nat, NEW nodes,
         DOMAIN nodes = Nodes, \A n \in Nodes : DueFrom(nodes[n], Packets, t),
         NEW p \in Packets
  PROVE  /\ DOMAIN SendTo(nodes, t, p) = Nodes
         /\ SendTo(nodes, t, p) = [n \in Nodes |-> SendTo(nodes, t, p)[n]]
         /\ \A n \in Nodes : DueFrom(SendTo(nodes, t, p)[n], Packets, t)
<1> DEFINE hop == Head(p.hops)
<1>1. hop.node \in Nodes /\ hop.delay \in Nat
  <2>1. p.hops \in Seq(Hop) /\ p.hops # <<>>
    BY DEF Packets, AckPackets, MessagePackets, Path
  <2>2. hop \in Hop
    BY <2>1
  <2> QED BY <2>2 DEF Hop
<1>2. t + hop.delay \in Nat /\ t <= t + hop.delay
  BY <1>1
<1>3. DueFrom(Insert(nodes[hop.node], t + hop.delay, p), Packets, t)
  BY <1>1, <1>2, DueInsert
<1>4. SendTo(nodes, t, p) = [nodes EXCEPT ![hop.node] = Insert(nodes[hop.node], t + hop.delay, p)]
  BY DEF SendTo
<1> QED BY <1>1, <1>3, <1>4

-------------------------------------------------------------------------------
LEMMA InitSimInv == Init => SimInv
<1> SUFFICES ASSUME Init PROVE SimInv
  OBVIOUS
<1>1. DueFrom([i \in 1..NumSends |-> Entry(0, SendMessage(NumFrags))], UserEvents, 0)
  <2> DEFINE q == [i \in 1..NumSends |-> Entry(0, SendMessage(NumFrags))]
  <2>1. NumSends \in Nat /\ SendMessage(NumFrags) \in UserEvents
    BY ConfigAssumption DEF UserEvents, SendMessage
  <2>2. q \in Queues(UserEvents) /\ Len(q) = NumSends
    <3> DEFINE E == [time : Nat, item : UserEvents]
    <3>1. q \in [1..NumSends -> E]
      BY <2>1 DEF Entry
    <3> HIDE DEF E, q
    <3>2. q \in Seq(E) /\ Len(q) = NumSends
      BY <2>1, <3>1, IsASeq, LenProperties
    <3> QED BY <3>2 DEF Queues, E
  <2>3. \A i \in 1..Len(q) : q[i].time = 0
    BY <2>2 DEF Entry
  <2> HIDE DEF q
  <2>4. DueFrom(q, UserEvents, 0)
    BY <2>2, <2>3 DEF DueFrom, SortedByTime, NothingBefore
  <2> QED BY <2>4 DEF q
<1>2. QueuesInv
  BY <1>1, DueEmpty DEF Init, QueuesInv
<1>3. RecordsInv
  <2>1. 0 \in 0..MaxDrops
    BY ConfigAssumption
  <2>2. \A u \in Users : DOMAIN t_first[u] = {} /\ DOMAIN original_messages[u] = {}
    BY DEF Init
  <2> QED BY <2>1, <2>2, EmptySeq DEF Init, RecordsInv
<1> QED BY <1>2, <1>3 DEF SimInv

(***************************************************************************)
(* What is nested in a packet that is not at its last node has a way left. *)
(***************************************************************************)
LEMMA PathTail ==
  ASSUME NEW hops \in Path, Len(hops) > 1
  PROVE  Tail(hops) \in Path
<1>1. hops \in Seq(Hop) /\ hops # <<>> /\ Len(hops) \in Nat
  BY LenProperties DEF Path
<1>2. Tail(hops) \in Seq(Hop) /\ Len(Tail(hops)) = Len(hops) - 1
  BY <1>1, HeadTailProperties
<1>3. Len(Tail(hops)) # 0
  BY <1>1, <1>2
<1>4. Tail(hops) # <<>>
  BY <1>3, EmptySeq
<1> QED BY <1>2, <1>4 DEF Path

LEMMA NodeMessageInv ==
  ASSUME SimInv, NEW n \in Nodes, NodeMessage(n)
  PROVE  SimInv'
<1> DEFINE p == NextItem(ingress[n])
<1>1. /\ timestamp' \in Nat /\ p \in Packets
      /\ DueFrom(Pop(ingress[n]), Packets, timestamp')
      /\ \A m \in Nodes : DueFrom(ingress[m], Packets, timestamp')
      /\ \A u \in Users : DueFrom(events[u], UserEvents, timestamp')
  BY NodeTurnFacts DEF SimInv, NodeMessage
<1>2. p.content \in Messages
  BY <1>1 DEF NodeMessage, Packets, AckPackets, MessagePackets, Acks
<1>3. MessageEvent(p.content) \in UserEvents /\ p.content.recipient \in Users
  BY <1>2 DEF MessageEvent, UserEvents, Messages
<1>4. \A u \in Users : DueFrom(Insert(events[u], timestamp', MessageEvent(p.content)), UserEvents, timestamp')
  BY <1>1, <1>3, DueInsert
<1>5. /\ ingress' = [ingress EXCEPT ![n] = Pop(ingress[n])]
      /\ events' = [events EXCEPT ![p.content.recipient] =
                      Insert(events[p.content.recipient], timestamp', MessageEvent(p.content))]
  BY DEF NodeMessage
<1> HIDE DEF p
<1>6. QueuesInv'
  BY <1>1, <1>3, <1>4, <1>5 DEF SimInv, QueuesInv
<1>7. RecordsInv'
  BY DEF SimInv, RecordsInv, NodeMessage
<1> QED BY <1>6, <1>7 DEF SimInv

LEMMA NodeAckInv ==
  ASSUME SimInv, NEW n \in Nodes, NodeAck(n)
  PROVE  SimInv'
<1> DEFINE p == NextItem(ingress[n])
           x == AckTimeout(p.content.message_id)
<1>1. /\ timestamp' \in Nat /\ p \in Packets
      /\ DueFrom(Pop(ingress[n]), Packets, timestamp')
      /\ \A m \in Nodes : DueFrom(ingress[m], Packets, timestamp')
      /\ \A u \in Users : DueFrom(events[u], UserEvents, timestamp')
  BY NodeTurnFacts DEF SimInv, NodeAck
<1>2. \A u \in Users : DueFrom(Cancel(events[u], x), UserEvents, timestamp')
  BY <1>1, DueCancel
<1>3. /\ ingress' = [ingress EXCEPT ![n] = Pop(ingress[n])]
      /\ events' = [events EXCEPT ![p.content.recipient] = Cancel(events[p.content.recipient], x)]
  BY DEF NodeAck
<1> HIDE DEF p, x
<1>4. QueuesInv'
  BY <1>1, <1>2, <1>3 DEF SimInv, QueuesInv
<1>5. RecordsInv'
  BY DEF SimInv, RecordsInv, NodeAck
<1> QED BY <1>4, <1>5 DEF SimInv

LEMMA NodeForwardInv ==
  ASSUME SimInv, NEW n \in Nodes, NodeForward(n)
  PROVE  SimInv'
<1> DEFINE p == NextItem(ingress[n])
           inner == Packet(Tail(p.hops), p.content)
           popped == [ingress EXCEPT ![n] = Pop(ingress[n])]
<1>1. /\ timestamp' \in Nat /\ p \in Packets
      /\ DueFrom(Pop(ingress[n]), Packets, timestamp')
      /\ \A m \in Nodes : DueFrom(ingress[m], Packets, timestamp')
      /\ \A u \in Users : DueFrom(events[u], UserEvents, timestamp')
  BY NodeTurnFacts DEF SimInv, NodeForward
<1>2. inner \in Packets
  <2>1. p.hops \in Path /\ Len(p.hops) > 1
    BY <1>1 DEF NodeForward, Packets, AckPackets, MessagePackets
  <2>2. Tail(p.hops) \in Path
    BY <2>1, PathTail
  <2> QED BY <1>1, <2>2 DEF Packet, Packets, AckPackets, MessagePackets
<1>3. DOMAIN popped = Nodes /\ \A m \in Nodes : DueFrom(popped[m], Packets, timestamp')
  BY <1>1 DEF SimInv, QueuesInv
<1>4. ingress' = SendTo(popped, timestamp', inner) /\ events' = events
  BY DEF NodeForward
<1> HIDE DEF p, inner, popped
<1>5. QueuesInv'
  BY <1>1, <1>2, <1>3, <1>4, SendToFacts DEF SimInv, QueuesInv
<1>6. RecordsInv'
  BY DEF SimInv, RecordsInv, NodeForward
<1> QED BY <1>5, <1>6 DEF SimInv

LEMMA ReceiveMessageInv ==
  ASSUME SimInv, NEW u \in Users, ReceiveMessage(u)
  PROVE  SimInv'
<1> DEFINE m        == NextItem(events[u]).message
           s        == m.fragment_set
           first    == IF s \in DOMAIN t_first[u] THEN t_first[u] ELSE Put(t_first[u], s, timestamp')
           complete == Cardinality(FragmentsOf(u, s) \cup {<<s, m.fragment_index>>}) = m.fragment_size
           record   == [fragment_set |-> s, delivery_time |-> timestamp' - m.sending_time,
                        first_to_last |-> timestamp' - first[s]]
<1>1. /\ timestamp' \in Nat /\ NextItem(events[u]) \in UserEvents
      /\ NextItem(events[u]).kind = "Message"
      /\ DueFrom(Pop(events[u]), UserEvents, timestamp')
      /\ \A n \in Nodes : DueFrom(ingress[n], Packets, timestamp')
      /\ \A v \in Users : DueFrom(events[v], UserEvents, timestamp')
  BY UserTurnFacts DEF SimInv, ReceiveMessage
<1>2. m \in Messages
  BY <1>1 DEF UserEvents
<1>3. /\ s \in Nat /\ m.fragment_index \in Nat /\ m.sending_time \in Nat
      /\ m.ack \in Packets
  BY <1>2 DEF Messages, Packets
<1>4. /\ events' = [events EXCEPT ![u] = Pop(events[u])]
      /\ t_first' = [t_first EXCEPT ![u] = first]
      /\ fragments' = [fragments EXCEPT ![u] = fragments[u] \cup {<<s, m.fragment_index>>}]
      /\ deliveries' = IF complete THEN Append(deliveries, record) ELSE deliveries
      /\ ingress' = IF Acknowledges(complete) THEN SendTo(ingress, timestamp', m.ack) ELSE ingress
      /\ packet_count' = IF Acknowledges(complete) THEN packet_count + 1 ELSE packet_count
      /\ UNCHANGED <<original_messages, next_message_id, next_fragment_set, drops>>
  BY DEF ReceiveMessage
<1> HIDE DEF m, complete
<1>5. \A x \in DOMAIN first : x \in Nat /\ first[x] \in Nat
  <2>1. CASE s \in DOMAIN t_first[u]
    BY <2>1 DEF SimInv, RecordsInv
  <2>2. CASE s \notin DOMAIN t_first[u]
    <3>1. first = Put(t_first[u], s, timestamp')
      BY <2>2
    <3> HIDE DEF s, first
    <3>2. DOMAIN first = {s} \cup DOMAIN t_first[u] /\ first[s] = timestamp'
          /\ \A x \in DOMAIN t_first[u] : x # s => first[x] = t_first[u][x]
      BY <3>1 DEF Put
    <3> QED BY <1>1, <1>3, <3>2 DEF SimInv, RecordsInv
  <2> QED BY <2>1, <2>2
<1>6. record \in [fragment_set : Nat, delivery_time : Int, first_to_last : Int]
  <2>1. s \in DOMAIN first
    BY DEF Put
  <2> HIDE DEF s, first
  <2> QED BY <1>1, <1>3, <1>5, <2>1
<1> HIDE DEF s, first, record
<1>7. QueuesInv'
  BY <1>1, <1>3, <1>4, SendToFacts DEF SimInv, QueuesInv
<1>8. RecordsInv'
  <2>1. fragments' \in [Users -> SUBSET (Nat \X Nat)]
    BY <1>3, <1>4 DEF SimInv, RecordsInv
  <2>2. \A v \in Users : \A x \in DOMAIN t_first'[v] : x \in Nat /\ t_first'[v][x] \in Nat
    BY <1>4, <1>5 DEF SimInv, RecordsInv
  <2>3. deliveries' \in Seq([fragment_set : Nat, delivery_time : Int, first_to_last : Int])
    <3> DEFINE R == [fragment_set : Nat, delivery_time : Int, first_to_last : Int]
    <3>1. deliveries \in Seq(R) /\ record \in R
      BY <1>6 DEF SimInv, RecordsInv
    <3> HIDE DEF R
    <3>2. Append(deliveries, record) \in Seq(R)
      BY <3>1, AppendProperties
    <3>3. deliveries' \in Seq(R)
      BY <1>4, <3>1, <3>2
    <3> QED BY <3>3 DEF R
  <2> QED BY <1>4, <2>1, <2>2, <2>3 DEF SimInv, RecordsInv
<1> QED BY <1>7, <1>8 DEF SimInv

-------------------------------------------------------------------------------
(***************************************************************************)
(* Induction from n down to 1.                                             *)
(***************************************************************************)
LEMMA InductionDown ==
  ASSUME NEW n \in Nat, NEW S, n \in S, \A i \in 1..(n - 1) : i + 1 \in S => i \in S
  PROVE  \A i \in 1..n : i \in S
<1> DEFINE T == {k \in Nat : n - k \in 1..n /\ n - k \notin S}
<1>1. SUFFICES ASSUME T # {} PROVE FALSE
  <2> SUFFICES ASSUME NEW i \in 1..n, i \notin S PROVE FALSE
    OBVIOUS
  <2>1. n - i \in Nat /\ n - (n - i) = i
    OBVIOUS
  <2>2. n - i \in T
    BY <2>1
  <2> QED BY <2>2
<1>2. PICK k \in T : \A j \in T : ~(<<j, k>> \in OpToRel(<, Nat))
  <2>1. T \subseteq Nat
    OBVIOUS
  <2> HIDE DEF T
  <2> QED BY <1>1, <2>1, NatLessThanWellFounded, WFMin
<1>3. k \in Nat /\ n - k \in 1..n /\ n - k \notin S
  BY <1>2
<1>4. k # 0
  BY <1>3
<1>5. (n - k) + 1 \notin S
  BY <1>3, <1>4
<1>6. k - 1 \in T
  BY <1>3, <1>4, <1>5
<1>7. <<k - 1, k>> \in OpToRel(<, Nat)
  BY <1>3, <1>4 DEF OpToRel
<1> HIDE DEF T
<1> QED BY <1>2, <1>6, <1>7

(***************************************************************************)
(* The delays that a packet still has before it from each of its hops on:  *)
(* the recursion of Packet::total_delay.                                   *)
(***************************************************************************)
DelaysLeft(hops, left) ==
  left = [i \in 1..(Len(hops) + 1) |-> IF i > Len(hops) THEN 0 ELSE hops[i].delay + left[i + 1]]

LEMMA TotalDelayDefined ==
  ASSUME NEW hops, Len(hops) \in Nat
  PROVE  \E left : DelaysLeft(hops, left) /\ TotalDelay(hops) = left[1]
<1> DEFINE n == Len(hops) + 1
           Plus(f, i) == hops[i].delay + f
           S == {k \in 1..n : \E g : g = [i \in k..n |-> IF i > Len(hops) THEN 0 ELSE Plus(g[i + 1], i)]}
<1> HIDE DEF Plus
<1>1. n \in S
  <2> DEFINE h == [i \in n..n |-> 0]
  <2>1. h = [i \in n..n |-> IF i > Len(hops) THEN 0 ELSE Plus(h[i + 1], i)]
    OBVIOUS
  <2> HIDE DEF h
  <2> QED BY <2>1
<1>2. ASSUME NEW k \in 1..(n - 1), k + 1 \in S PROVE k \in S
  <2>1. PICK g : g = [i \in (k + 1)..n |-> IF i > Len(hops) THEN 0 ELSE Plus(g[i + 1], i)]
    BY <1>2
  <2> DEFINE h == [i \in k..n |-> IF i = k THEN Plus(g[k + 1], i) ELSE g[i]]
  <2>2. ASSUME NEW i \in k..n PROVE h[i] = IF i > Len(hops) THEN 0 ELSE Plus(h[i + 1], i)
    BY <2>1
  <2>3. h = [i \in k..n |-> h[i]]
    OBVIOUS
  <2> HIDE DEF h
  <2>4. h = [i \in k..n |-> IF i > Len(hops) THEN 0 ELSE Plus(h[i + 1], i)]
    BY <2>2, <2>3
  <2> QED BY <2>4
<1>3. 1 \in S
  <2>1. n \in Nat /\ 1 \in 1..n
    OBVIOUS
  <2> HIDE DEF S, n
  <2>2. \A i \in 1..n : i \in S
    BY <1>1, <1>2, <2>1, InductionDown
  <2> QED BY <2>1, <2>2
<1>4. PICK g : g = [i \in 1..n |-> IF i > Len(hops) THEN 0 ELSE Plus(g[i + 1], i)]
  BY <1>3
<1> DEFINE left == CHOOSE f : f = [i \in 1..n |-> IF i > Len(hops) THEN 0 ELSE hops[i].delay + f[i + 1]]
<1>5. left = [i \in 1..n |-> IF i > Len(hops) THEN 0 ELSE hops[i].delay + left[i + 1]]
  BY <1>4 DEF Plus
<1>6. TotalDelay(hops) = left[1]
  BY DEF TotalDelay
<1> HIDE DEF left
<1> QED BY <1>5, <1>6 DEF DelaysLeft

LEMMA DelaysLeftType ==
  ASSUME NEW hops \in Seq(Hop), NEW left, DelaysLeft(hops, left)
  PROVE  \A i \in 1..(Len(hops) + 1) : left[i] \in Nat
<1> DEFINE n == Len(hops) + 1
           S == {i \in 1..n : left[i] \in Nat}
<1>1. n \in Nat /\ n \in 1..n /\ Len(hops) \in Nat
  BY LenProperties
<1>2. left[n] = 0 /\ \A i \in 1..(n - 1) : left[i] = hops[i].delay + left[i + 1]
  BY <1>1 DEF DelaysLeft
<1>3. \A i \in 1..(n - 1) : hops[i].delay \in Nat
  <2>1. \A i \in 1..Len(hops) : hops[i] \in Hop
    BY ElementOfSeq
  <2> QED BY <1>1, <2>1 DEF Hop
<1>4. n \in S
  BY <1>1, <1>2
<1>5. ASSUME NEW i \in 1..(n - 1), i + 1 \in S PROVE i \in S
  BY <1>1, <1>2, <1>3, <1>5
<1> HIDE DEF n, S
<1>6. \A i \in 1..n : i \in S
  BY <1>1, <1>4, <1>5, InductionDown
<1> QED BY <1>6 DEF n, S

(***************************************************************************)
(* The delay of the first hop and that of what is nested in it.            *)
(***************************************************************************)
LEMMA TotalDelaySum ==
  ASSUME NEW hops \in Path
  PROVE  /\ TotalDelay(hops) \in Nat /\ TotalDelay(Tail(hops)) \in Nat
         /\ Head(hops).delay \in Nat /\ Head(hops).node \in Nodes
         /\ TotalDelay(hops) = Head(hops).delay + TotalDelay(Tail(hops))
<1>1. /\ hops \in Seq(Hop) /\ hops # <<>> /\ Len(hops) \in Nat /\ Len(hops) # 0
      /\ Tail(hops) \in Seq(Hop) /\ Len(Tail(hops)) = Len(hops) - 1
      /\ \A i \in 1..Len(Tail(hops)) : Tail(hops)[i] = hops[i + 1]
      /\ Head(hops) = hops[1] /\ Head(hops) \in Hop
  <2>1. hops \in Seq(Hop) /\ hops # <<>> /\ Len(hops) \in Nat
    BY LenProperties DEF Path
  <2>2. Len(hops) # 0
    BY <2>1, EmptySeq
  <2> QED BY <2>1, <2>2, HeadTailProperties
<1> DEFINE n == Len(hops)
           rest == Tail(hops)
<1>2. PICK left : DelaysLeft(hops, left) /\ TotalDelay(hops) = left[1]
  BY <1>1, TotalDelayDefined
<1>3. PICK more : DelaysLeft(rest, more) /\ TotalDelay(rest) = more[1]
  BY <1>1, TotalDelayDefined
<1>4. left[n + 1] = 0 /\ \A i \in 1..n : left[i] = hops[i].delay + left[i + 1]
  BY <1>1, <1>2 DEF DelaysLeft
<1>5. more[n] = 0 /\ \A i \in 1..(n - 1) : more[i] = hops[i + 1].delay + more[i + 1]
  BY <1>1, <1>3 DEF DelaysLeft
<1> DEFINE S == {i \in 1..n : left[i + 1] = more[i]}
<1>6. n \in S
  BY <1>1, <1>4, <1>5
<1>7. ASSUME NEW i \in 1..(n - 1), i + 1 \in S PROVE i \in S
  <2>1. i + 1 \in 1..n
    BY <1>1
  <2>2. left[i + 1] = hops[i + 1].delay + left[(i + 1) + 1]
    BY <1>4, <2>1
  <2>3. left[(i + 1) + 1] = more[i + 1]
    BY <1>7
  <2> QED BY <2>2, <2>3, <1>5, <1>1
<1>8. \A i \in 1..n : i \in S
  <2> HIDE DEF S
  <2> QED BY <1>1, <1>6, <1>7, InductionDown
<1>9. left[2] = more[1]
  BY <1>8, <1>1
<1>10. left[1] \in Nat /\ more[1] \in Nat
  <2>1. 1 \in 1..(Len(hops) + 1) /\ 1 \in 1..(Len(rest) + 1)
    BY <1>1
  <2>2. left[1] \in Nat
    BY <1>1, <1>2, <2>1, DelaysLeftType
  <2>3. more[1] \in Nat
    BY <1>1, <1>3, <2>1, DelaysLeftType
  <2> QED BY <2>2, <2>3
<1>11. left[1] = hops[1].delay + left[2]
  BY <1>4, <1>1
<1> QED BY <1>1, <1>2, <1>3, <1>9, <1>10, <1>11 DEF Hop

LEMMA LastHop ==
  ASSUME NEW hops \in Path, Len(hops) = 1
  PROVE  TotalDelay(Tail(hops)) = 0
<1>1. hops \in Seq(Hop) /\ hops # <<>>
  BY DEF Path
<1>2. Tail(hops) \in Seq(Hop) /\ Len(Tail(hops)) = 0
  BY <1>1, HeadTailProperties
<1>3. PICK left : DelaysLeft(Tail(hops), left) /\ TotalDelay(Tail(hops)) = left[1]
  BY <1>2, TotalDelayDefined
<1>4. left = [i \in 1..(0 + 1) |-> IF i > 0 THEN 0 ELSE Tail(hops)[i].delay + left[i + 1]]
  BY <1>2, <1>3 DEF DelaysLeft
<1>5. left[1] = 0
  BY <1>4
<1> QED BY <1>3, <1>5

(***************************************************************************)
(* A timeout lies in the future or now, never in the past.                 *)
(***************************************************************************)
LEMMA TimeoutType ==
  ASSUME NEW hops \in Routes
  PROVE  Timeout(hops) \in Nat
<1> DEFINE total == TotalDelay(hops)
<1>1. total \in Nat
  BY RouteAssumption, TotalDelaySum
<1> HIDE DEF total
<1>2. total * MultNum \in Nat
  BY <1>1, ConfigAssumption
<1>3. (total * MultNum) \div MultDen \in Nat
  <2> DEFINE x == total * MultNum
  <2>1. MultDen \in Nat /\ MultDen > 0
    BY ConfigAssumption
  <2> HIDE DEF x
  <2>2. x \div MultDen \in Nat
    BY <1>2, <2>1 DEF x
  <2> QED BY <2>2 DEF x
<1> QED BY <1>3, ConfigAssumption DEF Timeout, total

LEMMA AckKeyType ==
  ASSUME NEW id \in Nat, NEW set \in Nat
  PROVE  AckKey(id, set) \in Nat
BY DEF AckKey

LEMMA EgressPacketInv ==
  ASSUME SimInv, NEW u \in Users, NEW dropped \in BOOLEAN, EgressPacket(u, dropped)
  PROVE  SimInv'
<1> DEFINE p   == NextItem(events[u]).packet
           id  == AckKey(p.content.id, p.content.fragment_set)
           due == timestamp' + Timeout(p.hops)
<1>1. /\ timestamp' \in Nat /\ NextItem(events[u]) \in UserEvents
      /\ NextItem(events[u]).kind = "Egress"
      /\ DueFrom(Pop(events[u]), UserEvents, timestamp')
      /\ \A n \in Nodes : DueFrom(ingress[n], Packets, timestamp')
      /\ \A v \in Users : DueFrom(events[v], UserEvents, timestamp')
  BY UserTurnFacts DEF SimInv, EgressPacket
<1>2. p \in [hops : Routes, content : Messages]
  BY <1>1 DEF UserEvents
<1>3. p.hops \in Routes /\ p.content \in Messages /\ p \in Packets
  BY <1>2, RouteAssumption DEF Packets, MessagePackets
<1>4. id \in Nat /\ due \in Nat /\ timestamp' <= due
  <2>1. id \in Nat
    BY <1>3, AckKeyType DEF Messages
  <2>2. Timeout(p.hops) \in Nat
    BY <1>3, TimeoutType
  <2> QED BY <1>1, <2>1, <2>2
<1>5. /\ events' = [events EXCEPT ![u] = IF Arms(u, id) THEN Insert(Pop(events[u]), due, AckTimeout(id))
                                         ELSE Pop(events[u])]
      /\ original_messages' = [original_messages EXCEPT ![u] =
                                 IF Arms(u, id) THEN Put(original_messages[u], id, p.content)
                                 ELSE original_messages[u]]
      /\ ingress' = IF dropped THEN ingress ELSE SendTo(ingress, timestamp', p)
      /\ drops' = IF dropped THEN drops + 1 ELSE drops
      /\ dropped => drops < MaxDrops
      /\ packet_count' = packet_count + 1
      /\ UNCHANGED <<fragments, t_first, deliveries, next_message_id, next_fragment_set>>
  BY DEF EgressPacket
<1> HIDE DEF p, id, due
<1>6. DueFrom(Insert(Pop(events[u]), due, AckTimeout(id)), UserEvents, timestamp')
  <2>1. AckTimeout(id) \in UserEvents
    BY <1>4 DEF AckTimeout, UserEvents
  <2> QED BY <1>1, <1>4, <2>1, DueInsert
<1>7. QueuesInv'
  <2>1. \A v \in Users : DueFrom(events'[v], UserEvents, timestamp')
    BY <1>1, <1>5, <1>6 DEF SimInv, QueuesInv
  <2>2. \A n \in Nodes : DueFrom(ingress'[n], Packets, timestamp')
    BY <1>1, <1>3, <1>5, SendToFacts DEF SimInv, QueuesInv
  <2>3. /\ DOMAIN ingress' = Nodes /\ ingress' = [n \in Nodes |-> ingress'[n]]
        /\ DOMAIN events' = Users /\ events' = [v \in Users |-> events'[v]]
    BY <1>1, <1>3, <1>5, SendToFacts DEF SimInv, QueuesInv
  <2> QED BY <1>1, <2>1, <2>2, <2>3 DEF QueuesInv
<1>8. RecordsInv'
  <2>1. \A v \in Users : \A x \in DOMAIN original_messages'[v] :
          x \in Nat /\ original_messages'[v][x] \in Messages
    <3> DEFINE f == original_messages[u]
               g == Put(f, id, p.content)
    <3>1. \A x \in DOMAIN f : x \in Nat /\ f[x] \in Messages
      BY DEF SimInv, RecordsInv
    <3>2. /\ DOMAIN g = {id} \cup DOMAIN f /\ g[id] = p.content
          /\ \A x \in DOMAIN f : x # id => g[x] = f[x]
      BY DEF Put
    <3> HIDE DEF f, g
    <3>3. \A x \in DOMAIN g : x \in Nat /\ g[x] \in Messages
      BY <1>3, <1>4, <3>1, <3>2
    <3>4. original_messages' = [original_messages EXCEPT ![u] = IF Arms(u, id) THEN g ELSE f]
      BY <1>5 DEF f, g
    <3> QED BY <3>1, <3>3, <3>4 DEF SimInv, RecordsInv
  <2>2. drops' \in 0..MaxDrops
    BY <1>5, ConfigAssumption DEF SimInv, RecordsInv
  <2> QED BY <1>5, <2>1, <2>2 DEF SimInv, RecordsInv
<1> QED BY <1>7, <1>8 DEF SimInv

(***************************************************************************)
(* The packets of one fragment set, whatever hops are drawn for them.      *)
(***************************************************************************)
LEMMA BuildMessagesType ==
  ASSUME next_message_id \in Nat, next_fragment_set \in Nat,
         NEW from \in Users, NEW to \in Users, NEW n \in Nat \ {0}, NEW sent \in Nat,
         NEW way \in [1..n -> Routes], NEW ackWay \in [1..n -> Routes]
  PROVE  \A k \in 1..n : Egress(BuildMessages(from, to, n, sent, way, ackWay)[k]) \in UserEvents
<1> SUFFICES ASSUME NEW k \in 1..n
             PROVE  Egress(BuildMessages(from, to, n, sent, way, ackWay)[k]) \in UserEvents
  OBVIOUS
<1> DEFINE id  == next_message_id + k - 1
           ack == Ack(AckKey(id, next_fragment_set), from)
           m   == Message(id, sent, from, to, next_fragment_set, n, k - 1, Packet(ackWay[k], ack))
<1>1. BuildMessages(from, to, n, sent, way, ackWay)[k] = Packet(way[k], m)
  BY DEF BuildMessages
<1>2. id \in Nat /\ k - 1 \in Nat /\ way[k] \in Routes /\ ackWay[k] \in Path
  BY RouteAssumption
<1>3. ack \in Acks
  <2> HIDE DEF id
  <2>1. AckKey(id, next_fragment_set) \in Nat
    BY <1>2, AckKeyType
  <2> QED BY <2>1 DEF Ack, Acks
<1> HIDE DEF id, ack
<1>4. Packet(ackWay[k], ack) \in AckPackets
  BY <1>2, <1>3 DEF Packet, AckPackets
<1>5. m \in Messages
  BY <1>2, <1>4 DEF Message, Messages
<1> HIDE DEF m
<1>6. Packet(way[k], m) \in [hops : Routes, content : Messages]
  BY <1>2, <1>5 DEF Packet
<1> QED BY <1>1, <1>6 DEF Egress, UserEvents

LEMMA QueueMessagesFacts ==
  ASSUME NEW u \in Users, QueuesInv, RecordsInv, timestamp' \in Nat,
         DueFrom(Pop(events[u]), UserEvents, timestamp'),
         \A v \in Users : DueFrom(events[v], UserEvents, timestamp'),
         NEW from \in Users, NEW to \in Users, NEW n \in Nat \ {0}, NEW sent \in Nat,
         QueueMessages(u, from, to, n, sent)
  PROVE  /\ DOMAIN events' = Users /\ events' = [v \in Users |-> events'[v]]
         /\ \A v \in Users : DueFrom(events'[v], UserEvents, timestamp')
         /\ next_message_id' \in Nat /\ next_fragment_set' \in Nat
<1>1. next_message_id \in Nat /\ next_fragment_set \in Nat /\ Drawable \subseteq Routes
  BY RouteAssumption DEF RecordsInv, Drawable
<1>2. PICK way \in [1..n -> Drawable], ackWay \in [1..n -> Drawable] :
        events' = [events EXCEPT ![u] =
                     InsertAll(Pop(events[u]), timestamp',
                               [k \in 1..n |-> Egress(BuildMessages(from, to, n, sent, way, ackWay)[k])])]
  BY DEF QueueMessages
<1>3. next_message_id' = next_message_id + n /\ next_fragment_set' = next_fragment_set + 1
  BY DEF QueueMessages
<1> DEFINE xs == [k \in 1..n |-> Egress(BuildMessages(from, to, n, sent, way, ackWay)[k])]
<1>4. xs \in Seq(UserEvents)
  <2>1. way \in [1..n -> Routes] /\ ackWay \in [1..n -> Routes]
    BY <1>1, <1>2
  <2>2. \A k \in 1..n : xs[k] \in UserEvents
    BY <2>1, <1>1, BuildMessagesType
  <2>3. xs \in [1..n -> UserEvents]
    BY <2>2
  <2> QED BY <2>3, IsASeq
<1> HIDE DEF xs
<1>5. DueFrom(InsertAll(Pop(events[u]), timestamp', xs), UserEvents, timestamp')
  BY <1>4, DueInsertAll
<1>6. events' = [events EXCEPT ![u] = InsertAll(Pop(events[u]), timestamp', xs)]
  BY <1>2 DEF xs
<1>7. next_message_id' \in Nat /\ next_fragment_set' \in Nat
  BY <1>1, <1>3
<1> QED BY <1>5, <1>6, <1>7 DEF QueuesInv

LEMMA StartSendInv ==
  ASSUME SimInv, NEW u \in Users, StartSend(u)
  PROVE  SimInv'
<1> DEFINE n == NextItem(events[u]).num_frags
<1>1. /\ timestamp' \in Nat /\ NextItem(events[u]) \in UserEvents
      /\ NextItem(events[u]).kind = "SendMessage"
      /\ DueFrom(Pop(events[u]), UserEvents, timestamp')
      /\ \A m \in Nodes : DueFrom(ingress[m], Packets, timestamp')
      /\ \A v \in Users : DueFrom(events[v], UserEvents, timestamp')
  BY UserTurnFacts DEF SimInv, StartSend
<1>2. n \in Nat \ {0} /\ Recipient \in Users
  BY <1>1 DEF UserEvents, Users
<1>3. /\ QueueMessages(u, u, Recipient, n, timestamp')
      /\ UNCHANGED <<ingress, fragments, t_first, original_messages, deliveries, packet_count, drops>>
  BY DEF StartSend
<1> HIDE DEF n
<1>4. /\ DOMAIN events' = Users /\ events' = [v \in Users |-> events'[v]]
      /\ \A v \in Users : DueFrom(events'[v], UserEvents, timestamp')
      /\ next_message_id' \in Nat /\ next_fragment_set' \in Nat
  BY <1>1, <1>2, <1>3, QueueMessagesFacts DEF SimInv
<1>5. QueuesInv'
  BY <1>1, <1>3, <1>4 DEF SimInv, QueuesInv
<1>6. RecordsInv'
  BY <1>3, <1>4 DEF SimInv, RecordsInv
<1> QED BY <1>5, <1>6 DEF SimInv

(***************************************************************************)
(* HashMap::remove.                                                        *)
(***************************************************************************)
LEMMA ForgetOriginal ==
  ASSUME RecordsInv, NEW u \in Users, NEW id,
         original_messages' = [original_messages EXCEPT ![u] =
                                 Restrict(@, DOMAIN @ \ {id})]
  PROVE  \A v \in Users : \A x \in DOMAIN original_messages'[v] :
           x \in Nat /\ original_messages'[v][x] \in Messages
<1> DEFINE f == original_messages[u]
           g == Restrict(f, DOMAIN f \ {id})
<1>1. \A x \in DOMAIN g : x \in DOMAIN f /\ g[x] = f[x]
  BY DEF Restrict
<1>2. \A x \in DOMAIN f : x \in Nat /\ f[x] \in Messages
  BY DEF RecordsInv
<1>3. original_messages' = [original_messages EXCEPT ![u] = g]
  OBVIOUS
<1> HIDE DEF f, g
<1> QED BY <1>1, <1>2, <1>3 DEF RecordsInv

LEMMA ResendFragmentInv ==
  ASSUME SimInv, NEW u \in Users, ResendFragment(u)
  PROVE  SimInv'
<1> DEFINE id == NextItem(events[u]).id
           m  == original_messages[u][id]
<1>1. /\ timestamp' \in Nat /\ NextItem(events[u]) \in UserEvents
      /\ DueFrom(Pop(events[u]), UserEvents, timestamp')
      /\ \A n \in Nodes : DueFrom(ingress[n], Packets, timestamp')
      /\ \A v \in Users : DueFrom(events[v], UserEvents, timestamp')
  BY UserTurnFacts DEF SimInv, ResendFragment
<1>2. PICK way \in Drawable, ackWay \in Drawable :
        events' = [events EXCEPT ![u] =
                     Insert(Pop(events[u]), timestamp', Egress(Retransmission(u, m, way, ackWay)))]
  BY DEF ResendFragment
<1>3. m \in Messages
  BY DEF SimInv, RecordsInv, ResendFragment
<1>4. /\ original_messages' = [original_messages EXCEPT ![u] = Restrict(@, DOMAIN @ \ {id})]
      /\ next_message_id' = next_message_id + 1
      /\ UNCHANGED <<ingress, fragments, t_first, deliveries, next_fragment_set, packet_count, drops>>
  BY DEF ResendFragment
<1>5. next_message_id \in Nat /\ way \in Routes /\ ackWay \in Path
  BY <1>2, RouteAssumption DEF SimInv, RecordsInv, Drawable
<1> HIDE DEF id, m
<1>6. Egress(Retransmission(u, m, way, ackWay)) \in UserEvents
  <2> DEFINE ack == Packet(ackWay, Ack(next_message_id, u))
             again == [m EXCEPT !.id = next_message_id, !.ack = ack]
  <2>1. ack \in AckPackets
    BY <1>5 DEF Packet, AckPackets, Ack, Acks
  <2> HIDE DEF ack
  <2>2. again \in Messages
    BY <1>3, <1>5, <2>1 DEF Messages
  <2>3. Retransmission(u, m, way, ackWay) = Packet(way, again)
    BY DEF Retransmission, ack
  <2> HIDE DEF again
  <2> QED BY <1>5, <2>2, <2>3 DEF Packet, Egress, UserEvents
<1>7. DueFrom(Insert(Pop(events[u]), timestamp', Egress(Retransmission(u, m, way, ackWay))),
              UserEvents, timestamp')
  BY <1>1, <1>6, DueInsert
<1>8. QueuesInv'
  BY <1>1, <1>2, <1>4, <1>7 DEF SimInv, QueuesInv
<1>9. RecordsInv'
  <2>1. \A v \in Users : \A x \in DOMAIN original_messages'[v] :
          x \in Nat /\ original_messages'[v][x] \in Messages
    BY <1>4, ForgetOriginal DEF SimInv
  <2>2. next_message_id' \in Nat
    BY <1>4, <1>5
  <2> QED BY <1>4, <2>1, <2>2 DEF SimInv, RecordsInv
<1> QED BY <1>8, <1>9 DEF SimInv

LEMMA ResendMessageInv ==
  ASSUME SimInv, NEW u \in Users, ResendMessage(u)
  PROVE  SimInv'
<1> DEFINE id == NextItem(events[u]).id
           m  == original_messages[u][id]
<1>1. /\ timestamp' \in Nat
      /\ DueFrom(Pop(events[u]), UserEvents, timestamp')
      /\ \A n \in Nodes : DueFrom(ingress[n], Packets, timestamp')
      /\ \A v \in Users : DueFrom(events[v], UserEvents, timestamp')
  BY UserTurnFacts DEF SimInv, ResendMessage
<1>2. m \in Messages
  BY DEF SimInv, RecordsInv, ResendMessage
<1>3. /\ QueueMessages(u, m.sender, m.recipient, m.fragment_size, m.sending_time)
      /\ original_messages' = [original_messages EXCEPT ![u] = Restrict(@, DOMAIN @ \ {id})]
      /\ fragments' = [fragments EXCEPT ![m.recipient] =
                         @ \ FragmentsOf(m.recipient, m.fragment_set)]
      /\ UNCHANGED <<ingress, t_first, deliveries, packet_count, drops>>
  BY DEF ResendMessage
<1> HIDE DEF id, m
<1>4. /\ m.sender \in Users /\ m.recipient \in Users
      /\ m.fragment_size \in Nat \ {0} /\ m.sending_time \in Nat
  BY <1>2 DEF Messages
<1>5. /\ DOMAIN events' = Users /\ events' = [v \in Users |-> events'[v]]
      /\ \A v \in Users : DueFrom(events'[v], UserEvents, timestamp')
      /\ next_message_id' \in Nat /\ next_fragment_set' \in Nat
  BY <1>1, <1>3, <1>4, QueueMessagesFacts DEF SimInv
<1>6. QueuesInv'
  BY <1>1, <1>3, <1>5 DEF SimInv, QueuesInv
<1>7. RecordsInv'
  <2>1. \A v \in Users : \A x \in DOMAIN original_messages'[v] :
          x \in Nat /\ original_messages'[v][x] \in Messages
    BY <1>3, ForgetOriginal DEF SimInv
  <2>2. fragments' \in [Users -> SUBSET (Nat \X Nat)]
    BY <1>3, <1>4 DEF SimInv, RecordsInv
  <2> QED BY <1>3, <1>5, <2>1, <2>2 DEF SimInv, RecordsInv
<1> QED BY <1>6, <1>7 DEF SimInv

-------------------------------------------------------------------------------
(***************************************************************************)
(* One step of the simulation keeps SimInv.                                *)
(***************************************************************************)
LEMMA NextSimInv == SimInv /\ [Next]_vars => SimInv'
<1> SUFFICES ASSUME SimInv, [Next]_vars PROVE SimInv'
  OBVIOUS
<1>1. ASSUME NEW n \in Nodes, NodeMessage(n) PROVE SimInv'
  BY <1>1, NodeMessageInv
<1>2. ASSUME NEW n \in Nodes, NodeAck(n) PROVE SimInv'
  BY <1>2, NodeAckInv
<1>3. ASSUME NEW n \in Nodes, NodeForward(n) PROVE SimInv'
  BY <1>3, NodeForwardInv
<1>4. ASSUME NEW u \in Users, ReceiveMessage(u) PROVE SimInv'
  BY <1>4, ReceiveMessageInv
<1>5. ASSUME NEW u \in Users, NEW dropped \in BOOLEAN, EgressPacket(u, dropped) PROVE SimInv'
  BY <1>5, EgressPacketInv
<1>6. ASSUME NEW u \in Users, StartSend(u) PROVE SimInv'
  BY <1>6, StartSendInv
<1>7. ASSUME NEW u \in Users, ResendFragment(u) PROVE SimInv'
  BY <1>7, ResendFragmentInv
<1>8. ASSUME NEW u \in Users, ResendMessage(u) PROVE SimInv'
  BY <1>8, ResendMessageInv
<1>9. CASE UNCHANGED vars
  BY <1>9 DEF SimInv, QueuesInv, RecordsInv, vars, simVars
<1> QED BY <1>1, <1>2, <1>3, <1>4, <1>5, <1>6, <1>7, <1>8, <1>9 DEF Next, Step, Stop

LEMMA SimInvariant == Spec => []SimInv
<1>1. Init => SimInv
  BY InitSimInv
<1>2. SimInv /\ [Next]_vars => SimInv'
  BY NextSimInv
<1> QED BY <1>1, <1>2, PTL DEF Spec

(***************************************************************************)
(* Whatever hops are drawn, packets lost and timeouts fired, every queue,  *)
(* map and counter of the Simulation holds values of its declared type.    *)
(***************************************************************************)
THEOREM TypeCorrect == Spec => []TypeOK
<1>1. SimInv => TypeOK
  BY SimInvMeaning
<1> QED BY <1>1, SimInvariant, PTL

(***************************************************************************)
(* The queues of Simulation stay sorted and their events ahead of the      *)
(* clock, so the "in the past" failures of Simulation::step are dead code. *)
(***************************************************************************)
THEOREM NeverInThePast == Spec => []NoEventInThePast
<1>1. SimInv => NoEventInThePast
  BY SimInvMeaning
<1> QED BY <1>1, SimInvariant, PTL

===============================================================================
