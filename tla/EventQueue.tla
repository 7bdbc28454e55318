------------------------------ MODULE EventQueue ------------------------------
(***************************************************************************)
(* The time-ordered event lists of the latency simulator.  A mix node's    *)
(* `ingress` and a user's `events` are both a Vec<(Timestamp, _)> kept     *)
(* sorted by insertion (Node::insert, User::insert), read at the front     *)
(* (next), popped at the front (pop) and, for an arriving acknowledgement, *)
(* thinned in place (Vec::retain).  An entry is a record [time, item].     *)
(* An operator marked "mutation" is the definition after it with a         *)
(* plausible mistake, kept to show that a property notices.                *)
(***************************************************************************)
EXTENDS Naturals, Sequences, FiniteSets

Queues(S) == Seq([time : Nat, item : S])

Entry(t, x) == [time |-> t, item |-> x]

(***************************************************************************)
(* slice::partition_point(|x| x.0 <= t): on a list partitioned by that     *)
(* predicate, the length of its first part.  Entries of equal time stay    *)
(* before the new one, so that simultaneous events are first in first out. *)
(***************************************************************************)
\* mutation: new entries are appended
PartitionPointAtEnd(q, t) == Len(q)

PartitionPoint(q, t) ==
  CHOOSE k \in 0..Len(q) : /\ \A i \in 1..k : q[i].time <= t
                           /\ \A i \in (k + 1)..Len(q) : t < q[i].time

(***************************************************************************)
(* The insertion of the items of xs, one after another, all at time t: the *)
(* entries before the partition point, then xs, then the others.           *)
(***************************************************************************)
InsertAll(q, t, xs) ==
  LET k == PartitionPoint(q, t)
      n == Len(xs)
  IN  [i \in 1..(Len(q) + n) |-> IF i <= k THEN q[i]
                                ELSE IF i <= k + n THEN Entry(t, xs[i - k])
                                ELSE q[i - n]]

Insert(q, t, x) == InsertAll(q, t, <<x>>)

NextTime(q) == Head(q).time

NextItem(q) == Head(q).item

Pop(q) == Tail(q)

(***************************************************************************)
(* Vec::retain: every occurrence of item x goes, the others keep their     *)
(* order.  The n-th entry that stays is the one of rank n among those that *)
(* stay; written without recursion so that its properties can be proved.   *)
(***************************************************************************)
Rank(K, i) == Cardinality({j \in K : j <= i})

\* mutation: an acknowledgement cancels every timeout
CancelKind(q, x) ==
  LET kept == {i \in 1..Len(q) : q[i].item.kind # x.kind}
  IN  [n \in 1..Cardinality(kept) |-> q[CHOOSE i \in kept : Rank(kept, i) = n]]

Cancel(q, x) ==
  LET kept == {i \in 1..Len(q) : q[i].item # x}
  IN  [n \in 1..Cardinality(kept) |-> q[CHOOSE i \in kept : Rank(kept, i) = n]]

(***************************************************************************)
(* What the handlers rely on: a queue is sorted by time, and nothing in it *)
(* is due before t.                                                        *)
(***************************************************************************)
SortedByTime(q) == \A i, j \in 1..Len(q) : i <= j => q[i].time <= q[j].time

NothingBefore(q, t) == \A i \in 1..Len(q) : t <= q[i].time

Items(q) == {q[i].item : i \in 1..Len(q)}

===============================================================================
