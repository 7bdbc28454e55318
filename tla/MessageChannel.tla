---------------------------- MODULE MessageChannel ----------------------------
(***************************************************************************)
(* What the packet formats promise their users, without packets, keys or   *)
(* fragments: what is sent is received as a whole and exactly as it was    *)
(* sent, or it is lost, and one of the two happens.                        *)
(***************************************************************************)
CONSTANTS Items,     \* messages and replies
          Contents,  \* what they may say
          Nothing    \* no content, none of Contents

VARIABLES sent,      \* the content of every item that was sent
          received,  \* the content of every item that was received
          lost       \* items on whose way something was lost

vars == <<sent, received, lost>>

Init ==
  /\ sent = [i \in Items |-> Nothing]
  /\ received = [i \in Items |-> Nothing]
  /\ lost = {}

Send(i) ==
  /\ sent[i] = Nothing
  /\ \E c \in Contents : sent' = [sent EXCEPT ![i] = c]
  /\ UNCHANGED <<received, lost>>

UnderWay(i) == sent[i] # Nothing /\ received[i] = Nothing /\ i \notin lost

Receive(i) ==
  /\ UnderWay(i)
  /\ received' = [received EXCEPT ![i] = sent[i]]
  /\ UNCHANGED <<sent, lost>>

Lose(i) ==
  /\ UnderWay(i)
  /\ lost' = lost \cup {i}
  /\ UNCHANGED <<sent, received>>

Next == \E i \in Items : Send(i) \/ Receive(i) \/ Lose(i)

Spec == Init /\ [][Next]_vars

(***************************************************************************)
(* What is under way does not stay so: it is received or lost.             *)
(***************************************************************************)
Settles == \A i \in Items : UnderWay(i) ~> ~UnderWay(i)

===============================================================================
