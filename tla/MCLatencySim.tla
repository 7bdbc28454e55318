----------------------------- MODULE MCLatencySim -----------------------------
(***************************************************************************)
(* Instances of LatencySim for TLC, on two nodes and two hops.  Lossy      *)
(* instances draw from a fast and a slow route: the acknowledgement is     *)
(* early if it returns fast, at the same time as the timeout if both ways  *)
(* are slow, and late if only its own is.  Prompt instances draw from a    *)
(* fast route and one without any delay, so that many events fall on the   *)
(* same time, and an acknowledgement comes one tick before its timeout.    *)
(***************************************************************************)
EXTENDS LatencyTransfer

FastRoute == <<[node |-> 0, delay |-> 1], [node |-> 1, delay |-> 0]>>
SlowRoute == <<[node |-> 1, delay |-> 2], [node |-> 0, delay |-> 2]>>

LossyRoutes == {FastRoute, SlowRoute}
FastRoutes == {FastRoute}

InstantRoute == <<[node |-> 1, delay |-> 0], [node |-> 0, delay |-> 0]>>
OnTimeRoutes == {FastRoute, InstantRoute}

===============================================================================
