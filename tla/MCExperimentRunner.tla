--------------------------- MODULE MCExperimentRunner ---------------------------
(***************************************************************************)
(* An instance of ExperimentRunner for TLC: three threads, four jobs, of   *)
(* which one may break, and rows of two fields, the fewest that can mix.   *)
(***************************************************************************)
EXTENDS ExperimentRunner

FourJobs == <<1, 2, 3, 4>>

===============================================================================
