------------------------------ MODULE MCAgent ------------------------------
(* Two whole-jobs and a sharded one contend for two workers that come and  *)
(* go.                                                                     *)
EXTENDS Agent
CONSTANTS j1, j2, s1, w1, w2
MCJobs    == {j1, j2, s1}
MCWhole   == {j1, j2}
MCWorkers == {w1, w2}
=============================================================================
