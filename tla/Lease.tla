------------------------------- MODULE Lease -------------------------------
(***************************************************************************)
(* What the agent promises about whole-jobs (sidecar/api.go, the comment   *)
(* of acquireWorker): a job owns at most one worker, and no worker is      *)
(* owned by two jobs at once.                                              *)
(***************************************************************************)
CONSTANTS Jobs, Workers, None

VARIABLE owns      \* owns[j]: the worker job j has leased, or None

Init == owns = [j \in Jobs |-> None]

Grant(j, w) ==
    /\ owns[j] = None
    /\ \A k \in Jobs : owns[k] # w
    /\ owns' = [owns EXCEPT ![j] = w]

GiveBack(j) ==
    /\ owns[j] # None
    /\ owns' = [owns EXCEPT ![j] = None]

Next == \E j \in Jobs : GiveBack(j) \/ \E w \in Workers : Grant(j, w)

Spec == Init /\ [][Next]_owns
=============================================================================
