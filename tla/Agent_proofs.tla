--------------------------- MODULE Agent_proofs ---------------------------
(***************************************************************************)
(* The lease of whole-jobs, for any number of jobs and workers and any     *)
(* behaviour of the registry.                                              *)
(***************************************************************************)
EXTENDS Agent, TLAPS

(* At the start nothing is leased and no handler has run. *)
LEMMA InitInv == Init => LeaseInv
  BY AgentAssumption DEF Init, LeaseInv, TypeOK, PCs, LeaseWhileRunning, Leasing,
     BusyIsLeased, Exclusive, HostedWhereLeased, PollsLeft

(* Every step of a handler, of a worker and of the registry preserves it. *)
LEMMA InvStep == LeaseInv /\ [Next]_vars => LeaseInv'
<1> SUFFICES ASSUME LeaseInv, [Next]_vars PROVE LeaseInv'
  OBVIOUS
<1> USE AgentAssumption DEF LeaseInv, TypeOK, PCs, LeaseWhileRunning, Leasing,
        BusyIsLeased, Exclusive, HostedWhereLeased, PollsLeft, Goto, Answer
<1>1. ASSUME NEW w \in Workers, Announce(w) PROVE LeaseInv'
  BY <1>1 DEF Announce
<1>2. ASSUME NEW w \in Workers, Expire(w) PROVE LeaseInv'
  BY <1>2 DEF Expire
<1>3. ASSUME NEW j \in Jobs, BadRequest(j) PROVE LeaseInv'
  BY <1>3 DEF BadRequest
<1>4. ASSUME NEW j \in Jobs, Arrive(j) PROVE LeaseInv'
  BY <1>4 DEF Arrive
<1>5. ASSUME NEW j \in Jobs, Cancelled(j) PROVE LeaseInv'
  BY <1>5 DEF Cancelled
<1>6. ASSUME NEW j \in Jobs, FoundWorkers(j) PROVE LeaseInv'
  BY <1>6 DEF FoundWorkers
<1>7. ASSUME NEW j \in Jobs, NoWorkers(j) PROVE LeaseInv'
  BY <1>7 DEF NoWorkers
<1>8. ASSUME NEW j \in Jobs, Poll(j) PROVE LeaseInv'
  BY <1>8 DEF Poll
<1>9. ASSUME NEW j \in Jobs, Sleep(j) PROVE LeaseInv'
  BY <1>9 DEF Sleep
<1>10. ASSUME NEW j \in Jobs, GiveUp(j) PROVE LeaseInv'
  BY <1>10 DEF GiveUp
<1>11. ASSUME NEW j \in Jobs, FailBeforeWork(j) PROVE LeaseInv'
  BY <1>11 DEF FailBeforeWork
<1>12. ASSUME NEW j \in Jobs, SendWork(j) PROVE LeaseInv'
  BY <1>12 DEF SendWork
<1>13. ASSUME NEW j \in Jobs, Release(j) PROVE LeaseInv'
  BY <1>13 DEF Release
<1>14. ASSUME NEW j \in Jobs, NEW what \in {"report", "error"}, RunSharded(j, what) PROVE LeaseInv'
  BY <1>14 DEF RunSharded
<1>15. ASSUME NEW j \in Jobs, NEW w \in Workers, Acquire(j, w) PROVE LeaseInv'
  BY <1>15 DEF Acquire
<1>16. ASSUME NEW j \in Jobs, WorkAbandoned(j) PROVE LeaseInv'
  BY <1>16 DEF WorkAbandoned
<1>17. ASSUME NEW j \in Jobs, NEW w \in Workers, WorkDone(j, w) PROVE LeaseInv'
  BY <1>17 DEF WorkDone
<1>18. ASSUME UNCHANGED vars PROVE LeaseInv'
  BY <1>18 DEF vars
<1> HIDE DEF LeaseInv
<1>19. QED
  BY <1>1, <1>2, <1>3, <1>4, <1>5, <1>6, <1>7, <1>8, <1>9, <1>10, <1>11, <1>12, <1>13,
     <1>14, <1>15, <1>16, <1>17, <1>18 DEF Next, Handler, Finish, Quiet

(* a.busy, the handlers' leases and the workers' queues agree in every     *)
(* state the agent can reach.                                              *)
THEOREM Invariance == Spec => []LeaseInv
<1>1. QED
  BY InitInv, InvStep, PTL DEF Spec

(* The agent's state keeps its type; in particular the count of empty      *)
(* polls never passes the deadline of acquireWorker.                       *)
THEOREM TypeCorrect == Spec => []TypeOK
<1>1. LeaseInv => TypeOK
  BY DEF LeaseInv
<1>2. QED
  BY Invariance, <1>1, PTL

(* releaseWorker runs on every way out of handleDistribute: no worker      *)
(* stays marked busy without a job, none is free under one.                *)
THEOREM BusyCorrect == Spec => []BusyIsLeased
<1>1. LeaseInv => BusyIsLeased
  BY DEF LeaseInv
<1>2. QED
  BY Invariance, <1>1, PTL

(* acquireWorker never gives a worker to a second whole-job while the      *)
(* agent waits for the first.                                              *)
THEOREM OneAwaitedCorrect == Spec => []OneAwaitedPerWorker
<1>1. LeaseInv => OneAwaitedPerWorker
  <2> SUFFICES ASSUME LeaseInv,
                      NEW w \in Workers, NEW j \in hosted[w], NEW k \in hosted[w],
                      pc[j] = "working", pc[k] = "working"
               PROVE  j = k
    BY DEF OneAwaitedPerWorker
  <2>1. j \in Jobs /\ k \in Jobs
    BY AgentAssumption DEF LeaseInv, TypeOK
  <2>2. leased[j] = w /\ leased[k] = w
    BY <2>1 DEF LeaseInv, HostedWhereLeased
  <2>3. w # None
    BY AgentAssumption
  <2> QED
    BY <2>1, <2>2, <2>3 DEF LeaseInv, Exclusive
<1>2. QED
  BY Invariance, <1>1, PTL

(* A step of the agent is a grant, a give-back, or leaves the leases alone. *)
LEMMA LeaseStep == LeaseInv /\ [Next]_vars => [L!Next]_leased
<1> SUFFICES ASSUME LeaseInv, [Next]_vars, leased' # leased
             PROVE  L!Next
  OBVIOUS
<1>1. ASSUME NEW j \in Jobs, NEW w \in Workers, Acquire(j, w) PROVE L!Next
  <2>1. leased[j] = None
    BY <1>1 DEF Acquire, Goto, LeaseInv, LeaseWhileRunning, Leasing
  <2>2. \A k \in Jobs : leased[k] # w
    BY <1>1, AgentAssumption DEF Acquire, LeaseInv, BusyIsLeased
  <2>3. L!Grant(j, w)
    BY <1>1, <2>1, <2>2 DEF Acquire, L!Grant
  <2> QED
    BY <2>3 DEF L!Next
<1>2. ASSUME NEW j \in Jobs, Release(j) PROVE L!Next
  <2>1. leased[j] # None
    BY <1>2 DEF Release, Goto, LeaseInv, LeaseWhileRunning, Leasing
  <2>2. L!GiveBack(j)
    BY <1>2, <2>1 DEF Release, L!GiveBack
  <2> QED
    BY <2>2 DEF L!Next
<1>3. PICK j \in Jobs : Release(j) \/ \E w \in Workers : Acquire(j, w)
  BY DEF Next, Handler, Finish, Quiet, vars, Announce, Expire, BadRequest, Arrive,
     Cancelled, FoundWorkers, NoWorkers, Poll, Sleep, GiveUp, FailBeforeWork, SendWork,
     RunSharded, WorkAbandoned, WorkDone
<1>4. QED
  BY <1>1, <1>2, <1>3

(* The agent implements the exclusive lease that the comment of            *)
(* acquireWorker promises, however stale the registry snapshot it polls.   *)
THEOREM Refinement == Spec => ImplementsLease
<1>1. Init => L!Init
  BY DEF Init, L!Init
<1>2. QED
  BY <1>1, LeaseStep, Invariance, PTL DEF Spec, ImplementsLease, L!Spec

(* What PullExecutor takes for granted of the server (ServerMaySend there, *)
(* for whole-jobs): when a manifest is sent, any other that the worker     *)
(* still has belongs to a request the agent has given up.                  *)
SendsAlone ==
    [][\A j \in Jobs : SendWork(j) =>
          \A k \in hosted[leased[j]] : k # j /\ pc[k] # "working"]_vars

(* The lease that handleDistribute holds across SendWork discharges that   *)
(* assumption, for any number of jobs and workers.                         *)
THEOREM SendsAloneCorrect == Spec => SendsAlone
<1>1. ASSUME LeaseInv, NEW j \in Jobs, SendWork(j), NEW k \in hosted[leased[j]]
      PROVE  k # j /\ pc[k] # "working"
  <2>1. pc[j] = "leased" /\ leased[j] # None /\ leased[j] \in Workers
    BY <1>1 DEF SendWork, Goto, LeaseInv, LeaseWhileRunning, Leasing, TypeOK
  <2>2. k \in Jobs
    BY <1>1, <2>1, AgentAssumption DEF LeaseInv, TypeOK
  <2>3. /\ pc[k] \in {"working", "release", "done"}
        /\ pc[k] = "working" => leased[k] = leased[j]
    BY <1>1, <2>1, <2>2 DEF LeaseInv, HostedWhereLeased
  <2>4. k # j
    BY <2>1, <2>3
  <2>5. QED
    BY <1>1, <2>1, <2>2, <2>3, <2>4 DEF LeaseInv, Exclusive
<1>2. LeaseInv /\ [Next]_vars =>
         [\A j \in Jobs : SendWork(j) =>
             \A k \in hosted[leased[j]] : k # j /\ pc[k] # "working"]_vars
  BY <1>1
<1>3. QED
  BY <1>2, Invariance, PTL DEF Spec, SendsAlone
=============================================================================
