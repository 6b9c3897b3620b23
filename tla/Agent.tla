------------------------------- MODULE Agent -------------------------------
(***************************************************************************)
(* The agent's control API on the server (sidecar/api.go): the concurrent  *)
(* POST /v1/distribute handlers, the lease of one worker per whole-job,    *)
(* and the run of the job on that worker as far as the lease is concerned  *)
(* (distribute.go; transport.go, SendWork).                                *)
(***************************************************************************)
EXTENDS Naturals

CONSTANTS Jobs,        \* distribute requests
          Whole,       \* those with whole_job set
          Workers,     \* worker node ids
          None,        \* no worker
          DeadPolls,   \* polls without a worker before acquireWorker gives up
          MaxChanges   \* bound: changes of the set of announced workers

ASSUME AgentAssumption ==
    /\ Whole \subseteq Jobs
    /\ None \notin Workers
    /\ DeadPolls \in Nat \ {0}
    /\ MaxChanges \in Nat

VARIABLES
    alive,    \* the workers the registry reports
    changes,  \* how often that set has changed
    busy,     \* a.busy
    pc,       \* where each handler is
    seen,     \* the aliveWorkers() result the handler looks at
    misses,   \* polls since acquireWorker last saw a worker
    leased,   \* the worker acquireWorker returned
    result,   \* what the handler answered
    hosted    \* whole-jobs in a worker's pull queue or its PixInsight

vars == <<alive, changes, busy, pc, seen, misses, leased, result, hosted>>

Init ==
    /\ alive \in SUBSET Workers
    /\ changes = 0
    /\ busy = {}
    /\ pc = [j \in Jobs |-> "new"]
    /\ seen = [j \in Jobs |-> {}]
    /\ misses = [j \in Jobs |-> 0]
    /\ leased = [j \in Jobs |-> None]
    /\ result = [j \in Jobs |-> "none"]
    /\ hosted = [w \in Workers |-> {}]

Goto(j, from, to) ==
    /\ pc[j] = from
    /\ pc' = [pc EXCEPT ![j] = to]

Answer(j, what) == result' = [result EXCEPT ![j] = what]

-----------------------------------------------------------------------------
(* Discovery: a beacon is heard for the first time, or none for NodeTTL. *)

Announce(w) ==
    /\ w \notin alive /\ changes < MaxChanges
    /\ alive' = alive \cup {w} /\ changes' = changes + 1
    /\ UNCHANGED <<busy, pc, seen, misses, leased, result, hosted>>

Expire(w) ==
    /\ w \in alive /\ changes < MaxChanges
    /\ alive' = alive \ {w} /\ changes' = changes + 1
    /\ UNCHANGED <<busy, pc, seen, misses, leased, result, hosted>>

-----------------------------------------------------------------------------
(* handleDistribute up to the choice of the workers. *)

BadRequest(j) ==
    /\ Goto(j, "new", "done") /\ Answer(j, "error")
    /\ UNCHANGED <<alive, changes, busy, seen, misses, leased, hosted>>

Arrive(j) ==
    /\ Goto(j, "new", "discover")
    /\ UNCHANGED <<alive, changes, busy, seen, misses, leased, result, hosted>>

(* A sharded job runs on all of them, without a lease. *)
FoundWorkers(j) ==
    /\ alive # {}
    /\ Goto(j, "discover", IF j \in Whole THEN "acquire" ELSE "sharded")
    /\ seen' = [seen EXCEPT ![j] = alive]
    /\ UNCHANGED <<alive, changes, busy, misses, leased, result, hosted>>

(* Still none after 20 s. *)
NoWorkers(j) ==
    /\ alive = {}
    /\ Goto(j, "discover", "done") /\ Answer(j, "error")
    /\ UNCHANGED <<alive, changes, busy, seen, misses, leased, hosted>>

(* The request's context is done while the handler waits for a worker. *)
Cancelled(j) ==
    /\ Goto(j, "discover", "done") \/ Goto(j, "acquire", "done")
    /\ Answer(j, "error")
    /\ UNCHANGED <<alive, changes, busy, seen, misses, leased, hosted>>

-----------------------------------------------------------------------------
(* acquireWorker: look at the registry, then at a.busy under the lock. *)

Poll(j) ==
    /\ Goto(j, "acquire", "pick")
    /\ seen' = [seen EXCEPT ![j] = alive]
    /\ misses' = [misses EXCEPT ![j] = IF alive = {} THEN @ + 1 ELSE 0]
    /\ UNCHANGED <<alive, changes, busy, leased, result, hosted>>

\* Defect: the snapshot alone decides.
AcquireStale(j, w) ==
    /\ w \in seen[j]
    /\ Goto(j, "pick", "leased")
    /\ busy' = busy \cup {w}
    /\ leased' = [leased EXCEPT ![j] = w]
    /\ UNCHANGED <<alive, changes, seen, misses, result, hosted>>

Acquire(j, w) ==
    /\ w \in seen[j] \ busy
    /\ Goto(j, "pick", "leased")
    /\ busy' = busy \cup {w}
    /\ leased' = [leased EXCEPT ![j] = w]
    /\ UNCHANGED <<alive, changes, seen, misses, result, hosted>>

Sleep(j) ==
    /\ seen[j] \subseteq busy
    /\ misses[j] < DeadPolls
    /\ Goto(j, "pick", "acquire")
    /\ UNCHANGED <<alive, changes, busy, seen, misses, leased, result, hosted>>

GiveUp(j) ==
    /\ seen[j] = {}
    /\ misses[j] = DeadPolls
    /\ Goto(j, "pick", "done") /\ Answer(j, "error")
    /\ UNCHANGED <<alive, changes, busy, seen, misses, leased, hosted>>

-----------------------------------------------------------------------------
(* distributeJob on the leased worker, then the deferred releaseWorker. *)

\* Defect: the error return skips releaseWorker.
FailWithoutRelease(j) ==
    /\ Goto(j, "leased", "done") /\ Answer(j, "error")
    /\ UNCHANGED <<alive, changes, busy, seen, misses, leased, hosted>>

(* Handshake refused or failed, or an upload failed: no manifest is sent. *)
FailBeforeWork(j) ==
    /\ Goto(j, "leased", "release") /\ Answer(j, "error")
    /\ UNCHANGED <<alive, changes, busy, seen, misses, leased, hosted>>

SendWork(j) ==
    /\ Goto(j, "leased", "working")
    /\ hosted' = [hosted EXCEPT ![leased[j]] = @ \cup {j}]
    /\ UNCHANGED <<alive, changes, busy, seen, misses, leased, result>>

(* The worker is through with the job; if /lan/work still waits for it the *)
(* agent downloads the outputs and has its report.                         *)
WorkDone(j, w) ==
    /\ j \in hosted[w]
    /\ hosted' = [hosted EXCEPT ![w] = @ \ {j}]
    /\ IF pc[j] = "working"
       THEN Goto(j, "working", "release") /\ Answer(j, "report")
       ELSE UNCHANGED <<pc, result>>
    /\ UNCHANGED <<alive, changes, busy, seen, misses, leased>>

(* The worker's timer, a broken connection or the end of the request's     *)
(* context ends SendWork; the manifest stays where it is.                  *)
WorkAbandoned(j) ==
    /\ Goto(j, "working", "release") /\ Answer(j, "error")
    /\ UNCHANGED <<alive, changes, busy, seen, misses, leased, hosted>>

\* Defect: releaseWorker does not delete the entry of a.busy.
ReleaseKeepsBusy(j) ==
    /\ Goto(j, "release", "done")
    /\ leased' = [leased EXCEPT ![j] = None]
    /\ UNCHANGED <<alive, changes, busy, seen, misses, result, hosted>>

Release(j) ==
    /\ Goto(j, "release", "done")
    /\ busy' = busy \ {leased[j]}
    /\ leased' = [leased EXCEPT ![j] = None]
    /\ UNCHANGED <<alive, changes, seen, misses, result, hosted>>

RunSharded(j, what) ==
    /\ Goto(j, "sharded", "done") /\ Answer(j, what)
    /\ UNCHANGED <<alive, changes, busy, seen, misses, leased, hosted>>

-----------------------------------------------------------------------------
Handler(j) ==
    \/ FoundWorkers(j) \/ NoWorkers(j) \/ Poll(j) \/ Sleep(j) \/ GiveUp(j)
    \/ FailBeforeWork(j) \/ SendWork(j) \/ Release(j)
    \/ \E what \in {"report", "error"} : RunSharded(j, what)
    \/ \E w \in Workers : Acquire(j, w)

Finish(j) == WorkAbandoned(j) \/ \E w \in Workers : WorkDone(j, w)

Quiet ==
    /\ \A j \in Jobs : pc[j] = "done"
    /\ UNCHANGED vars

Next ==
    \/ \E w \in Workers : Announce(w) \/ Expire(w)
    \/ \E j \in Jobs : BadRequest(j) \/ Arrive(j) \/ Cancelled(j) \/ Handler(j) \/ Finish(j)
    \/ Quiet

Spec == Init /\ [][Next]_vars

(* Handlers are goroutines with timers of their own, and the worker's      *)
(* Process answers each request (PullExecutor, EveryRequestAnswered).      *)
FairSpec ==
    Spec /\ \A j \in Jobs : WF_vars(Handler(j)) /\ WF_vars(Finish(j))
-----------------------------------------------------------------------------
PCs == {"new", "discover", "acquire", "pick", "leased", "working", "release",
        "sharded", "done"}

TypeOK ==
    /\ alive \subseteq Workers /\ changes \in Nat
    /\ busy \subseteq Workers
    /\ pc \in [Jobs -> PCs]
    /\ seen \in [Jobs -> SUBSET Workers]
    /\ misses \in [Jobs -> 0..DeadPolls]
    /\ leased \in [Jobs -> Workers \cup {None}]
    /\ result \in [Jobs -> {"none", "report", "error"}]
    /\ hosted \in [Workers -> SUBSET Whole]

(* A job holds a lease exactly while it runs on the worker. *)
Leasing(j) == pc[j] \in {"leased", "working", "release"}
LeaseWhileRunning == \A j \in Jobs : (leased[j] # None) <=> Leasing(j)

(* a.busy is exactly the set of leased workers: no handler, whichever way  *)
(* it ends, leaves a worker marked that no job uses, and none is free      *)
(* while a job runs on it.                                                 *)
BusyIsLeased == busy = {leased[j] : j \in Jobs} \ {None}

(* "a worker never runs two at once" (api.go:142): of the whole-jobs that  *)
(* are in a worker's queue or its PixInsight, the agent waits for one at   *)
(* most; any other is left over from a request that was given up.          *)
OneAwaitedPerWorker ==
    \A w \in Workers : \A j, k \in hosted[w] :
        pc[j] = "working" /\ pc[k] = "working" => j = k

(* No two jobs lease one worker. *)
Exclusive == \A j, k \in Jobs : leased[j] = leased[k] /\ leased[j] # None => j = k

(* A job is in no worker before it is sent, and then in the one it leases. *)
HostedWhereLeased ==
    \A j \in Jobs, w \in Workers : j \in hosted[w] =>
        /\ pc[j] \in {"working", "release", "done"}
        /\ pc[j] = "working" => leased[j] = w

(* The counter of empty polls stays below the deadline between polls. *)
PollsLeft ==
    \A j \in Jobs : pc[j] \in {"new", "discover", "acquire"} => misses[j] < DeadPolls

(* The inductive invariant: a stale snapshot is harmless because a.busy is *)
(* read and written under one lock and mirrors the leases.                 *)
LeaseInv ==
    /\ TypeOK /\ LeaseWhileRunning /\ BusyIsLeased /\ Exclusive
    /\ HostedWhereLeased /\ PollsLeft
    /\ \A j \in Jobs \ Whole : pc[j] \in {"new", "discover", "sharded", "done"}

(* Stale registry snapshots and concurrent polls notwithstanding, the      *)
(* agent implements the exclusive lease of its comment.                    *)
L == INSTANCE Lease WITH owns <- leased
ImplementsLease == L!Spec

(* No distribute request waits for ever: a whole-job queued behind others  *)
(* gets its turn, and one without any worker gives up.                     *)
EveryJobReturns == \A j \in Jobs : pc[j] = "discover" ~> pc[j] = "done"
=============================================================================
