--------------------------- MODULE WholeJobBatch ---------------------------
(***************************************************************************)
(* The whole-job batches of the shim (WBPPShim.js): WBPP runs the          *)
(* operations of its queue one after another; the first integration of a   *)
(* phase takes over the ones behind it, leases some to workers, runs the   *)
(* rest itself, and leaves a memo (__clusterDone, __clusterStatus) that    *)
(* WBPP finds when it reaches them.  The integrations of calibration       *)
(* frames, lights, LN references and drizzle follow one skeleton; flats    *)
(* also pull forward the calibrations between their integrations.          *)
(***************************************************************************)
EXTENDS Naturals, Sequences

CONSTANTS Groups,   \* frame groups
          Queues    \* the operation queues WBPP may build

(* Integrations of bias, dark and dark flat frames; calibrations and       *)
(* integrations of flats; any per-frame operation; LN references, light    *)
(* and drizzle integrations.                                               *)
Kinds == {"calib", "flatcal", "flat", "frames", "lnref", "light", "drizzle"}

ASSUME QueuesAssumption == Queues \subseteq Seq([kind : Kinds, group : Groups])

VARIABLES
    queue,     \* the named operations, in order
    pos,       \* the operation WBPP runs
    pc,        \* where its run is
    cals,      \* flat calibrations the batch still has to run
    captures,  \* integrations still to be captured and sent
    locals,    \* integrations of the server's share still to run
    handles,   \* integrations sent and not yet waited for
    done,      \* operations with __clusterDone
    memo,      \* __clusterStatus
    reported,  \* operations whose run told WBPP that they are done
    started,   \* operations whose own run has been called
    runs,      \* how often each operation's product was written
    wired,     \* operations whose product the engine knows
    threw,     \* operations whose own run threw
    redone,    \* operations run again after their product was written
    orphans    \* operations sent in a job that nobody waits for any more

vars == <<queue, pos, pc, cals, captures, locals, handles, done, memo, reported,
          started, runs, wired, threw, redone, orphans>>

queueVars == <<queue, pos, reported>>
batchVars == <<cals, captures, locals, handles>>
memoVars  == <<done, memo>>
runVars   == <<started, runs, wired, threw, redone>>

Ops == DOMAIN queue
Kind(o) == queue[o].kind
Outcomes == {"done", "failed", "threw"}
First(S) == CHOOSE o \in S : \A p \in S : o <= p

Init ==
    /\ queue \in Queues
    /\ pos = 1 /\ pc = "queue"
    /\ cals = {} /\ captures = {} /\ locals = {} /\ handles = {}
    /\ done = {} /\ reported = {} /\ started = {} /\ wired = {}
    /\ threw = {} /\ redone = {} /\ orphans = {}
    /\ memo = [o \in Ops |-> "none"]
    /\ runs = [o \in Ops |-> 0]

(* How far the product of an operation got before its own run takes over:  *)
(* nothing, written, or the engine told as well.                           *)
Stages == {{}, {"written"}, {"written", "wired"}}

(* The operation's own run (external): it writes its product and tells the *)
(* engine, reports a failure, or throws.  What was done for the operation  *)
(* just before stays done.                                                 *)
OrigRun(o, out, before) ==
    /\ started' = started \cup {o}
    /\ runs' = [runs EXCEPT ![o] = @ + (IF "written" \in before THEN 1 ELSE 0)
                                     + (IF out = "done" THEN 1 ELSE 0)]
    /\ wired' = IF out = "done" \/ "wired" \in before THEN wired \cup {o} ELSE wired
    /\ threw' = IF out = "threw" THEN threw \cup {o} ELSE threw
    /\ redone' = IF "written" \in before THEN redone \cup {o} ELSE redone

\* Defect: a run that throws is remembered like one that returned.
RememberThrow(o, out) ==
    /\ done' = done \cup {o}
    /\ memo' = [memo EXCEPT ![o] = out]
    /\ pc' = IF out = "threw" THEN "fallback" ELSE pc

(* __clusterStatus and __clusterDone are set, unless the run threw: that   *)
(* leaves the batch through the catch of the wrapped run.                  *)
Remember(o, out) ==
    /\ done' = IF out = "threw" THEN done ELSE done \cup {o}
    /\ memo' = IF out = "threw" THEN memo ELSE [memo EXCEPT ![o] = out]
    /\ pc' = IF out = "threw" THEN "fallback" ELSE pc

Return(out) ==
    /\ reported' = IF out = "done" THEN reported \cup {pos} ELSE reported
    /\ pos' = pos + 1 /\ pc' = "queue"
    /\ UNCHANGED queue

-----------------------------------------------------------------------------
(* The operations each family takes over from pos on; last: the operation  *)
(* behind it has fewer than three frames, or frames that do not exist yet. *)
(* None of the functions looks at the memo of what it gathers.             *)

Streak(kinds, last) == {o \in pos..last : \A p \in pos..o : Kind(p) \in kinds}

GatherCalib(last) == Streak({"calib", "flat"}, last)
GatherLight(last) == Streak({"light"}, last)
GatherLNRef       == Streak({"lnref"}, Len(queue))

(* The flat phase, with the calibrations that are left in it. *)
GatherFlat == Streak({"flat", "flatcal"}, Len(queue))

(* The group has its light master. *)
HasMaster(o) ==
    \E p \in wired : queue[p] = [kind |-> "light", group |-> queue[o].group]

\* Defect: the light master is not asked for.
GatherDrizzleUnready == Streak({"drizzle"}, Len(queue))

GatherDrizzle ==
    {o \in Streak({"drizzle"}, Len(queue)) : \A p \in pos..o : HasMaster(p)}

Gather(last) ==
    CASE Kind(pos) = "calib"   -> GatherCalib(last)
      [] Kind(pos) = "light"   -> GatherLight(last)
      [] Kind(pos) = "lnref"   -> GatherLNRef
      [] Kind(pos) = "drizzle" -> GatherDrizzle
      [] Kind(pos) = "flat"    -> {o \in GatherFlat : Kind(o) = "flat"}
      [] OTHER                 -> {}

Cals == IF Kind(pos) = "flat" THEN {o \in GatherFlat : Kind(o) = "flatcal"} ELSE {}

-----------------------------------------------------------------------------
(* operation.run of the operation at pos. *)

(* Computed as part of a batch. *)
Memoised ==
    /\ pc = "queue" /\ pos \in done
    /\ Return(memo[pos])
    /\ UNCHANGED <<batchVars, memoVars, runVars, orphans>>

(* A batch of one, or an operation that is never batched; the wrapped run  *)
(* catches an exception of it too.                                         *)
RunAlone(last, out) ==
    /\ pc = "queue" /\ pos \in Ops \ done
    /\ Gather(last) \subseteq {pos}
    /\ OrigRun(pos, out, {})
    /\ IF out = "threw" THEN pc' = "fallback" /\ UNCHANGED queueVars ELSE Return(out)
    /\ UNCHANGED <<batchVars, memoVars, orphans>>

(* __assignMachines gives the largest to the server. *)
StartBatch(last, cluster) ==
    /\ pc = "queue" /\ pos \in Ops \ done
    /\ ~ (Gather(last) \subseteq {pos})
    /\ cluster \subseteq Gather(last) /\ cluster # Gather(last)
    /\ cals' = Cals \ done
    /\ captures' = cluster
    /\ locals' = Gather(last) \ cluster
    /\ pc' = "batch"
    /\ UNCHANGED <<queueVars, handles, memoVars, runVars, orphans>>

-----------------------------------------------------------------------------
(* distributeFlatBatch, then the three loops of dispatchIntegrationBatch,  *)
(* dispatchLNRefBatch and dispatchDrizzleBatch.                            *)

\* Defect: a calibration pulled forward is not marked.
RunCalUnmarked(out) ==
    /\ pc = "batch" /\ cals # {} /\ out # "threw"
    /\ OrigRun(First(cals), out, {})
    /\ cals' = cals \ {First(cals)}
    /\ UNCHANGED <<queueVars, pc, captures, locals, handles, memoVars, orphans>>

(* The calibration's own wrapped run; out is what it ends with. *)
RunCal(out) ==
    /\ pc = "batch" /\ cals # {}
    /\ OrigRun(First(cals), out, {})
    /\ Remember(First(cals), out)
    /\ cals' = cals \ {First(cals)}
    /\ UNCHANGED <<queueVars, captures, locals, handles, orphans>>

Capturing == pc = "batch" /\ cals = {} /\ captures # {}

Dispatch ==
    /\ Capturing
    /\ handles' = handles \cup {First(captures)}
    /\ captures' = captures \ {First(captures)}
    /\ UNCHANGED <<queueVars, pc, cals, locals, memoVars, runVars, orphans>>

(* The process never reached the container, the wrong one did, or ctl did  *)
(* not start.                                                              *)
CaptureFails(out) ==
    /\ Capturing
    /\ OrigRun(First(captures), out, {})
    /\ Remember(First(captures), out)
    /\ captures' = captures \ {First(captures)}
    /\ UNCHANGED <<queueVars, cals, locals, handles, orphans>>

(* "native path completed": the run under capture wrote the product and    *)
(* told the engine, and the operation's own run follows all the same.      *)
NativeCompletes(out) ==
    /\ Capturing
    /\ OrigRun(First(captures), out, {"written", "wired"})
    /\ Remember(First(captures), out)
    /\ captures' = captures \ {First(captures)}
    /\ UNCHANGED <<queueVars, cals, locals, handles, orphans>>

ServerTurn == pc = "batch" /\ cals = {} /\ captures = {} /\ locals # {}

RunLocal(out) ==
    /\ ServerTurn /\ First(locals) \notin done
    /\ OrigRun(First(locals), out, {})
    /\ Remember(First(locals), out)
    /\ locals' = locals \ {First(locals)}
    /\ UNCHANGED <<queueVars, cals, captures, handles, orphans>>

SkipLocal ==
    /\ ServerTurn /\ First(locals) \in done
    /\ locals' = locals \ {First(locals)}
    /\ UNCHANGED <<queueVars, pc, cals, captures, handles, memoVars, runVars, orphans>>

Joining == pc = "batch" /\ cals = {} /\ captures = {} /\ locals = {} /\ handles # {}

(* What each finalize function does when it gets to its end: the master is *)
(* written under a fresh name and the group, or the engine, is told.       *)
WriteAndWire(o) ==
    /\ runs' = [runs EXCEPT ![o] = @ + 1]
    /\ wired' = wired \cup {o}

FinalizeMaster(o)        == Kind(o) \in {"calib", "flat"} /\ WriteAndWire(o)
FinalizeLightMaster(o)   == Kind(o) = "light"   /\ WriteAndWire(o)
FinalizeLNReference(o)   == Kind(o) = "lnref"   /\ WriteAndWire(o)
FinalizeDrizzleMaster(o) == Kind(o) = "drizzle" /\ WriteAndWire(o)

(* A verified output came back, and its finalize function went through. *)
JoinMaster ==
    LET o == First(handles) IN
    /\ Joining
    /\ \/ FinalizeMaster(o) \/ FinalizeLightMaster(o)
       \/ FinalizeLNReference(o) \/ FinalizeDrizzleMaster(o)
    /\ Remember(o, "done")
    /\ handles' = handles \ {o}
    /\ UNCHANGED <<queueVars, cals, captures, locals, started, threw, redone, orphans>>

\* Defect: a client failure is only logged.
JoinFailureIgnored(before, out) ==
    LET o == First(handles) IN
    /\ Joining
    /\ Remember(o, "done")
    /\ handles' = handles \ {o}
    /\ UNCHANGED <<queueVars, cals, captures, locals, runVars, orphans>>

(* No report, no verified output, no image among them, or finalize threw   *)
(* (before: what it had done by then; frames are gone through after the    *)
(* group got its master): the operation's own run.                         *)
JoinFails(before, out) ==
    LET o == First(handles) IN
    /\ Joining
    /\ OrigRun(o, out, before)
    /\ Remember(o, out)
    /\ handles' = handles \ {o}
    /\ UNCHANGED <<queueVars, cals, captures, locals, orphans>>

\* Defect: the batch returns when the server's share is done.
FinishEarly ==
    /\ pc = "batch" /\ cals = {} /\ captures = {} /\ locals = {}
    /\ Return(memo[pos])
    /\ UNCHANGED <<batchVars, memoVars, runVars, orphans>>

FinishBatch ==
    /\ pc = "batch" /\ cals = {} /\ captures = {} /\ locals = {} /\ handles = {}
    /\ Return(memo[pos])
    /\ UNCHANGED <<batchVars, memoVars, runVars, orphans>>

(* The catch of the wrapped run: the local variables of the batch are gone, *)
(* the operation that started it runs natively.                            *)
Fallback(out) ==
    /\ pc = "fallback"
    /\ OrigRun(pos, out, {})
    /\ orphans' = orphans \cup handles
    /\ cals' = {} /\ captures' = {} /\ locals' = {} /\ handles' = {}
    /\ Return(out)
    /\ UNCHANGED memoVars

QueueDone ==
    /\ pos = Len(queue) + 1
    /\ UNCHANGED vars

Next ==
    \/ Memoised \/ Dispatch \/ SkipLocal \/ JoinMaster \/ FinishBatch \/ QueueDone
    \/ \E last \in Ops, cluster \in SUBSET Ops : StartBatch(last, cluster)
    \/ \E out \in Outcomes :
          \/ RunCal(out) \/ CaptureFails(out) \/ NativeCompletes(out) \/ RunLocal(out)
          \/ Fallback(out)
          \/ \E last \in Ops : RunAlone(last, out)
          \/ \E before \in Stages : JoinFails(before, out)

Spec == Init /\ [][Next]_vars
-----------------------------------------------------------------------------
TypeOK ==
    /\ queue \in Queues
    /\ pos \in 1..(Len(queue) + 1) /\ pc \in {"queue", "batch", "fallback"}
    /\ cals \subseteq Ops /\ captures \subseteq Ops /\ locals \subseteq Ops
    /\ handles \subseteq Ops /\ orphans \subseteq Ops
    /\ done \subseteq Ops /\ memo \in [Ops -> {"none", "done", "failed"}]
    /\ reported \subseteq Ops /\ started \subseteq Ops /\ threw \subseteq Ops
    /\ wired \subseteq Ops /\ redone \subseteq Ops
    /\ runs \in [Ops -> Nat]

(* WBPP is told that an operation is done only if its product was written  *)
(* and the engine knows it, whether the operation itself, a batch before   *)
(* it or a worker did it.                                                  *)
DoneMeansWired ==
    \A o \in reported : runs[o] > 0 /\ o \in wired

(* No operation is computed twice, unless a native run threw out of a      *)
(* batch, or finalize or the capture failed after the product was written. *)
ComputedOnce ==
    \A o \in Ops : runs[o] > 1 => threw # {} \/ o \in redone

(* Taking operations out of turn keeps the order they need: a flat         *)
(* integration is sent or run only after every flat calibration before it  *)
(* in the queue, and a drizzle integration is sent only once its group has *)
(* its light master.                                                       *)
PrerequisitesMet ==
    /\ \A o, c \in Ops :
          /\ Kind(o) = "flat" /\ Kind(c) = "flatcal" /\ c < o
          /\ o \in handles \cup orphans \cup started \/ runs[o] > 0
          => c \in started
    /\ \A o \in handles \cup orphans : Kind(o) = "drizzle" => HasMaster(o)

(* A job is left on the cluster with nobody waiting for it only if a       *)
(* native run threw while it was out.                                      *)
OrphanedByThrow ==
    /\ orphans # {} => threw # {}
    /\ pc = "queue" => handles = {}
=============================================================================
