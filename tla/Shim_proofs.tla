---------------------------- MODULE Shim_proofs ----------------------------
(***************************************************************************)
(* The whole-job batches of the shim, for any queue of WBPP, any choice of *)
(* machines and any outcome of the runs; its split between server and      *)
(* cluster, for any costs and sizes of groups; and the two composed with   *)
(* its measurements.                                                       *)
(***************************************************************************)
EXTENDS Measurements_proofs, MCShim, WellFoundedInduction

(* The operations the batch still has to see to the end. *)
Pending == cals \cup captures \cup locals \cup handles

(* A batch belongs to the operation WBPP runs, and ends with its run. *)
BatchOfRun ==
    /\ pc # "queue" => pos \in Ops
    /\ pc = "batch" => Kind(pos) # "flatcal"
    /\ pc = "queue" => Pending = {}
    /\ pc = "fallback" => threw # {}

(* The memo, and what WBPP is told from it, speaks of products that exist. *)
MemoHonest ==
    /\ \A o \in wired : runs[o] > 0
    /\ \A o \in Ops : memo[o] = "done" => o \in wired
    /\ reported \subseteq wired

(* Flat calibrations are started in the order of the queue, or ahead of    *)
(* it by the batch that needs them.                                        *)
CalsFirst ==
    /\ \A c \in Ops : Kind(c) = "flatcal" /\ (c < pos \/ c \in done) => c \in started
    /\ \A o \in captures \cup locals, c \in Ops :
          Kind(o) = "flat" /\ Kind(c) = "flatcal" /\ c < o => c \in cals \cup started
    /\ \A o \in cals : Kind(o) = "flatcal"
    /\ \A o \in captures : Kind(o) = "drizzle" => HasMaster(o)

(* Unless a run threw: the loops of a batch share no operation, none of    *)
(* them comes back to one that is done, and what is done or pending has no *)
(* gap from pos on.                                                        *)
OneTurnEach ==
    threw = {} =>
        /\ \A o \in Ops : o >= pos /\ o \notin done => runs[o] = 0
        /\ \A o \in Pending : o >= pos /\ o \notin done
        /\ \A o \in cals : o \notin captures \cup locals \cup handles
        /\ \A o \in captures : o \notin locals \cup handles
        /\ \A o \in locals : o \notin handles
        /\ \A o \in Pending \cup done, p \in Ops :
              pos <= p /\ p <= o => p \in Pending \cup done

BatchInv ==
    /\ TypeOK /\ BatchOfRun /\ MemoHonest /\ CalsFirst /\ OneTurnEach
    /\ DoneMeansWired /\ ComputedOnce /\ PrerequisitesMet /\ OrphanedByThrow

(* The smallest operation of a batch exists. *)
LEMMA FirstIn ==
    ASSUME NEW S \in SUBSET Nat, S # {}
    PROVE  First(S) \in S /\ \A p \in S : First(S) <= p
<1> DEFINE R == {ss \in Nat \X Nat : ss[1] < ss[2]}
<1>1. IsWellFoundedOn(R, Nat)
  BY NatLessThanWellFounded, Zenon DEF OpToRel
<1> HIDE DEF R
<1>2. PICK o \in S : \A p \in S : ~ (<<p, o>> \in R)
  BY <1>1, WFMin, Zenon
<1>3. \A p \in S : o <= p
  <2> SUFFICES ASSUME NEW p \in S, p < o PROVE FALSE
    OBVIOUS
  <2>1. <<p, o>> \in Nat \X Nat /\ <<p, o>>[1] < <<p, o>>[2]
    OBVIOUS
  <2>2. <<p, o>> \in R
    BY <2>1, Zenon DEF R
  <2> QED
    BY <1>2, <2>2
<1> QED
  BY <1>3 DEF First

(* The operations of a queue are numbered from 1. *)
LEMMA QueueOps ==
    ASSUME queue \in Queues
    PROVE  Len(queue) \in Nat /\ Ops = 1..Len(queue)
<1>1. queue \in Seq([kind : Kinds, group : Groups])
  BY QueuesAssumption
<1> QED
  BY <1>1 DEF Ops

(* What each family takes over: operations from pos on without a gap, the  *)
(* flat calibrations apart, with every calibration that a flat among them  *)
(* needs and no drizzle without its light master.                          *)
LEMMA Gathered ==
    ASSUME queue \in Queues, pos \in Ops, NEW last \in Ops
    PROVE  /\ \A o \in Gather(last) \cup Cals : o \in Ops /\ pos <= o
           /\ \A o \in Gather(last) : Kind(o) # "flatcal"
           /\ \A o \in Cals : Kind(o) = "flatcal"
           /\ \A o \in Gather(last) \cup Cals, p \in Ops :
                 pos <= p /\ p <= o => p \in Gather(last) \cup Cals
           /\ \A o \in Gather(last) : Kind(o) = "drizzle" => HasMaster(o)
           /\ Kind(pos) = "flatcal" => Gather(last) = {}
<1>1. Len(queue) \in Nat /\ Ops = 1..Len(queue)
  BY QueueOps
<1>2. ASSUME NEW kinds, NEW n \in 0..Len(queue)
      PROVE  /\ \A o \in Streak(kinds, n) : o \in Ops /\ pos <= o /\ Kind(o) \in kinds
             /\ \A o \in Streak(kinds, n), p \in Ops :
                   pos <= p /\ p <= o => p \in Streak(kinds, n)
  BY <1>1 DEF Streak
<1>3. last \in 0..Len(queue) /\ Len(queue) \in 0..Len(queue)
  BY <1>1
<1>4. CASE Kind(pos) = "calib"
  BY <1>2, <1>3, <1>4 DEF Gather, GatherCalib, Cals
<1>5. CASE Kind(pos) = "light"
  BY <1>2, <1>3, <1>5 DEF Gather, GatherLight, Cals
<1>6. CASE Kind(pos) = "lnref"
  BY <1>2, <1>3, <1>6 DEF Gather, GatherLNRef, Cals
<1>7. CASE Kind(pos) = "drizzle"
  <2>1. Gather(last) = GatherDrizzle /\ Cals = {}
    BY <1>7 DEF Gather, Cals
  <2>2. \A o \in GatherDrizzle : HasMaster(o)
    BY <1>1, <1>2, <1>3 DEF GatherDrizzle
  <2>3. \A o \in GatherDrizzle, p \in Ops : pos <= p /\ p <= o => p \in GatherDrizzle
    BY <1>1, <1>2, <1>3 DEF GatherDrizzle
  <2> QED
    BY <1>2, <1>3, <2>1, <2>2, <2>3 DEF GatherDrizzle
<1>8. CASE Kind(pos) = "flat"
  BY <1>2, <1>3, <1>8 DEF Gather, GatherFlat, Cals
<1>9. CASE Kind(pos) \notin {"calib", "light", "lnref", "drizzle", "flat"}
  BY <1>9 DEF Gather, Cals
<1> QED
  BY <1>4, <1>5, <1>6, <1>7, <1>8, <1>9

(* What the operation's own run changes: nothing but its own entries. *)
RunEffect(o, out) ==
    /\ started' = started \cup {o}
    /\ runs' \in [Ops -> Nat] /\ \A p \in Ops \ {o} : runs'[p] = runs[p]
    /\ runs'[o] >= runs[o] /\ (out = "done" => runs'[o] > 0)
    /\ runs'[o] <= runs[o] + 1 \/ o \in redone'
    /\ wired \subseteq wired' /\ wired' \subseteq wired \cup {o}
    /\ out = "done" => o \in wired'
    /\ o \in wired' => o \in wired \/ runs'[o] > 0
    /\ threw \subseteq threw' /\ threw' \subseteq threw \cup {o}
    /\ threw' = {} <=> threw = {} /\ out # "threw"
    /\ redone \subseteq redone' /\ redone' \subseteq redone \cup {o}

(* OrigRun has this effect, whatever was done before. *)
LEMMA OrigRunEffect ==
    ASSUME TypeOK, NEW o \in Ops, NEW out \in Outcomes, NEW before \in Stages,
           OrigRun(o, out, before)
    PROVE  RunEffect(o, out)
<1> USE DEF OrigRun, TypeOK, Outcomes, Stages
<1> DEFINE written == IF "written" \in before THEN 1 ELSE 0
<1>1. runs \in [Ops -> Nat] /\ runs[o] \in Nat
  OBVIOUS
<1>2. runs' = [runs EXCEPT ![o] = runs[o] + written + (IF out = "done" THEN 1 ELSE 0)]
  OBVIOUS
<1>3. runs'[o] = runs[o] + written + (IF out = "done" THEN 1 ELSE 0)
  BY <1>1, <1>2
<1>4. runs' \in [Ops -> Nat] /\ \A p \in Ops \ {o} : runs'[p] = runs[p]
  BY <1>1, <1>2
<1>5. /\ runs'[o] >= runs[o] /\ (out = "done" => runs'[o] > 0)
      /\ runs'[o] <= runs[o] + 1 \/ o \in redone'
  BY <1>1, <1>3
<1>6. threw' = {} <=> threw = {} /\ out # "threw"
  OBVIOUS
<1> QED
  BY <1>4, <1>5, <1>6 DEF RunEffect

(* A run that returned is remembered; one that threw leaves the batch. *)
MemoEffect(o, out) ==
    /\ memo' \in [Ops -> {"none", "done", "failed"}]
    /\ \A p \in Ops \ {o} : memo'[p] = memo[p]
    /\ done \subseteq done' /\ done' \subseteq done \cup {o}
    /\ out # "threw" => o \in done' /\ memo'[o] = out /\ pc' = pc
    /\ out = "threw" => memo' = memo /\ pc' = "fallback"

(* Remember has this effect. *)
LEMMA RememberEffect ==
    ASSUME TypeOK, NEW o \in Ops, NEW out \in Outcomes, Remember(o, out)
    PROVE  MemoEffect(o, out)
  BY DEF TypeOK, Remember, Outcomes, MemoEffect

(* WBPP goes on to the next operation. *)
QueueEffect(out) ==
    /\ pos' = pos + 1 /\ pos' \in 1..(Len(queue) + 1)
    /\ queue' = queue /\ pc' = "queue"
    /\ reported \subseteq reported' /\ reported' \subseteq reported \cup {pos}
    /\ pos \in reported' => pos \in reported \/ out = "done"

(* Return has this effect. *)
LEMMA ReturnEffect ==
    ASSUME TypeOK, pos \in Ops, NEW out, Return(out)
    PROVE  QueueEffect(out)
  BY QueueOps DEF TypeOK, Return, QueueEffect

(* The queue stays, and a light master is never lost. *)
LEMMA SameQueue ==
    ASSUME queue' = queue
    PROVE  /\ Ops' = Ops /\ \A o : Kind(o)' = Kind(o)
           /\ wired \subseteq wired' => \A o : HasMaster(o) => HasMaster(o)'
  BY DEF Ops, Kind, HasMaster

(* One operation of a batch, of whichever of its loops, is run here and    *)
(* remembered.                                                             *)
LEMMA RunInBatch ==
    ASSUME BatchInv, pc = "batch",
           queue' = queue, pos' = pos, reported' = reported, orphans' = orphans,
           NEW o \in Pending, NEW out \in Outcomes, NEW before \in Stages,
           OrigRun(o, out, before), Remember(o, out),
           o \in cals \/ cals = {},
           cals' \subseteq cals, cals \subseteq cals' \cup {o},
           captures' \subseteq captures, captures \subseteq captures' \cup {o},
           locals' \subseteq locals, locals \subseteq locals' \cup {o},
           handles' \subseteq handles, handles \subseteq handles' \cup {o},
           threw = {} => o \notin Pending'
    PROVE  BatchInv'
<1>1. TypeOK /\ o \in Ops /\ Len(queue) \in Nat /\ Ops = 1..Len(queue)
  BY QueueOps DEF BatchInv, TypeOK, Pending
<1>2. RunEffect(o, out) /\ MemoEffect(o, out)
  BY <1>1, OrigRunEffect, RememberEffect
<1>3. Ops' = Ops /\ (\A p : Kind(p)' = Kind(p)) /\ \A p : HasMaster(p) => HasMaster(p)'
  BY <1>2, SameQueue DEF RunEffect
<1> USE <1>1, <1>2, <1>3 DEF RunEffect, MemoEffect
<1>4. TypeOK'
  BY DEF TypeOK, Outcomes
<1>5. BatchOfRun' /\ OrphanedByThrow'
  BY DEF BatchInv, BatchOfRun, OrphanedByThrow, Pending, Outcomes
<1>6. MemoHonest' /\ DoneMeansWired'
  <2>1. \A p \in wired' : runs'[p] > 0
    BY DEF BatchInv, TypeOK, MemoHonest
  <2>2. \A p \in Ops : memo'[p] = "done" => p \in wired'
    BY DEF BatchInv, TypeOK, MemoHonest, Outcomes
  <2>3. reported' \subseteq wired'
    BY DEF BatchInv, MemoHonest
  <2> QED
    BY <2>1, <2>2, <2>3 DEF MemoHonest, DoneMeansWired
<1>7. CalsFirst'
  <2>1. started \subseteq started' /\ o \in started' /\ cals \subseteq cals' \cup started'
    OBVIOUS
  <2>2. \A c \in Ops : Kind(c) = "flatcal" /\ (c < pos \/ c \in done') => c \in started'
    BY <2>1 DEF BatchInv, CalsFirst
  <2>3. \A p \in captures' \cup locals', c \in Ops :
           Kind(p) = "flat" /\ Kind(c) = "flatcal" /\ c < p => c \in cals' \cup started'
    BY <2>1 DEF BatchInv, CalsFirst
  <2>4. /\ \A p \in cals' : Kind(p) = "flatcal"
        /\ \A p \in captures' : Kind(p) = "drizzle" => HasMaster(p)'
    BY DEF BatchInv, CalsFirst
  <2> QED
    BY <2>2, <2>3, <2>4 DEF CalsFirst
<1>8. OneTurnEach'
  BY DEF BatchInv, TypeOK, OneTurnEach, Pending
<1>9. ComputedOnce'
  <2> SUFFICES ASSUME NEW p \in Ops, runs'[p] > 1, threw' = {} PROVE p \in redone'
    BY DEF ComputedOnce
  <2>1. threw = {}
    OBVIOUS
  <2>2. CASE p = o
    <3>1. o >= pos /\ o \notin done
      BY <2>1 DEF BatchInv, OneTurnEach
    <3>2. runs[o] = 0
      BY <2>1, <3>1 DEF BatchInv, OneTurnEach
    <3> QED
      BY <2>2, <3>2
  <2>3. CASE p # o
    BY <2>1, <2>3 DEF BatchInv, ComputedOnce
  <2> QED
    BY <2>2, <2>3
<1>10. PrerequisitesMet'
  BY DEF BatchInv, TypeOK, CalsFirst, PrerequisitesMet, Pending
<1> QED
  BY <1>4, <1>5, <1>6, <1>7, <1>8, <1>9, <1>10 DEF BatchInv

(* Before WBPP runs the first operation there is no batch. *)
LEMMA BatchInit == Init => BatchInv
<1> SUFFICES ASSUME Init PROVE BatchInv
  OBVIOUS
<1>1. Len(queue) \in Nat /\ Ops = 1..Len(queue)
  BY QueueOps DEF Init
<1> QED
  BY <1>1 DEF Init, BatchInv, TypeOK, BatchOfRun, MemoHonest, CalsFirst, OneTurnEach, Pending,
     DoneMeansWired, ComputedOnce, PrerequisitesMet, OrphanedByThrow

(* Every step of WBPP's queue and of a batch preserves it. *)
LEMMA BatchStep == BatchInv /\ [Next]_vars => BatchInv'
<1> SUFFICES ASSUME BatchInv, [Next]_vars PROVE BatchInv'
  OBVIOUS
<1>a. TypeOK /\ Len(queue) \in Nat /\ Ops = 1..Len(queue)
  BY QueueOps DEF BatchInv, TypeOK
<1>b. ASSUME NEW S \in SUBSET Ops, S # {} PROVE First(S) \in S
  BY <1>a, <1>b, FirstIn
<1>c. cals \in SUBSET Ops /\ captures \in SUBSET Ops /\ locals \in SUBSET Ops /\ handles \in SUBSET Ops
  BY <1>a DEF TypeOK
<1>d. {} \in Stages /\ {"written", "wired"} \in Stages
  BY DEF Stages
<1>1. ASSUME NEW out \in Outcomes, RunCal(out) PROVE BatchInv'
  <2> DEFINE o == First(cals)
  <2>1. o \in cals
    BY <1>1, <1>b, <1>c DEF RunCal
  <2> HIDE DEF o
  <2>2. threw = {} => o \notin Pending'
    BY <1>1, <2>1 DEF RunCal, o, BatchInv, OneTurnEach, Pending
  <2> QED
    BY <1>1, <2>1, <2>2, <1>d, RunInBatch DEF RunCal, o, Pending, queueVars
<1>2. ASSUME NEW out \in Outcomes, CaptureFails(out) PROVE BatchInv'
  <2> DEFINE o == First(captures)
  <2>1. o \in captures
    BY <1>2, <1>b, <1>c DEF CaptureFails, Capturing
  <2> HIDE DEF o
  <2>2. threw = {} => o \notin Pending'
    BY <1>2, <2>1 DEF CaptureFails, Capturing, o, BatchInv, OneTurnEach, Pending
  <2> QED
    BY <1>2, <2>1, <2>2, <1>d, RunInBatch DEF CaptureFails, Capturing, o, Pending, queueVars
<1>3. ASSUME NEW out \in Outcomes, NativeCompletes(out) PROVE BatchInv'
  <2> DEFINE o == First(captures)
  <2>1. o \in captures
    BY <1>3, <1>b, <1>c DEF NativeCompletes, Capturing
  <2> HIDE DEF o
  <2>2. threw = {} => o \notin Pending'
    BY <1>3, <2>1 DEF NativeCompletes, Capturing, o, BatchInv, OneTurnEach, Pending
  <2> QED
    BY <1>3, <2>1, <2>2, <1>d, RunInBatch DEF NativeCompletes, Capturing, o, Pending, queueVars
<1>4. ASSUME NEW out \in Outcomes, RunLocal(out) PROVE BatchInv'
  <2> DEFINE o == First(locals)
  <2>1. o \in locals
    BY <1>4, <1>b, <1>c DEF RunLocal, ServerTurn
  <2> HIDE DEF o
  <2>2. threw = {} => o \notin Pending'
    BY <1>4, <2>1 DEF RunLocal, ServerTurn, o, BatchInv, OneTurnEach, Pending
  <2> QED
    BY <1>4, <2>1, <2>2, <1>d, RunInBatch DEF RunLocal, ServerTurn, o, Pending, queueVars
<1>5. ASSUME NEW before \in Stages, NEW out \in Outcomes, JoinFails(before, out) PROVE BatchInv'
  <2> DEFINE o == First(handles)
  <2>1. o \in handles
    BY <1>5, <1>b, <1>c DEF JoinFails, Joining
  <2> HIDE DEF o
  <2>2. threw = {} => o \notin Pending'
    BY <1>5, <2>1 DEF JoinFails, Joining, o, BatchInv, OneTurnEach, Pending
  <2> QED
    BY <1>5, <2>1, <2>2, RunInBatch DEF JoinFails, Joining, o, Pending, queueVars
<1>6. ASSUME Memoised PROVE BatchInv'
  <2>1. pos \in Ops /\ QueueEffect(memo[pos])
    BY <1>6, <1>a, ReturnEffect DEF Memoised, TypeOK
  <2>2. Ops' = Ops /\ (\A p : Kind(p)' = Kind(p)) /\ \A p : HasMaster(p) => HasMaster(p)'
    BY <1>6, <2>1, SameQueue DEF QueueEffect, Memoised, runVars
  <2>3. TypeOK'
    BY <1>6, <1>a, <2>1, <2>2 DEF BatchInv, TypeOK, BatchOfRun, QueueEffect, Memoised,
       batchVars, memoVars, runVars
  <2>4. BatchOfRun' /\ OrphanedByThrow'
    BY <1>6, <1>a, <2>1, <2>2 DEF BatchInv, TypeOK, BatchOfRun, OrphanedByThrow, Pending,
       QueueEffect, Memoised, batchVars, memoVars, runVars
  <2>5. MemoHonest' /\ DoneMeansWired'
    BY <1>6, <1>a, <2>1, <2>2 DEF BatchInv, TypeOK, MemoHonest, DoneMeansWired, QueueEffect,
       Memoised, batchVars, memoVars, runVars
  <2>6. CalsFirst' /\ PrerequisitesMet'
    BY <1>6, <1>a, <2>1, <2>2 DEF BatchInv, TypeOK, BatchOfRun, CalsFirst, PrerequisitesMet,
       Pending, QueueEffect, Memoised, batchVars, memoVars, runVars
  <2>7. OneTurnEach' /\ ComputedOnce'
    BY <1>6, <1>a, <2>1, <2>2 DEF BatchInv, TypeOK, BatchOfRun, OneTurnEach, ComputedOnce,
       Pending, QueueEffect, Memoised, batchVars, memoVars, runVars
  <2> QED
    BY <2>3, <2>4, <2>5, <2>6, <2>7 DEF BatchInv
<1>7. ASSUME FinishBatch PROVE BatchInv'
  <2>1. pos \in Ops /\ QueueEffect(memo[pos])
    BY <1>7, <1>a, ReturnEffect DEF FinishBatch, BatchInv, BatchOfRun
  <2>2. Ops' = Ops /\ (\A p : Kind(p)' = Kind(p)) /\ \A p : HasMaster(p) => HasMaster(p)'
    BY <1>7, <2>1, SameQueue DEF QueueEffect, FinishBatch, runVars
  <2>3. TypeOK'
    BY <1>7, <1>a, <2>1, <2>2 DEF BatchInv, TypeOK, BatchOfRun, QueueEffect, FinishBatch,
       batchVars, memoVars, runVars
  <2>4. BatchOfRun' /\ OrphanedByThrow'
    BY <1>7, <1>a, <2>1, <2>2 DEF BatchInv, TypeOK, BatchOfRun, OrphanedByThrow, Pending,
       QueueEffect, FinishBatch, batchVars, memoVars, runVars
  <2>5. MemoHonest' /\ DoneMeansWired'
    BY <1>7, <1>a, <2>1, <2>2 DEF BatchInv, TypeOK, MemoHonest, DoneMeansWired, QueueEffect,
       FinishBatch, batchVars, memoVars, runVars
  <2>6. CalsFirst' /\ PrerequisitesMet'
    BY <1>7, <1>a, <2>1, <2>2 DEF BatchInv, TypeOK, BatchOfRun, CalsFirst, PrerequisitesMet,
       Pending, QueueEffect, FinishBatch, batchVars, memoVars, runVars
  <2>7. OneTurnEach' /\ ComputedOnce'
    BY <1>7, <1>a, <2>1, <2>2 DEF BatchInv, TypeOK, BatchOfRun, OneTurnEach, ComputedOnce,
       Pending, QueueEffect, FinishBatch, batchVars, memoVars, runVars
  <2> QED
    BY <2>3, <2>4, <2>5, <2>6, <2>7 DEF BatchInv
<1>8. ASSUME NEW out \in Outcomes, Fallback(out) PROVE BatchInv'
  <2>1. pos \in Ops /\ QueueEffect(out) /\ RunEffect(pos, out)
    BY <1>8, <1>a, <1>d, ReturnEffect, OrigRunEffect DEF Fallback, BatchInv, BatchOfRun
  <2>2. Ops' = Ops /\ (\A p : Kind(p)' = Kind(p)) /\ \A p : HasMaster(p) => HasMaster(p)'
    BY <2>1, SameQueue DEF QueueEffect, RunEffect
  <2>3. TypeOK'
    BY <1>8, <1>a, <2>1, <2>2 DEF BatchInv, TypeOK, BatchOfRun, QueueEffect, RunEffect,
       Fallback, memoVars
  <2>4. BatchOfRun' /\ OrphanedByThrow'
    BY <1>8, <1>a, <2>1, <2>2 DEF BatchInv, TypeOK, BatchOfRun, OrphanedByThrow, Pending,
       QueueEffect, RunEffect, Fallback, memoVars
  <2>5. MemoHonest' /\ DoneMeansWired'
    BY <1>8, <1>a, <2>1, <2>2 DEF BatchInv, TypeOK, MemoHonest, DoneMeansWired, QueueEffect,
       RunEffect, Fallback, memoVars
  <2>6. CalsFirst'
    BY <1>8, <1>a, <2>1, <2>2 DEF BatchInv, TypeOK, BatchOfRun, CalsFirst, Pending,
       QueueEffect, RunEffect, Fallback, memoVars
  <2>7. PrerequisitesMet'
    <3>1. handles' = {} /\ orphans' = orphans \cup handles /\ started' = started \cup {pos}
      BY <1>8, <2>1 DEF Fallback, RunEffect
    <3>2. \A o \in Ops : runs'[o] > 0 => o \in started' \/ runs[o] > 0
      BY <2>1, <3>1 DEF RunEffect
    <3>3. ASSUME NEW o \in Ops, NEW c \in Ops, Kind(o) = "flat", Kind(c) = "flatcal", c < o,
                 o \in handles' \cup orphans' \cup started' \/ runs'[o] > 0
          PROVE  c \in started'
      <4>1. CASE o = pos
        BY <1>a, <3>1, <3>3, <4>1 DEF BatchInv, CalsFirst
      <4>2. CASE o # pos
        BY <3>1, <3>2, <3>3, <4>2 DEF BatchInv, PrerequisitesMet
      <4> QED
        BY <4>1, <4>2
    <3>4. \A o \in handles' \cup orphans' : Kind(o) = "drizzle" => HasMaster(o)'
      BY <2>2, <3>1 DEF BatchInv, PrerequisitesMet
    <3> QED
      BY <2>2, <3>3, <3>4 DEF PrerequisitesMet
  <2>8. OneTurnEach'
    BY <1>8, <1>a, <2>1, <2>2 DEF BatchInv, TypeOK, BatchOfRun, OneTurnEach, Pending,
       QueueEffect, RunEffect, Fallback, memoVars
  <2>9. ComputedOnce'
    BY <1>8, <1>a, <2>1, <2>2 DEF BatchInv, TypeOK, BatchOfRun, OneTurnEach, ComputedOnce,
       Pending, QueueEffect, RunEffect, Fallback, memoVars
  <2> QED
    BY <2>3, <2>4, <2>5, <2>6, <2>7, <2>8, <2>9 DEF BatchInv
<1>9. ASSUME NEW last \in Ops, NEW out \in Outcomes, RunAlone(last, out) PROVE BatchInv'
  <2>1. pos \in Ops \ done /\ RunEffect(pos, out)
    BY <1>9, <1>a, <1>d, OrigRunEffect DEF RunAlone
  <2>2. CASE out = "threw"
    <3>1. UNCHANGED <<queueVars, batchVars, memoVars, orphans>> /\ pc' = "fallback" /\ pc = "queue"
      BY <1>9, <2>2 DEF RunAlone
    <3>2. Ops' = Ops /\ (\A p : Kind(p)' = Kind(p)) /\ \A p : HasMaster(p) => HasMaster(p)'
      BY <2>1, <3>1, SameQueue DEF queueVars, RunEffect
    <3>3. TypeOK'
      BY <1>a, <2>1, <2>2, <3>1, <3>2 DEF BatchInv, TypeOK, BatchOfRun, RunEffect, queueVars,
         batchVars, memoVars
    <3>4. BatchOfRun' /\ OrphanedByThrow'
      BY <1>a, <2>1, <2>2, <3>1, <3>2 DEF BatchInv, TypeOK, BatchOfRun, OrphanedByThrow,
         Pending, RunEffect, queueVars, batchVars, memoVars
    <3>5. MemoHonest' /\ DoneMeansWired'
      <4>1. wired \subseteq wired' /\ \A o \in wired' : runs'[o] > 0
        BY <1>a, <2>1, <2>2 DEF BatchInv, TypeOK, MemoHonest, RunEffect
      <4> QED
        BY <3>1, <3>2, <4>1 DEF BatchInv, MemoHonest, DoneMeansWired, queueVars, memoVars
    <3>6. CalsFirst'
      BY <1>a, <2>1, <2>2, <3>1, <3>2 DEF BatchInv, TypeOK, BatchOfRun, CalsFirst, Pending,
         RunEffect, queueVars, batchVars, memoVars
    <3>7. PrerequisitesMet'
      BY <1>a, <2>1, <2>2, <3>1, <3>2 DEF BatchInv, TypeOK, BatchOfRun, CalsFirst,
         PrerequisitesMet, Pending, RunEffect, queueVars, batchVars, memoVars
    <3>8. OneTurnEach'
      BY <1>a, <2>1, <2>2, <3>1, <3>2 DEF BatchInv, TypeOK, BatchOfRun, OneTurnEach, Pending,
         RunEffect, queueVars, batchVars, memoVars
    <3>9. ComputedOnce'
      BY <1>a, <2>1, <2>2, <3>1, <3>2 DEF BatchInv, TypeOK, BatchOfRun, OneTurnEach,
         ComputedOnce, Pending, RunEffect, queueVars, batchVars, memoVars
    <3> QED
      BY <3>3, <3>4, <3>5, <3>6, <3>7, <3>8, <3>9 DEF BatchInv
  <2>3. CASE out # "threw"
    <3>1. QueueEffect(out) /\ UNCHANGED <<batchVars, memoVars, orphans>> /\ pc = "queue"
      BY <1>9, <1>a, <2>1, <2>3, ReturnEffect DEF RunAlone
    <3>2. Ops' = Ops /\ (\A p : Kind(p)' = Kind(p)) /\ \A p : HasMaster(p) => HasMaster(p)'
      BY <2>1, <3>1, SameQueue DEF QueueEffect, RunEffect
    <3>3. TypeOK'
      BY <1>a, <2>1, <2>3, <3>1, <3>2 DEF BatchInv, TypeOK, BatchOfRun, RunEffect, QueueEffect,
         batchVars, memoVars
    <3>4. BatchOfRun' /\ OrphanedByThrow'
      BY <1>a, <2>1, <2>3, <3>1, <3>2 DEF BatchInv, TypeOK, BatchOfRun, OrphanedByThrow,
         Pending, RunEffect, QueueEffect, batchVars, memoVars
    <3>5. MemoHonest' /\ DoneMeansWired'
      BY <1>a, <2>1, <2>3, <3>1, <3>2 DEF BatchInv, TypeOK, MemoHonest, DoneMeansWired,
         RunEffect, QueueEffect, batchVars, memoVars
    <3>6. CalsFirst'
      BY <1>a, <2>1, <2>3, <3>1, <3>2 DEF BatchInv, TypeOK, BatchOfRun, CalsFirst, Pending,
         RunEffect, QueueEffect, batchVars, memoVars
    <3>7. PrerequisitesMet'
      BY <1>a, <2>1, <2>3, <3>1, <3>2 DEF BatchInv, TypeOK, BatchOfRun, CalsFirst,
         PrerequisitesMet, Pending, RunEffect, QueueEffect, batchVars, memoVars
    <3>8. OneTurnEach'
      BY <1>a, <2>1, <2>3, <3>1, <3>2 DEF BatchInv, TypeOK, BatchOfRun, OneTurnEach, Pending,
         RunEffect, QueueEffect, batchVars, memoVars
    <3>9. ComputedOnce'
      <4>1. threw = {} => runs[pos] = 0
        BY <1>a, <2>1 DEF BatchInv, OneTurnEach
      <4> SUFFICES ASSUME NEW o \in Ops, runs'[o] > 1, threw' = {} PROVE o \in redone'
        BY <3>2 DEF ComputedOnce
      <4>2. CASE o = pos
        BY <2>1, <4>1, <4>2 DEF RunEffect
      <4>3. CASE o # pos
        BY <2>1, <4>3 DEF BatchInv, ComputedOnce, RunEffect
      <4> QED
        BY <4>2, <4>3
    <3> QED
      BY <3>3, <3>4, <3>5, <3>6, <3>7, <3>8, <3>9 DEF BatchInv
  <2> QED
    BY <2>2, <2>3
<1>10. ASSUME Dispatch PROVE BatchInv'
  <2>1. First(captures) \in captures
    BY <1>10, <1>b, <1>c DEF Dispatch, Capturing
  <2>2. Ops' = Ops /\ (\A p : Kind(p)' = Kind(p)) /\ \A p : HasMaster(p) => HasMaster(p)'
    BY <1>10, SameQueue DEF Dispatch, queueVars, runVars
  <2>3. TypeOK'
    BY <1>10, <1>a, <2>1, <2>2 DEF BatchInv, TypeOK, BatchOfRun, Dispatch, Capturing,
       queueVars, memoVars, runVars
  <2>4. BatchOfRun' /\ OrphanedByThrow'
    BY <1>10, <1>a, <2>1, <2>2 DEF BatchInv, TypeOK, BatchOfRun, OrphanedByThrow, Pending,
       Dispatch, Capturing, queueVars, memoVars, runVars
  <2>5. MemoHonest' /\ DoneMeansWired'
    BY <1>10, <1>a, <2>1, <2>2 DEF BatchInv, TypeOK, MemoHonest, DoneMeansWired, Dispatch,
       Capturing, queueVars, memoVars, runVars
  <2>6. CalsFirst' /\ PrerequisitesMet'
    BY <1>10, <1>a, <2>1, <2>2 DEF BatchInv, TypeOK, BatchOfRun, CalsFirst, PrerequisitesMet,
       Pending, Dispatch, Capturing, queueVars, memoVars, runVars
  <2>7. OneTurnEach' /\ ComputedOnce'
    BY <1>10, <1>a, <2>1, <2>2 DEF BatchInv, TypeOK, BatchOfRun, OneTurnEach, ComputedOnce,
       Pending, Dispatch, Capturing, queueVars, memoVars, runVars
  <2> QED
    BY <2>3, <2>4, <2>5, <2>6, <2>7 DEF BatchInv
<1>11. ASSUME SkipLocal PROVE BatchInv'
  <2>1. First(locals) \in locals
    BY <1>11, <1>b, <1>c DEF SkipLocal, ServerTurn
  <2>2. Ops' = Ops /\ (\A p : Kind(p)' = Kind(p)) /\ \A p : HasMaster(p) => HasMaster(p)'
    BY <1>11, SameQueue DEF SkipLocal, queueVars, runVars
  <2>3. TypeOK'
    BY <1>11, <1>a, <2>1, <2>2 DEF BatchInv, TypeOK, BatchOfRun, SkipLocal, ServerTurn,
       queueVars, memoVars, runVars
  <2>4. BatchOfRun' /\ OrphanedByThrow'
    BY <1>11, <1>a, <2>1, <2>2 DEF BatchInv, TypeOK, BatchOfRun, OrphanedByThrow, Pending,
       SkipLocal, ServerTurn, queueVars, memoVars, runVars
  <2>5. MemoHonest' /\ DoneMeansWired'
    BY <1>11, <1>a, <2>1, <2>2 DEF BatchInv, TypeOK, MemoHonest, DoneMeansWired, SkipLocal,
       ServerTurn, queueVars, memoVars, runVars
  <2>6. CalsFirst' /\ PrerequisitesMet'
    BY <1>11, <1>a, <2>1, <2>2 DEF BatchInv, TypeOK, BatchOfRun, CalsFirst, PrerequisitesMet,
       Pending, SkipLocal, ServerTurn, queueVars, memoVars, runVars
  <2>7. OneTurnEach' /\ ComputedOnce'
    BY <1>11, <1>a, <2>1, <2>2 DEF BatchInv, TypeOK, BatchOfRun, OneTurnEach, ComputedOnce,
       Pending, SkipLocal, ServerTurn, queueVars, memoVars, runVars
  <2> QED
    BY <2>3, <2>4, <2>5, <2>6, <2>7 DEF BatchInv
<1>12. ASSUME JoinMaster PROVE BatchInv'
  <2> DEFINE o == First(handles)
  <2>1. o \in handles /\ o \in Ops
    BY <1>12, <1>b, <1>c DEF JoinMaster, Joining
  <2> HIDE DEF o
  <2>2. MemoEffect(o, "done")
    BY <1>12, <1>a, <2>1, RememberEffect DEF JoinMaster, Outcomes, o
  <2>3. /\ Joining /\ WriteAndWire(o) /\ Kind(o) # "flatcal" /\ handles' = handles \ {o}
        /\ UNCHANGED <<queueVars, cals, captures, locals, started, threw, redone, orphans>>
    BY <1>12 DEF JoinMaster, FinalizeMaster, FinalizeLightMaster, FinalizeLNReference,
       FinalizeDrizzleMaster, o
  <2>4. /\ runs' \in [Ops -> Nat] /\ runs'[o] = runs[o] + 1 /\ wired' = wired \cup {o}
        /\ \A p \in Ops \ {o} : runs'[p] = runs[p]
    BY <1>a, <2>1, <2>3 DEF TypeOK, WriteAndWire
  <2>5. Ops' = Ops /\ (\A p : Kind(p)' = Kind(p)) /\ \A p : HasMaster(p) => HasMaster(p)'
    BY <2>3, <2>4, SameQueue DEF queueVars
  <2>6. TypeOK'
    BY <1>a, <2>1, <2>2, <2>3, <2>4, <2>5 DEF BatchInv, TypeOK, BatchOfRun, MemoEffect,
       Joining, queueVars
  <2>7. BatchOfRun' /\ OrphanedByThrow'
    BY <1>a, <2>1, <2>2, <2>3, <2>4, <2>5 DEF BatchInv, TypeOK, BatchOfRun, OrphanedByThrow,
       Pending, MemoEffect, Joining, queueVars
  <2>8. MemoHonest' /\ DoneMeansWired'
    BY <1>a, <2>1, <2>2, <2>3, <2>4, <2>5 DEF BatchInv, TypeOK, MemoHonest, DoneMeansWired,
       MemoEffect, Joining, queueVars
  <2>9. CalsFirst' /\ PrerequisitesMet'
    BY <1>a, <2>1, <2>2, <2>3, <2>4, <2>5 DEF BatchInv, TypeOK, BatchOfRun, CalsFirst,
       PrerequisitesMet, Pending, MemoEffect, Joining, queueVars
  <2>10. OneTurnEach' /\ ComputedOnce'
    BY <1>a, <2>1, <2>2, <2>3, <2>4, <2>5 DEF BatchInv, TypeOK, BatchOfRun, OneTurnEach,
       ComputedOnce, Pending, MemoEffect, Joining, queueVars
  <2> QED
    BY <2>6, <2>7, <2>8, <2>9, <2>10 DEF BatchInv
<1>13. ASSUME NEW last \in Ops, NEW remote \in SUBSET Ops, StartBatch(last, remote)
       PROVE  BatchInv'
  <2>1. Ops' = Ops /\ (\A p : Kind(p)' = Kind(p)) /\ \A p : HasMaster(p) => HasMaster(p)'
    BY <1>13, SameQueue DEF StartBatch, queueVars, runVars
  <2> DEFINE G == Gather(last)
  <2>2. /\ \A o \in G \cup Cals : o \in Ops /\ pos <= o
        /\ \A o \in G : Kind(o) # "flatcal"
        /\ \A o \in Cals : Kind(o) = "flatcal"
        /\ \A o \in G \cup Cals, p \in Ops : pos <= p /\ p <= o => p \in G \cup Cals
        /\ \A o \in G : Kind(o) = "drizzle" => HasMaster(o)
        /\ Kind(pos) = "flatcal" => G = {}
    BY <1>13, <1>a, Gathered DEF StartBatch, TypeOK
  <2>3. /\ pc = "queue" /\ pos \in Ops \ done /\ remote \subseteq G /\ G # {}
        /\ cals' = Cals \ done /\ captures' = remote /\ locals' = G \ remote /\ pc' = "batch"
        /\ UNCHANGED <<queueVars, handles, memoVars, runVars, orphans>>
    BY <1>13 DEF StartBatch
  <2> HIDE DEF G
  <2>4. TypeOK'
    BY <1>a, <2>1, <2>2, <2>3 DEF BatchInv, TypeOK, BatchOfRun, queueVars, memoVars, runVars
  <2>5. BatchOfRun' /\ OrphanedByThrow'
    BY <1>a, <2>1, <2>2, <2>3 DEF BatchInv, TypeOK, BatchOfRun, OrphanedByThrow, Pending,
       queueVars, memoVars, runVars
  <2>6. MemoHonest' /\ DoneMeansWired'
    BY <1>a, <2>1, <2>2, <2>3 DEF BatchInv, TypeOK, MemoHonest, DoneMeansWired, queueVars,
       memoVars, runVars
  <2>7. CalsFirst'
    BY <1>a, <2>1, <2>2, <2>3 DEF BatchInv, TypeOK, BatchOfRun, CalsFirst, Pending, queueVars,
       memoVars, runVars
  <2>8. PrerequisitesMet'
    BY <1>a, <2>1, <2>2, <2>3 DEF BatchInv, TypeOK, BatchOfRun, CalsFirst, PrerequisitesMet,
       Pending, queueVars, memoVars, runVars
  <2>9. OneTurnEach'
    <3> SUFFICES ASSUME threw' = {} PROVE OneTurnEach'
      BY DEF OneTurnEach
    <3>1. \A o \in done : o < pos
      BY <1>a, <2>3 DEF BatchInv, TypeOK, BatchOfRun, OneTurnEach, runVars
    <3>2. handles' = {} /\ cals' = Cals /\ done' = done /\ pos' = pos
      <4>1. ASSUME NEW o \in Cals PROVE o \notin done
        <5>1. o \in Ops /\ pos <= o /\ pos \in Nat /\ o \in Nat
          BY <1>a, <2>2 DEF TypeOK
        <5> QED
          BY <3>1, <5>1
      <4> QED
        BY <2>3, <4>1 DEF BatchInv, BatchOfRun, Pending, memoVars, queueVars
    <3>3. \A o : o \in Pending' <=> o \in G \cup Cals
      BY <2>3, <3>2 DEF Pending
    <3>4. \A o \in Ops : o >= pos /\ o \notin done => runs'[o] = 0
      BY <2>3 DEF BatchInv, OneTurnEach, runVars
    <3>5. \A o \in Pending' : o >= pos /\ o \notin done
      BY <1>a, <2>2, <3>1, <3>3 DEF TypeOK
    <3>6. /\ \A o \in cals' : o \notin captures' \cup locals' \cup handles'
          /\ \A o \in captures' : o \notin locals' \cup handles'
          /\ \A o \in locals' : o \notin handles'
      BY <2>2, <2>3, <3>2
    <3>7. ASSUME NEW o \in Pending' \cup done, NEW p \in Ops, pos <= p, p <= o
          PROVE  p \in Pending' \cup done
      <4>1. CASE o \in Pending'
        BY <2>2, <3>3, <3>7, <4>1
      <4>2. CASE o \in done
        BY <1>a, <3>1, <3>7, <4>2 DEF TypeOK
      <4> QED
        BY <4>1, <4>2
    <3> QED
      BY <2>1, <3>2, <3>4, <3>5, <3>6, <3>7 DEF OneTurnEach
  <2>10. ComputedOnce'
    BY <1>a, <2>1, <2>2, <2>3 DEF BatchInv, TypeOK, BatchOfRun, OneTurnEach, ComputedOnce,
       Pending, queueVars, memoVars, runVars
  <2> QED
    BY <2>4, <2>5, <2>6, <2>7, <2>8, <2>9, <2>10 DEF BatchInv
<1>14. ASSUME UNCHANGED vars PROVE BatchInv'
  <2>1. Ops' = Ops /\ (\A p : Kind(p)' = Kind(p)) /\ \A p : HasMaster(p) => HasMaster(p)'
    BY <1>14, SameQueue DEF vars
  <2> QED
    BY <1>14, <2>1 DEF vars, BatchInv, TypeOK, BatchOfRun, MemoHonest, CalsFirst, OneTurnEach,
       Pending, DoneMeansWired, ComputedOnce, PrerequisitesMet, OrphanedByThrow
<1> QED
  BY <1>1, <1>2, <1>3, <1>4, <1>5, <1>6, <1>7, <1>8, <1>9, <1>10, <1>11, <1>12, <1>13, <1>14
     DEF Next, QueueDone

(* Queue, batch and memo agree at every step of WBPP. *)
THEOREM BatchInvariance == Spec => []BatchInv
<1>1. QED
  BY BatchInit, BatchStep, PTL DEF Spec

(* __clusterDone and __clusterStatus never make WBPP believe in a product  *)
(* that nobody wrote or of which the engine was not told.                  *)
THEOREM DoneMeansWiredCorrect == Spec => []DoneMeansWired
<1>1. BatchInv => DoneMeansWired
  BY DEF BatchInv
<1>2. QED
  BY BatchInvariance, <1>1, PTL

(* As long as no native run throws, a batch computes nothing that another  *)
(* batch, or WBPP itself, computes again.                                  *)
THEOREM ComputedOnceCorrect == Spec => []ComputedOnce
<1>1. BatchInv => ComputedOnce
  BY DEF BatchInv
<1>2. QED
  BY BatchInvariance, <1>1, PTL

(* No batch takes a flat before its calibration or a drizzle integration   *)
(* before its light master, also after a fallback.                         *)
THEOREM PrerequisitesCorrect == Spec => []PrerequisitesMet
<1>1. BatchInv => PrerequisitesMet
  BY DEF BatchInv
<1>2. QED
  BY BatchInvariance, <1>1, PTL

(* A job is abandoned on the cluster only by a native run that threw. *)
THEOREM OrphansCorrect == Spec => []OrphanedByThrow
<1>1. BatchInv => OrphanedByThrow
  BY DEF BatchInv
<1>2. QED
  BY BatchInvariance, <1>1, PTL

-----------------------------------------------------------------------------
(* The split between server and cluster. *)

(* Whole division, bounded by its product. *)
LEMMA DivBounds ==
    ASSUME NEW n \in Nat, NEW d \in Nat \ {0}
    PROVE  n \div d \in Nat /\ d * (n \div d) <= n /\ n < d * (n \div d) + d
  OBVIOUS

(* A smoothed cost lies between the old and the new one. *)
LEMMA SmoothBetween ==
    ASSUME NEW lo \in Int, NEW hi \in Int, NEW old \in lo..hi, NEW new \in lo..hi
    PROVE  (6 * old + 4 * new) \div 10 \in lo..hi
  OBVIOUS

(* The server's share is a percentage. *)
LEMMA SharePercent ==
    ASSUME NEW s \in Nat \ {0}, NEW c \in Nat \ {0}
    PROVE  (100 * c) \div (s + c) \in 0..100
<1> DEFINE q == (100 * c) \div (s + c)
<1>1. 100 * c \in Nat /\ s + c \in Nat \ {0}
  OBVIOUS
<1>2. q \in Nat /\ (s + c) * q <= 100 * c
  BY <1>1, DivBounds
<1> HIDE DEF q
<1>3. ASSUME q > 100 PROVE FALSE
  <2>1. (s + c) * q >= (s + c) * 101
    BY <1>2, <1>3
  <2> QED
    BY <1>2, <2>1
<1> QED
  BY <1>2, <1>3 DEF q

(* The rounded share of m frames is a number of frames, and off by at most *)
(* half a frame of each lane.                                              *)
LEMMA RoundedShare ==
    ASSUME NEW m \in Nat, NEW s \in Nat \ {0}, NEW c \in Nat \ {0}, NEW k,
           k = Rounded(m * c, s + c)
    PROVE  /\ k \in 0..m
           /\ 2 * (k * s - (m - k) * c) <= s + c
           /\ 2 * ((m - k) * c - k * s) <= s + c
<1> DEFINE d == s + c
<1>1. d \in Nat \ {0} /\ 2 * d \in Nat \ {0} /\ 2 * (m * c) + d \in Nat
  OBVIOUS
<1>2. k = (2 * (m * c) + d) \div (2 * d)
  BY DEF Rounded
<1>3. /\ k \in Nat
      /\ (2 * d) * k <= 2 * (m * c) + d
      /\ 2 * (m * c) + d < (2 * d) * k + 2 * d
  BY <1>1, <1>2, DivBounds
<1>4. k * s - (m - k) * c = d * k - m * c
  BY <1>3
<1>5. k <= m
  <2> SUFFICES ASSUME k >= m + 1 PROVE FALSE
    BY <1>3
  <2>1. (2 * d) * k >= (2 * d) * (m + 1)
    BY <1>1, <1>3
  <2>2. (2 * d) * (m + 1) = 2 * (m * s) + 2 * (m * c) + 2 * d
    OBVIOUS
  <2>3. m * s \in Nat /\ m * c \in Nat
    OBVIOUS
  <2> QED
    BY <1>1, <1>3, <2>1, <2>2, <2>3
<1>6. (2 * d) * k = 2 * (d * k) /\ d * k \in Int /\ m * c \in Int
  BY <1>1, <1>3
<1>7. 2 * (k * s - (m - k) * c) <= d /\ 2 * ((m - k) * c - k * s) <= d
  BY <1>1, <1>3, <1>4, <1>6
<1> QED
  BY <1>3, <1>5, <1>7

(* An estimate that takes in a cost, and the estimates of the others. *)
LEMMA EstimateEffect ==
    ASSUME NEW est \in [Labels -> Nat], NEW l \in Labels, NEW cost \in Nat \ {0}
    PROVE  /\ Estimate(est, l, cost) \in [Labels -> Nat]
           /\ \A o \in Labels \ {l} : Estimate(est, l, cost)[o] = est[o]
           /\ est[l] = 0 => Estimate(est, l, cost)[l] = cost
           /\ est[l] # 0 => \/ Estimate(est, l, cost)[l] \in est[l]..cost
                            \/ Estimate(est, l, cost)[l] \in cost..est[l]
           /\ Estimate(est, l, cost)[l] # 0
<1>1. Smooth(est[l], cost, 0) = IF est[l] = 0 THEN cost ELSE (6 * est[l] + 4 * cost) \div 10
  BY DEF Smooth
<1>2. est[l] # 0 => \/ (6 * est[l] + 4 * cost) \div 10 \in est[l]..cost
                    \/ (6 * est[l] + 4 * cost) \div 10 \in cost..est[l]
  <2>1. CASE est[l] <= cost
    BY <2>1, SmoothBetween
  <2>2. CASE cost <= est[l]
    BY <2>2, SmoothBetween
  <2>3. QED
    BY <2>1, <2>2
<1>3. Smooth(est[l], cost, 0) \in Nat \ {0}
  BY <1>1, <1>2
<1>4. Estimate(est, l, cost) = [est EXCEPT ![l] = Smooth(est[l], cost, 0)]
  BY DEF Estimate
<1>5. QED
  BY <1>1, <1>2, <1>3, <1>4

(* What a group of l leaves: costs sc and cc, 0 for a lane not measured. *)
LEMMA GroupEffect ==
    ASSUME SplitTypeOK, NEW l \in Labels, NEW m \in Sizes, NEW sc \in Costs, NEW cc \in Costs,
           NEW back \in BOOLEAN, Group(l, m, sc, cc, back)
    PROVE  \E s \in Costs \cup {0}, c \in Costs \cup {0} :
              /\ LearnCosts(l, s, c)
              /\ ServerCount(l, m) = m => c = 0
              /\ seen' = [seen EXCEPT ![l] = [server  |-> seen[l].server \cup ({s} \ {0}),
                                              cluster |-> seen[l].cluster \cup ({c} \ {0})]]
              /\ groups' \in 0..MaxGroups
<1> DEFINE s == IF ServerCount(l, m) > 0 THEN sc ELSE 0
           c == IF ServerCount(l, m) < m /\ back THEN cc ELSE 0
<1>1. s \in Costs \cup {0} /\ c \in Costs \cup {0} /\ m \in Nat
  BY SplitAssumption
<1>2. /\ LearnCosts(l, s, c) /\ groups < MaxGroups /\ groups' = groups + 1
      /\ seen' = [seen EXCEPT ![l] = [server  |-> seen[l].server \cup ({s} \ {0}),
                                      cluster |-> seen[l].cluster \cup ({c} \ {0})]]
  BY DEF Group
<1>3. ServerCount(l, m) = m => c = 0
  BY <1>1
<1>4. groups' \in 0..MaxGroups
  BY <1>2, SplitAssumption DEF SplitTypeOK
<1> HIDE DEF s, c
<1>5. QED
  BY <1>1, <1>2, <1>3, <1>4

(* __learnCosts keeps the costs whole and the share a percentage. *)
LEMMA LearnTypes ==
    ASSUME SplitTypeOK, NEW l \in Labels, NEW s0 \in Nat, NEW c0 \in Nat, LearnCosts(l, s0, c0)
    PROVE  server' \in [Labels -> Nat] /\ cluster' \in [Labels -> Nat] /\ share' \in -1..100
<1>0. /\ server \in [Labels -> Nat] /\ cluster \in [Labels -> Nat]
      /\ server' = IF s0 > 0 THEN Estimate(server, l, s0) ELSE server
      /\ cluster' = IF c0 > 0 THEN Estimate(cluster, l, c0) ELSE cluster
  BY DEF LearnCosts, SplitTypeOK
<1>1. server' \in [Labels -> Nat]
  <2>1. CASE s0 > 0
    BY <1>0, <2>1, EstimateEffect
  <2>2. CASE ~ (s0 > 0)
    BY <1>0, <2>2
  <2>3. QED
    BY <2>1, <2>2
<1>2. cluster' \in [Labels -> Nat]
  <2>1. CASE c0 > 0
    BY <1>0, <2>1, EstimateEffect
  <2>2. CASE ~ (c0 > 0)
    BY <1>0, <2>2
  <2>3. QED
    BY <2>1, <2>2
<1>3. share' \in -1..100
  <2> DEFINE s == server'[l]
             c == cluster'[l]
  <2>1. s \in Nat /\ c \in Nat
    BY <1>1, <1>2
  <2>2. share' = IF s # 0 /\ c # 0 THEN Smooth(share, (100 * c) \div (s + c), -1) ELSE share
    BY DEF LearnCosts
  <2> HIDE DEF s, c
  <2>3. CASE s # 0 /\ c # 0
    <3> DEFINE q == (100 * c) \div (s + c)
    <3>1. q \in 0..100
      BY <2>1, <2>3, SharePercent
    <3>2. share' = IF share = -1 THEN q ELSE (6 * share + 4 * q) \div 10
      BY <2>2, <2>3 DEF Smooth
    <3> HIDE DEF q
    <3>3. QED
      BY <3>1, <3>2 DEF SplitTypeOK
  <2>4. CASE ~ (s # 0 /\ c # 0)
    BY <2>2, <2>4 DEF SplitTypeOK
  <2>5. QED
    BY <2>3, <2>4
<1>4. QED
  BY <1>1, <1>2, <1>3

(* So does every group, and it records the costs it measured. *)
LEMMA SplitStep == SplitTypeOK /\ [SplitNext]_splitVars => SplitTypeOK'
<1> SUFFICES ASSUME SplitTypeOK, [SplitNext]_splitVars PROVE SplitTypeOK'
  OBVIOUS
<1>1. ASSUME NEW l \in Labels, NEW m \in Sizes, NEW sc \in Costs, NEW cc \in Costs,
             NEW back \in BOOLEAN, Group(l, m, sc, cc, back)
      PROVE  SplitTypeOK'
  <2>1. PICK s \in Costs \cup {0}, c \in Costs \cup {0} :
              /\ LearnCosts(l, s, c)
              /\ seen' = [seen EXCEPT ![l] = [server  |-> seen[l].server \cup ({s} \ {0}),
                                              cluster |-> seen[l].cluster \cup ({c} \ {0})]]
              /\ groups' \in 0..MaxGroups
    BY <1>1, GroupEffect
  <2>2. s \in Nat /\ c \in Nat
    BY SplitAssumption
  <2>3. server' \in [Labels -> Nat] /\ cluster' \in [Labels -> Nat] /\ share' \in -1..100
    BY <2>1, <2>2, LearnTypes
  <2>4. seen' \in [Labels -> [server : SUBSET Costs, cluster : SUBSET Costs]]
    BY <2>1 DEF SplitTypeOK
  <2> QED
    BY <2>1, <2>3, <2>4 DEF SplitTypeOK
<1>2. CASE UNCHANGED splitVars
  BY <1>2 DEF splitVars, SplitTypeOK
<1> QED
  BY <1>1, <1>2 DEF SplitNext, RunOver

(* No cost is known before the first group. *)
LEMMA SplitInitType == SplitInit => SplitTypeOK
  BY SplitAssumption DEF SplitInit, SplitTypeOK

(* The learnt costs and the global share stay in their ranges. *)
THEOREM SplitTypeCorrect == SplitSpec => []SplitTypeOK
<1>1. QED
  BY SplitInitType, SplitStep, PTL DEF SplitSpec

(* A split that leaves the lanes at most half a frame of each apart leaves *)
(* them no further apart than any other: one frame more or fewer on the    *)
(* server moves their ends by a frame of each lane.                        *)
LEMMA NoSplitCloser ==
    ASSUME NEW m \in Nat, NEW s \in Nat \ {0}, NEW c \in Nat \ {0},
           NEW k \in 0..m, NEW o \in 0..m,
           2 * Gap(k * s, (m - k) * c) <= s + c
    PROVE  Gap(k * s, (m - k) * c) <= Gap(o * s, (m - o) * c)
<1> DEFINE d == s + c
           e == m * c
           ak == k * s
           bk == (m - k) * c
           ao == o * s
           bo == (m - o) * c
<1>1. d \in Nat \ {0} /\ e \in Nat /\ ak \in Int /\ bk \in Int /\ ao \in Int /\ bo \in Int
  OBVIOUS
<1>2. ak - bk = d * k - e /\ ao - bo = d * o - e
  <2>1. ak - bk = d * k - e
    OBVIOUS
  <2>2. ao - bo = d * o - e
    OBVIOUS
  <2>3. QED
    BY <2>1, <2>2
<1>3. d * k \in Int /\ d * o \in Int
  BY <1>1
<1>4. CASE o = k
  <2>1. ak \in Int /\ bk \in Int
    BY <1>1
  <2> HIDE DEF ak, bk
  <2>2. Gap(ak, bk) <= Gap(ak, bk)
    BY <2>1 DEF Gap
  <2>3. QED
    BY <1>4, <2>2 DEF ak, bk
<1>5. CASE o # k
  <2>1. d * o >= d * k + d \/ d * o + d <= d * k
    <3>1. d * (k + 1) = d * k + d /\ d * (o + 1) = d * o + d
      BY <1>1
    <3>2. o >= k + 1 => d * o >= d * (k + 1)
      BY <1>1
    <3>3. k >= o + 1 => d * k >= d * (o + 1)
      BY <1>1
    <3>4. o >= k + 1 \/ k >= o + 1
      BY <1>5
    <3> HIDE DEF d
    <3>5. QED
      BY <1>1, <1>3, <3>1, <3>2, <3>3, <3>4
  <2> DEFINE p == d * k
             q == d * o
  <2>2. 2 * Gap(ak, bk) <= d
    OBVIOUS
  <2>3. /\ p \in Int /\ q \in Int /\ ak - bk = p - e /\ ao - bo = q - e
        /\ q >= p + d \/ q + d <= p
    BY <1>2, <1>3, <2>1
  <2> HIDE DEF p, q, ak, bk, ao, bo, d, e
  <2>4. Gap(ak, bk) <= Gap(ao, bo)
    BY <1>1, <2>2, <2>3 DEF Gap
  <2>5. QED
    BY <2>4 DEF ak, bk, ao, bo
<1>6. QED
  BY <1>4, <1>5

(* __serverCount balances the two lanes to within one frame of the slower  *)
(* one, and as closely as whole frames can, whatever costs either lane was *)
(* measured with, for any group size and any number of workers.                                              *)
THEOREM LanesCorrect == SplitSpec => []LanesFinishTogether
<1>1. SplitTypeOK => LanesFinishTogether
  <2> SUFFICES ASSUME SplitTypeOK, NEW l \in Labels, NEW m \in Sizes,
                      server[l] # 0, cluster[l] # 0, NEW o \in 0..m
               PROVE  LET kept == ServerCount(l, m)
                          apart == Gap(kept * server[l], (m - kept) * cluster[l])
                      IN  /\ 2 * apart <= server[l] + cluster[l]
                          /\ apart <= Gap(o * server[l], (m - o) * cluster[l])
    <3>1. \A l1 \in Labels, m1 \in Sizes : 0 \in 0..m1
      BY SplitAssumption
    <3>2. QED
      BY <3>1, Zenon DEF LanesFinishTogether
  <2> DEFINE s == server[l]
             c == cluster[l]
             k == Rounded(m * c, s + c)
  <2>1. s \in Nat \ {0} /\ c \in Nat \ {0} /\ m \in Nat
    BY SplitAssumption DEF SplitTypeOK
  <2>2. ServerCount(l, m) = Clamp(k, m)
    BY DEF ServerCount
  <2> HIDE DEF s, c, k
  <2>3. /\ k \in 0..m
        /\ 2 * (k * s - (m - k) * c) <= s + c
        /\ 2 * ((m - k) * c - k * s) <= s + c
    BY <2>1, RoundedShare DEF k
  <2>4. ServerCount(l, m) = k
    BY <2>1, <2>2, <2>3 DEF Clamp
  <2>5. k * s \in Int /\ (m - k) * c \in Int
    BY <2>1, <2>3
  <2>6. 2 * Gap(k * s, (m - k) * c) <= s + c
    BY <2>3, <2>5 DEF Gap
  <2>7. Gap(k * s, (m - k) * c) <= Gap(o * s, (m - o) * c)
    BY <2>1, <2>3, <2>6, NoSplitCloser
  <2> QED
    BY <2>4, <2>6, <2>7 DEF s, c
<1>2. QED
  BY SplitTypeCorrect, <1>1, PTL

(* When a split leaves a lane idle: the other is 2m - 1 times cheaper. *)
LEMMA IdleShare ==
    ASSUME NEW m \in Nat \ {0}, NEW s \in Nat \ {0}, NEW c \in Nat \ {0}, NEW k,
           k = Rounded(m * c, s + c)
    PROVE  /\ k = m <=> c >= (2 * m - 1) * s
           /\ k = 0 => s > (2 * m - 1) * c
<1> DEFINE d == s + c
           ms == m * s
           mc == m * c
<1>1. d \in Nat \ {0} /\ 2 * d \in Nat \ {0} /\ ms \in Nat /\ mc \in Nat /\ 2 * mc + d \in Nat
  OBVIOUS
<1>2. k = (2 * mc + d) \div (2 * d)
  BY DEF Rounded
<1>3. k \in 0..m
  BY RoundedShare
<1>4. (2 * d) * k <= 2 * mc + d /\ 2 * mc + d < (2 * d) * k + 2 * d
  <2> HIDE DEF d, mc
  <2>1. QED
    BY <1>1, <1>2, DivBounds
<1>5. /\ (2 * m - 1) * s = 2 * ms - s
      /\ (2 * m - 1) * c = 2 * mc - c
      /\ (2 * d) * m = 2 * ms + 2 * mc
  OBVIOUS
<1>6. ASSUME k = m PROVE c >= (2 * m - 1) * s
  <2>1. (2 * d) * m <= 2 * mc + d /\ d = s + c
    BY <1>4, <1>6
  <2> HIDE DEF d, ms, mc
  <2>2. QED
    BY <1>1, <1>5, <2>1
<1>7. ASSUME c >= (2 * m - 1) * s, k # m PROVE FALSE
  <2>1. k + 1 <= m
    BY <1>3, <1>7
  <2>2. (2 * d) * (k + 1) <= (2 * d) * m
    BY <1>1, <1>3, <2>1
  <2>3. (2 * d) * (k + 1) = (2 * d) * k + 2 * d /\ (2 * d) * k \in Int /\ d = s + c
    BY <1>1, <1>3
  <2> HIDE DEF d, ms, mc
  <2>4. QED
    BY <1>1, <1>4, <1>5, <1>7, <2>2, <2>3
<1>8. ASSUME k = 0 PROVE s > (2 * m - 1) * c
  <2>1. 2 * mc + d < 2 * d /\ d = s + c
    BY <1>1, <1>4, <1>8
  <2> HIDE DEF d, ms, mc
  <2>2. QED
    BY <1>1, <1>5, <2>1
<1>9. QED
  BY <1>6, <1>7, <1>8

(* Once both lanes are known nothing but their costs counts. *)
LEMMA KnownCount ==
    ASSUME NEW l \in Labels, NEW m \in Sizes, server[l] \in Nat \ {0}, cluster[l] \in Nat \ {0}
    PROVE  /\ ServerCount(l, m) = m <=> cluster[l] >= (2 * m - 1) * server[l]
           /\ ServerCount(l, m) = 0 => server[l] > (2 * m - 1) * cluster[l]
<1>1. m \in Nat \ {0}
  BY SplitAssumption
<1>2. PICK k : k = Rounded(m * cluster[l], server[l] + cluster[l])
  OBVIOUS
<1>3. k \in 0..m
  BY <1>1, <1>2, RoundedShare
<1>4. ServerCount(l, m) = k
  BY <1>1, <1>2, <1>3 DEF ServerCount, Clamp
<1>5. QED
  BY <1>1, <1>2, <1>4, IdleShare

(* An estimate lies between two costs that were measured. *)
Between(est, costs) == \E lo \in costs, hi \in costs : lo <= est /\ est <= hi

Founded ==
    \A l \in Labels :
        /\ server[l] # 0 => Between(server[l], seen[l].server)
        /\ cluster[l] # 0 => Between(cluster[l], seen[l].cluster)

(* Smoothing does not leave the range of the costs. *)
LEMMA BetweenStep ==
    ASSUME NEW old \in Nat, NEW costs \in SUBSET Nat, NEW cost \in Nat \ {0}, NEW new \in Nat,
           old # 0 => Between(old, costs),
           old = 0 => new = cost,
           old # 0 => new \in old..cost \/ new \in cost..old
    PROVE  Between(new, costs \cup {cost})
<1>1. CASE old = 0
  BY <1>1 DEF Between
<1>2. CASE old # 0
  <2>1. PICK lo \in costs, hi \in costs : lo <= old /\ old <= hi
    BY <1>2 DEF Between
  <2>2. CASE new \in old..cost
    <3>1. lo <= new /\ new <= cost
      BY <2>1, <2>2
    <3>2. QED
      BY <3>1 DEF Between
  <2>3. CASE new \in cost..old
    <3>1. cost <= new /\ new <= hi
      BY <2>1, <2>3
    <3>2. QED
      BY <3>1 DEF Between
  <2>4. QED
    BY <1>2, <2>2, <2>3
<1>3. QED
  BY <1>1, <1>2

(* A group moves its estimates within what was measured, its own costs     *)
(* included.                                                               *)
LEMMA FoundedStep == SplitTypeOK /\ Founded /\ [SplitNext]_splitVars => Founded'
<1> SUFFICES ASSUME SplitTypeOK, Founded, [SplitNext]_splitVars PROVE Founded'
  OBVIOUS
<1>1. ASSUME NEW l \in Labels, NEW m \in Sizes, NEW sc \in Costs, NEW cc \in Costs,
             NEW back \in BOOLEAN, Group(l, m, sc, cc, back)
      PROVE  Founded'
  <2>1. PICK s \in Costs \cup {0}, c \in Costs \cup {0} :
              /\ LearnCosts(l, s, c)
              /\ seen' = [seen EXCEPT ![l] = [server  |-> seen[l].server \cup ({s} \ {0}),
                                              cluster |-> seen[l].cluster \cup ({c} \ {0})]]
    BY <1>1, GroupEffect
  <2>2. /\ s \in Nat /\ c \in Nat /\ server \in [Labels -> Nat] /\ cluster \in [Labels -> Nat]
        /\ seen[l].server \in SUBSET Nat /\ seen[l].cluster \in SUBSET Nat
    <3>1. s \in Nat /\ c \in Nat
      BY SplitAssumption
    <3>2. server \in [Labels -> Nat] /\ cluster \in [Labels -> Nat]
      BY DEF SplitTypeOK
    <3>3. seen[l] \in [server : SUBSET Costs, cluster : SUBSET Costs]
      BY DEF SplitTypeOK
    <3>4. QED
      BY <3>1, <3>2, <3>3, SplitAssumption
  <2>3. /\ \A o \in Labels \ {l} : seen'[o] = seen[o]
        /\ seen'[l].server = seen[l].server \cup ({s} \ {0})
        /\ seen'[l].cluster = seen[l].cluster \cup ({c} \ {0})
    BY <2>1 DEF SplitTypeOK
  <2>4. /\ server' = IF s > 0 THEN Estimate(server, l, s) ELSE server
        /\ cluster' = IF c > 0 THEN Estimate(cluster, l, c) ELSE cluster
    BY <2>1 DEF LearnCosts
  <2>5. \A o \in Labels \ {l} : server'[o] = server[o] /\ cluster'[o] = cluster[o]
    BY <2>2, <2>4, EstimateEffect
  <2>6. server'[l] # 0 => Between(server'[l], seen'[l].server)
    <3>1. CASE s = 0
      <4>1. server'[l] = server[l] /\ seen'[l].server = seen[l].server
        BY <2>3, <2>4, <3>1
      <4>2. QED
        BY <4>1 DEF Founded
    <3>2. CASE s # 0
      <4>1. /\ server'[l] \in Nat /\ (server[l] = 0 => server'[l] = s)
            /\ server[l] # 0 => server'[l] \in server[l]..s \/ server'[l] \in s..server[l]
        BY <2>2, <2>4, <3>2, EstimateEffect
      <4>2. Between(server'[l], seen[l].server \cup {s})
        <5>1. server[l] # 0 => Between(server[l], seen[l].server)
          BY DEF Founded
        <5>2. s \in Nat \ {0} /\ server[l] \in Nat /\ seen[l].server \in SUBSET Nat
          BY <2>2, <3>2
        <5>3. QED
          BY <4>1, <5>1, <5>2, BetweenStep
      <4>3. seen'[l].server = seen[l].server \cup {s}
        BY <2>3, <3>2
      <4>4. QED
        BY <4>2, <4>3
    <3>3. QED
      BY <3>1, <3>2
  <2>7. cluster'[l] # 0 => Between(cluster'[l], seen'[l].cluster)
    <3>1. CASE c = 0
      <4>1. cluster'[l] = cluster[l] /\ seen'[l].cluster = seen[l].cluster
        BY <2>3, <2>4, <3>1
      <4>2. QED
        BY <4>1 DEF Founded
    <3>2. CASE c # 0
      <4>1. /\ cluster'[l] \in Nat /\ (cluster[l] = 0 => cluster'[l] = c)
            /\ cluster[l] # 0 => cluster'[l] \in cluster[l]..c \/ cluster'[l] \in c..cluster[l]
        BY <2>2, <2>4, <3>2, EstimateEffect
      <4>2. Between(cluster'[l], seen[l].cluster \cup {c})
        <5>1. cluster[l] # 0 => Between(cluster[l], seen[l].cluster)
          BY DEF Founded
        <5>2. c \in Nat \ {0} /\ cluster[l] \in Nat /\ seen[l].cluster \in SUBSET Nat
          BY <2>2, <3>2
        <5>3. QED
          BY <4>1, <5>1, <5>2, BetweenStep
      <4>3. seen'[l].cluster = seen[l].cluster \cup {c}
        BY <2>3, <3>2
      <4>4. QED
        BY <4>2, <4>3
    <3>3. QED
      BY <3>1, <3>2
  <2>8. QED
    BY <2>3, <2>5, <2>6, <2>7 DEF Founded
<1>2. CASE UNCHANGED splitVars
  BY <1>2 DEF splitVars, Founded
<1>3. QED
  BY <1>1, <1>2 DEF SplitNext, RunOver

(* For any costs and group sizes: a lane that is known is left without     *)
(* frames only after this operation met costs that far apart.              *)
THEOREM IdleOnEvidenceCorrect == SplitSpec => []IdleOnEvidence
<1>1. SplitInit => Founded
  BY DEF SplitInit, Founded
<1>2. SplitTypeOK /\ Founded => IdleOnEvidence
  <2> SUFFICES ASSUME SplitTypeOK, Founded, NEW l \in Labels, NEW m \in Sizes,
                      server[l] # 0, cluster[l] # 0
               PROVE  /\ ServerCount(l, m) = m =>
                            \E s \in seen[l].server, c \in seen[l].cluster : c >= (2 * m - 1) * s
                      /\ ServerCount(l, m) = 0 =>
                            \E s \in seen[l].server, c \in seen[l].cluster : s > (2 * m - 1) * c
    BY DEF IdleOnEvidence
  <2>1. /\ server[l] \in Nat \ {0} /\ cluster[l] \in Nat \ {0} /\ m \in Nat \ {0}
        /\ seen[l].server \in SUBSET Nat /\ seen[l].cluster \in SUBSET Nat
    BY SplitAssumption DEF SplitTypeOK
  <2>2. PICK slo \in seen[l].server, shi \in seen[l].server : slo <= server[l] /\ server[l] <= shi
    BY DEF Founded, Between
  <2>3. PICK clo \in seen[l].cluster, chi \in seen[l].cluster : clo <= cluster[l] /\ cluster[l] <= chi
    BY DEF Founded, Between
  <2>4. ASSUME ServerCount(l, m) = m PROVE chi >= (2 * m - 1) * slo
    <3>1. cluster[l] >= (2 * m - 1) * server[l]
      BY <2>1, <2>4, KnownCount
    <3>2. (2 * m - 1) * slo <= (2 * m - 1) * server[l]
      BY <2>1, <2>2
    <3>3. (2 * m - 1) * slo \in Int /\ (2 * m - 1) * server[l] \in Int /\ chi \in Int
      BY <2>1, <2>2, <2>3
    <3>4. QED
      BY <2>1, <2>3, <3>1, <3>2, <3>3
  <2>5. ASSUME ServerCount(l, m) = 0 PROVE shi > (2 * m - 1) * clo
    <3>1. server[l] > (2 * m - 1) * cluster[l]
      BY <2>1, <2>5, KnownCount
    <3>2. (2 * m - 1) * clo <= (2 * m - 1) * cluster[l]
      BY <2>1, <2>3
    <3>3. (2 * m - 1) * clo \in Int /\ (2 * m - 1) * cluster[l] \in Int /\ shi \in Int
      BY <2>1, <2>2, <2>3
    <3>4. QED
      BY <2>1, <2>2, <3>1, <3>2, <3>3
  <2>6. QED
    BY <2>2, <2>3, <2>4, <2>5
<1>3. QED
  BY <1>1, <1>2, SplitInitType, SplitStep, FoundedStep, PTL DEF SplitSpec

(* A cluster without frames learns nothing, and a server that becomes no   *)
(* slower keeps them all.                                                  *)
LEMMA IdleStep ==
    ASSUME SplitTypeOK, [SplitNext]_splitVars, NEW l \in Labels,
           server[l] # 0, cluster[l] # 0, \A m \in Sizes : ServerCount(l, m) = m,
           server'[l] <= server[l]
    PROVE  /\ cluster'[l] = cluster[l]
           /\ \A m \in Sizes : ServerCount(l, m)' = m
<1>1. server[l] \in Nat \ {0} /\ cluster[l] \in Nat \ {0}
  BY DEF SplitTypeOK
<1>2. cluster'[l] = cluster[l] /\ server'[l] \in Nat \ {0}
  <2>1. ASSUME NEW o \in Labels, NEW m \in Sizes, NEW sc \in Costs, NEW cc \in Costs,
               NEW back \in BOOLEAN, Group(o, m, sc, cc, back)
        PROVE  cluster'[l] = cluster[l] /\ server'[l] \in Nat \ {0}
    <3>1. PICK s \in Costs \cup {0}, c \in Costs \cup {0} :
                LearnCosts(o, s, c) /\ (ServerCount(o, m) = m => c = 0)
      BY <2>1, GroupEffect
    <3>2. s \in Nat /\ c \in Nat /\ server \in [Labels -> Nat] /\ cluster \in [Labels -> Nat]
      BY SplitAssumption DEF SplitTypeOK
    <3>3. o = l => c = 0
      BY <3>1
    <3>4. /\ server' = IF s > 0 THEN Estimate(server, o, s) ELSE server
          /\ cluster' = IF c > 0 THEN Estimate(cluster, o, c) ELSE cluster
      BY <3>1 DEF LearnCosts
    <3>5. cluster'[l] = cluster[l]
      <4>1. CASE c = 0
        BY <3>4, <4>1
      <4>2. CASE c # 0
        <5>1. l \in Labels \ {o} /\ c \in Nat \ {0} /\ cluster' = Estimate(cluster, o, c)
          BY <3>2, <3>3, <3>4, <4>2
        <5>2. QED
          BY <3>2, <5>1, EstimateEffect
      <4>3. QED
        BY <4>1, <4>2
    <3>6. server'[l] \in Nat \ {0}
      <4>1. CASE s = 0
        BY <1>1, <3>4, <4>1
      <4>2. CASE s # 0
        <5>1. s \in Nat \ {0} /\ server' = Estimate(server, o, s)
          BY <3>2, <3>4, <4>2
        <5>2. /\ server' \in [Labels -> Nat] /\ server'[o] # 0
              /\ \A q \in Labels \ {o} : server'[q] = server[q]
          BY <3>2, <5>1, EstimateEffect
        <5>3. QED
          BY <1>1, <5>2
      <4>3. QED
        BY <4>1, <4>2
    <3>7. QED
      BY <3>5, <3>6
  <2>2. CASE UNCHANGED splitVars
    BY <1>1, <2>2 DEF splitVars
  <2>3. QED
    BY <2>1, <2>2 DEF SplitNext, RunOver
<1>3. ASSUME NEW m \in Sizes PROVE ServerCount(l, m)' = m
  <2>1. m \in Nat \ {0}
    BY SplitAssumption
  <2>2. cluster[l] >= (2 * m - 1) * server[l]
    BY <1>1, KnownCount
  <2>3. (2 * m - 1) * server'[l] <= (2 * m - 1) * server[l]
    BY <1>1, <1>2, <2>1
  <2>4. cluster'[l] >= (2 * m - 1) * server'[l]
    <3>1. (2 * m - 1) * server'[l] \in Int /\ (2 * m - 1) * server[l] \in Int
      BY <1>1, <1>2, <2>1
    <3>2. QED
      BY <1>1, <1>2, <2>2, <2>3, <3>1
  <2>5. PICK s, c : s = server'[l] /\ c = cluster'[l]
    OBVIOUS
  <2>6. s \in Nat \ {0} /\ c \in Nat \ {0} /\ c >= (2 * m - 1) * s
    BY <1>1, <1>2, <2>4, <2>5
  <2>7. PICK k : k = Rounded(m * c, s + c)
    OBVIOUS
  <2>8. k = m
    BY <2>1, <2>6, <2>7, IdleShare
  <2>9. ServerCount(l, m)' = Clamp(k, m)
    BY <2>5, <2>6, <2>7 DEF ServerCount, Clamp, Rounded
  <2>10. QED
    BY <2>1, <2>8, <2>9 DEF Clamp
<1>4. QED
  BY <1>2, <1>3

(* "refined after every group" (WBPPShim.js:71) ends where a lane is idle: *)
(* an operation that gives the cluster none of its groups never measures   *)
(* it again, and gives it none until the server becomes slower.            *)
THEOREM IdleForGoodCorrect == SplitSpec => IdleForGood
<1>1. SplitTypeOK /\ [SplitNext]_splitVars =>
        [\A l \in Labels :
          /\ server[l] # 0 /\ cluster[l] # 0 /\ \A m \in Sizes : ServerCount(l, m) = m
          /\ server'[l] <= server[l]
          => /\ cluster'[l] = cluster[l]
             /\ \A m \in Sizes : ServerCount(l, m)' = m]_splitVars
  BY IdleStep
<1>2. QED
  BY SplitTypeCorrect, <1>1, PTL DEF SplitSpec, IdleForGood

-----------------------------------------------------------------------------
(* The three together, as one run checks them. *)

(* Each part keeps its invariant while the others are at rest. *)
ShimInv == BatchInv /\ MeasureInv /\ SplitTypeOK

(* The shim's batches, measurements and splits keep their types and their  *)
(* invariants when they are run side by side.                              *)
THEOREM ShimTypeCorrect == ShimSpec => []ShimTypeOK
<1>1. ShimInit => ShimInv
  BY BatchInit, MeasureInitInv, SplitInitType DEF ShimInit, ShimInv
<1>2. ShimInv /\ [ShimNext]_<<vars, measureVars, splitVars>> => ShimInv'
  <2> SUFFICES ASSUME ShimInv, [ShimNext]_<<vars, measureVars, splitVars>> PROVE ShimInv'
    OBVIOUS
  <2>1. [Next]_vars /\ [MeasureNext]_measureVars /\ [SplitNext]_splitVars
    BY DEF ShimNext
  <2> QED
    BY <2>1, BatchStep, MeasureStep, SplitStep DEF ShimInv
<1>3. ShimInv => ShimTypeOK
  BY DEF ShimInv, ShimTypeOK, BatchInv, MeasureInv
<1>4. QED
  BY <1>1, <1>2, <1>3, PTL DEF ShimSpec

=============================================================================
