------------------------------ MODULE Sharding ------------------------------
(***************************************************************************)
(* The shards of a per-frame job (sidecar/weighting.go): weightedShard     *)
(* splits the inputs over the reachable workers in proportion to their     *)
(* measured throughput, and every job of two or more workers feeds the     *)
(* throughput estimates of the next (distribute.go, recordThroughput).     *)
(*                                                                         *)
(* Throughputs are whole numbers, One of which is one frame per second;    *)
(* exact shares are compared by their numerators over the total weight.    *)
(***************************************************************************)
EXTENDS Integers, Sequences, FiniteSets, Functions

CONSTANTS Nodes,   \* node ids
          JobSizes,     \* how many inputs a job has
          Rates,     \* throughputs a shard may show
          One        \* one frame per second

ASSUME ShardingAssumption ==
    /\ JobSizes \subseteq Nat \ {0}
    /\ Rates \subseteq Nat \ {0}
    /\ One \in Nat \ {0}

VARIABLES
    tp,        \* workerTP: the estimate of each worker; 0: unknown
    phase,        \* where distributeJob is
    team,      \* the reachable workers, in the order of the registry
    size,      \* len(inputs)
    weights, counts, frac,   \* the arrays of weightedShard
    assigned   \* inputs handed out so far

shardVars == <<tp, phase, team, size, weights, counts, frac, assigned>>

Teams == {t \in UNION {[1..n -> Nodes] : n \in 1..Cardinality(Nodes)} : IsInjective(t)}

ShardInit ==
    /\ tp = [w \in Nodes |-> 0]
    /\ phase = "idle" /\ team = <<>> /\ size = 0
    /\ weights = <<>> /\ counts = <<>> /\ frac = <<>> /\ assigned = 0

(* The running sums that a loop over an array of n cells goes through. *)
Sums(array, n) ==
    LET sum[k \in 0..n] == IF k = 0 THEN 0 ELSE sum[k - 1] + array[k]
    IN  sum

Total(array, n) == Sums(array, n)[n]

Weight(w) == IF tp[w] = 0 THEN One ELSE tp[w]

(* Whole parts first; frac[i] is the numerator of the rest. *)
StartJob(t, k) ==
    LET ws == [i \in DOMAIN t |-> Weight(t[i])]
        total == Total(ws, Len(t))
    IN
    /\ phase = "idle"
    /\ team' = t /\ size' = k /\ weights' = ws
    /\ counts' = [i \in DOMAIN t |-> (k * ws[i]) \div total]
    /\ frac' = [i \in DOMAIN t |-> (k * ws[i]) % total]
    /\ assigned' = Total(counts', Len(t))
    /\ phase' = "rest"
    /\ UNCHANGED tp

(* The first of the largest remainders. *)
Best ==
    CHOOSE i \in DOMAIN team :
        \A j \in DOMAIN team : IF j < i THEN frac[j] < frac[i] ELSE frac[j] <= frac[i]

\* Defect: a remainder is not marked as used.
HandOutUnmarked ==
    /\ phase = "rest" /\ assigned < size
    /\ counts' = [counts EXCEPT ![Best] = @ + 1]
    /\ assigned' = assigned + 1
    /\ UNCHANGED <<tp, phase, team, size, weights, frac>>

(* One turn of the loop. *)
HandOut ==
    /\ phase = "rest" /\ assigned < size
    /\ counts' = [counts EXCEPT ![Best] = @ + 1]
    /\ frac' = [frac EXCEPT ![Best] = -1]
    /\ assigned' = assigned + 1
    /\ UNCHANGED <<tp, phase, team, size, weights>>

\* Defect: the loop is left with an input unassigned.
StopShort ==
    /\ phase = "rest" /\ assigned + 1 >= size
    /\ phase' = "sharded"
    /\ UNCHANGED <<tp, team, size, weights, counts, frac, assigned>>

Stop ==
    /\ phase = "rest" /\ assigned >= size
    /\ phase' = "sharded"
    /\ UNCHANGED <<tp, team, size, weights, counts, frac, assigned>>

(* inputs[idx : idx+counts[i]] as the interval of its indices. *)
Shard(i) ==
    LET idx == Sums(counts, Len(team))[i - 1]
    IN  (idx + 1)..(idx + counts[i])

Smooth(old, new) == IF old = 0 THEN new ELSE (6 * old + 4 * new) \div 10

(* The shards have run; those that collected something, in a job of more   *)
(* than one worker, are recorded.                                          *)
RunShards(collected, rate) ==
    /\ phase = "sharded"
    /\ collected \subseteq {team[i] : i \in {j \in DOMAIN team : counts[j] > 0}}
    /\ tp' = IF Len(team) > 1
             THEN [w \in Nodes |-> IF w \in collected THEN Smooth(tp[w], rate[w]) ELSE tp[w]]
             ELSE tp
    /\ phase' = "idle" /\ team' = <<>> /\ size' = 0
    /\ weights' = <<>> /\ counts' = <<>> /\ frac' = <<>> /\ assigned' = 0

ShardNext ==
    \/ \E t \in Teams, k \in JobSizes : StartJob(t, k)
    \/ HandOut
    \/ Stop
    \/ \E c \in SUBSET Nodes, rate \in [Nodes -> Rates] : RunShards(c, rate)

ShardSpec == ShardInit /\ [][ShardNext]_shardVars
-----------------------------------------------------------------------------
ShardTypeOK ==
    /\ phase \in {"idle", "rest", "sharded"}
    /\ DOMAIN counts = DOMAIN team /\ DOMAIN frac = DOMAIN team
    /\ \A w \in Nodes : tp[w] = 0 \/ \E lo, hi \in Rates : lo <= tp[w] /\ tp[w] <= hi
    /\ assigned <= size

(* "the counts sum exactly to len(inputs)" and the order is preserved      *)
(* (weighting.go:38-40): every input is in exactly one shard, and the      *)
(* shards of later workers hold later inputs.                              *)
ShardsPartitionInputs ==
    phase = "sharded" =>
        \A x \in 1..size :
            \E i \in DOMAIN team :
                /\ x \in Shard(i)
                /\ \A j \in DOMAIN team : x \in Shard(j) => i = j

Gap(a, b) == IF a > b THEN a - b ELSE b - a

(* The largest remainders decide fairly: no worker is an input or more     *)
(* above or below its exact share, and a faster one never has fewer inputs *)
(* (weighting.go:38-40).                                                   *)
ProportionalShares ==
    phase = "sharded" =>
        LET total == Total(weights, Len(team)) IN
        \A i, j \in DOMAIN team :
            /\ Gap(counts[i] * total, size * weights[i]) < total
            /\ weights[i] > weights[j] => counts[i] >= counts[j]
=============================================================================
