---------------------------- MODULE AdaptiveSplit ----------------------------
(***************************************************************************)
(* The split of a group's frames between the server and the cluster        *)
(* (WBPPShim.js, __serverCount and __learnCosts): the cost per frame of    *)
(* each lane is measured with every group of an operation, smoothed, and   *)
(* decides how many frames of the next group the server keeps.             *)
(*                                                                         *)
(* Costs are whole time units and the global share is in percent; the code *)
(* has floating-point numbers, so the smoothed values here are rounded.    *)
(***************************************************************************)
EXTENDS Integers

CONSTANTS Labels,       \* the operations ("registration", "calibration", ...)
          Sizes,        \* how many frames a group has
          NWorkers,     \* bridge.__nWorkers
          Costs,        \* what a frame of a group may cost a lane; 0: no time measured
          MaxGroups     \* bound: groups of a run

ASSUME SplitAssumption ==
    /\ Sizes \subseteq Nat \ {0}
    /\ NWorkers \in Nat \ {0}
    /\ Costs \subseteq Nat
    /\ MaxGroups \in Nat

VARIABLES
    server,    \* __costServer; 0: undefined
    cluster,   \* __costCluster; 0: undefined
    share,     \* __globalServerFrac in percent; -1: undefined
    groups,    \* groups processed so far
    seen       \* history: the costs that were measured, per lane

splitVars == <<server, cluster, share, groups, seen>>

SplitInit ==
    /\ server = [l \in Labels |-> 0]
    /\ cluster = [l \in Labels |-> 0]
    /\ share = -1
    /\ groups = 0
    /\ seen = [l \in Labels |-> [server |-> {}, cluster |-> {}]]

Smooth(old, new, undefined) ==
    IF old = undefined THEN new ELSE (6 * old + 4 * new) \div 10

Clamp(n, top) == IF n < 0 THEN 0 ELSE IF n > top THEN top ELSE n

(* Math.round(a / b). *)
Rounded(a, b) == (2 * a + b) \div (2 * b)

(* The share learnt from other operations, else an even one. *)
Unlearnt(m) ==
    IF share # -1 THEN Rounded(m * share, 100) ELSE m \div (NWorkers + 1)

\* Defect: the server's own cost is taken for its share.
ServerCountSwapped(l, m) ==
    LET s == server[l]  c == cluster[l] IN
    Clamp(IF s # 0 /\ c # 0 THEN Rounded(m * s, s + c) ELSE Unlearnt(m), m)

(* This operation's own measured split, once both lanes are known. *)
ServerCount(l, m) ==
    LET s == server[l]  c == cluster[l] IN
    Clamp(IF s # 0 /\ c # 0 THEN Rounded(m * c, s + c) ELSE Unlearnt(m), m)

\* Defect: the costs add up.
EstimateSummed(est, l, cost) == [est EXCEPT ![l] = @ + cost]

Estimate(est, l, cost) == [est EXCEPT ![l] = Smooth(@, cost, 0)]

(* A frame took sc units on the server and cc in the cluster, 0 for a lane *)
(* that has nothing to learn from.                                         *)
LearnCosts(l, sc, cc) ==
    /\ server' = IF sc > 0 THEN Estimate(server, l, sc) ELSE server
    /\ cluster' = IF cc > 0 THEN Estimate(cluster, l, cc) ELSE cluster
    /\ LET s == server'[l]  c == cluster'[l] IN
       share' = IF s # 0 /\ c # 0 THEN Smooth(share, (100 * c) \div (s + c), -1)
                                  ELSE share

(* One group of operation l with m frames.  A lane without frames is not   *)
(* measured, nor is a cluster that brought nothing back.                   *)
Group(l, m, sc, cc, back) ==
    LET kept == ServerCount(l, m)
        s == IF kept > 0 THEN sc ELSE 0
        c == IF kept < m /\ back THEN cc ELSE 0
    IN
    /\ groups < MaxGroups /\ groups' = groups + 1
    /\ LearnCosts(l, s, c)
    /\ seen' = [seen EXCEPT ![l] = [server  |-> @.server \cup ({s} \ {0}),
                                    cluster |-> @.cluster \cup ({c} \ {0})]]

RunOver == groups = MaxGroups /\ UNCHANGED splitVars

SplitNext ==
    \/ RunOver
    \/ \E l \in Labels, m \in Sizes, sc \in Costs, cc \in Costs, back \in BOOLEAN :
          Group(l, m, sc, cc, back)

SplitSpec == SplitInit /\ [][SplitNext]_splitVars
-----------------------------------------------------------------------------
SplitTypeOK ==
    /\ server \in [Labels -> Nat]
    /\ cluster \in [Labels -> Nat]
    /\ share \in -1..100
    /\ groups \in 0..MaxGroups
    /\ seen \in [Labels -> [server : SUBSET Costs, cluster : SUBSET Costs]]

Gap(a, b) == IF a > b THEN a - b ELSE b - a

(* "allocate frames so the server lane and the cluster lane finish         *)
(* together" (WBPPShim.js:1391-1392): with the costs as estimated, the two *)
(* lanes of a group end at most one frame of the slower lane apart, and no *)
(* other split of the group brings their ends closer.                      *)
LanesFinishTogether ==
    \A l \in Labels, m \in Sizes :
        LET s == server[l]  c == cluster[l]
            apart(k) == Gap(k * s, (m - k) * c)
            kept == ServerCount(l, m)
        IN
        s # 0 /\ c # 0 =>
            /\ 2 * apart(kept) <= s + c
            /\ \A k \in 0..m : apart(kept) <= apart(k)

(* "the split self-tunes" (WBPPShim.js:71-72), as far as it is so: once    *)
(* both lanes of an operation are known, a group of m frames leaves one of *)
(* them idle only if this operation has met costs that far apart, 2m - 1   *)
(* times the other lane's.  No smoothing and no other operation makes a    *)
(* lane look that slow.                                                    *)
IdleOnEvidence ==
    \A l \in Labels, m \in Sizes :
        server[l] # 0 /\ cluster[l] # 0 =>
            /\ ServerCount(l, m) = m =>
                  \E s \in seen[l].server, c \in seen[l].cluster : c >= (2 * m - 1) * s
            /\ ServerCount(l, m) = 0 =>
                  \E s \in seen[l].server, c \in seen[l].cluster : s > (2 * m - 1) * c

(* But it does not always: a cluster that gets no frame of any group of an *)
(* operation is not measured any more.  Whatever it would cost by then, it *)
(* stays without frames until the server becomes slower.                   *)
IdleForGood ==
    [][\A l \in Labels :
          /\ server[l] # 0 /\ cluster[l] # 0 /\ \A m \in Sizes : ServerCount(l, m) = m
          /\ server'[l] <= server[l]
          => /\ cluster'[l] = cluster[l]
             /\ \A m \in Sizes : ServerCount(l, m)' = m]_splitVars
=============================================================================
