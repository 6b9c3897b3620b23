------------------------------- MODULE MCShim -------------------------------
(* The parts of the shim on the server that share no state, in one run:    *)
(* whole-job batches, measurements and the split between the lanes.  A     *)
(* behaviour is one of a single component, the others at rest.             *)
EXTENDS WholeJobBatch, Measurements, AdaptiveSplit, TLC

CONSTANTS g1, g2, g3, f1, f2, f3, f4, xfit, xxisf, yfit, stemx, stemy, pc1, pc2, registration, calibration

(* The phases of a WBPP run: calibration masters with uncalibrated flats   *)
(* behind them, with or without the flat phase next, the flat phase, LN    *)
(* references before the operation that uses them, and light integrations  *)
(* followed by drizzle.                                                    *)
MCGroups == {g1, g2, g3}
Op(k, g) == [kind |-> k, group |-> g]
CalibPhase == <<Op("calib", g1), Op("flat", g2), Op("flatcal", g3), Op("flat", g3)>>
BiasPhase  == <<Op("calib", g1), Op("calib", g2), Op("flat", g3)>>
FlatPhase  == <<Op("flatcal", g1), Op("flat", g1), Op("flatcal", g2),
                Op("flat", g2), Op("frames", g1)>>
LNPhase    == <<Op("lnref", g1), Op("lnref", g2), Op("lnref", g3), Op("frames", g1)>>
LightPhase == <<Op("light", g1), Op("light", g2), Op("drizzle", g1), Op("drizzle", g2)>>
MCQueues == {CalibPhase, BiasPhase, FlatPhase, LNPhase, LightPhase}

(* Four frames on two workers: x.fit in two folders, x.xisf and y.fit. *)
MCItems == {f1, f2, f3, f4}
MCPos   == f1 :> 1 @@ f2 :> 2 @@ f3 :> 3 @@ f4 :> 4
MCNames == {xfit, xxisf, yfit}
MCBase  == f1 :> xfit @@ f2 :> xfit @@ f3 :> xxisf @@ f4 :> yfit
MCStems == {stemx, stemy}
MCStem  == xfit :> stemx @@ xxisf :> stemx @@ yfit :> stemy
MCComputers == {pc1, pc2}

(* Two operations with groups of one, three or eight frames; a frame may   *)
(* cost one lane twenty times what it costs the other.                     *)
MCLabels == {registration, calibration}
MCSizes  == {1, 3, 8}
MCCosts  == {0, 1, 20}

Symmetry == Permutations(MCLabels) \cup Permutations(MCComputers)

ShimInit == Init /\ MeasureInit /\ SplitInit
NoBatch  == Init /\ queue = LightPhase

ShimNext ==
    \/ MeasureInit /\ SplitInit /\ Next /\ UNCHANGED <<measureVars, splitVars>>
    \/ NoBatch /\ SplitInit /\ MeasureNext /\ UNCHANGED <<vars, splitVars>>
    \/ NoBatch /\ MeasureInit /\ SplitNext /\ UNCHANGED <<vars, measureVars>>

ShimSpec == ShimInit /\ [][ShimNext]_<<vars, measureVars, splitVars>>

(* The type invariants of the three. *)
ShimTypeOK == TypeOK /\ MeasureTypeOK /\ SplitTypeOK
=============================================================================
