--------------------- MODULE ProcessSerializer_proofs ---------------------
(***************************************************************************)
(* The way of a process to a worker, for any set of parameters, any choice *)
(* of paths and tables among them, and whatever the worker's own process   *)
(* exposes.                                                                *)
(***************************************************************************)
EXTENDS ProcessSerializer, TLAPS

PlainParams == {q \in Params : Plain(value[q])}

(* The job names the plain parameters, with what JSON makes of them once   *)
(* it is written, and the output names as they are configured.             *)
WireCarries ==
    /\ step = "job" =>
          /\ DOMAIN wire = PlainParams
          /\ \A p \in PlainParams : wire[p] = value[p]
    /\ step \in {"manifest", "pulled"} =>
          /\ DOMAIN wire = PlainParams
          /\ \A p \in PlainParams : wire[p] = Stringify(value[p])
    /\ step \in {"job", "manifest", "pulled", "rebuilt"} =>
          \A p \in Naming : naming[p] = value[p]

(* deserializeProcess: what is plain is the server's value, the rest is    *)
(* the default.                                                            *)
RebuiltWhole ==
    step = "rebuilt" => \A p \in Params :
        inst[p] = IF p \in PlainParams THEN value[p] ELSE "default"

SerialInv == SerialTypeOK /\ WireCarries /\ RebuiltWhole /\ ExecutedAsConfigured

(* Before a process is captured nothing is on the wire. *)
LEMMA SerialInitInv == SerialInit => SerialInv
  BY SerializerAssumption
     DEF SerialInit, SerialInv, SerialTypeOK, WireCarries, RebuiltWhole, ExecutedAsConfigured,
         Default, Values, Ops

(* Serializing, writing, checking and assigning each preserve it. *)
LEMMA SerialStep == SerialInv /\ [SerialNext]_serialVars => SerialInv'
<1> SUFFICES ASSUME SerialInv, [SerialNext]_serialVars PROVE SerialInv'
  OBVIOUS
<1> USE SerializerAssumption
    DEF SerialInv, SerialTypeOK, WireCarries, RebuiltWhole, ExecutedAsConfigured, PlainParams,
        Plain, Values, Default, Ops, Naming, jobVars
<1>1. CASE Capture
  BY <1>1 DEF Capture, Instances, Exposures
<1>2. CASE Serialize
  BY <1>2 DEF Serialize
<1>3. CASE Write
  BY <1>3 DEF Write, Stringify
<1>4. CASE Pull
  BY <1>4 DEF Pull
<1>5. CASE Rebuild
  BY <1>5 DEF Rebuild, Accepts, Stringify
<1>6. CASE RejectParameter
  BY <1>6 DEF RejectParameter
<1>7. CASE RejectField
  BY <1>7 DEF RejectField
<1>8. CASE Execute
  BY <1>8 DEF Execute, LocalFields, Fields, Forced, Paths
<1>9. CASE UNCHANGED serialVars
  BY <1>9 DEF serialVars
<1> HIDE DEF SerialInv
<1> QED
  BY <1>1, <1>2, <1>3, <1>4, <1>5, <1>6, <1>7, <1>8, <1>9 DEF SerialNext, JobEnded

(* Manifest, worker's instance and server's values agree at every step. *)
THEOREM SerialInvariance == SerialSpec => []SerialInv
<1>1. QED
  BY SerialInitInv, SerialStep, PTL DEF SerialSpec

(* The job keeps its types; in particular a manifest names no parameter    *)
(* that the server's process does not have.                                *)
THEOREM SerialTypeCorrect == SerialSpec => []SerialTypeOK
<1>1. SerialInv => SerialTypeOK
  BY DEF SerialInv
<1>2. QED
  BY SerialInvariance, <1>1, PTL

(* A worker runs the process WBPP configured, but for the rows and paths   *)
(* that point at its own files, the switches it sets to run unattended and *)
(* the values that are not plain, or it rejects the job: for any process,  *)
(* not only the ones of a small model.                                     *)
THEOREM ExecutedCorrect == SerialSpec => []ExecutedAsConfigured
<1>1. SerialInv => ExecutedAsConfigured
  BY DEF SerialInv
<1>2. QED
  BY SerialInvariance, <1>1, PTL

=============================================================================
