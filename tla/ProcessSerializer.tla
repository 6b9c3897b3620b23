-------------------------- MODULE ProcessSerializer --------------------------
(***************************************************************************)
(* The way of a configured process from the server to a worker: serialized *)
(* by name and plain value (ProcessSerializer.js, serializeProcess),       *)
(* written as JSON, checked by the worker's sidecar (transport.go,         *)
(* validateManifest), rebuilt from a default instance (deserializeProcess),*)
(* pointed at the worker's own files, set up for running unattended and    *)
(* run (WorkerRuntime.js, processJob, integrateFrames, drizzleIntegrate).  *)
(*                                                                         *)
(* The value of a parameter is abstracted to what these steps tell apart.  *)
(***************************************************************************)
EXTENDS FiniteSets, Naturals

CONSTANTS Params,       \* parameters of the process on the server
          FileRefs,     \* those that name a master or reference (fileRefFields)
          DirField,     \* the one that names the output directory
          TargetsField, \* the one that lists the frames
          Tables,       \* the ones whose value is a table
          MaxSet        \* bound: parameters that are not at their default

Paths == FileRefs \cup {DirField}

(* Output names and switches, for the processes that have them. *)
Naming   == Params \cap {"outputPrefix", "outputPostfix", "outputExtension"}
Switches == Params \cap {"overwriteExistingFiles", "showImages", "generateDrizzleData"}

ASSUME SerializerAssumption ==
    /\ FileRefs \subseteq Params
    /\ DirField \in Params \ FileRefs
    /\ Tables \subseteq Params \ (FileRefs \cup {DirField})
    /\ TargetsField \in Tables
    /\ MaxSet \in Nat
    /\ (Naming \cup Switches) \cap (Paths \cup Tables) = {}

VARIABLES
    step,      \* where the job is
    op,        \* a per-frame operation or the kind of whole job
    value,     \* the parameters as the server's WBPP configured them
    present,   \* the file references whose file exists on the server
    known,     \* the parameters a default instance on the worker exposes
    wire,      \* the params of the job, by name
    naming,    \* its prefix, postfix and out_ext
    inst       \* the instance on the worker

jobVars  == <<op, value, present, known>>
serialVars == <<step, jobVars, wire, naming, inst>>

Ops == {"frames", "integration", "light_integration", "drizzle_integration"}

(* default: the default; set: another value, for a path one on the server; *)
(* nan: a number, or a cell of a table, that is not finite; opaque: rows   *)
(* that are not lists of scalars.                                          *)
Values == {"default", "set", "nan", "opaque"}

(* A path or name is a string, a switch is true or false, and a scalar is  *)
(* plain.                                                                  *)
Instances == {v \in [Params -> Values] :
                 /\ Cardinality({p \in Params : v[p] # "default"}) <= MaxSet
                 /\ \A p \in Paths \cup Naming \cup Switches : v[p] \in {"default", "set"}
                 /\ \A p \in Params \ Tables : v[p] # "opaque"}

(* Bound: the worker's process lacks at most one of the parameters. *)
Exposures == {Params} \cup {Params \ {p} : p \in Params}

Default == [p \in Params |-> "default"]

SerialInit ==
    /\ step = "idle" /\ op = "frames"
    /\ value = Default /\ present = {} /\ known = {}
    /\ wire = [p \in {} |-> "default"] /\ naming = [p \in {} |-> "default"] /\ inst = Default

(* WBPP's operation configured a process, and the shim captured it. *)
Capture ==
    /\ step = "idle"
    /\ op' \in Ops
    /\ value' \in Instances
    /\ present' \in SUBSET {p \in FileRefs : value'[p] = "set"}
    /\ known' \in Exposures
    /\ step' = "captured"
    /\ UNCHANGED <<wire, naming, inst>>

(* __wbppPlainValue: undefined for what is not plain. *)
Plain(v) == v # "opaque"

(* serializeProcess: the names of the instance, the plain values.  The job *)
(* has the output names beside them.                                       *)
Serialize ==
    /\ step = "captured"
    /\ wire' = [p \in {q \in Params : Plain(value[q])} |-> value[p]]
    /\ naming' = [p \in Naming |-> value[p]]
    /\ step' = "job"
    /\ UNCHANGED <<jobVars, inst>>

(* JSON.stringify in distributeAsync: NaN and Infinity become null. *)
Stringify(v) == IF v = "nan" THEN "null" ELSE v

Write ==
    /\ step = "job"
    /\ wire' = [p \in DOMAIN wire |-> Stringify(wire[p])]
    /\ step' = "manifest"
    /\ UNCHANGED <<jobVars, naming, inst>>

(* validateManifest and checkJobFiles refuse a manifest with another       *)
(* operation, process or kind of file name than the shim ever writes.      *)
Pull ==
    /\ step = "manifest"
    /\ step' = "pulled"
    /\ UNCHANGED <<jobVars, wire, naming, inst>>

\* Defect: null counts as "not set".
AcceptsNull(p) == p \in known

(* The name is exposed, and the value has the type of the default: null    *)
(* has none of them, alone or in a table.                                  *)
Accepts(p) == p \in known /\ wire[p] # "null"

(* deserializeProcess: a default instance, with every value of the job. *)
Rebuild ==
    /\ step = "pulled"
    /\ \A p \in DOMAIN wire : Accepts(p)
    /\ inst' = [p \in Params |-> IF p \in DOMAIN wire THEN wire[p] ELSE Default[p]]
    /\ step' = "rebuilt"
    /\ UNCHANGED <<jobVars, wire, naming>>

(* "rejected job": the exception is reported as the job's error. *)
RejectParameter ==
    /\ step = "pulled"
    /\ \E p \in DOMAIN wire : ~Accepts(p)
    /\ step' = "rejected"
    /\ UNCHANGED <<jobVars, wire, naming, inst>>

(* The fields the rest of processJob checks with checkField. *)
Fields == present \cup {DirField, TargetsField}

RejectField ==
    /\ step = "rebuilt"
    /\ op = "frames" /\ ~ (Fields \subseteq known)
    /\ step' = "rejected"
    /\ UNCHANGED <<jobVars, wire, naming, inst>>

(* The fields rewritten to the data directory; a whole job has its rows    *)
(* (images, inputData) replaced and returns its result by window.          *)
LocalFields == IF op = "frames" THEN Fields ELSE {TargetsField}

\* Defect: no integration writes drizzle data, that of lights included.
ForcedForLights ==
    Params \cap (IF op = "frames" THEN {"overwriteExistingFiles"}
                 ELSE {"showImages", "generateDrizzleData"})

(* What the worker sets so that the process runs unattended: overwriting,  *)
(* no windows, and no drizzle data of a calibration master.                *)
Forced ==
    Params \cap (IF op = "frames" THEN {"overwriteExistingFiles"}
                 ELSE IF op = "integration" THEN {"showImages", "generateDrizzleData"}
                 ELSE {"showImages"})

Execute ==
    /\ step = "rebuilt"
    /\ op = "frames" => Fields \subseteq known
    /\ inst' = [p \in Params |->
                  IF p \in LocalFields THEN "local"
                  ELSE IF p \in Forced THEN "forced"
                  ELSE IF op = "frames" /\ p \in Naming THEN naming[p]
                  ELSE inst[p]]
    /\ step' = "executed"
    /\ UNCHANGED <<jobVars, wire, naming>>

JobEnded == step \in {"executed", "rejected"} /\ UNCHANGED serialVars

SerialNext ==
    \/ Capture \/ Serialize \/ Write \/ Pull \/ Rebuild \/ RejectParameter \/ RejectField
    \/ Execute \/ JobEnded

SerialSpec == SerialInit /\ [][SerialNext]_serialVars
-----------------------------------------------------------------------------
SerialTypeOK ==
    /\ step \in {"idle", "captured", "job", "manifest", "pulled", "rebuilt", "executed", "rejected"}
    /\ op \in Ops /\ value \in [Params -> Values]
    /\ present \subseteq FileRefs /\ known \subseteq Params
    /\ DOMAIN wire \subseteq Params /\ DOMAIN naming \subseteq Naming
    /\ inst \in [Params -> Values \cup {"local", "forced"}]

(* "identical params" (WorkerRuntime.js:165): a process that a worker runs *)
(* has the values WBPP configured, the output names included, but for      *)
(*  - the rows and paths that are pointed at the worker's files,           *)
(*  - the overwriting of outputs in a per-frame job, the windows of a whole*)
(*    job and the drizzle data of a calibration master, not of a light,    *)
(*  - the default in place of a value that was not plain.                  *)
(* A value that JSON cannot carry is never replaced: the job is rejected.  *)
(* No path of the server is left in a per-frame job, but that of a file    *)
(* the server itself does not have.                                        *)
ExecutedAsConfigured ==
    step = "executed" => \A p \in Params :
        /\ \/ inst[p] = value[p]
           \/ inst[p] = "local" /\ p \in {TargetsField} \cup Paths
           \/ /\ inst[p] = "forced"
              /\ \/ p = "overwriteExistingFiles" /\ op = "frames"
                 \/ p = "showImages" /\ op # "frames"
                 \/ p = "generateDrizzleData" /\ op = "integration"
           \/ inst[p] = "default" /\ value[p] = "opaque"
        /\ op = "frames" /\ p \in Paths /\ inst[p] = "set" => p \in FileRefs \ present
=============================================================================
