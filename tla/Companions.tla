----------------------------- MODULE Companions -----------------------------
(***************************************************************************)
(* The two companion files of a light frame through one WBPP run: its      *)
(* drizzle file (<frame>_r.xdrz), written by the registration, updated by  *)
(* the light integration and read by the drizzle integration, and its      *)
(* normalization file (<frame>_r.xnml).  Every machine keeps its own copy  *)
(* under the same name: the server in the group's output directory, a      *)
(* worker in the data directory of its session.  Machines look companions  *)
(* up by File.exists, so what an earlier run left is found as well.        *)
(*                                                                         *)
(* A drizzle file is abstracted to the run it comes from, whether its      *)
(* <SourceImage> names the server's directory or a worker's, and whether   *)
(* this run's integration updated it; the other files to the run they come *)
(* from.  What happens to one file name of an operation at a time is the   *)
(* matter of PerFrame and Upload; here an operation is one step.           *)
(***************************************************************************)
EXTENDS FiniteSets, Naturals

CONSTANTS Frames,     \* the light frames of a group
          Workers,
          Server,
          Leftovers,  \* bound: frames of which an earlier run may have left some files
          Exposed,    \* bound: frames that may meet a failure
          Places      \* bound: how the frames may lie on the machines

Machines == Workers \cup {Server}

ASSUME CompanionsAssumption ==
    /\ IsFiniteSet(Frames)
    /\ Server \notin Workers
    /\ Leftovers \subseteq Frames /\ Exposed \subseteq Frames
    /\ Places \subseteq [Frames -> Machines]

VARIABLES
    stage,      \* the operation that is next
    drizzle,    \* group.isDrizzleEnabled()
    normalize,  \* the run normalizes locally
    derived,    \* the sources are where __xdrzServerPaths expects them
    image,      \* the registered images, per machine and frame
    xdrz,       \* the drizzle files, per machine and frame
    xnml,       \* the normalization files, per machine and frame
    active,     \* group.activeFrames()
    dzFile,     \* frames with addDrizzleFile called
    lnFile,     \* frames with addLocalNormalizationFile called
    dropped,    \* frames whose new .xdrz did not come back from a worker
    unfixed,    \* frames whose .xdrz __normalizeXdrzPaths could not rewrite
    lost,       \* frames whose updated .xdrz could not be copied back
    cached,     \* WBPP found the light integration in its cache
    read,       \* what the drizzle integration read
    blocked,    \* frames it failed for the lack of a source
    strangers   \* companions that a worker used without being sent them

settings == <<drizzle, normalize, derived>>
history  == <<dropped, unfixed, lost, cached, read, blocked, strangers>>
vars == <<stage, settings, image, xdrz, xnml, active, dzFile, lnFile, history>>

Ages    == {"none", "old", "new"}
Sources == {"server", "worker"}
Drizzle == [age : Ages, source : Sources, updated : BOOLEAN]
NoFile  == [age |-> "none", source |-> "server", updated |-> FALSE]
Old(s)  == [age |-> "old",  source |-> s,        updated |-> FALSE]
New(s)  == [age |-> "new",  source |-> s,        updated |-> FALSE]
Exists(file) == file.age # "none"

(* The machine that writes a .xdrz has its own paths in it. *)
Source(m) == IF m = Server THEN "server" ELSE "worker"

Nothing == [m \in Machines |-> [f \in Frames |-> "none"]]

Init ==
    /\ stage = "idle"
    /\ drizzle = FALSE /\ normalize = FALSE /\ derived = FALSE
    /\ image = Nothing /\ xnml = Nothing
    /\ xdrz = [m \in Machines |-> [f \in Frames |-> NoFile]]
    /\ active = Frames /\ dzFile = {} /\ lnFile = {}
    /\ dropped = {} /\ unfixed = {} /\ lost = {} /\ blocked = {} /\ strangers = {}
    /\ cached = FALSE
    /\ read = [f \in Frames |-> NoFile]

(* Each machine keeps the files of some of Leftovers, the server those of  *)
(* all frames, if any.                                                     *)
Remains == {left \in [Machines -> SUBSET Leftovers \cup {Frames}] :
               \A w \in Workers : left[w] \subseteq Leftovers}

(* A run begins with its settings; earlier ones, into the same output      *)
(* directory and in the same session of the workers, left registered       *)
(* images, and companions of the kinds they made.  An interrupted one left *)
(* the server's .xdrz as they came, with the paths of from.                *)
Begin(left, kinds, from) ==
    /\ stage = "idle"
    /\ drizzle' \in BOOLEAN /\ normalize' \in BOOLEAN /\ derived' \in BOOLEAN
    /\ LET Age(m, f) == IF f \in left[m] THEN "old" ELSE "none" IN
       /\ image' = [m \in Machines |-> [f \in Frames |-> Age(m, f)]]
       /\ xnml' = [m \in Machines |-> [f \in Frames |-> IF "xnml" \in kinds THEN Age(m, f) ELSE "none"]]
    /\ xdrz' = [m \in Machines |-> [f \in Frames |->
                  IF f \in left[m] /\ "xdrz" \in kinds
                  THEN Old(IF m = Server THEN from ELSE "worker") ELSE NoFile]]
    /\ stage' = "register"
    /\ UNCHANGED <<active, dzFile, lnFile, history>>

-----------------------------------------------------------------------------
(* Registration and local normalization: the frames of todo, each placed   *)
(* on one machine.  out is the kind of output, by machine and frame.       *)

(* unmade: the process fails the frame where it is placed; unreturned: the *)
(* worker's output does not arrive; error: the cluster fails as a whole;   *)
(* refused: the server cannot process the frame either.                    *)
Mishaps == [unmade : SUBSET Exposed, unreturned : SUBSET Exposed, refused : SUBSET Exposed,
            error : BOOLEAN]

(* executeGlobal, on the server or in processJob. *)
Ran(out, m, made, place) ==
    [f \in Frames |-> IF f \in made /\ place[f] = m THEN "new" ELSE out[m][f]]

(* A worker reports an output for each of its frames, and returns the file *)
(* that has the name, whichever run it is of.                              *)
Returned(out, todo, made, place, unreturned) ==
    [f \in Frames |->
        LET there == Ran(out, place[f], made, place)[f] IN
        IF f \in todo /\ there # "none" /\ (place[f] = Server \/ f \notin unreturned)
        THEN there ELSE out[Server][f]]

(* What the server runs itself: all frames of a failed cluster, or the     *)
(* ones it then finds without a file, unless that is all of them.          *)
Rerun(home, clients, error) ==
    LET missing == {f \in clients : home[f] = "none"} IN
    IF error THEN clients ELSE IF missing = clients THEN {} ELSE missing

\* Defect: a file that came from a worker is left as it is.
CanonicalizeNot(file, fixable) == file

(* __canonicalizeXdrz: the path is replaced if the server has the source. *)
Canonicalize(file, fixable) ==
    IF derived /\ fixable THEN [file EXCEPT !.source = "server"] ELSE file

(* The .xdrz that a registration writes beside its output. *)
Registered(m, place, made) ==
    [f \in Frames |-> IF drizzle /\ f \in made /\ place[f] = m THEN New(Source(m)) ELSE xdrz[m][f]]

(* A worker returns the <frame>_r.xdrz that exists there, old or new. *)
Collected(place, made, again, noXdrz) ==
    [f \in Frames |->
        LET there == Registered(place[f], place, made)[f] IN
        IF drizzle /\ f \in again THEN New("server")
        ELSE IF Exists(there) /\ (place[f] = Server \/ f \notin noXdrz) THEN there
        ELSE xdrz[Server][f]]

(* The verdict is on the file that has the output's name, whichever run it *)
(* is of, and so is the choice of the .xdrz.  Those of noXdrz do not       *)
(* arrive, those of stuck cannot be rewritten.                             *)
Register(place, bad, noXdrz, stuck) ==
    /\ stage = "register"
    /\ LET made    == Frames \ bad.unmade
           clients == {f \in Frames : place[f] # Server}
           home    == Returned(image, Frames, made, place, bad.unreturned)
           again   == Rerun(home, clients, bad.error) \ bad.refused
           files   == Collected(place, made, again, noXdrz) IN
       /\ image' = [m \in Machines |->
             IF m = Server THEN [f \in Frames |-> IF f \in again THEN "new" ELSE home[f]]
             ELSE Ran(image, m, made, place)]
       /\ active' = {f \in Frames : image'[Server][f] # "none"}
       /\ dzFile' = {f \in active' : Exists(files[f])}
       /\ xdrz' = [m \in Machines |->
             IF m = Server
             THEN [f \in Frames |-> IF f \in dzFile' THEN Canonicalize(files[f], f \notin stuck)
                                                      ELSE files[f]]
             ELSE Registered(m, place, made)]
       /\ dropped' = IF drizzle THEN (clients \cap made \cap noXdrz) \ again ELSE {}
    /\ stage' = IF normalize THEN "normalize" ELSE "integrate"
    /\ UNCHANGED <<settings, xnml, lnFile, unfixed, lost, cached, read, blocked, strangers>>

(* Nothing is captured: WBPP (external) takes every output from its cache  *)
(* and attaches the .xdrz as they are.                                     *)
RegisterCached ==
    /\ stage = "register"
    /\ \A f \in Frames : image[Server][f] = "old"
    /\ dzFile' = {f \in Frames : drizzle /\ Exists(xdrz[Server][f])}
    /\ stage' = IF normalize THEN "normalize" ELSE "integrate"
    /\ UNCHANGED <<settings, image, xdrz, xnml, active, lnFile, history>>

(* The .xnml of the active frames, written where each was normalized. *)
WriteXnml(place, bad) ==
    LET made    == active \ bad.unmade
        clients == {f \in active : place[f] # Server}
        home    == Returned(xnml, active, made, place, bad.unreturned)
        again   == Rerun(home, clients, bad.error) \ bad.refused IN
    xnml' = [m \in Machines |->
        IF m = Server THEN [f \in Frames |-> IF f \in again THEN "new" ELSE home[f]]
        ELSE Ran(xnml, m, made, place)]

\* Defect: a frame without a .xnml stays active.
NormalizeKeeping(place, bad) ==
    /\ stage = "normalize"
    /\ WriteXnml(place, bad)
    /\ lnFile' = {f \in active : xnml'[Server][f] # "none"}
    /\ stage' = "integrate"
    /\ UNCHANGED <<settings, image, active, xdrz, dzFile, history>>

(* A frame without a .xnml on the server has failed. *)
Normalize(place, bad) ==
    /\ stage = "normalize"
    /\ WriteXnml(place, bad)
    /\ lnFile' = {f \in active : xnml'[Server][f] # "none"}
    /\ active' = lnFile'
    /\ stage' = "integrate"
    /\ UNCHANGED <<settings, image, xdrz, dzFile, history>>

NormalizeCached ==
    /\ stage = "normalize"
    /\ \A f \in active : xnml[Server][f] = "old"
    /\ lnFile' = active
    /\ stage' = "integrate"
    /\ UNCHANGED <<settings, image, xdrz, xnml, active, dzFile, history>>

-----------------------------------------------------------------------------
(* Light integration. *)

(* The companions in the rows of ImageIntegration, shipped by captureII. *)
RowXdrz == {f \in active \cap dzFile : drizzle /\ Exists(xdrz[Server][f])}
RowXnml == {f \in active \cap lnFile : normalize /\ xnml[Server][f] # "none"}

(* The native run, at once or after a worker's job failed: it marks the    *)
(* frames whose .xdrz it did not update as failed (external).              *)
IntegrateHere(updated) ==
    /\ stage \in {"integrate", "integrateHere"}
    /\ updated \subseteq RowXdrz /\ RowXdrz \ Exposed \subseteq updated
    /\ xdrz' = [xdrz EXCEPT ![Server] = [f \in Frames |->
                  IF f \in updated THEN [@[f] EXCEPT !.updated = TRUE] ELSE @[f]]]
    /\ active' = IF drizzle THEN active \ (dzFile \ updated) ELSE active
    /\ stage' = IF drizzle THEN "drizzle" ELSE "done"
    /\ UNCHANGED <<settings, image, xnml, dzFile, lnFile, history>>

(* The native run finds the master in its cache, as nothing it depends on  *)
(* is new, and leaves the .xdrz alone (external).                          *)
IntegrationCached ==
    /\ stage = "integrate"
    /\ \A f \in active : image[Server][f] = "old" /\ xnml[Server][f] # "new"
    /\ cached' = TRUE
    /\ stage' = IF drizzle THEN "drizzle" ELSE "done"
    /\ UNCHANGED <<settings, image, xdrz, xnml, active, dzFile, lnFile,
                   dropped, unfixed, lost, read, blocked, strangers>>

(* UploadFileCached: what is sent replaces what is there. *)
Sent(files, w, shipped) == [f \in Frames |-> IF f \in shipped THEN files[Server][f] ELSE files[w][f]]

(* Companions of the frames that w finds without having been sent them. *)
FoundAt(w, frames, sentXdrz, sentXnml) ==
    {[kind |-> "xdrz", frame |-> f, age |-> xdrz[w][f].age] :
        f \in {g \in frames \ sentXdrz : Exists(xdrz[w][g])}}
    \cup
    {[kind |-> "xnml", frame |-> f, age |-> xnml[w][f]] :
        f \in {g \in frames \ sentXnml : xnml[w][g] # "none"}}

(* integrateFrames on w, whose job may fail after the uploads. *)
Ship(w) ==
    /\ stage = "integrate"
    /\ Cardinality(active) >= 3      \* gatherLightBatch
    /\ strangers' = strangers \cup FoundAt(w, active, RowXdrz, RowXnml)
    /\ xnml' = [xnml EXCEPT ![w] = Sent(xnml, w, RowXnml)]

IntegrationFails(w) ==
    /\ Ship(w)
    /\ xdrz' = [xdrz EXCEPT ![w] = Sent(xdrz, w, RowXdrz)]
    /\ stage' = "integrateHere"
    /\ UNCHANGED <<settings, image, active, dzFile, lnFile,
                   dropped, unfixed, lost, cached, read, blocked>>

(* kept: not updated, or not downloaded; back: the updated file replaces   *)
(* the server's; stuck: that one cannot be removed; gone: it is removed,   *)
(* and the copy fails.                                                     *)
Fates == {a \in [Frames -> {"kept", "back", "stuck", "gone"}] :
             \A f \in Frames \ Exposed : a[f] \in {"kept", "back"}}

\* Defect: finalizeLightMaster keeps the frames that were not updated.
MarkNone(returned) == active

(* The bookkeeping at the end of finalizeLightMaster. *)
MarkFailed(returned) == IF drizzle THEN active \ (dzFile \ returned) ELSE active

(* finalizeLightMaster, which may throw after it copied the files back. *)
IntegrateAt(w, fate, throws) ==
    /\ Ship(w)
    /\ \A f \in Frames \ RowXdrz : fate[f] = "kept"
    /\ \A f \in RowXdrz \ Exposed : fate[f] = "back"
    /\ LET returned == {f \in RowXdrz : fate[f] # "kept"}
           sent     == Sent(xdrz, w, RowXdrz)
           onW      == [f \in Frames |->
                          IF f \in returned THEN [sent[f] EXCEPT !.updated = TRUE] ELSE sent[f]] IN
       /\ xdrz' = [xdrz EXCEPT ![w] = onW, ![Server] = [f \in Frames |->
                     CASE fate[f] = "back" -> onW[f]
                       [] fate[f] = "gone" -> NoFile
                       [] OTHER            -> @[f]]]
       /\ lost' = {f \in returned : fate[f] \in {"stuck", "gone"}}
       /\ active' = IF throws THEN active ELSE MarkFailed(returned)
    /\ stage' = IF throws THEN "integrateHere" ELSE IF drizzle THEN "drizzle" ELSE "done"
    /\ UNCHANGED <<settings, image, dzFile, lnFile, dropped, unfixed, cached, read, blocked>>

-----------------------------------------------------------------------------
(* Drizzle integration.  __normalizeXdrzPaths comes first, once per group; *)
(* stuck are the files that cannot be rewritten now.                       *)

Repaired(stuck) ==
    [f \in Frames |->
        LET file == xdrz[Server][f] IN
        IF f \in active \cap dzFile /\ Exists(file)
        THEN Canonicalize(file, f \notin stuck) ELSE file]

Rows(files) == {f \in active \cap dzFile : Exists(files[f])}

(* DrizzleIntegration (external) opens the source each file names. *)
DrizzleHere(stuck) ==
    /\ stage \in {"drizzle", "drizzleHere"}
    /\ LET files == IF stage = "drizzle" THEN Repaired(stuck) ELSE xdrz[Server] IN
       /\ xdrz' = [xdrz EXCEPT ![Server] = files]
       /\ blocked' = {f \in Rows(files) : files[f].source # "server"}
       /\ read' = [f \in Frames |-> IF f \in Rows(files) \ blocked' THEN files[f] ELSE NoFile]
    /\ unfixed' = IF stage = "drizzle" THEN stuck ELSE unfixed
    /\ stage' = "done"
    /\ UNCHANGED <<settings, image, xnml, active, dzFile, lnFile, dropped, lost, cached, strangers>>

(* captureDrizzle and drizzleIntegrate: the worker points every file at    *)
(* its own directory; lacking are the rows without a source there.         *)
DrizzleAt(w, stuck, lacking, fails) ==
    /\ stage = "drizzle"
    /\ LET files == Repaired(stuck)
           rows  == Rows(files)
           sentXnml == rows \cap RowXnml IN
       /\ lacking \subseteq rows /\ (derived => lacking = {})
       /\ xdrz' = [xdrz EXCEPT ![Server] = files, ![w] = [f \in Frames |->
                     IF f \in rows THEN [files[f] EXCEPT !.source = "worker"] ELSE @[f]]]
       /\ xnml' = [xnml EXCEPT ![w] = Sent(xnml, w, sentXnml)]
       /\ strangers' = strangers \cup FoundAt(w, rows, rows, sentXnml)
       /\ IF fails THEN UNCHANGED <<blocked, read>>
          ELSE /\ blocked' = lacking
               /\ read' = [f \in Frames |->
                              IF f \in rows \ lacking THEN xdrz'[w][f] ELSE NoFile]
    /\ unfixed' = stuck
    /\ stage' = IF fails THEN "drizzleHere" ELSE "done"
    /\ UNCHANGED <<settings, image, active, dzFile, lnFile, dropped, lost, cached>>

-----------------------------------------------------------------------------
Done == stage = "done" /\ UNCHANGED vars

BeginRun ==
    /\ stage = "idle"
    /\ \E left \in Remains, kinds \in SUBSET {"xdrz", "xnml"}, from \in Sources :
          Begin(left, kinds, from)

PerFrameOperation ==
    /\ stage \in {"register", "normalize"}
    /\ \/ RegisterCached \/ NormalizeCached
       \/ \E place \in Places, bad \in Mishaps :
             \/ Normalize(place, bad)
             \/ \E noXdrz \in SUBSET Exposed, stuck \in SUBSET Exposed :
                   Register(place, bad, noXdrz, stuck)

LightIntegration ==
    \/ IntegrationCached
    \/ \E updated \in SUBSET Frames : IntegrateHere(updated)
    \/ \E w \in Workers :
          \/ IntegrationFails(w)
          \/ \E fate \in Fates, throws \in BOOLEAN : IntegrateAt(w, fate, throws)

DrizzleIntegration ==
    \E stuck \in SUBSET Exposed :
        \/ DrizzleHere(stuck)
        \/ \E w \in Workers, lacking \in SUBSET Exposed, fails \in BOOLEAN :
              DrizzleAt(w, stuck, lacking, fails)

Next == BeginRun \/ PerFrameOperation \/ LightIntegration \/ DrizzleIntegration \/ Done

Spec == Init /\ [][Next]_vars
-----------------------------------------------------------------------------
TypeOK ==
    /\ stage \in {"idle", "register", "normalize", "integrate", "integrateHere", "drizzle",
                  "drizzleHere", "done"}
    /\ drizzle \in BOOLEAN /\ normalize \in BOOLEAN /\ derived \in BOOLEAN
    /\ xdrz \in [Machines -> [Frames -> Drizzle]]
    /\ image \in [Machines -> [Frames -> Ages]] /\ xnml \in [Machines -> [Frames -> Ages]]
    /\ active \subseteq Frames /\ dzFile \subseteq Frames /\ lnFile \subseteq Frames
    /\ dropped \cup unfixed \cup lost \cup blocked \subseteq Frames /\ cached \in BOOLEAN
    /\ read \in [Frames -> Drizzle]

(* "frames whose .xdrz was NOT updated are marked processingFailed"        *)
(* (WBPPShim.js:684-685): on whichever machines the run's operations were, *)
(* a drizzle file that the drizzle integration reads was updated by this   *)
(* run's light integration, unless WBPP skipped that one or the copy back  *)
(* failed; and it is of this run's registration, unless that one's .xdrz   *)
(* did not arrive or the registered image beside it is an earlier run's as *)
(* well, by WBPP's cache or because the frame's registration failed and    *)
(* File.exists found the old output.                                       *)
DrizzleReadsThisRun ==
    \A f \in Frames :
        Exists(read[f]) =>
            /\ read[f].updated \/ f \in lost \/ cached
            /\ read[f].age = "new" \/ f \in dropped \/ image[Server][f] = "old"

(* "every other machine - including this server - would fail those frames" *)
(* (WBPPShim.js:942-943): no frame is left out of the drizzle integration  *)
(* because its file names another machine's directory, unless the source   *)
(* is not where the server expects it or the last attempt to rewrite the   *)
(* file failed: also for the files of a cached registration.               *)
SourceFound ==
    \A f \in blocked : ~derived \/ f \in unfixed

(* Companions are "shipped via shared_files (single leased worker) and     *)
(* matched here by basename" (WorkerRuntime.js:235-236): one that a worker *)
(* uses without having been sent it is a file of an earlier run, or the    *)
(* .xdrz it made in this run and could not return.                         *)
StrangersAreOld ==
    \A s \in strangers :
        \/ s.age = "old"
        \/ s.kind = "xdrz" /\ s.frame \in dropped
=============================================================================
