----------------------------- MODULE Job_proofs -----------------------------
(***************************************************************************)
(* What a job carries: the transfer of its files, the companions of its    *)
(* frames and its shards, for any number of uploads of a name, of frames,  *)
(* of inputs and of workers, and the composition of the three with the way *)
(* of its process.                                                         *)
(***************************************************************************)
EXTENDS ProcessSerializer_proofs, MCJob, SequenceTheorems, WellFoundedInduction

-----------------------------------------------------------------------------
(* The transfer of a file. *)

(* An inode with a name was created by an upload that is past os.Create,   *)
(* and the final name and the temporary one never share an inode.          *)
NamesApart ==
    /\ \A i \in {part, dest} : i # None => pc[i] \notin {"new", "upload"}
    /\ part # None => part # dest

(* As long as no two handlers overlapped, at most one is between os.Create *)
(* and its end; ".part" is its file, and holds nothing but its bytes, all  *)
(* of them once they were counted.                                         *)
PartIsOwn ==
    ~overlapped =>
        /\ \A u, v \in Uploads : Open(u) /\ Open(v) => u = v
        /\ \A u \in Uploads : Open(u) =>
              /\ part # None /\ part = inode[u]
              /\ data[part].opener = u
              /\ data[part].mix \subseteq {Content[u]}
              /\ pc[u] # "write" => Holds(part, Content[u])

UploadInv ==
    UploadTypeOK /\ NamesApart /\ PartIsOwn /\ StoredFileWhole /\ KeptOnlyByPackedFailure

-----------------------------------------------------------------------------
(* The companions of light frames. *)

(* What the run has not reached yet is as it began; a run that does not    *)
(* normalize, or drizzle, never comes to the stages that do.               *)
NotYet ==
    /\ stage # "done" => blocked = {} /\ \A f \in Frames : ~Exists(read[f])
    /\ stage \in {"idle", "register"} => strangers = {}
    /\ stage = "normalize" => normalize
    /\ stage \in {"drizzle", "drizzleHere"} => drizzle

(* Where the run itself makes no companions, or has not begun to register, *)
(* the files on any machine are an earlier run's.                          *)
OnlyLeftovers ==
    /\ stage \in {"idle", "register"} =>
          \A m \in Machines, f \in Frames : image[m][f] # "new"
    /\ stage \in {"idle", "register"} \/ ~drizzle =>
          \A m \in Machines, f \in Frames : xdrz[m][f].age # "new"
    /\ stage \in {"idle", "register"} \/ ~normalize =>
          \A m \in Machines, f \in Frames : xnml[m][f] # "new"

(* After the registration, a drizzle file that WBPP knows of is this run's *)
(* unless the new one was dropped or the image is as old; and until the    *)
(* light integration the server has the file, and a new one on a worker    *)
(* was returned or dropped, if the frame is active.                        *)
FromRegistration ==
    drizzle /\ stage \notin {"idle", "register"} =>
        /\ \A f \in dzFile :
              Exists(xdrz[Server][f]) =>
                  xdrz[Server][f].age = "new" \/ f \in dropped \/ image[Server][f] = "old"
        /\ stage \in {"normalize", "integrate"} =>
              /\ \A f \in dzFile : Exists(xdrz[Server][f])
              /\ \A w \in Workers, f \in active :
                    xdrz[w][f].age = "new" => f \in dzFile \cup dropped

(* After the normalization the server has a file for every active frame. *)
FromNormalization ==
    normalize /\ stage \notin {"idle", "register", "normalize"} =>
        \A f \in active : f \in lnFile /\ xnml[Server][f] # "none"

(* After the light integration an active frame's file is updated or lost,  *)
(* unless that integration was skipped; once __normalizeXdrzPaths has run, *)
(* it names the server's directory.                                        *)
FromIntegration ==
    /\ stage \in {"drizzle", "drizzleHere"} => \A f \in active \cap dzFile :
          Exists(xdrz[Server][f]) => xdrz[Server][f].updated \/ f \in lost \/ cached
    /\ stage = "drizzleHere" /\ derived => \A f \in active \cap dzFile :
          Exists(xdrz[Server][f]) => xdrz[Server][f].source = "server" \/ f \in unfixed

CompanionsInv ==
    /\ TypeOK
    /\ NotYet /\ OnlyLeftovers
    /\ FromRegistration /\ FromNormalization /\ FromIntegration
    /\ DrizzleReadsThisRun /\ SourceFound /\ StrangersAreOld

-----------------------------------------------------------------------------
(* Proofs: the transfer. *)

(* No call has begun. *)
LEMMA UploadInitInv == UploadInit => UploadInv
<1> SUFFICES ASSUME UploadInit PROVE UploadInv
  OBVIOUS
<1>1. UploadTypeOK
  <2>1. overlapped \in BOOLEAN
    BY Zenon DEF UploadInit
  <2>2. QED
    BY <2>1, UploadAssumption DEF UploadInit, UploadTypeOK, OrNone, Empty
<1>2. NamesApart /\ PartIsOwn /\ StoredFileWhole /\ KeptOnlyByPackedFailure
  BY UploadAssumption
     DEF UploadInit, NamesApart, PartIsOwn, StoredFileWhole, KeptOnlyByPackedFailure, Open
<1>3. QED
  BY <1>1, <1>2 DEF UploadInv

(* Each step of UploadFileCached and handleUpload preserves it. *)
LEMMA UploadStep == UploadInv /\ [UploadNext]_uploadVars => UploadInv'
<1> SUFFICES ASSUME UploadInv, [UploadNext]_uploadVars PROVE UploadInv'
  OBVIOUS
<1> USE UploadAssumption DEF UploadInv, UploadTypeOK, OrNone, Goto, Open, Holds
<1>1. ASSUME NEW u \in Uploads,
             AlreadyHeld(u) \/ NotHeld(u) \/ Refused(u) \/ Matches(u)
      PROVE  UploadInv'
  BY <1>1 DEF AlreadyHeld, NotHeld, Refused, Matches, NamesApart, PartIsOwn, StoredFileWhole,
              KeptOnlyByPackedFailure
<1>2. ASSUME NEW u \in Uploads, Create(u) PROVE UploadInv'
  <2> DEFINE i == IF part = None THEN u ELSE part
  <2>1. /\ i \in Uploads /\ i # None /\ i # dest
        /\ i = u \/ (part # None /\ i = part)
        /\ pc[u] = "upload" /\ pc' = [pc EXCEPT ![u] = "write"]
        /\ part' = i /\ inode' = [inode EXCEPT ![u] = i] /\ dest' = dest
        /\ data' = [data EXCEPT ![i] = Empty(u)]
        /\ overlapped' = (overlapped \/ \E v \in Uploads \ {u} : Open(v))
    BY <1>2 DEF Create, NamesApart
  <2> HIDE DEF i
  <2>2. UploadTypeOK'
    BY <2>1 DEF Empty
  <2>3. NamesApart'
    BY <2>1 DEF NamesApart
  <2>4. PartIsOwn'
    <3> SUFFICES ASSUME ~overlapped' PROVE PartIsOwn'
      BY DEF PartIsOwn
    <3>1. \A v \in Uploads : Open(v)' => v = u
      BY <2>1
    <3>2. part' = inode'[u] /\ part' # None
      BY <2>1
    <3>3. data'[part'] = Empty(u) /\ pc'[u] = "write"
      BY <2>1
    <3>4. QED
      BY <3>1, <3>2, <3>3 DEF PartIsOwn, Empty
  <2>5. StoredFileWhole'
    BY <2>1 DEF StoredFileWhole
  <2>6. KeptOnlyByPackedFailure'
    BY <2>1 DEF KeptOnlyByPackedFailure
  <2>7. QED
    BY <2>2, <2>3, <2>4, <2>5, <2>6
<1>3. ASSUME NEW u \in Uploads, NEW last \in BOOLEAN,
             pc[u] = "write",
             pc' = IF last THEN [pc EXCEPT ![u] = "check"] ELSE pc,
             data' = [data EXCEPT ![inode[u]] = Wrote(@, u, last)],
             UNCHANGED <<inode, part, dest, overlapped>>
      PROVE  UploadInv'
  <2>1. UploadTypeOK'
    <3> DEFINE D == [mix : SUBSET Contents, opener : Uploads, whole : BOOLEAN]
    <3>1. ASSUME NEW d \in D PROVE Wrote(d, u, last) \in D
      <4>1. (d.whole \/ (last /\ d.opener = u)) \in BOOLEAN
        BY Zenon
      <4>2. d.mix \cup {Content[u]} \in SUBSET Contents
        OBVIOUS
      <4>3. QED
        BY <4>1, <4>2 DEF Wrote
    <3>2. data' \in [Uploads -> D]
      BY <3>1, <1>3
    <3>3. QED
      BY <1>3, <3>2
  <2>2. NamesApart'
    BY <1>3 DEF NamesApart
  <2>3. PartIsOwn'
    BY <1>3 DEF PartIsOwn, Wrote
  <2>4. StoredFileWhole'
    BY <1>3 DEF StoredFileWhole, PartIsOwn, NamesApart
  <2>5. KeptOnlyByPackedFailure'
    BY <1>3 DEF KeptOnlyByPackedFailure
  <2>6. QED
    BY <2>1, <2>2, <2>3, <2>4, <2>5
<1>4. ASSUME NEW u \in Uploads, WriteSome(u) \/ WriteLast(u) PROVE UploadInv'
  <2>1. CASE WriteSome(u)
    BY <2>1, <1>3 DEF WriteSome
  <2>2. CASE WriteLast(u)
    BY <2>2, <1>3 DEF WriteLast
  <2>3. QED
    BY <1>4, <2>1, <2>2
<1>5. ASSUME NEW u \in Uploads, CopyFails(u) \/ Mismatch(u) \/ RenameFails(u)
      PROVE  UploadInv'
  BY <1>5 DEF CopyFails, Mismatch, RenameFails, Remove, NamesApart, PartIsOwn, StoredFileWhole,
              KeptOnlyByPackedFailure
<1>6. ASSUME NEW u \in Uploads, WriteFileFails(u) PROVE UploadInv'
  BY <1>6 DEF WriteFileFails, NamesApart, PartIsOwn, StoredFileWhole, KeptOnlyByPackedFailure
<1>7. ASSUME NEW u \in Uploads, Rename(u) PROVE UploadInv'
  BY <1>7 DEF Rename, NamesApart, PartIsOwn, StoredFileWhole, KeptOnlyByPackedFailure
<1>8. CASE UNCHANGED uploadVars
  BY <1>8 DEF uploadVars, NamesApart, PartIsOwn, StoredFileWhole, KeptOnlyByPackedFailure
<1> HIDE DEF UploadInv
<1> QED
  BY <1>1, <1>2, <1>4, <1>5, <1>6, <1>7, <1>8 DEF UploadNext

(* The names and their inodes are consistent at every step. *)
THEOREM UploadInvariance == UploadSpec => []UploadInv
<1>1. QED
  BY UploadInitInv, UploadStep, PTL DEF UploadSpec

(* A worker's final name never shows a half-written or mixed file to       *)
(* PixInsight, HasFile or a download while uploads of it do not overlap.   *)
THEOREM StoredCorrect == UploadSpec => []StoredFileWhole
<1>1. UploadInv => StoredFileWhole
  BY DEF UploadInv
<1>2. QED
  BY UploadInvariance, <1>1, PTL

(* A ".part" file that no handler works on was left by a failed            *)
(* os.WriteFile of a packed upload, and by no other error return.          *)
THEOREM KeptCorrect == UploadSpec => []KeptOnlyByPackedFailure
<1>1. UploadInv => KeptOnlyByPackedFailure
  BY DEF UploadInv
<1>2. QED
  BY UploadInvariance, <1>1, PTL

(* <name> is replaced at once or not at all: while uploads of it do not    *)
(* overlap, a step leaves the file under that name, and its bytes, as they *)
(* are, or is the rename of a handler that has all of its own content in   *)
(* it.  PixInsight and HasFile may read at any time.                       *)
ReplacedAtOnce ==
    [][~overlapped' =>
          \/ dest' = dest /\ (dest # None => data'[dest] = data[dest])
          \/ \E u \in Uploads : Rename(u) /\ Holds(dest, Content[u])']_uploadVars

(* handleUpload never writes into the file that <name> leads to: os.Create *)
(* and the copy touch the inode of ".part", which is another one.          *)
THEOREM ReplacedCorrect == UploadSpec => ReplacedAtOnce
<1> DEFINE Kept == dest' = dest /\ (dest # None => data'[dest] = data[dest])
           Replaced == \E u \in Uploads : Rename(u) /\ Holds(dest, Content[u])'
<1>1. ASSUME UploadInv, UploadNext, ~overlapped'
      PROVE  Kept \/ Replaced
  <2>1. UploadTypeOK /\ NamesApart /\ PartIsOwn
    BY <1>1 DEF UploadInv
  <2> USE UploadAssumption
  <2>2. ASSUME NEW u \in Uploads, Create(u) PROVE Kept
    <3> DEFINE i == IF part = None THEN u ELSE part
    <3>1. i # dest
      BY <2>1, <2>2 DEF NamesApart, Create, Goto
    <3>2. dest' = dest /\ data' = [data EXCEPT ![i] = Empty(u)]
      BY <2>2 DEF Create
    <3> HIDE DEF i
    <3>3. dest # None => dest \in DOMAIN data
      BY <2>1 DEF UploadTypeOK, OrNone
    <3>4. dest # None => data'[dest] = data[dest]
      BY <3>1, <3>2, <3>3
    <3>5. QED
      BY <3>2, <3>4
  <2>3. ASSUME NEW u \in Uploads, WriteSome(u) \/ WriteLast(u) PROVE Kept
    <3>1. pc[u] = "write" /\ ~overlapped /\ dest' = dest
      <4>1. pc[u] = "write" /\ dest' = dest /\ overlapped' = overlapped
        BY <2>3, Zenon DEF WriteSome, WriteLast, Goto
      <4>2. QED
        BY <1>1, <4>1, Zenon
    <3>2. part # None /\ part = inode[u] /\ part # dest
      BY <2>1, <3>1 DEF PartIsOwn, NamesApart, Open
    <3>3. \A x : x # inode[u] /\ x \in Uploads => data'[x] = data[x]
      BY <2>1, <2>3 DEF WriteSome, WriteLast, UploadTypeOK
    <3>4. QED
      BY <2>1, <3>1, <3>2, <3>3 DEF UploadTypeOK, OrNone
  <2>4. ASSUME NEW u \in Uploads, Rename(u) PROVE Replaced
    <3>1. pc[u] = "rename" /\ ~overlapped /\ dest' = part /\ UNCHANGED data
      BY <1>1, <2>4 DEF Rename, Goto
    <3>2. Holds(part, Content[u])
      BY <2>1, <3>1 DEF PartIsOwn, Open
    <3>3. Holds(dest, Content[u])'
      BY <3>1, <3>2 DEF Holds
    <3>4. QED
      BY <2>4, <3>3
  <2>5. ASSUME UNCHANGED <<data, dest>> PROVE Kept
    BY <2>5
  <2> HIDE DEF Kept, Replaced
  <2>6. QED
    BY <1>1, <2>2, <2>3, <2>4, <2>5
       DEF UploadNext, AlreadyHeld, NotHeld, Refused, CopyFails, WriteFileFails, Matches,
           Mismatch, RenameFails, Remove, uploadVars
<1>2. UploadInv /\ [UploadNext]_uploadVars =>
         [~overlapped' => Kept \/ Replaced]_uploadVars
  BY <1>1
<1>3. QED
  BY <1>2, UploadInvariance, PTL DEF UploadSpec, ReplacedAtOnce

-----------------------------------------------------------------------------
(* Proofs: the companions. *)

(* Nothing has been written, on any machine. *)
LEMMA CompanionsInitInv == Init => CompanionsInv
<1> SUFFICES ASSUME Init PROVE CompanionsInv
  OBVIOUS
<1> USE CompanionsAssumption DEF Init, Machines, NoFile, Nothing, Exists
<1>1. TypeOK
  <2>1. drizzle \in BOOLEAN /\ normalize \in BOOLEAN /\ derived \in BOOLEAN /\ cached \in BOOLEAN
    BY Zenon
  <2>2. NoFile \in Drizzle /\ "none" \in Ages
    BY DEF Drizzle, Sources, Ages
  <2> HIDE DEF NoFile
  <2>3. QED
    BY <2>1, <2>2 DEF TypeOK
<1>2. NotYet /\ OnlyLeftovers
  BY DEF NotYet, OnlyLeftovers
<1>3. FromRegistration /\ FromNormalization /\ FromIntegration
  BY DEF FromRegistration, FromNormalization, FromIntegration
<1>4. DrizzleReadsThisRun /\ SourceFound /\ StrangersAreOld
  BY DEF DrizzleReadsThisRun, SourceFound, StrangersAreOld
<1>5. QED
  BY <1>1, <1>2, <1>3, <1>4 DEF CompanionsInv

(* Rewriting the source of a drizzle file, marking it updated or making a  *)
(* new one gives a drizzle file.                                           *)
LEMMA DrizzleFiles ==
    /\ NoFile \in Drizzle
    /\ \A s \in Sources : Old(s) \in Drizzle /\ New(s) \in Drizzle
    /\ \A m \in Machines : Source(m) \in Sources
    /\ \A file \in Drizzle :
          /\ [file EXCEPT !.updated = TRUE] \in Drizzle
          /\ \A s \in Sources : [file EXCEPT !.source = s] \in Drizzle
          /\ \A b \in BOOLEAN : Canonicalize(file, b) \in Drizzle
  BY DEF Drizzle, Ages, Sources, Source, NoFile, Old, New, Canonicalize

(* The outputs of a per-frame operation are files of some age, where they  *)
(* were made and where they were returned to.                              *)
LEMMA OutputAges ==
    ASSUME NEW out \in [Machines -> [Frames -> Ages]], NEW place \in [Frames -> Machines],
           NEW frames, NEW made, NEW unreturned
    PROVE  /\ \A m \in Machines : Ran(out, m, made, place) \in [Frames -> Ages]
           /\ Returned(out, frames, made, place, unreturned) \in [Frames -> Ages]
<1>1. \A m \in Machines : Ran(out, m, made, place) \in [Frames -> Ages]
  BY DEF Ran, Ages
<1>2. \A f \in Frames : Ran(out, place[f], made, place)[f] \in Ages
  BY <1>1
<1>3. Server \in Machines
  BY DEF Machines
<1>4. QED
  BY <1>1, <1>2, <1>3 DEF Returned

(* Every operation of the run keeps the types. *)
LEMMA CompanionsTypeStep == TypeOK /\ [Next]_vars => TypeOK'
<1> SUFFICES ASSUME TypeOK, [Next]_vars PROVE TypeOK'
  OBVIOUS
<1> USE CompanionsAssumption, DrizzleFiles DEF TypeOK, settings, history
<1>0. Server \in Machines /\ \A w \in Workers : w \in Machines /\ w # Server
  BY DEF Machines
<1>1. ASSUME NEW left \in Remains, NEW kinds, NEW from \in Sources, Begin(left, kinds, from)
      PROVE  TypeOK'
  <2>1. image' \in [Machines -> [Frames -> Ages]] /\ xnml' \in [Machines -> [Frames -> Ages]]
    BY <1>1 DEF Begin, Ages
  <2>2. xdrz' \in [Machines -> [Frames -> Drizzle]]
    <3>1. "worker" \in Sources
      BY DEF Sources
    <3>2. QED
      BY <1>1, <3>1 DEF Begin
  <2>3. QED
    BY <1>1, <2>1, <2>2 DEF Begin
<1>2. ASSUME NEW place \in Places, NEW bad \in Mishaps, NEW noXdrz, NEW stuck,
             Register(place, bad, noXdrz, stuck)
      PROVE  TypeOK'
  <2> DEFINE made    == Frames \ bad.unmade
             clients == {f \in Frames : place[f] # Server}
             home    == Returned(image, Frames, made, place, bad.unreturned)
             again   == Rerun(home, clients, bad.error) \ bad.refused
             files   == Collected(place, made, again, noXdrz)
             here    == [f \in Frames |-> IF f \in dzFile'
                                          THEN Canonicalize(files[f], f \notin stuck) ELSE files[f]]
  <2>1. place \in [Frames -> Machines]
    OBVIOUS
  <2>2. image' \in [Machines -> [Frames -> Ages]]
    <3>1. home \in [Frames -> Ages]
      BY <1>0, <2>1, OutputAges
    <3>2. \A m \in Machines : Ran(image, m, made, place) \in [Frames -> Ages]
      BY <2>1, OutputAges
    <3>3. image' = [m \in Machines |->
              IF m = Server THEN [f \in Frames |-> IF f \in again THEN "new" ELSE home[f]]
              ELSE Ran(image, m, made, place)]
      BY <1>2 DEF Register
    <3> HIDE DEF home, again, made
    <3>4. QED
      BY <3>1, <3>2, <3>3 DEF Ages
  <2>3. \A m \in Machines : Registered(m, place, made) \in [Frames -> Drizzle]
    BY DEF Registered
  <2>4. files \in [Frames -> Drizzle]
    <3>1. \A f \in Frames : Registered(place[f], place, made)[f] \in Drizzle
      BY <2>1, <2>3
    <3>2. "server" \in Sources
      BY DEF Sources
    <3> HIDE DEF made, again
    <3>3. QED
      BY <1>0, <3>1, <3>2 DEF Collected
  <2>5. here \in [Frames -> Drizzle]
    <3> HIDE DEF files
    <3>1. \A f \in Frames : (f \notin stuck) \in BOOLEAN
      BY Zenon
    <3>2. QED
      BY <2>4, <3>1
  <2>6. xdrz' = [m \in Machines |-> IF m = Server THEN here ELSE Registered(m, place, made)]
    BY <1>2 DEF Register
  <2>7. xdrz' \in [Machines -> [Frames -> Drizzle]]
    <3> HIDE DEF here, made
    <3>1. QED
      BY <2>3, <2>5, <2>6
  <2>8. /\ active' \subseteq Frames /\ dzFile' \subseteq Frames /\ dropped' \subseteq Frames
        /\ stage' \in {"normalize", "integrate"}
        /\ UNCHANGED <<settings, xnml, lnFile, unfixed, lost, cached, read, blocked, strangers>>
    <3>1. /\ active' = {f \in Frames : image'[Server][f] # "none"}
          /\ dzFile' = {f \in active' : Exists(files[f])}
          /\ dropped' = IF drizzle THEN (clients \cap made \cap noXdrz) \ again ELSE {}
          /\ stage' = IF normalize THEN "normalize" ELSE "integrate"
          /\ UNCHANGED <<settings, xnml, lnFile, unfixed, lost, cached, read, blocked, strangers>>
      BY <1>2 DEF Register
    <3> HIDE DEF files, again
    <3>2. QED
      BY <3>1
  <2>9. QED
    BY <2>2, <2>7, <2>8
<1>3. ASSUME NEW place \in Places, NEW bad \in Mishaps, Normalize(place, bad)
      PROVE  TypeOK'
  <2> DEFINE made    == active \ bad.unmade
             clients == {f \in active : place[f] # Server}
             home    == Returned(xnml, active, made, place, bad.unreturned)
             again   == Rerun(home, clients, bad.error) \ bad.refused
  <2>1. home \in [Frames -> Ages]
    BY <1>0, OutputAges
  <2>2. \A m \in Machines : Ran(xnml, m, made, place) \in [Frames -> Ages]
    BY OutputAges
  <2>3. xnml' = [m \in Machines |->
            IF m = Server THEN [f \in Frames |-> IF f \in again THEN "new" ELSE home[f]]
            ELSE Ran(xnml, m, made, place)]
    BY <1>3 DEF Normalize, WriteXnml
  <2>4. xnml' \in [Machines -> [Frames -> Ages]]
    <3> HIDE DEF home, again, made
    <3>1. QED
      BY <2>1, <2>2, <2>3 DEF Ages
  <2>5. QED
    BY <1>3, <2>4 DEF Normalize
<1>12. CASE RegisterCached \/ NormalizeCached \/ IntegrationCached
  BY <1>12 DEF RegisterCached, NormalizeCached, IntegrationCached
<1>4. ASSUME NEW updated \in SUBSET Frames, IntegrateHere(updated) PROVE TypeOK'
  BY <1>0, <1>4 DEF IntegrateHere
<1>5. ASSUME NEW w \in Workers, Ship(w)
      PROVE  /\ xnml' \in [Machines -> [Frames -> Ages]]
             /\ Sent(xdrz, w, RowXdrz) \in [Frames -> Drizzle]
  BY <1>0, <1>5 DEF Ship, Sent
<1>6. ASSUME NEW w \in Workers, IntegrationFails(w) PROVE TypeOK'
  <2>1. xdrz' \in [Machines -> [Frames -> Drizzle]]
    BY <1>5, <1>6 DEF IntegrationFails
  <2>2. QED
    BY <1>5, <1>6, <2>1 DEF IntegrationFails
<1>7. ASSUME NEW w \in Workers, NEW fate \in Fates, NEW throws \in BOOLEAN,
             IntegrateAt(w, fate, throws)
      PROVE  TypeOK'
  <2> DEFINE returned == {f \in RowXdrz : fate[f] # "kept"}
             sent     == Sent(xdrz, w, RowXdrz)
             onW      == [f \in Frames |->
                            IF f \in returned THEN [sent[f] EXCEPT !.updated = TRUE] ELSE sent[f]]
             here     == [f \in Frames |->
                            CASE fate[f] = "back" -> onW[f]
                              [] fate[f] = "gone" -> NoFile
                              [] OTHER            -> xdrz[Server][f]]
  <2>1. onW \in [Frames -> Drizzle]
    <3>1. sent \in [Frames -> Drizzle]
      BY <1>5, <1>7 DEF IntegrateAt
    <3> HIDE DEF sent
    <3>2. QED
      BY <3>1
  <2>2. xdrz' = [xdrz EXCEPT ![w] = onW, ![Server] = here]
    BY <1>0, <1>7 DEF IntegrateAt
  <2>3. here \in [Frames -> Drizzle]
    <3> HIDE DEF onW
    <3>1. QED
      BY <1>0, <2>1
  <2>4. xdrz' \in [Machines -> [Frames -> Drizzle]]
    <3> HIDE DEF onW, here
    <3>1. QED
      BY <2>1, <2>2, <2>3
  <2>5. xnml' \in [Machines -> [Frames -> Ages]]
    BY <1>5, <1>7 DEF IntegrateAt
  <2>6. QED
    BY <1>7, <2>4, <2>5 DEF IntegrateAt, MarkFailed, RowXdrz
<1>8. ASSUME NEW stuck PROVE Repaired(stuck) \in [Frames -> Drizzle]
  <2>1. \A f \in Frames : (f \notin stuck) \in BOOLEAN
    BY Zenon
  <2>2. \A f \in Frames : xdrz[Server][f] \in Drizzle
    BY <1>0
  <2>3. \A f \in Frames : Canonicalize(xdrz[Server][f], f \notin stuck) \in Drizzle
    BY <2>1, <2>2
  <2>4. QED
    BY <2>2, <2>3 DEF Repaired
<1>9. ASSUME NEW stuck \in SUBSET Exposed, DrizzleHere(stuck) PROVE TypeOK'
  <2> DEFINE files == IF stage = "drizzle" THEN Repaired(stuck) ELSE xdrz[Server]
  <2>1. files \in [Frames -> Drizzle]
    BY <1>0, <1>8
  <2>2. /\ xdrz' = [xdrz EXCEPT ![Server] = files]
        /\ blocked' = {f \in Rows(files) : files[f].source # "server"}
        /\ read' = [f \in Frames |-> IF f \in Rows(files) \ blocked' THEN files[f] ELSE NoFile]
        /\ unfixed' = IF stage = "drizzle" THEN stuck ELSE unfixed
        /\ stage' = "done"
        /\ UNCHANGED <<settings, image, xnml, active, dzFile, lnFile, dropped, lost, cached, strangers>>
    BY <1>9 DEF DrizzleHere
  <2> HIDE DEF files
  <2>3. QED
    BY <1>0, <2>1, <2>2 DEF Rows
<1>10. ASSUME NEW w \in Workers, NEW stuck \in SUBSET Exposed, NEW lacking \in SUBSET Exposed,
              NEW fails \in BOOLEAN, DrizzleAt(w, stuck, lacking, fails)
       PROVE  TypeOK'
  <2> DEFINE files == Repaired(stuck)
             rows  == Rows(files)
             onW   == [f \in Frames |->
                         IF f \in rows THEN [files[f] EXCEPT !.source = "worker"] ELSE xdrz[w][f]]
  <2>1. files \in [Frames -> Drizzle]
    BY <1>8
  <2>2. xdrz' = [xdrz EXCEPT ![Server] = files, ![w] = onW]
    BY <1>0, <1>10 DEF DrizzleAt
  <2>3. xnml' = [xnml EXCEPT ![w] = Sent(xnml, w, rows \cap RowXnml)]
    BY <1>10 DEF DrizzleAt
  <2>4. \/ UNCHANGED <<blocked, read>>
        \/ /\ blocked' = lacking
           /\ read' = [f \in Frames |-> IF f \in rows \ lacking THEN xdrz'[w][f] ELSE NoFile]
    BY <1>10 DEF DrizzleAt
  <2>5. onW \in [Frames -> Drizzle]
    <3> HIDE DEF files, rows
    <3>1. \A f \in Frames : files[f] \in Drizzle /\ xdrz[w][f] \in Drizzle
      BY <1>0, <2>1
    <3>2. \A f \in Frames : [files[f] EXCEPT !.source = "worker"] \in Drizzle
      BY <3>1 DEF Sources
    <3>3. QED
      BY <3>1, <3>2
  <2>6. xdrz' \in [Machines -> [Frames -> Drizzle]] /\ xdrz'[w] = onW
    <3> HIDE DEF files, onW
    <3>1. QED
      BY <1>0, <2>1, <2>2, <2>5
  <2>7. xnml' \in [Machines -> [Frames -> Ages]]
    BY <1>0, <2>3 DEF Sent
  <2>8. read' \in [Frames -> Drizzle] /\ blocked' \subseteq Frames
    <3> HIDE DEF rows, onW
    <3>1. QED
      BY <2>4, <2>5, <2>6
  <2>9. QED
    BY <1>10, <2>6, <2>7, <2>8 DEF DrizzleAt
<1>11. CASE UNCHANGED vars
  BY <1>11 DEF vars
<1> HIDE DEF TypeOK
<1> QED
  BY <1>1, <1>2, <1>3, <1>4, <1>6, <1>7, <1>9, <1>10, <1>11, <1>12
     DEF Next, BeginRun, PerFrameOperation, LightIntegration, DrizzleIntegration, Done

(* The parts of the invariant beside the types. *)
Course ==
    /\ NotYet /\ OnlyLeftovers
    /\ FromRegistration /\ FromNormalization /\ FromIntegration
    /\ DrizzleReadsThisRun /\ SourceFound /\ StrangersAreOld

(* Canonicalize changes nothing but the source, which becomes the server   *)
(* where it is known and the file can be rewritten.                        *)
LEMMA CanonicalFile ==
    ASSUME NEW file \in Drizzle, NEW b \in BOOLEAN
    PROVE  /\ Canonicalize(file, b).age = file.age
           /\ Canonicalize(file, b).updated = file.updated
           /\ derived /\ b => Canonicalize(file, b).source = "server"
  BY DEF Canonicalize, Drizzle

(* After __normalizeXdrzPaths a file is as old and as up to date as it     *)
(* was, and a row that could be rewritten names the server.                *)
LEMMA RepairedFiles ==
    ASSUME TypeOK, NEW stuck
    PROVE  \A f \in Frames :
              /\ Repaired(stuck)[f].age = xdrz[Server][f].age
              /\ Repaired(stuck)[f].updated = xdrz[Server][f].updated
              /\ derived /\ f \in Rows(Repaired(stuck)) /\ f \notin stuck
                    => Repaired(stuck)[f].source = "server"
<1> SUFFICES ASSUME NEW f \in Frames
             PROVE  /\ Repaired(stuck)[f].age = xdrz[Server][f].age
                    /\ Repaired(stuck)[f].updated = xdrz[Server][f].updated
                    /\ derived /\ f \in Rows(Repaired(stuck)) /\ f \notin stuck
                          => Repaired(stuck)[f].source = "server"
  OBVIOUS
<1> DEFINE file == xdrz[Server][f]
           can  == f \notin stuck
<1>1. file \in Drizzle
  BY DEF TypeOK, Machines
<1>2. can \in BOOLEAN
  BY Zenon
<1>3. Repaired(stuck)[f] = IF f \in active \cap dzFile /\ Exists(file)
                           THEN Canonicalize(file, can) ELSE file
  BY DEF Repaired
<1>4. /\ Canonicalize(file, can).age = file.age
      /\ Canonicalize(file, can).updated = file.updated
      /\ derived /\ can => Canonicalize(file, can).source = "server"
  <2> HIDE DEF file, can
  <2>1. QED
    BY <1>1, <1>2, CanonicalFile
<1>5. f \in Rows(Repaired(stuck)) => f \in active \cap dzFile /\ Exists(file)
  BY <1>3, <1>4 DEF Rows, Exists
<1>6. f \notin stuck => can
  OBVIOUS
<1> HIDE DEF file, can
<1>7. QED
  BY <1>3, <1>4, <1>5, <1>6 DEF file

(* What a worker finds without having been sent it: at the integration of  *)
(* all active frames, and at the drizzle integration of some of them.      *)
LEMMA FoundIsOld ==
    ASSUME TypeOK, Course, NEW w \in Workers, NEW frames \in SUBSET active,
           NEW sentXdrz,
           (stage = "integrate" /\ sentXdrz = RowXdrz) \/ frames = sentXdrz,
           stage \in {"integrate", "drizzle"}
    PROVE  \A s \in FoundAt(w, frames, sentXdrz, frames \cap RowXnml) :
              \/ s.age = "old"
              \/ s.kind = "xdrz" /\ s.frame \in dropped
<1> USE DEF Course, TypeOK
<1>0. w \in Machines /\ Server \in Machines
  BY DEF Machines
<1>1. ASSUME NEW f \in frames \ sentXdrz, Exists(xdrz[w][f])
      PROVE  xdrz[w][f].age = "old" \/ f \in dropped
  <2>1. stage = "integrate" /\ f \in active /\ f \notin RowXdrz /\ f \in Frames
    BY <1>1
  <2>2. xdrz[w][f].age = "old" \/ xdrz[w][f].age = "new"
    BY <1>0, <1>1, <2>1 DEF Exists, Drizzle, Ages
  <2>3. CASE drizzle
    BY <2>1, <2>2, <2>3 DEF RowXdrz, FromRegistration
  <2>4. CASE ~drizzle
    BY <1>0, <2>1, <2>2, <2>4 DEF OnlyLeftovers
  <2>5. QED
    BY <2>3, <2>4
<1>2. ASSUME NEW f \in frames \ (frames \cap RowXnml), xnml[w][f] # "none"
      PROVE  xnml[w][f] = "old"
  <2>1. ~normalize
    BY <1>2 DEF RowXnml, FromNormalization
  <2>2. QED
    BY <1>0, <1>2, <2>1 DEF OnlyLeftovers, Ages
<1>3. QED
  BY <1>1, <1>2 DEF FoundAt

(* Each operation of the run preserves the course: one step per operation, *)
(* on the server or on a worker, with its failures.                        *)
LEMMA CourseStep == TypeOK /\ Course /\ [Next]_vars => Course'
<1> SUFFICES ASSUME TypeOK, Course, [Next]_vars PROVE Course'
  OBVIOUS
<1> USE CompanionsAssumption DEF settings, history
<1>0. Server \in Machines /\ \A w \in Workers : w \in Machines /\ w # Server
  BY DEF Machines
<1>1. ASSUME NEW left \in Remains, NEW kinds, NEW from \in Sources, Begin(left, kinds, from)
      PROVE  Course'
  <2>1. NotYet'
    BY <1>1 DEF Begin, Course, NotYet
  <2>2. OnlyLeftovers'
    <3>1. \A m \in Machines, f \in Frames : image'[m][f] # "new" /\ xnml'[m][f] # "new"
      BY <1>1 DEF Begin
    <3>2. \A m \in Machines, f \in Frames : xdrz'[m][f].age # "new"
      BY <1>1 DEF Begin, Old, NoFile
    <3>3. QED
      BY <3>1, <3>2 DEF OnlyLeftovers
  <2>3. FromRegistration' /\ FromNormalization' /\ FromIntegration'
    BY <1>1 DEF Begin, FromRegistration, FromNormalization, FromIntegration
  <2>4. DrizzleReadsThisRun' /\ SourceFound' /\ StrangersAreOld'
    BY <1>1 DEF Begin, Course, NotYet, DrizzleReadsThisRun, SourceFound, StrangersAreOld
  <2>5. QED
    BY <2>1, <2>2, <2>3, <2>4 DEF Course
<1>2. ASSUME NEW place \in Places, NEW bad \in Mishaps, NEW noXdrz, NEW stuck,
             Register(place, bad, noXdrz, stuck)
      PROVE  Course'
  <2> DEFINE made    == Frames \ bad.unmade
             clients == {f \in Frames : place[f] # Server}
             home    == Returned(image, Frames, made, place, bad.unreturned)
             again   == Rerun(home, clients, bad.error) \ bad.refused
             files   == Collected(place, made, again, noXdrz)
             here    == [f \in Frames |-> IF f \in dzFile'
                                          THEN Canonicalize(files[f], f \notin stuck) ELSE files[f]]
  <2>1. /\ stage = "register" /\ stage' = IF normalize THEN "normalize" ELSE "integrate"
        /\ image' = [m \in Machines |->
              IF m = Server THEN [f \in Frames |-> IF f \in again THEN "new" ELSE home[f]]
              ELSE Ran(image, m, made, place)]
        /\ active' = {f \in Frames : image'[Server][f] # "none"}
        /\ dzFile' = {f \in active' : Exists(files[f])}
        /\ xdrz' = [m \in Machines |-> IF m = Server THEN here ELSE Registered(m, place, made)]
        /\ dropped' = IF drizzle THEN (clients \cap made \cap noXdrz) \ again ELSE {}
        /\ UNCHANGED <<settings, xnml, lnFile, unfixed, lost, cached, read, blocked, strangers>>
    BY <1>2 DEF Register
  <2>2. place \in [Frames -> Machines]
    OBVIOUS
  <2>3. ASSUME NEW f \in Frames
        PROVE  /\ files[f] \in Drizzle
               /\ drizzle /\ f \in again => files[f].age = "new"
               /\ drizzle /\ f \in made /\ (f \notin clients \/ f \notin noXdrz) =>
                     files[f].age = "new"
               /\ ~drizzle => files[f].age # "new"
    <3>1. \A m \in Machines : xdrz[m][f] \in Drizzle /\ xdrz[m][f].age # "new"
      BY <2>1 DEF TypeOK, Course, OnlyLeftovers
    <3>2. files[f] = IF drizzle /\ f \in again THEN New("server")
                     ELSE IF /\ Exists(Registered(place[f], place, made)[f])
                             /\ place[f] = Server \/ f \notin noXdrz
                     THEN Registered(place[f], place, made)[f]
                     ELSE xdrz[Server][f]
      BY DEF Collected
    <3>3. Registered(place[f], place, made)[f] =
              IF drizzle /\ f \in made THEN New(Source(place[f])) ELSE xdrz[place[f]][f]
      BY DEF Registered
    <3>4. \A s \in Sources : New(s) \in Drizzle /\ New(s).age = "new" /\ Exists(New(s))
      BY DEF New, Exists, Drizzle, Ages
    <3>5. Source(place[f]) \in Sources /\ "server" \in Sources /\ place[f] \in Machines
      BY <2>2, DrizzleFiles DEF Sources
    <3>6. f \notin clients => place[f] = Server
      OBVIOUS
    <3> HIDE DEF files, made, again, clients
    <3>7. QED
      BY <1>0, <3>1, <3>2, <3>3, <3>4, <3>5, <3>6
  <2>4. \A f \in Frames : here[f].age = files[f].age
    <3>1. \A f \in Frames : (f \notin stuck) \in BOOLEAN
      BY Zenon
    <3> HIDE DEF files
    <3>2. QED
      BY <2>3, <3>1, CanonicalFile
  <2>5. ASSUME NEW w \in Workers, NEW f \in Frames, xdrz'[w][f].age = "new"
        PROVE  drizzle /\ f \in made /\ place[f] = w /\ f \in clients
    <3>1. xdrz'[w][f] = IF drizzle /\ f \in made /\ place[f] = w THEN New(Source(w)) ELSE xdrz[w][f]
      BY <1>0, <2>1 DEF Registered
    <3>2. xdrz[w][f].age # "new"
      BY <1>0, <2>1 DEF Course, OnlyLeftovers
    <3>3. drizzle /\ f \in made /\ place[f] = w
      BY <2>5, <3>1, <3>2
    <3>4. QED
      BY <1>0, <3>3
  <2>6. xdrz'[Server] = here
    BY <1>0, <2>1
  <2>7. ASSUME NEW f \in active', f \notin made, f \notin again
        PROVE  image'[Server][f] = "old"
    <3>1. f \in Frames /\ image'[Server][f] # "none" /\ image'[Server][f] = home[f]
      BY <1>0, <2>1, <2>7
    <3>2. home[f] \in {image[place[f]][f], image[Server][f]}
      BY <2>7, <3>1 DEF Returned, Ran
    <3>3. place[f] \in Machines
      BY <2>2, <3>1
    <3>4. \A m \in Machines : image[m][f] \in Ages /\ image[m][f] # "new"
      BY <2>1, <3>1 DEF TypeOK, Course, OnlyLeftovers
    <3> HIDE DEF home
    <3>5. QED
      BY <1>0, <3>1, <3>2, <3>3, <3>4 DEF Ages
  <2> HIDE DEF made, clients, home, again, files, here
  <2>8. NotYet'
    BY <2>1 DEF Course, NotYet
  <2>9. OnlyLeftovers'
    <3>1. ASSUME ~drizzle', NEW m \in Machines, NEW f \in Frames PROVE xdrz'[m][f].age # "new"
      <4>1. CASE m = Server
        BY <2>1, <2>3, <2>4, <2>6, <3>1, <4>1
      <4>2. CASE m \in Workers
        BY <2>1, <2>5, <3>1, <4>2
      <4>3. QED
        BY <4>1, <4>2 DEF Machines
    <3>2. QED
      BY <2>1, <3>1 DEF Course, OnlyLeftovers
  <2>10. FromRegistration'
    <3> SUFFICES ASSUME drizzle
                 PROVE  /\ \A f \in dzFile' : Exists(here[f])
                        /\ \A f \in dzFile' : \/ here[f].age = "new" \/ f \in dropped'
                                              \/ image'[Server][f] = "old"
                        /\ \A w \in Workers, f \in active' :
                              xdrz'[w][f].age = "new" => f \in dzFile' \cup dropped'
      BY <2>1, <2>6 DEF FromRegistration
    <3>1. active' \subseteq Frames /\ dzFile' \subseteq active'
      BY <2>1
    <3>2. \A f \in dzFile' : Exists(here[f])
      BY <2>1, <2>4, <3>1 DEF Exists
    <3>3. ASSUME NEW f \in dzFile', f \in made \/ f \in again PROVE here[f].age = "new" \/ f \in dropped'
      BY <2>1, <2>3, <2>4, <3>1, <3>3
    <3>4. ASSUME NEW f \in active', f \in made PROVE f \in dzFile' \cup dropped'
      BY <2>1, <2>3, <3>1, <3>4 DEF Exists
    <3>5. QED
      BY <2>5, <2>7, <3>1, <3>2, <3>3, <3>4
  <2>11. FromNormalization' /\ FromIntegration'
    BY <2>1 DEF FromNormalization, FromIntegration
  <2>12. DrizzleReadsThisRun' /\ SourceFound' /\ StrangersAreOld'
    BY <2>1 DEF Course, NotYet, DrizzleReadsThisRun, SourceFound, StrangersAreOld
  <2>13. QED
    BY <2>8, <2>9, <2>10, <2>11, <2>12 DEF Course
<1>3. ASSUME NEW place \in Places, NEW bad \in Mishaps, Normalize(place, bad)
      PROVE  Course'
  <2>1. /\ stage = "normalize" /\ stage' = "integrate" /\ normalize
        /\ lnFile' = {f \in active : xnml'[Server][f] # "none"} /\ active' = lnFile'
        /\ UNCHANGED <<settings, image, xdrz, dzFile, history>>
    BY <1>3 DEF Normalize, Course, NotYet
  <2>2. NotYet' /\ OnlyLeftovers'
    BY <2>1 DEF Course, NotYet, OnlyLeftovers
  <2>3. FromRegistration' /\ FromNormalization' /\ FromIntegration'
    BY <2>1 DEF Course, FromRegistration, FromNormalization, FromIntegration
  <2>4. DrizzleReadsThisRun' /\ SourceFound' /\ StrangersAreOld'
    BY <2>1 DEF Course, DrizzleReadsThisRun, SourceFound, StrangersAreOld
  <2>5. QED
    BY <2>2, <2>3, <2>4 DEF Course
<1>11. ASSUME RegisterCached PROVE Course'
  <2>1. /\ stage = "register" /\ stage' = IF normalize THEN "normalize" ELSE "integrate"
        /\ \A f \in Frames : image[Server][f] = "old"
        /\ dzFile' = {f \in Frames : drizzle /\ Exists(xdrz[Server][f])}
        /\ UNCHANGED <<settings, image, xdrz, xnml, active, lnFile, history>>
    BY <1>11 DEF RegisterCached
  <2>2. NotYet' /\ OnlyLeftovers'
    BY <2>1 DEF Course, NotYet, OnlyLeftovers
  <2>3. FromRegistration'
    <3>1. \A w \in Workers, f \in active : xdrz[w][f].age # "new"
      BY <1>0, <2>1 DEF Course, OnlyLeftovers, TypeOK
    <3>2. QED
      BY <2>1, <3>1 DEF FromRegistration
  <2>4. FromNormalization' /\ FromIntegration'
    BY <2>1 DEF FromNormalization, FromIntegration
  <2>5. DrizzleReadsThisRun' /\ SourceFound' /\ StrangersAreOld'
    BY <2>1 DEF Course, DrizzleReadsThisRun, SourceFound, StrangersAreOld
  <2>6. QED
    BY <2>2, <2>3, <2>4, <2>5 DEF Course
<1>12. ASSUME NormalizeCached PROVE Course'
  <2>1. /\ stage = "normalize" /\ stage' = "integrate"
        /\ \A f \in active : xnml[Server][f] = "old"
        /\ lnFile' = active
        /\ UNCHANGED <<settings, image, xdrz, xnml, active, dzFile, history>>
    BY <1>12 DEF NormalizeCached
  <2>2. NotYet' /\ OnlyLeftovers'
    BY <2>1 DEF Course, NotYet, OnlyLeftovers
  <2>3. FromRegistration' /\ FromNormalization' /\ FromIntegration'
    BY <2>1 DEF Course, FromRegistration, FromNormalization, FromIntegration
  <2>4. DrizzleReadsThisRun' /\ SourceFound' /\ StrangersAreOld'
    BY <2>1 DEF Course, DrizzleReadsThisRun, SourceFound, StrangersAreOld
  <2>5. QED
    BY <2>2, <2>3, <2>4 DEF Course
<1>13. ASSUME IntegrationCached PROVE Course'
  <2>1. /\ stage = "integrate" /\ stage' = IF drizzle THEN "drizzle" ELSE "done"
        /\ cached' = TRUE
        /\ UNCHANGED <<settings, image, xdrz, xnml, active, dzFile, lnFile,
                       dropped, unfixed, lost, read, blocked, strangers>>
    BY <1>13 DEF IntegrationCached
  <2>2. NotYet' /\ OnlyLeftovers'
    BY <2>1 DEF Course, NotYet, OnlyLeftovers
  <2>3. FromRegistration' /\ FromNormalization' /\ FromIntegration'
    BY <2>1 DEF Course, FromRegistration, FromNormalization, FromIntegration
  <2>4. DrizzleReadsThisRun' /\ SourceFound' /\ StrangersAreOld'
    BY <2>1 DEF Course, NotYet, DrizzleReadsThisRun, SourceFound, StrangersAreOld
  <2>5. QED
    BY <2>2, <2>3, <2>4 DEF Course
<1>4. ASSUME NEW updated \in SUBSET Frames, IntegrateHere(updated) PROVE Course'
  <2>1. /\ stage \in {"integrate", "integrateHere"}
        /\ stage' = IF drizzle THEN "drizzle" ELSE "done"
        /\ updated \subseteq RowXdrz
        /\ active' = IF drizzle THEN active \ (dzFile \ updated) ELSE active
        /\ UNCHANGED <<settings, image, xnml, dzFile, lnFile, history>>
    BY <1>4 DEF IntegrateHere
  <2>2. \A m \in Machines, f \in Frames :
           /\ xdrz'[m][f].age = xdrz[m][f].age
           /\ m = Server /\ f \in updated => xdrz'[m][f].updated
    BY <1>0, <1>4 DEF IntegrateHere, TypeOK, Drizzle
  <2>3. NotYet' /\ OnlyLeftovers'
    BY <2>1, <2>2 DEF Course, NotYet, OnlyLeftovers, Exists
  <2>4. FromRegistration' /\ FromNormalization'
    BY <1>0, <2>1, <2>2 DEF Course, FromRegistration, FromNormalization, Exists, TypeOK
  <2>5. FromIntegration'
    BY <1>0, <2>1, <2>2 DEF FromIntegration, TypeOK
  <2>6. DrizzleReadsThisRun' /\ SourceFound' /\ StrangersAreOld'
    BY <2>1 DEF Course, DrizzleReadsThisRun, SourceFound, StrangersAreOld
  <2>7. QED
    BY <2>3, <2>4, <2>5, <2>6 DEF Course
<1>5. ASSUME NEW w \in Workers, Ship(w), dropped' = dropped
      PROVE  /\ StrangersAreOld'
             /\ xnml'[Server] = xnml[Server]
             /\ ~normalize => \A m \in Machines, f \in Frames : xnml'[m][f] = xnml[m][f]
  <2>1. active \cap RowXnml = RowXnml
    BY DEF RowXnml
  <2>2. \A s \in FoundAt(w, active, RowXdrz, RowXnml) :
           \/ s.age = "old"
           \/ s.kind = "xdrz" /\ s.frame \in dropped
    <3>1. stage = "integrate"
      BY <1>5 DEF Ship
    <3>2. QED
      BY <2>1, <3>1, FoundIsOld
  <2>3. StrangersAreOld'
    BY <1>5, <2>2 DEF Ship, Course, StrangersAreOld
  <2>4. /\ xnml'[Server] = xnml[Server]
        /\ ~normalize => \A m \in Machines, f \in Frames : xnml'[m][f] = xnml[m][f]
    BY <1>0, <1>5 DEF Ship, Sent, RowXnml, TypeOK
  <2>5. QED
    BY <2>3, <2>4
<1>6. ASSUME NEW w \in Workers, IntegrationFails(w) PROVE Course'
  <2>1. /\ stage = "integrate" /\ stage' = "integrateHere"
        /\ UNCHANGED <<settings, image, active, dzFile, lnFile,
                       dropped, unfixed, lost, cached, read, blocked>>
    BY <1>6 DEF IntegrationFails, Ship
  <2>2. /\ StrangersAreOld'
        /\ xnml'[Server] = xnml[Server]
        /\ ~normalize => \A m \in Machines, f \in Frames : xnml'[m][f] = xnml[m][f]
    BY <1>5, <1>6, <2>1 DEF IntegrationFails
  <2>3. /\ xdrz'[Server] = xdrz[Server]
        /\ ~drizzle => \A m \in Machines, f \in Frames : xdrz'[m][f] = xdrz[m][f]
    BY <1>0, <1>6 DEF IntegrationFails, Sent, RowXdrz, TypeOK
  <2>4. NotYet' /\ OnlyLeftovers'
    BY <2>1, <2>2, <2>3 DEF Course, NotYet, OnlyLeftovers
  <2>5. FromRegistration' /\ FromNormalization' /\ FromIntegration'
    BY <2>1, <2>2, <2>3 DEF Course, FromRegistration, FromNormalization, FromIntegration
  <2>6. DrizzleReadsThisRun' /\ SourceFound'
    BY <2>1 DEF Course, DrizzleReadsThisRun, SourceFound
  <2>7. QED
    BY <2>2, <2>4, <2>5, <2>6 DEF Course
<1>7. ASSUME NEW w \in Workers, NEW fate \in Fates, NEW throws \in BOOLEAN,
             IntegrateAt(w, fate, throws)
      PROVE  Course'
  <2> DEFINE returned == {f \in RowXdrz : fate[f] # "kept"}
             sent     == Sent(xdrz, w, RowXdrz)
             onW      == [f \in Frames |->
                            IF f \in returned THEN [sent[f] EXCEPT !.updated = TRUE] ELSE sent[f]]
             here     == [f \in Frames |->
                            CASE fate[f] = "back" -> onW[f]
                              [] fate[f] = "gone" -> NoFile
                              [] OTHER            -> xdrz[Server][f]]
  <2>1. /\ stage = "integrate"
        /\ stage' = IF throws THEN "integrateHere" ELSE IF drizzle THEN "drizzle" ELSE "done"
        /\ lost' = {f \in returned : fate[f] \in {"stuck", "gone"}}
        /\ active' = IF throws THEN active ELSE MarkFailed(returned)
        /\ UNCHANGED <<settings, image, dzFile, lnFile, dropped, unfixed, cached, read, blocked>>
    BY <1>7 DEF IntegrateAt, Ship
  <2>2. /\ StrangersAreOld'
        /\ xnml'[Server] = xnml[Server]
        /\ ~normalize => \A m \in Machines, f \in Frames : xnml'[m][f] = xnml[m][f]
    BY <1>5, <1>7, <2>1 DEF IntegrateAt
  <2>3. \A f \in Frames : fate[f] = "kept" \/ f \in RowXdrz
    BY <1>7 DEF IntegrateAt
  <2>4. ASSUME NEW f \in Frames
        PROVE  /\ f \in returned => onW[f] = [xdrz[Server][f] EXCEPT !.updated = TRUE]
               /\ f \notin RowXdrz => onW[f] = xdrz[w][f]
    BY <1>0 DEF TypeOK, Sent
  <2>5. ASSUME NEW f \in Frames
        PROVE  /\ here[f].age \in {xdrz[Server][f].age, "none"}
               /\ f \in returned => \/ here[f].age = "none"
                                    \/ here[f].updated
                                    \/ f \in lost'
    <3>1. xdrz[Server][f] \in Drizzle
      BY <1>0 DEF TypeOK
    <3>2. fate[f] \in {"kept", "back", "stuck", "gone"}
      BY DEF Fates
    <3>3. fate[f] # "kept" => f \in returned
      BY <2>3
    <3>4. /\ fate[f] = "back" => here[f] = onW[f]
          /\ fate[f] = "gone" => here[f] = NoFile
          /\ fate[f] \in {"kept", "stuck"} => here[f] = xdrz[Server][f]
      BY <3>2
    <3>5. fate[f] = "stuck" => f \in lost'
      BY <2>1, <3>3
    <3>6. f \in returned => fate[f] # "kept"
      OBVIOUS
    <3> HIDE DEF here, onW, returned
    <3>7. CASE fate[f] = "back"
      <4> DEFINE updated == [xdrz[Server][f] EXCEPT !.updated = TRUE]
      <4>1. updated.age = xdrz[Server][f].age /\ updated.updated = TRUE
        BY <3>1 DEF Drizzle
      <4>2. here[f] = updated
        BY <2>4, <3>3, <3>4, <3>7
      <4> HIDE DEF updated
      <4>3. QED
        BY <4>1, <4>2
    <3>8. CASE fate[f] = "gone"
      BY <3>4, <3>8 DEF NoFile
    <3>9. CASE fate[f] \in {"kept", "stuck"}
      BY <3>4, <3>5, <3>6, <3>9
    <3>10. QED
      BY <3>2, <3>7, <3>8, <3>9
  <2>6. xdrz' = [xdrz EXCEPT ![w] = onW, ![Server] = here]
    BY <1>0, <1>7 DEF IntegrateAt
  <2>7. /\ xdrz'[Server] = here
        /\ xdrz'[w] = onW
        /\ \A m \in Machines : m # w /\ m # Server => xdrz'[m] = xdrz[m]
    <3> HIDE DEF here, onW
    <3>1. QED
      BY <1>0, <2>6 DEF TypeOK
  <2>8. NotYet'
    BY <2>1 DEF Course, NotYet
  <2>9. OnlyLeftovers'
    <3>1. ASSUME ~drizzle, NEW m \in Machines, NEW f \in Frames
          PROVE  xdrz'[m][f].age = xdrz[m][f].age \/ xdrz'[m][f].age = "none"
      <4>1. f \notin RowXdrz
        BY <3>1 DEF RowXdrz
      <4> HIDE DEF here, onW
      <4>2. QED
        BY <2>4, <2>5, <2>7, <4>1
    <3>2. QED
      BY <3>1, <2>1, <2>2 DEF Course, OnlyLeftovers, Exists
  <2>10. FromRegistration' /\ FromNormalization'
    <3>1. active' \subseteq active /\ dzFile \subseteq Frames
      BY <2>1 DEF MarkFailed, TypeOK
    <3> HIDE DEF here
    <3>2. FromRegistration'
      BY <3>1, <2>1, <2>5, <2>7 DEF Course, FromRegistration, Exists
    <3>3. FromNormalization'
      BY <3>1, <2>1, <2>2 DEF Course, FromNormalization
    <3>4. QED
      BY <3>2, <3>3
  <2>11. FromIntegration'
    <3> HIDE DEF here, returned
    <3>1. stage' = "drizzle" => \A f \in active' \cap dzFile : f \in returned /\ f \in Frames
      BY <2>1 DEF MarkFailed, TypeOK
    <3>2. stage' # "drizzleHere"
      BY <2>1
    <3>3. QED
      BY <2>1, <2>5, <2>7, <3>1, <3>2 DEF FromIntegration, Exists
  <2>12. DrizzleReadsThisRun' /\ SourceFound'
    BY <2>1 DEF Course, NotYet, DrizzleReadsThisRun, SourceFound
  <2>13. QED
    BY <2>2, <2>8, <2>9, <2>10, <2>11, <2>12 DEF Course
<1>8. ASSUME NEW stuck \in SUBSET Exposed, DrizzleHere(stuck) PROVE Course'
  <2> DEFINE files == IF stage = "drizzle" THEN Repaired(stuck) ELSE xdrz[Server]
  <2>1. /\ stage \in {"drizzle", "drizzleHere"}
        /\ xdrz' = [xdrz EXCEPT ![Server] = files]
        /\ blocked' = {f \in Rows(files) : files[f].source # "server"}
        /\ read' = [f \in Frames |-> IF f \in Rows(files) \ blocked' THEN files[f] ELSE NoFile]
        /\ unfixed' = IF stage = "drizzle" THEN stuck ELSE unfixed
        /\ stage' = "done"
        /\ UNCHANGED <<settings, image, xnml, active, dzFile, lnFile, dropped, lost, cached, strangers>>
    BY <1>8 DEF DrizzleHere
  <2>2. \A f \in Frames :
           /\ files[f].age = xdrz[Server][f].age
           /\ files[f].updated = xdrz[Server][f].updated
    BY RepairedFiles
  <2>3. \A f \in Rows(files) : derived => files[f].source = "server" \/ f \in unfixed'
    <3>1. CASE stage = "drizzle"
      BY <2>1, <3>1, RepairedFiles DEF Rows, TypeOK
    <3>2. CASE stage = "drizzleHere"
      BY <2>1, <3>2 DEF Rows, Course, FromIntegration
    <3>3. QED
      BY <2>1, <3>1, <3>2
  <2> HIDE DEF files
  <2>4. NotYet' /\ OnlyLeftovers'
    BY <1>0, <2>1, <2>2 DEF Course, NotYet, OnlyLeftovers, TypeOK
  <2>5. FromRegistration' /\ FromNormalization' /\ FromIntegration'
    BY <1>0, <2>1, <2>2 
       DEF Course, FromRegistration, FromNormalization, FromIntegration, TypeOK, Exists
  <2>6. DrizzleReadsThisRun'
    <3>1. drizzle
      BY <2>1 DEF Course, NotYet
    <3>2. ASSUME NEW f \in Frames, Exists(read'[f])
          PROVE  f \in active \cap dzFile /\ Exists(files[f]) /\ read'[f] = files[f]
      BY <2>1, <3>2 DEF Rows, Exists, NoFile
    <3>3. QED
      BY <2>1, <2>2, <3>1, <3>2
         DEF DrizzleReadsThisRun, Course, FromRegistration, FromIntegration, Exists
  <2>7. SourceFound' /\ StrangersAreOld'
    BY <2>1, <2>3 DEF SourceFound, StrangersAreOld, Course
  <2>8. QED
    BY <2>4, <2>5, <2>6, <2>7 DEF Course
<1>9. ASSUME NEW w \in Workers, NEW stuck \in SUBSET Exposed, NEW lacking \in SUBSET Exposed,
             NEW fails \in BOOLEAN, DrizzleAt(w, stuck, lacking, fails)
      PROVE  Course'
  <2> DEFINE files == Repaired(stuck)
             rows  == Rows(files)
             onW   == [f \in Frames |->
                         IF f \in rows THEN [files[f] EXCEPT !.source = "worker"] ELSE xdrz[w][f]]
  <2>1. /\ stage = "drizzle" /\ stage' = IF fails THEN "drizzleHere" ELSE "done"
        /\ xdrz' = [xdrz EXCEPT ![Server] = files, ![w] = onW]
        /\ xnml' = [xnml EXCEPT ![w] = Sent(xnml, w, rows \cap RowXnml)]
        /\ strangers' = strangers \cup FoundAt(w, rows, rows, rows \cap RowXnml)
        /\ derived => lacking = {}
        /\ unfixed' = stuck
        /\ UNCHANGED <<settings, image, active, dzFile, lnFile, dropped, lost, cached>>
    BY <1>0, <1>9 DEF DrizzleAt
  <2>2. /\ fails => UNCHANGED <<blocked, read>>
        /\ ~fails => /\ blocked' = lacking
                     /\ read' = [f \in Frames |->
                                    IF f \in rows \ lacking THEN xdrz'[w][f] ELSE NoFile]
    BY <1>9 DEF DrizzleAt
  <2>3. \A f \in Frames :
           /\ files[f].age = xdrz[Server][f].age
           /\ files[f].updated = xdrz[Server][f].updated
           /\ derived /\ f \in rows /\ f \notin stuck => files[f].source = "server"
    BY RepairedFiles
  <2>4. rows = {f \in active \cap dzFile : Exists(files[f])}
    BY DEF Rows
  <2>5. \A f \in Frames : onW[f] = IF f \in rows THEN [files[f] EXCEPT !.source = "worker"] ELSE xdrz[w][f]
    OBVIOUS
  <2>6. files \in [Frames -> Drizzle]
    <3>1. \A f \in Frames : (f \notin stuck) \in BOOLEAN
      BY Zenon
    <3>2. QED
      <4>1. \A f \in Frames : xdrz[Server][f] \in Drizzle
        BY <1>0 DEF TypeOK
      <4>2. \A f \in Frames : Canonicalize(xdrz[Server][f], f \notin stuck) \in Drizzle
        BY <3>1, <4>1, DrizzleFiles
      <4>3. QED
        BY <4>1, <4>2 DEF Repaired
  <2>7. drizzle
    BY <2>1 DEF Course, NotYet
  <2>8. /\ xdrz'[Server] = files /\ xdrz'[w] = onW
        /\ xnml'[Server] = xnml[Server]
        /\ ~normalize => \A m \in Machines, f \in Frames : xnml'[m][f] = xnml[m][f]
    <3> HIDE DEF files, onW, rows
    <3>1. QED
      BY <1>0, <2>1 DEF TypeOK, Sent, RowXnml
  <2>9. StrangersAreOld'
    <3>1. \A s \in FoundAt(w, rows, rows, rows \cap RowXnml) :
             \/ s.age = "old"
             \/ s.kind = "xdrz" /\ s.frame \in dropped
      <4>1. rows \in SUBSET active
        BY <2>4
      <4> HIDE DEF rows
      <4>2. QED
        BY <2>1, <4>1, FoundIsOld
    <3> HIDE DEF rows
    <3>2. QED
      BY <2>1, <3>1 DEF StrangersAreOld, Course
  <2> HIDE DEF files, rows, onW
  <2>10. NotYet' /\ OnlyLeftovers'
    <3>1. stage' \in {"drizzleHere", "done"} /\ (stage' # "done" => fails)
      BY <2>1
    <3>2. drizzle' = drizzle /\ normalize' = normalize
      BY <2>1 DEF settings
    <3>3. NotYet'
      BY <2>1, <2>2, <2>7, <3>1, <3>2 DEF Course, NotYet, Exists
    <3>4. ~normalize => \A m \in Machines, f \in Frames : xnml[m][f] # "new"
      BY DEF Course, OnlyLeftovers
    <3>5. QED
      BY <2>7, <2>8, <3>1, <3>2, <3>3, <3>4 DEF OnlyLeftovers
  <2>11. FromRegistration' /\ FromNormalization'
    BY <2>1, <2>3, <2>8 DEF Course, FromRegistration, FromNormalization, TypeOK, Exists
  <2>12. FromIntegration'
    BY <2>1, <2>3, <2>4, <2>8 DEF Course, FromIntegration, TypeOK, Exists
  <2>13. DrizzleReadsThisRun'
    <3>1. CASE fails
      BY <3>1, <2>1, <2>2 DEF DrizzleReadsThisRun, Course
    <3>2. CASE ~fails
      <4>1. ASSUME NEW f \in Frames, Exists(read'[f])
            PROVE  /\ f \in active \cap dzFile /\ Exists(files[f])
                   /\ read'[f].age = files[f].age /\ read'[f].updated = files[f].updated
        <5>1. read'[f] = IF f \in rows \ lacking THEN onW[f] ELSE NoFile
          BY <2>2, <2>8, <3>2
        <5>2. f \in rows /\ read'[f] = onW[f]
          BY <4>1, <5>1 DEF Exists, NoFile
        <5>3. read'[f] = [files[f] EXCEPT !.source = "worker"]
          BY <2>5, <5>2
        <5>4. files[f] \in Drizzle
          BY <2>6
        <5>5. read'[f].age = files[f].age /\ read'[f].updated = files[f].updated
          BY <5>3, <5>4 DEF Drizzle
        <5>6. QED
          BY <2>4, <5>2, <5>5
      <4>2. QED
        BY <2>1, <2>3, <2>7, <4>1
           DEF DrizzleReadsThisRun, Course, FromRegistration, FromIntegration, Exists
    <3>3. QED
      BY <3>1, <3>2
  <2>14. SourceFound'
    BY <2>1, <2>2 DEF SourceFound, Course, NotYet
  <2>15. QED
    BY <2>9, <2>10, <2>11, <2>12, <2>13, <2>14 DEF Course
<1>10. CASE UNCHANGED vars
  <2>1. NotYet' /\ OnlyLeftovers' /\ FromRegistration'
    BY <1>10 DEF vars, Course, NotYet, OnlyLeftovers, FromRegistration
  <2>2. FromNormalization' /\ FromIntegration'
    BY <1>10 DEF vars, Course, FromNormalization, FromIntegration
  <2>3. DrizzleReadsThisRun' /\ SourceFound' /\ StrangersAreOld'
    BY <1>10 DEF vars, Course, DrizzleReadsThisRun, SourceFound, StrangersAreOld
  <2>4. QED
    BY <2>1, <2>2, <2>3 DEF Course
<1> QED
  BY <1>1, <1>2, <1>3, <1>4, <1>6, <1>7, <1>8, <1>9, <1>10, <1>11, <1>12, <1>13
     DEF Next, BeginRun, PerFrameOperation, LightIntegration, DrizzleIntegration, Done

(* From the first operation of a run to its last, the companions on the    *)
(* server and on the workers are where the run's bookkeeping says.         *)
THEOREM CompanionsInvariance == Spec => []CompanionsInv
<1>1. CompanionsInv /\ [Next]_vars => CompanionsInv'
  BY CompanionsTypeStep, CourseStep DEF CompanionsInv, Course
<1>2. QED
  BY CompanionsInitInv, <1>1, PTL DEF Spec

(* The drizzle integration reads files of this run, updated by its light   *)
(* integration, wherever they were made, unless their way back failed.     *)
THEOREM DrizzleReadsCorrect == Spec => []DrizzleReadsThisRun
<1>1. CompanionsInv => DrizzleReadsThisRun
  BY DEF CompanionsInv
<1>2. QED
  BY CompanionsInvariance, <1>1, PTL

(* No frame fails the drizzle integration for another machine's path       *)
(* unless __canonicalizeXdrz could not rewrite it.                         *)
THEOREM SourceFoundCorrect == Spec => []SourceFound
<1>1. CompanionsInv => SourceFound
  BY DEF CompanionsInv
<1>2. QED
  BY CompanionsInvariance, <1>1, PTL

(* A companion that a worker uses without having been sent it is an        *)
(* earlier run's, or the .xdrz it made and could not return.               *)
THEOREM StrangersCorrect == Spec => []StrangersAreOld
<1>1. CompanionsInv => StrangersAreOld
  BY DEF CompanionsInv
<1>2. QED
  BY CompanionsInvariance, <1>1, PTL

-----------------------------------------------------------------------------
(* Arrays of whole numbers and the loops over them. *)

(* The naturals are well-founded: a set of them that is not empty has a    *)
(* least element.                                                          *)
LEMMA LeastElement ==
    ASSUME NEW S \in SUBSET Nat, S # {}
    PROVE  \E o \in S : \A p \in S : o <= p
<1> DEFINE R == {ss \in Nat \X Nat : ss[1] < ss[2]}
<1>1. IsWellFoundedOn(R, Nat)
  BY NatLessThanWellFounded, Zenon DEF OpToRel
<1> HIDE DEF R
<1>2. PICK o \in S : \A p \in S : ~ (<<p, o>> \in R)
  BY <1>1, WFMin, Zenon
<1>3. \A p \in S : o <= p
  <2> SUFFICES ASSUME NEW p \in S, p < o PROVE FALSE
    OBVIOUS
  <2>1. <<p, o>> \in Nat \X Nat /\ <<p, o>>[1] < <<p, o>>[2]
    OBVIOUS
  <2>2. <<p, o>> \in R
    BY <2>1, Zenon DEF R
  <2> QED
    BY <1>2, <2>2
<1> QED
  BY <1>3

(* Induction over the cells of an array, for the set of those up to which  *)
(* a claim holds.                                                          *)
LEMMA UpTo ==
    ASSUME NEW n \in Nat, NEW Good \in SUBSET (0..n),
           0 \in Good, \A k \in 1..n : k - 1 \in Good => k \in Good
    PROVE  Good = 0..n
<1> SUFFICES ASSUME Good # 0..n PROVE FALSE
  OBVIOUS
<1> DEFINE Bad == (0..n) \ Good
<1>1. Bad \in SUBSET Nat /\ Bad # {}
  <2>1. \A k \in 0..n : k \in Nat
    OBVIOUS
  <2>2. PICK k \in 0..n : k \notin Good
    OBVIOUS
  <2>3. QED
    BY <2>1, <2>2
<1> HIDE DEF Bad
<1>2. PICK o \in Bad : \A p \in Bad : o <= p
  BY <1>1, LeastElement
<1>3. o \in 1..n /\ o \notin Good
  BY <1>2 DEF Bad
<1>4. o - 1 \in Good
  BY <1>2, <1>3 DEF Bad
<1>5. QED
  BY <1>3, <1>4

(* The running sums of an array of whole numbers: the loops of             *)
(* weightedShard add one cell at a time.                                   *)
LEMMA SumsDef ==
    ASSUME NEW n \in Nat, NEW a \in [1..n -> Int]
    PROVE  /\ Sums(a, n) \in [0..n -> Int]
           /\ Sums(a, n)[0] = 0
           /\ \A k \in 1..n : Sums(a, n)[k] = Sums(a, n)[k - 1] + a[k]
<1> DEFINE Is(g, m) == g \in [0..m -> Int] /\ g[0] = 0 /\ \A k \in 1..m : g[k] = g[k - 1] + a[k]
           Good == {m \in 0..n : \E g \in [0..m -> Int] : Is(g, m)}
<1>1. 0 \in Good
  <2> DEFINE g == [k \in 0..0 |-> 0]
  <2>1. g \in [0..0 -> Int] /\ g[0] = 0
    OBVIOUS
  <2>2. \A k \in 1..0 : FALSE
    OBVIOUS
  <2> HIDE DEF g
  <2>3. QED
    BY <2>1, <2>2
<1>2. ASSUME NEW m \in 1..n, m - 1 \in Good PROVE m \in Good
  <2>1. PICK g \in [0..(m - 1) -> Int] : Is(g, m - 1)
    BY <1>2
  <2> DEFINE h == [k \in 0..m |-> IF k = m THEN g[m - 1] + a[m] ELSE g[k]]
  <2>2. h \in [0..m -> Int]
    BY <2>1
  <2>3. h[0] = 0 /\ \A k \in 1..m : h[k] = h[k - 1] + a[k]
    <3>1. \A k \in 0..m : h[k] = IF k = m THEN g[m - 1] + a[m] ELSE g[k]
      OBVIOUS
    <3> HIDE DEF h
    <3>2. h[0] = 0
      BY <2>1, <3>1
    <3>3. ASSUME NEW k \in 1..m PROVE h[k] = h[k - 1] + a[k]
      <4>1. h[k - 1] = g[k - 1]
        BY <3>1
      <4>2. CASE k = m
        BY <3>1, <4>1, <4>2
      <4>3. CASE k # m
        <5>1. k \in 1..(m - 1)
          BY <4>3
        <5>2. QED
          BY <2>1, <3>1, <4>1, <4>3, <5>1
      <4>4. QED
        BY <4>2, <4>3
    <3>4. QED
      BY <3>2, <3>3
  <2> HIDE DEF h
  <2>4. Is(h, m)
    BY <2>2, <2>3
  <2>5. m \in 0..n
    OBVIOUS
  <2> HIDE DEF Is
  <2>6. QED
    BY <2>2, <2>4, <2>5
<1>3. n \in Good
  <2>1. Good \in SUBSET (0..n)
    OBVIOUS
  <2>2. \A k \in 1..n : k - 1 \in Good => k \in Good
    BY <1>2
  <2> HIDE DEF Good
  <2>3. Good = 0..n
    BY <1>1, <2>1, <2>2, UpTo
  <2>4. QED
    BY <2>3
<1>4. PICK g : Is(g, n)
  BY <1>3
<1>5. g = [k \in 0..n |-> IF k = 0 THEN 0 ELSE g[k - 1] + a[k]]
  BY <1>4
<1>6. Sums(a, n) = [k \in 0..n |-> IF k = 0 THEN 0 ELSE Sums(a, n)[k - 1] + a[k]]
  <2> DEFINE Rec(s) == s = [k \in 0..n |-> IF k = 0 THEN 0 ELSE s[k - 1] + a[k]]
  <2>1. Sums(a, n) = CHOOSE s : Rec(s)
    BY DEF Sums
  <2>2. Rec(g)
    BY <1>5
  <2> HIDE DEF Rec
  <2>3. Rec(CHOOSE s : Rec(s))
    BY <2>2
  <2>4. Rec(Sums(a, n))
    BY <2>1, <2>3
  <2>5. QED
    BY <2>4 DEF Rec
<1>7. QED
  <2> DEFINE s == Sums(a, n)
             Typed == {m \in 0..n : s[m] \in Int}
  <2>1. /\ s = [k \in 0..n |-> s[k]] /\ s[0] = 0
        /\ \A k \in 1..n : s[k] = s[k - 1] + a[k]
    BY <1>6
  <2> HIDE DEF s
  <2>2. Typed = 0..n
    <3>1. 0 \in Typed /\ \A k \in 1..n : k - 1 \in Typed => k \in Typed
      BY <2>1
    <3>2. Typed \in SUBSET (0..n)
      OBVIOUS
    <3> HIDE DEF Typed
    <3>3. QED
      BY <3>1, <3>2, UpTo
  <2>3. s \in [0..n -> Int]
    BY <2>1, <2>2
  <2>4. QED
    BY <2>1, <2>3 DEF s

(* k times each weight is t times the whole part and a rest; their sums. *)
DividedCells(k, w, t, c, r, n) == \A i \in 1..n : k * w[i] = t * c[i] + r[i]
DividedTotal(k, w, t, c, r, n) == k * Total(w, n) = t * Total(c, n) + Total(r, n)

(* "assigned" starts at most at len(inputs): whole parts and remainders of *)
(* the exact shares add up to all the inputs.                              *)
LEMMA SumsOfDivision ==
    ASSUME NEW n \in Nat, NEW k \in Int, NEW t \in Int,
           NEW w \in [1..n -> Int], NEW c \in [1..n -> Int], NEW r \in [1..n -> Int]
    PROVE  DividedCells(k, w, t, c, r, n) => DividedTotal(k, w, t, c, r, n)
<1>0. SUFFICES ASSUME \A i \in 1..n : k * w[i] = t * c[i] + r[i]
               PROVE  k * Total(w, n) = t * Total(c, n) + Total(r, n)
  BY DEF DividedCells, DividedTotal
<1> DEFINE W == Sums(w, n)  C == Sums(c, n)  R == Sums(r, n)
           Good == {m \in 0..n : k * W[m] = t * C[m] + R[m]}
<1>1. /\ W \in [0..n -> Int] /\ W[0] = 0 /\ \A m \in 1..n : W[m] = W[m - 1] + w[m]
      /\ C \in [0..n -> Int] /\ C[0] = 0 /\ \A m \in 1..n : C[m] = C[m - 1] + c[m]
      /\ R \in [0..n -> Int] /\ R[0] = 0 /\ \A m \in 1..n : R[m] = R[m - 1] + r[m]
  BY SumsDef
<1> HIDE DEF W, C, R
<1>2. 0 \in Good
  BY <1>1
<1>3. ASSUME NEW m \in 1..n, m - 1 \in Good PROVE m \in Good
  <2> DEFINE p == k * W[m - 1]  q == k * w[m]  u == t * C[m - 1]  v == t * c[m]
  <2>1. /\ W[m] = W[m - 1] + w[m] /\ C[m] = C[m - 1] + c[m] /\ R[m] = R[m - 1] + r[m]
        /\ W[m - 1] \in Int /\ w[m] \in Int /\ C[m - 1] \in Int
        /\ c[m] \in Int /\ R[m - 1] \in Int /\ r[m] \in Int
    <3>1. m - 1 \in 0..n
      OBVIOUS
    <3>2. W[m] = W[m - 1] + w[m] /\ C[m] = C[m - 1] + c[m] /\ R[m] = R[m - 1] + r[m]
      BY <1>1
    <3>3. W[m - 1] \in Int /\ C[m - 1] \in Int /\ R[m - 1] \in Int
      BY <1>1, <3>1
    <3>4. w[m] \in Int /\ c[m] \in Int /\ r[m] \in Int
      OBVIOUS
    <3>5. QED
      BY <3>2, <3>3, <3>4
  <2>2. \A i, j \in Int : i * j \in Int
    OBVIOUS
  <2>3. /\ p \in Int /\ q \in Int /\ u \in Int /\ v \in Int
        /\ k * W[m] = p + q /\ t * C[m] = u + v
    <3>1. p \in Int /\ q \in Int /\ u \in Int /\ v \in Int
      BY <2>1, <2>2
    <3>2. k * (W[m - 1] + w[m]) = k * W[m - 1] + k * w[m]
      BY <2>1
    <3>3. t * (C[m - 1] + c[m]) = t * C[m - 1] + t * c[m]
      BY <2>1
    <3>4. QED
      BY <2>1, <3>1, <3>2, <3>3, Zenon
  <2>4. p = u + R[m - 1] /\ q = v + r[m]
    BY <1>0, <1>3
  <2> HIDE DEF p, q, u, v
  <2>5. p + q = (u + v) + (R[m - 1] + r[m])
    <3>1. u \in Int /\ v \in Int /\ R[m - 1] \in Int /\ r[m] \in Int
      BY <2>1, <2>3
    <3>2. (u + R[m - 1]) + (v + r[m]) = (u + v) + (R[m - 1] + r[m])
      BY <3>1
    <3>3. QED
      BY <2>4, <3>2, Zenon
  <2>6. k * W[m] = t * C[m] + R[m]
    BY <2>1, <2>3, <2>5, Zenon
  <2>7. QED
    BY <2>6
<1>4. Good = 0..n
  <2>1. Good \in SUBSET (0..n)
    OBVIOUS
  <2> HIDE DEF Good
  <2>2. QED
    BY <1>2, <1>3, <2>1, UpTo
<1>5. n \in Good
  BY <1>4
<1>6. QED
  BY <1>5 DEF Total, W, C, R

(* Changing one cell changes the sum by as much: counts[best]++ and        *)
(* frac[best] = -1.                                                        *)
LEMMA SumsChanged ==
    ASSUME NEW n \in Nat, NEW a \in [1..n -> Int], NEW b \in 1..n, NEW x \in Int
    PROVE  Total([a EXCEPT ![b] = x], n) = Total(a, n) + x - a[b]
<1> DEFINE e == [a EXCEPT ![b] = x]
           A == Sums(a, n)  E == Sums(e, n)
           Good == {m \in 0..n : E[m] = A[m] + IF m < b THEN 0 ELSE x - a[b]}
<1>1. e \in [1..n -> Int] /\ \A m \in 1..n : e[m] = IF m = b THEN x ELSE a[m]
  OBVIOUS
<1> HIDE DEF e
<1>2. /\ A \in [0..n -> Int] /\ A[0] = 0 /\ \A m \in 1..n : A[m] = A[m - 1] + a[m]
      /\ E \in [0..n -> Int] /\ E[0] = 0 /\ \A m \in 1..n : E[m] = E[m - 1] + e[m]
  BY <1>1, SumsDef
<1> HIDE DEF A, E
<1>3. 0 \in Good
  BY <1>2
<1>4. ASSUME NEW m \in 1..n, m - 1 \in Good PROVE m \in Good
  <2>1. E[m - 1] = A[m - 1] + (IF m - 1 < b THEN 0 ELSE x - a[b]) /\ m - 1 \in 0..n /\ m \in 0..n
    BY <1>4
  <2>2. E[m] = A[m] + IF m < b THEN 0 ELSE x - a[b]
    <3>1. E[m] = E[m - 1] + e[m] /\ A[m] = A[m - 1] + a[m]
      BY <1>2
    <3>2. A[m - 1] \in Int /\ a[m] \in Int /\ a[b] \in Int
      BY <1>2, <2>1
    <3>3. CASE m < b
      BY <1>1, <2>1, <3>1, <3>2, <3>3
    <3>4. CASE m = b
      BY <1>1, <2>1, <3>1, <3>2, <3>4
    <3>5. CASE m > b
      BY <1>1, <2>1, <3>1, <3>2, <3>5
    <3>6. QED
      BY <3>3, <3>4, <3>5
  <2>3. QED
    BY <2>1, <2>2
<1>5. Good = 0..n
  <2>1. Good \in SUBSET (0..n)
    OBVIOUS
  <2> HIDE DEF Good
  <2>2. QED
    BY <1>3, <1>4, <2>1, UpTo
<1>6. E[n] = A[n] + x - a[b]
  <2>0. n \in 0..n
    OBVIOUS
  <2>1. n \in Good /\ A[n] \in Int /\ a[b] \in Int
    BY <1>2, <1>5, <2>0
  <2>2. QED
    BY <2>1
<1>7. QED
  BY <1>6 DEF Total, A, E, e

(* The sums of counts never decrease: a later shard begins where an        *)
(* earlier one ended, or after it.                                         *)
LEMMA SumsGrow ==
    ASSUME NEW n \in Nat, NEW a \in [1..n -> Nat]
    PROVE  \A m \in 0..n : \A j \in 0..m : 0 <= Sums(a, n)[j] /\ Sums(a, n)[j] <= Sums(a, n)[m]
<1> DEFINE A == Sums(a, n)
           Good == {m \in 0..n : \A j \in 0..m : 0 <= A[j] /\ A[j] <= A[m]}
<1>0. a \in [1..n -> Int]
  OBVIOUS
<1>1. A \in [0..n -> Int] /\ A[0] = 0 /\ \A m \in 1..n : A[m] = A[m - 1] + a[m]
  BY <1>0, SumsDef
<1> HIDE DEF A
<1>2. 0 \in Good
  BY <1>1
<1>3. ASSUME NEW m \in 1..n, m - 1 \in Good PROVE m \in Good
  <2>1. \A j \in 0..(m - 1) : 0 <= A[j] /\ A[j] <= A[m - 1]
    BY <1>3
  <2>2. A[m] = A[m - 1] + a[m] /\ a[m] >= 0 /\ A[m - 1] \in Int /\ a[m] \in Int /\ A[m] \in Int
    BY <1>1
  <2>3. ASSUME NEW j \in 0..m PROVE 0 <= A[j] /\ A[j] <= A[m]
    <3>1. CASE j = m
      <4>1. 0 <= A[m - 1]
        BY <2>1
      <4>2. QED
        BY <3>1, <2>2, <4>1
    <3>2. CASE j # m
      <4>1. j \in 0..(m - 1) /\ A[j] \in Int
        BY <1>1, <3>2
      <4>2. QED
        BY <2>1, <2>2, <4>1
    <3>3. QED
      BY <3>1, <3>2
  <2>4. QED
    BY <2>3
<1>4. Good = 0..n
  <2>1. Good \in SUBSET (0..n)
    OBVIOUS
  <2> HIDE DEF Good
  <2>2. QED
    BY <1>2, <1>3, <2>1, UpTo
<1>5. QED
  BY <1>4 DEF A

(* A sum that is not zero has a cell that is not. *)
LEMMA SumsPositive ==
    ASSUME NEW n \in Nat, NEW a \in [1..n -> Nat], Total(a, n) > 0
    PROVE  \E i \in 1..n : a[i] > 0
<1> SUFFICES ASSUME \A i \in 1..n : a[i] = 0 PROVE FALSE
  OBVIOUS
<1> DEFINE A == Sums(a, n)
           Good == {m \in 0..n : A[m] = 0}
<1>0. a \in [1..n -> Int]
  OBVIOUS
<1>1. A \in [0..n -> Int] /\ A[0] = 0 /\ \A m \in 1..n : A[m] = A[m - 1] + a[m]
  BY <1>0, SumsDef
<1> HIDE DEF A
<1>2. 0 \in Good /\ \A m \in 1..n : m - 1 \in Good => m \in Good
  BY <1>1
<1>3. Good = 0..n
  <2>1. Good \in SUBSET (0..n)
    OBVIOUS
  <2> HIDE DEF Good
  <2>2. QED
    BY <1>2, <2>1, UpTo
<1>4. QED
  BY <1>3 DEF A, Total

(* inputs[idx : idx+counts[i]]: every position up to the sum falls between *)
(* the running sums of exactly one cell.                                   *)
LEMMA SumsCut ==
    ASSUME NEW n \in Nat, NEW a \in [1..n -> Nat], NEW x \in 1..Total(a, n)
    PROVE  \E i \in 1..n :
              /\ Sums(a, n)[i - 1] < x /\ x <= Sums(a, n)[i]
              /\ \A j \in 1..n : Sums(a, n)[j - 1] < x /\ x <= Sums(a, n)[j] => i = j
<1> DEFINE A == Sums(a, n)
           Reached == {m \in 0..n : x <= A[m]}
<1>1. A \in [0..n -> Int] /\ A[0] = 0
  BY SumsDef
<1>2. \A m \in 0..n : \A j \in 0..m : A[j] <= A[m]
  BY SumsGrow
<1>3. x \in Nat /\ x >= 1 /\ x <= A[n]
  <2>1. A[n] \in Int
    BY <1>1
  <2>2. QED
    BY <2>1 DEF Total
<1> HIDE DEF A
<1>4. PICK i \in Reached : \A m \in Reached : i <= m
  <2>1. Reached \in SUBSET Nat /\ n \in Reached
    BY <1>3
  <2> HIDE DEF Reached
  <2>2. QED
    BY <2>1, LeastElement
<1>5. i \in 1..n /\ x <= A[i]
  BY <1>1, <1>3, <1>4
<1>6. A[i - 1] < x
  <2>1. i - 1 \notin Reached /\ i - 1 \in 0..n
    BY <1>4, <1>5
  <2>2. A[i - 1] \in Int
    BY <1>1, <2>1
  <2>3. QED
    BY <1>3, <2>1, <2>2
<1>7. ASSUME NEW j \in 1..n, A[j - 1] < x, x <= A[j], i # j PROVE FALSE
  <2>1. A[j - 1] \in Int /\ A[j] \in Int /\ A[i - 1] \in Int /\ A[i] \in Int
    BY <1>1, <1>5
  <2>2. CASE i < j
    <3>1. i \in 0..(j - 1) /\ j - 1 \in 0..n
      BY <1>5, <2>2
    <3>2. A[i] <= A[j - 1]
      BY <1>2, <3>1
    <3>3. QED
      BY <1>3, <1>5, <1>7, <2>1, <3>2
  <2>3. CASE j < i
    <3>1. j \in 0..(i - 1) /\ i - 1 \in 0..n
      BY <1>5, <2>3
    <3>2. A[j] <= A[i - 1]
      BY <1>2, <3>1
    <3>3. QED
      BY <1>3, <1>6, <1>7, <2>1, <3>2
  <2>4. QED
    BY <1>5, <1>7, <2>2, <2>3
<1>8. QED
  BY <1>5, <1>6, <1>7 DEF A

(* The search for best: an array has a first largest cell. *)
LEMMA FirstLargest ==
    ASSUME NEW n \in Nat, n > 0, NEW a \in [1..n -> Int]
    PROVE  \E i \in 1..n : \A j \in 1..n : IF j < i THEN a[j] < a[i] ELSE a[j] <= a[i]
<1> DEFINE Top(i, m) == \A j \in 1..m : IF j < i THEN a[j] < a[i] ELSE a[j] <= a[i]
           Good == {m \in 0..n : m = 0 \/ \E i \in 1..m : Top(i, m)}
<1>1. 0 \in Good
  OBVIOUS
<1>2. ASSUME NEW m \in 1..n, m - 1 \in Good PROVE m \in Good
  <2>1. m \in 0..n
    OBVIOUS
  <2>2. \E i \in 1..m : Top(i, m)
    <3>1. CASE m = 1
      <4>1. Top(1, 1)
        OBVIOUS
      <4>2. QED
        BY <3>1, <4>1
    <3>2. CASE m # 1
      <4>1. PICK i \in 1..(m - 1) : Top(i, m - 1)
        BY <1>2, <3>2
      <4>2. i \in 1..n /\ a[i] \in Int /\ a[m] \in Int /\ \A j \in 1..m : a[j] \in Int
        OBVIOUS
      <4>3. CASE a[m] > a[i]
        <5>1. Top(m, m)
          BY <4>1, <4>2, <4>3
        <5>2. QED
          BY <5>1
      <4>4. CASE a[m] <= a[i]
        <5>1. ASSUME NEW j \in 1..m PROVE IF j < i THEN a[j] < a[i] ELSE a[j] <= a[i]
          <6>1. CASE j = m
            BY <4>2, <4>4, <6>1
          <6>2. CASE j # m
            <7>1. j \in 1..(m - 1)
              BY <6>2
            <7>2. QED
              BY <4>1, <7>1
          <6>3. QED
            BY <6>1, <6>2
        <5>2. Top(i, m) /\ i \in 1..m
          BY <5>1
        <5> HIDE DEF Top
        <5>3. QED
          BY <5>2
      <4>5. QED
        BY <4>2, <4>3, <4>4
    <3>3. QED
      BY <3>1, <3>2
  <2> HIDE DEF Top
  <2>3. QED
    BY <2>1, <2>2
<1>3. Good = 0..n
  <2>1. Good \in SUBSET (0..n)
    OBVIOUS
  <2> HIDE DEF Good
  <2>2. QED
    BY <1>1, <1>2, <2>1, UpTo
<1>4. n \in Good
  <2>1. n \in 0..n
    OBVIOUS
  <2> HIDE DEF Good
  <2>2. QED
    BY <1>3, <2>1
<1>5. QED
  BY <1>4

-----------------------------------------------------------------------------
(* The shards of a job. *)

Crew == Len(team)
AllWeights == Total(weights, Crew)

(* The fractional parts that are not handed out yet. *)
Unused == [i \in 1..Crew |-> IF frac[i] < 0 THEN 0 ELSE frac[i]]

(* Between two jobs weightedShard has no arrays. *)
NoShards ==
    phase = "idle" => /\ team = <<>> /\ size = 0 /\ assigned = 0
                      /\ counts = <<>> /\ frac = <<>>

ShardArrays ==
    /\ team \in Seq(Nodes) /\ Crew > 0 /\ size \in Nat \ {0}
    /\ weights \in [1..Crew -> Nat \ {0}]
    /\ counts \in [1..Crew -> Nat] /\ frac \in [1..Crew -> Int]
    /\ assigned = Total(counts, Crew)

(* A count is the whole part of the exact share, its frac the remainder;   *)
(* or it is one more, for a remainder that is not zero and is used up.     *)
ExactShares ==
    \A i \in 1..Crew :
        \/ /\ 0 <= frac[i] /\ frac[i] < AllWeights
           /\ size * weights[i] = AllWeights * counts[i] + frac[i]
        \/ /\ frac[i] = -1
           /\ AllWeights * (counts[i] - 1) < size * weights[i]
           /\ size * weights[i] < AllWeights * counts[i]

(* A remainder that is used up was as large as any that is not. *)
LargestFirst ==
    \A i, j \in 1..Crew :
        frac[i] >= 0 /\ frac[j] = -1 =>
            frac[i] <= size * weights[j] - AllWeights * (counts[j] - 1)

(* What is left of the remainders is worth all the inputs that are left:   *)
(* so the loop never comes back to a worker.                               *)
EnoughLeft == AllWeights * (size - assigned) <= Total(Unused, Crew)

ShardInv ==
    /\ ShardTypeOK
    /\ tp \in [Nodes -> Nat]
    /\ NoShards
    /\ phase # "idle" =>
          ShardArrays /\ ExactShares /\ LargestFirst /\ EnoughLeft /\ assigned <= size
    /\ phase = "sharded" => assigned = size

(* No throughput is known, and no job is under way. *)
LEMMA ShardInitInv == ShardInit => ShardInv
  BY DEF ShardInit, ShardInv, ShardTypeOK, NoShards

(* int(exact) and exact - counts[i]. *)
LEMMA WholeAndRest ==
    ASSUME NEW a \in Nat, NEW t \in Nat \ {0}
    PROVE  /\ a \div t \in Nat /\ a % t \in Nat
           /\ a = t * (a \div t) + (a % t)
           /\ 0 <= a % t /\ a % t < t
  OBVIOUS

(* An estimate stays among the throughputs that were measured. *)
LEMMA SmoothMeasured ==
    ASSUME NEW old \in Nat, NEW new \in Nat \ {0}
    PROVE  /\ Smooth(old, new) \in Nat
           /\ old = 0 => Smooth(old, new) = new
           /\ old # 0 /\ old <= new => old <= Smooth(old, new) /\ Smooth(old, new) <= new
           /\ old # 0 /\ new <= old => new <= Smooth(old, new) /\ Smooth(old, new) <= old
  BY DEF Smooth

(* A team's weights add up to something. *)
LEMMA SomeWeight ==
    ASSUME NEW n \in Nat, n > 0, NEW a \in [1..n -> Nat \ {0}]
    PROVE  Total(a, n) \in Nat \ {0}
<1> DEFINE A == Sums(a, n)
<1>0. a \in [1..n -> Nat] /\ a \in [1..n -> Int]
  OBVIOUS
<1>1. A \in [0..n -> Int] /\ A[0] = 0 /\ \A m \in 1..n : A[m] = A[m - 1] + a[m]
  BY <1>0, SumsDef
<1>2. \A m \in 0..n : \A j \in 0..m : A[j] <= A[m]
  BY <1>0, SumsGrow
<1> HIDE DEF A
<1>3. 1 \in 1..n /\ 1 \in 0..n /\ n \in 0..n
  OBVIOUS
<1>4. A[1] = a[1] /\ A[1] <= A[n] /\ a[1] \in Nat \ {0} /\ A[n] \in Int
  BY <1>1, <1>2, <1>3
<1>5. A[n] \in Nat \ {0}
  BY <1>4
<1>6. QED
  BY <1>5 DEF A, Total

(* The start of weightedShard: the whole parts of the exact shares. *)
LEMMA StartStep ==
    ASSUME ShardInv, NEW t \in Teams, NEW k \in JobSizes, StartJob(t, k)
    PROVE  ShardInv'
<1> USE ShardingAssumption
<1> DEFINE n == Len(t)
           ws == [i \in DOMAIN t |-> Weight(t[i])]
           T == Total(ws, n)
<1>1. t \in Seq(Nodes) /\ n \in Nat /\ n > 0 /\ DOMAIN t = 1..n
  <2>1. PICK m \in 1..Cardinality(Nodes) : t \in [1..m -> Nodes]
    BY DEF Teams
  <2>2. m \in Nat /\ m > 0
    BY <2>1
  <2>3. t \in Seq(Nodes)
    BY <2>1, <2>2, SeqDef
  <2>4. Len(t) \in Nat /\ DOMAIN t = 1..Len(t)
    BY <2>3
  <2>5. 1 \in 1..m
    BY <2>2
  <2>6. 1 \in 1..Len(t)
    BY <2>1, <2>4, <2>5
  <2>7. QED
    BY <2>3, <2>4, <2>6
<1>2. /\ team' = t /\ size' = k /\ weights' = ws /\ phase' = "rest" /\ tp' = tp
      /\ counts' = [i \in 1..n |-> (k * ws[i]) \div T]
      /\ frac' = [i \in 1..n |-> (k * ws[i]) % T]
      /\ assigned' = Total(counts', n)
  BY <1>1 DEF StartJob
<1>3. ws \in [1..n -> Nat \ {0}]
  <2>1. \A w \in Nodes : Weight(w) \in Nat \ {0}
    BY DEF Weight, ShardInv
  <2>2. \A i \in 1..n : t[i] \in Nodes
    BY <1>1
  <2>3. QED
    BY <1>1, <2>1, <2>2
<1> HIDE DEF ws
<1>4. T \in Nat \ {0}
  <2> HIDE DEF n
  <2>1. QED
    BY <1>1, <1>3, SomeWeight
<1>5. k \in Nat \ {0}
  OBVIOUS
<1> HIDE DEF n, T
<1>6. ASSUME NEW i \in 1..n
      PROVE  /\ counts'[i] \in Nat /\ frac'[i] \in Nat
             /\ k * ws[i] = T * counts'[i] + frac'[i]
             /\ 0 <= frac'[i] /\ frac'[i] < T
  <2> DEFINE a == k * ws[i]
  <2>1. a \in Nat
    <3>1. ws[i] \in Nat
      BY <1>3
    <3>2. QED
      BY <1>5, <3>1
  <2>2. counts'[i] = a \div T /\ frac'[i] = a % T
    BY <1>2
  <2> HIDE DEF a
  <2>3. /\ a \div T \in Nat /\ a % T \in Nat
        /\ a = T * (a \div T) + (a % T)
        /\ 0 <= a % T /\ a % T < T
    BY <1>4, <2>1, WholeAndRest
  <2>4. a = T * counts'[i] + frac'[i]
    BY <2>2, <2>3, Zenon
  <2>5. QED
    BY <2>2, <2>3, <2>4 DEF a
<1>7. counts' \in [1..n -> Nat] /\ frac' \in [1..n -> Nat]
  BY <1>2, <1>6
<1>8. k * T = T * assigned' + Total(frac', n)
  <2>1. ws \in [1..n -> Int] /\ counts' \in [1..n -> Int] /\ frac' \in [1..n -> Int]
    BY <1>3, <1>7
  <2>2. DividedCells(k, ws, T, counts', frac', n)
    BY <1>6 DEF DividedCells
  <2>3. k \in Int /\ T \in Int
    BY <1>4, <1>5
  <2>4. DividedTotal(k, ws, T, counts', frac', n)
    BY <1>1, <2>1, <2>2, <2>3, SumsOfDivision
  <2>5. QED
    BY <1>2, <2>4, Zenon DEF T, DividedTotal
<1>9. assigned' \in Nat /\ Total(frac', n) \in Nat
  <2>1. ASSUME NEW a \in [1..n -> Nat] PROVE Total(a, n) \in Nat
    <3>1. a \in [1..n -> Int] /\ n \in 0..n
      BY <1>1
    <3>2. Sums(a, n)[n] \in Int
      BY <1>1, <3>1, SumsDef
    <3>3. 0 <= Sums(a, n)[n]
      BY <1>1, <3>1, SumsGrow
    <3>4. QED
      BY <3>2, <3>3 DEF Total
  <2>2. QED
    BY <1>2, <1>7, <2>1
<1>10. T * (k - assigned') = Total(frac', n) /\ assigned' <= k
  <2> DEFINE A == assigned'  F == Total(frac', n)
  <2>1. A \in Nat /\ F \in Nat /\ k * T = T * A + F
    BY <1>8, <1>9
  <2> HIDE DEF A, F
  <2>2. T * (k - A) = F
    BY <1>4, <1>5, <2>1
  <2>3. A <= k
    <3> SUFFICES ASSUME k - A <= -1 PROVE FALSE
      BY <1>5, <2>1
    <3>1. T * (k - A) <= T * (-1)
      BY <1>4, <1>5, <2>1
    <3>2. QED
      BY <1>4, <2>1, <2>2, <3>1
  <2>4. QED
    BY <2>2, <2>3 DEF A, F
<1>11. Crew' = n /\ AllWeights' = T
  BY <1>2 DEF Crew, AllWeights, n, T
<1>12. ShardArrays'
  BY <1>1, <1>2, <1>3, <1>5, <1>7, <1>11 DEF ShardArrays
<1>13. ExactShares' /\ LargestFirst'
  BY <1>2, <1>6, <1>11 DEF ExactShares, LargestFirst
<1>14. EnoughLeft'
  <2>1. Unused' = frac'
    BY <1>7, <1>11 DEF Unused
  <2>2. T * (k - assigned') <= Total(frac', n)
    BY <1>9, <1>10
  <2>3. QED
    BY <1>2, <1>11, <2>1, <2>2 DEF EnoughLeft
<1>15. ShardTypeOK'
  BY <1>1, <1>2, <1>10 DEF ShardTypeOK, ShardInv
<1>16. QED
  BY <1>2, <1>10, <1>12, <1>13, <1>14, <1>15 DEF ShardInv, NoShards

(* A turn of the loop takes a remainder that is not zero. *)
LEMMA BestLeft ==
    ASSUME ShardArrays, ExactShares, EnoughLeft, assigned < size
    PROVE  /\ Best \in 1..Crew
           /\ \A j \in 1..Crew : frac[j] <= frac[Best]
           /\ frac[Best] > 0
<1> DEFINE n == Crew  b == Best
<1>1. n \in Nat /\ n > 0 /\ DOMAIN team = 1..n /\ frac \in [1..n -> Int]
  BY DEF ShardArrays, Crew
<1>2. b \in 1..n /\ \A j \in 1..n : IF j < b THEN frac[j] < frac[b] ELSE frac[j] <= frac[b]
  <2> DEFINE P(i) == \A j \in 1..n : IF j < i THEN frac[j] < frac[i] ELSE frac[j] <= frac[i]
  <2>1. b = CHOOSE i \in 1..n : P(i)
    BY <1>1 DEF Best
  <2> HIDE DEF n
  <2>2. \E i \in 1..n : P(i)
    BY <1>1, FirstLargest
  <2> HIDE DEF P, b
  <2>3. b \in 1..n /\ P(b)
    BY <2>1, <2>2
  <2>4. QED
    BY <2>3 DEF P
<1> HIDE DEF n, b
<1>3. \A j \in 1..n : frac[j] <= frac[b]
  <2>1. \A j \in 1..n : frac[j] \in Int
    BY <1>1
  <2>2. QED
    BY <1>2, <2>1
<1>4. Total(Unused, n) > 0
  <2>1. AllWeights \in Nat \ {0}
    BY <1>1, SomeWeight DEF ShardArrays, AllWeights, n
  <2>2. assigned \in Int /\ size \in Int
    <3>1. counts \in [1..n -> Int] /\ n \in 0..n
      BY <1>1 DEF ShardArrays, n
    <3>2. Sums(counts, n) \in [0..n -> Int]
      BY <1>1, <3>1, SumsDef
    <3>3. assigned = Sums(counts, n)[n] /\ size \in Nat
      BY DEF ShardArrays, Total, n
    <3>4. QED
      BY <3>1, <3>2, <3>3
  <2> DEFINE d == size - assigned  u == Total(Unused, n)
  <2>3. d \in Int /\ d >= 1
    BY <2>2
  <2>4. AllWeights * d <= u
    BY DEF EnoughLeft, n
  <2>5. u \in Int
    <3>1. Unused \in [1..n -> Int] /\ n \in 0..n
      BY <1>1 DEF Unused, n
    <3>2. QED
      BY <1>1, <3>1, SumsDef DEF Total
  <2> HIDE DEF d, u
  <2>6. AllWeights * d >= AllWeights
    BY <2>1, <2>3
  <2>7. AllWeights * d \in Int
    BY <2>1, <2>3
  <2>8. u > 0
    BY <2>1, <2>4, <2>5, <2>6, <2>7
  <2>9. QED
    BY <2>8 DEF u
<1>5. PICK i \in 1..n : Unused[i] > 0
  <2>1. Unused \in [1..n -> Nat]
    BY <1>1 DEF Unused, n
  <2>2. QED
    BY <1>1, <1>4, <2>1, SumsPositive
<1>6. frac[i] > 0
  BY <1>1, <1>5 DEF Unused, n
<1>7. frac[b] > 0
  BY <1>1, <1>2, <1>3, <1>6
<1>8. QED
  BY <1>2, <1>3, <1>7 DEF n, b

(* counts[best]++, frac[best] = -1, assigned++. *)
LEMMA HandOutStep == ASSUME ShardInv, HandOut PROVE ShardInv'
<1> DEFINE n == Crew  b == Best  T == AllWeights
<1>1. /\ ShardArrays /\ ExactShares /\ LargestFirst /\ EnoughLeft
      /\ phase = "rest" /\ assigned < size
  BY DEF ShardInv, HandOut
<1>2. b \in 1..n /\ (\A j \in 1..n : frac[j] <= frac[b]) /\ frac[b] > 0
  BY <1>1, BestLeft
<1>3. /\ counts' = [counts EXCEPT ![b] = counts[b] + 1]
      /\ frac' = [frac EXCEPT ![b] = -1]
      /\ assigned' = assigned + 1
      /\ UNCHANGED <<tp, phase, team, size, weights>>
  BY DEF HandOut
<1>4. /\ n \in Nat /\ n > 0 /\ size \in Nat \ {0}
      /\ counts \in [1..n -> Nat] /\ frac \in [1..n -> Int] /\ weights \in [1..n -> Nat \ {0}]
      /\ team \in Seq(Nodes) /\ assigned = Total(counts, n)
  BY <1>1 DEF ShardArrays, Crew
<1>5. Crew' = n /\ AllWeights' = T
  BY <1>3 DEF Crew, AllWeights
<1>6. T \in Nat \ {0}
  BY <1>4, SomeWeight DEF AllWeights
<1> HIDE DEF b, n
<1>7. assigned \in Int
  <2>1. counts \in [1..n -> Int] /\ n \in 0..n
    BY <1>4
  <2>2. QED
    BY <1>4, <2>1, SumsDef DEF Total
<1>8. /\ counts[b] \in Nat /\ frac[b] \in Int /\ weights[b] \in Nat
      /\ 0 <= frac[b] /\ frac[b] < T
      /\ size * weights[b] = T * counts[b] + frac[b]
  BY <1>1, <1>2, <1>4 DEF ExactShares, n
<1>9. /\ counts' \in [1..n -> Nat] /\ frac' \in [1..n -> Int]
      /\ counts'[b] = counts[b] + 1 /\ frac'[b] = -1
      /\ \A i \in 1..n : i # b => counts'[i] = counts[i] /\ frac'[i] = frac[i]
  <2>1. /\ counts' \in [1..n -> Nat] /\ counts'[b] = counts[b] + 1
        /\ \A i \in 1..n : i # b => counts'[i] = counts[i]
    <3>1. counts \in [1..n -> Nat] /\ b \in 1..n /\ counts[b] + 1 \in Nat
      <4>1. counts \in [1..n -> Nat]
        BY <1>4
      <4>2. b \in 1..n
        BY <1>2
      <4>3. counts[b] + 1 \in Nat
        BY <1>8
      <4>4. QED
        BY <4>1, <4>2, <4>3
    <3>2. QED
      BY <1>3, <3>1
  <2>2. /\ frac' \in [1..n -> Int] /\ frac'[b] = -1
        /\ \A i \in 1..n : i # b => frac'[i] = frac[i]
    BY <1>2, <1>3, <1>4
  <2>3. QED
    BY <2>1, <2>2
<1>10. assigned' = Total(counts', n)
  <2>1. counts \in [1..n -> Int] /\ counts[b] \in Int /\ counts[b] + 1 \in Int
    BY <1>4, <1>8
  <2>2. n \in Nat /\ b \in 1..n
    BY <1>2, <1>4
  <2>3. Total([counts EXCEPT ![b] = counts[b] + 1], n) = Total(counts, n) + (counts[b] + 1) - counts[b]
    BY <2>1, <2>2, SumsChanged
  <2>4. Total(counts', n) = assigned + (counts[b] + 1) - counts[b]
    BY <1>3, <1>4, <2>3, Zenon
  <2>5. assigned + (counts[b] + 1) - counts[b] = assigned + 1
    BY <1>7, <2>1
  <2>6. QED
    BY <1>3, <2>4, <2>5, Zenon
<1>11. ShardArrays'
  BY <1>3, <1>4, <1>5, <1>9, <1>10 DEF ShardArrays
<1>12. /\ T * (counts'[b] - 1) < size * weights[b]
       /\ size * weights[b] < T * counts'[b]
       /\ size * weights[b] - T * (counts'[b] - 1) = frac[b]
  <2> DEFINE c == counts[b]  f == frac[b]  p == T * c  q == size * weights[b]
  <2>1. counts'[b] - 1 = c /\ counts'[b] = c + 1
    BY <1>8, <1>9
  <2>2. T * (c + 1) = p + T /\ p \in Int
    BY <1>6, <1>8
  <2>3. q = p + f /\ f \in Int /\ f > 0 /\ f < T
    BY <1>2, <1>8
  <2>4. T \in Int
    BY <1>6
  <2> HIDE DEF p, q, f, T
  <2>5. p < q /\ q < p + T /\ q - p = f
    BY <2>2, <2>3, <2>4
  <2>6. T * (counts'[b] - 1) = p /\ T * counts'[b] = p + T
    BY <2>1, <2>2, Zenon DEF p
  <2>7. QED
    BY <2>5, <2>6 DEF q, f
<1> HIDE DEF T
<1>13. ExactShares'
  <2>1. ASSUME NEW i \in 1..n
        PROVE  \/ /\ 0 <= frac'[i] /\ frac'[i] < T
                  /\ size * weights[i] = T * counts'[i] + frac'[i]
               \/ /\ frac'[i] = -1
                  /\ T * (counts'[i] - 1) < size * weights[i]
                  /\ size * weights[i] < T * counts'[i]
    <3>1. CASE i = b
      BY <1>9, <1>12, <3>1
    <3>2. CASE i # b
      BY <1>1, <1>9, <3>2, Zenon DEF ExactShares, n, T
    <3>3. QED
      BY <3>1, <3>2
  <2>2. QED
    BY <1>3, <1>5, <2>1, Zenon DEF ExactShares
<1>14. LargestFirst'
  <2>1. ASSUME NEW i \in 1..n, NEW j \in 1..n, frac'[i] >= 0, frac'[j] = -1
        PROVE  frac'[i] <= size * weights[j] - T * (counts'[j] - 1)
    <3>1. i # b /\ frac'[i] = frac[i] /\ frac[i] <= frac[b]
      BY <1>2, <1>9, <2>1
    <3>2. CASE j = b
      BY <1>12, <3>1, <3>2, Zenon
    <3>3. CASE j # b
      BY <1>1, <1>9, <2>1, <3>1, <3>3, Zenon DEF LargestFirst, n, T
    <3>4. QED
      BY <3>2, <3>3
  <2>2. QED
    BY <1>3, <1>5, <2>1, Zenon DEF LargestFirst
<1>15. EnoughLeft'
  <2>1. Unused \in [1..n -> Int] /\ Unused[b] = frac[b]
    BY <1>2, <1>4 DEF Unused, n
  <2>2. Unused' = [Unused EXCEPT ![b] = 0]
    <3>1. Unused' = [i \in 1..n |-> IF frac'[i] < 0 THEN 0 ELSE frac'[i]]
      BY <1>5 DEF Unused
    <3>0. Unused = [i \in 1..n |-> IF frac[i] < 0 THEN 0 ELSE frac[i]]
      BY DEF Unused, n
    <3>2. \A i \in 1..n : Unused'[i] = IF i = b THEN 0 ELSE Unused[i]
      BY <1>2, <1>9, <3>0, <3>1
    <3>3. QED
      BY <2>1, <3>1, <3>2
  <2>3. Total(Unused', n) = Total(Unused, n) + 0 - Unused[b]
    <3>1. \A x \in Int :
             Total([Unused EXCEPT ![b] = x], n) = Total(Unused, n) + x - Unused[b]
      BY <1>2, <1>4, <2>1, SumsChanged
    <3>2. 0 \in Int
      OBVIOUS
    <3>3. QED
      BY <2>2, <3>1, <3>2, Zenon
  <2>4. Total(Unused, n) \in Int
    <3>1. n \in 0..n
      BY <1>4
    <3>2. QED
      BY <1>4, <2>1, <3>1, SumsDef DEF Total
  <2>5. size - assigned \in Int /\ size - assigned' = (size - assigned) - 1
    <3>1. size \in Int /\ assigned \in Int /\ assigned' = assigned + 1
      BY <1>3, <1>4, <1>7
    <3>2. \A i, j \in Int : i - j \in Int /\ i - (j + 1) = (i - j) - 1
      OBVIOUS
    <3>3. QED
      BY <3>1, <3>2, Zenon
  <2> DEFINE u == Total(Unused, n)  d == size - assigned  p == T * d
  <2>6. p <= u
    BY <1>1 DEF EnoughLeft, n, T
  <2>7. T * (d - 1) = p - T /\ p \in Int
    <3>1. d \in Int
      BY <2>5
    <3> HIDE DEF d
    <3>2. QED
      BY <1>6, <3>1
  <2>8. T * (size - assigned') = p - T
    BY <2>5, <2>7, Zenon
  <2>9. Total(Unused', n) = u - frac[b]
    BY <1>8, <2>1, <2>3, <2>4
  <2>10. u \in Int /\ T \in Int
    BY <1>6, <2>4
  <2> HIDE DEF u, p
  <2>11. p - T <= u - frac[b]
    BY <1>8, <2>6, <2>7, <2>10
  <2>12. T * (size - assigned') <= Total(Unused', n)
    BY <2>8, <2>9, <2>11, Zenon
  <2>13. QED
    BY <1>3, <1>5, <2>12, Zenon DEF EnoughLeft
<1>16. assigned' <= size
  BY <1>1, <1>3, <1>4, <1>7
<1>17. ShardTypeOK'
  BY <1>3, <1>4, <1>9, <1>16 DEF ShardTypeOK, ShardInv, n, Crew
<1>18. QED
  BY <1>1, <1>3, <1>11, <1>13, <1>14, <1>15, <1>16, <1>17 DEF ShardInv, NoShards

(* The shards have run, and their throughputs are recorded. *)
LEMMA RunStep ==
    ASSUME ShardInv, NEW c \in SUBSET Nodes, NEW rate \in [Nodes -> Rates], RunShards(c, rate)
    PROVE  ShardInv'
<1>1. /\ phase' = "idle" /\ team' = <<>> /\ size' = 0
      /\ counts' = <<>> /\ frac' = <<>> /\ assigned' = 0
      /\ \/ tp' = tp
         \/ tp' = [w \in Nodes |-> IF w \in c THEN Smooth(tp[w], rate[w]) ELSE tp[w]]
  BY DEF RunShards
<1>2. ASSUME NEW w \in Nodes
      PROVE  /\ tp'[w] \in Nat
             /\ tp'[w] = 0 \/ \E lo, hi \in Rates : lo <= tp'[w] /\ tp'[w] <= hi
  <2>1. /\ tp[w] \in Nat /\ rate[w] \in Rates /\ rate[w] \in Nat \ {0}
        /\ tp[w] = 0 \/ \E lo, hi \in Rates : lo <= tp[w] /\ tp[w] <= hi
    BY ShardingAssumption DEF ShardInv, ShardTypeOK
  <2>2. CASE tp'[w] = tp[w]
    BY <2>1, <2>2
  <2>3. CASE tp'[w] = Smooth(tp[w], rate[w])
    <3> DEFINE s == Smooth(tp[w], rate[w])
    <3>1. /\ s \in Nat
          /\ tp[w] = 0 => s = rate[w]
          /\ tp[w] # 0 /\ tp[w] <= rate[w] => tp[w] <= s /\ s <= rate[w]
          /\ tp[w] # 0 /\ rate[w] <= tp[w] => rate[w] <= s /\ s <= tp[w]
      BY <2>1, SmoothMeasured
    <3> HIDE DEF s
    <3>2. CASE tp[w] = 0
      BY <2>1, <3>1, <3>2, <2>3 DEF s
    <3>3. CASE tp[w] # 0
      <4>1. PICK lo \in Rates, hi \in Rates : lo <= tp[w] /\ tp[w] <= hi
        BY <2>1, <3>3
      <4>2. lo \in Nat /\ hi \in Nat
        BY ShardingAssumption
      <4>3. CASE tp[w] <= rate[w]
        <5>1. lo <= s /\ s <= rate[w]
          BY <2>1, <3>1, <3>3, <4>1, <4>2, <4>3
        <5>2. QED
          BY <2>1, <2>3, <3>1, <5>1 DEF s
      <4>4. CASE rate[w] <= tp[w]
        <5>1. rate[w] <= s /\ s <= hi
          BY <2>1, <3>1, <3>3, <4>1, <4>2, <4>4
        <5>2. QED
          BY <2>1, <2>3, <3>1, <5>1 DEF s
      <4>5. QED
        BY <2>1, <4>3, <4>4
    <3>4. QED
      BY <3>2, <3>3
  <2>4. QED
    BY <1>1, <2>2, <2>3
<1>3. tp' \in [Nodes -> Nat]
  BY <1>1, <1>2 DEF ShardInv
<1>4. QED
  BY <1>1, <1>2, <1>3 DEF ShardInv, ShardTypeOK, NoShards

(* Starting a job, each turn of the loop, its end and the shards' runs     *)
(* preserve it.                                                            *)
LEMMA ShardStep == ShardInv /\ [ShardNext]_shardVars => ShardInv'
<1> SUFFICES ASSUME ShardInv, [ShardNext]_shardVars PROVE ShardInv'
  OBVIOUS
<1>1. ASSUME UNCHANGED <<tp, team, size, weights, counts, frac, assigned>>
      PROVE  /\ ShardArrays => ShardArrays'
             /\ ExactShares => ExactShares'
             /\ LargestFirst => LargestFirst'
             /\ EnoughLeft => EnoughLeft'
  <2>1. Crew' = Crew /\ AllWeights' = AllWeights /\ Unused' = Unused
    BY <1>1 DEF Crew, AllWeights, Unused
  <2>2. ShardArrays => ShardArrays'
    BY <1>1, <2>1 DEF ShardArrays
  <2>3. ExactShares => ExactShares'
    BY <1>1, <2>1, Zenon DEF ExactShares
  <2>4. LargestFirst => LargestFirst'
    BY <1>1, <2>1, Zenon DEF LargestFirst
  <2>5. EnoughLeft => EnoughLeft'
    BY <1>1, <2>1, Zenon DEF EnoughLeft
  <2>6. QED
    BY <2>2, <2>3, <2>4, <2>5
<1>2. CASE Stop
  <2>1. phase = "rest" /\ ShardArrays /\ assigned >= size /\ assigned <= size
    BY <1>2 DEF Stop, ShardInv
  <2>2. assigned \in Int /\ size \in Int
    <3>1. Crew \in Nat /\ counts \in [1..Crew -> Int]
      BY <2>1 DEF ShardArrays, Crew
    <3>2. Sums(counts, Crew) \in [0..Crew -> Int] /\ Crew \in 0..Crew
      BY <3>1, SumsDef
    <3>3. assigned = Sums(counts, Crew)[Crew] /\ size \in Nat
      BY <2>1 DEF ShardArrays, Total
    <3>4. QED
      BY <3>2, <3>3
  <2>3. assigned = size
    BY <2>1, <2>2
  <2>4. QED
    BY <1>1, <1>2, <2>1, <2>3 DEF Stop, ShardInv, ShardTypeOK, NoShards
<1>3. CASE UNCHANGED shardVars
  BY <1>1, <1>3 DEF shardVars, ShardInv, ShardTypeOK, NoShards
<1>4. QED
  BY <1>2, <1>3, StartStep, HandOutStep, RunStep DEF ShardNext

(* The arrays of weightedShard agree with the exact shares at every turn   *)
(* of its loop.                                                            *)
THEOREM ShardInvariance == ShardSpec => []ShardInv
<1>1. QED
  BY ShardInitInv, ShardStep, PTL DEF ShardSpec

(* Never more inputs are handed out than there are, and an estimate lies   *)
(* between two throughputs that were measured.                             *)
THEOREM ShardTypeCorrect == ShardSpec => []ShardTypeOK
<1>1. ShardInv => ShardTypeOK
  BY DEF ShardInv
<1>2. QED
  BY ShardInvariance, <1>1, PTL

(* The shards of a job cut its inputs into consecutive pieces: every input *)
(* is in exactly one, however many workers and inputs there are.           *)
LEMMA ShardsPartition == ShardInv => ShardsPartitionInputs
<1> SUFFICES ASSUME ShardInv, phase = "sharded", NEW x \in 1..size
             PROVE  \E i \in DOMAIN team :
                       /\ x \in Shard(i)
                       /\ \A j \in DOMAIN team : x \in Shard(j) => i = j
  BY DEF ShardsPartitionInputs
<1> DEFINE n == Len(team)  A == Sums(counts, n)
<1>1. /\ n \in Nat /\ DOMAIN team = 1..n
      /\ counts \in [1..n -> Nat] /\ size = Total(counts, n)
  BY DEF ShardInv, ShardArrays, Crew
<1> HIDE DEF n
<1>2. A \in [0..n -> Int] /\ \A k \in 1..n : A[k] = A[k - 1] + counts[k]
  <2>1. counts \in [1..n -> Int]
    BY <1>1
  <2>2. QED
    BY <1>1, <2>1, SumsDef
<1>3. PICK i \in 1..n :
         /\ A[i - 1] < x /\ x <= A[i]
         /\ \A j \in 1..n : A[j - 1] < x /\ x <= A[j] => i = j
  BY <1>1, SumsCut
<1> HIDE DEF A
<1>4. ASSUME NEW j \in 1..n
      PROVE  x \in Shard(j) <=> A[j - 1] < x /\ x <= A[j]
  <2>1. Shard(j) = (A[j - 1] + 1)..(A[j - 1] + counts[j])
    BY DEF Shard, A, n
  <2>2. A[j - 1] \in Int /\ A[j] \in Int /\ A[j] = A[j - 1] + counts[j] /\ counts[j] \in Int
    BY <1>1, <1>2
  <2>3. x \in Int
    OBVIOUS
  <2>4. QED
    BY <2>1, <2>2, <2>3
<1>5. QED
  BY <1>1, <1>3, <1>4

(* "the counts sum exactly to len(inputs)", preserving the order. *)
THEOREM PartitionCorrect == ShardSpec => []ShardsPartitionInputs
<1>1. QED
  BY ShardInvariance, ShardsPartition, PTL

(* What the largest remainders decide. *)
LEMMA SharesFair == ShardInv => ProportionalShares
<1> SUFFICES ASSUME ShardInv, phase = "sharded", NEW i \in DOMAIN team, NEW j \in DOMAIN team
             PROVE  /\ Gap(counts[i] * AllWeights, size * weights[i]) < AllWeights
                    /\ weights[i] > weights[j] => counts[i] >= counts[j]
  BY DEF ProportionalShares, AllWeights, Crew
<1> DEFINE T == AllWeights  ci == counts[i]  cj == counts[j]
           wi == size * weights[i]  wj == size * weights[j]
<1>1. /\ ShardArrays /\ ExactShares /\ LargestFirst
      /\ i \in 1..Crew /\ j \in 1..Crew /\ Crew \in Nat /\ Crew > 0
  BY DEF ShardInv, ShardArrays, Crew
<1>2. /\ ci \in Nat /\ cj \in Nat /\ size \in Nat \ {0}
      /\ weights[i] \in Nat /\ weights[j] \in Nat /\ frac[i] \in Int /\ frac[j] \in Int
  BY <1>1 DEF ShardArrays
<1>3. T \in Nat \ {0}
  BY <1>1, SomeWeight DEF ShardArrays, AllWeights
<1>4. wi \in Nat /\ wj \in Nat /\ (weights[i] > weights[j] => wi > wj)
  BY <1>2
<1>5. /\ \/ 0 <= frac[i] /\ frac[i] < T /\ wi = T * ci + frac[i]
         \/ frac[i] = -1 /\ T * (ci - 1) < wi /\ wi < T * ci
      /\ \/ 0 <= frac[j] /\ frac[j] < T /\ wj = T * cj + frac[j]
         \/ frac[j] = -1 /\ T * (cj - 1) < wj /\ wj < T * cj
      /\ frac[i] >= 0 /\ frac[j] = -1 => frac[i] <= wj - T * (cj - 1)
  BY <1>1, Zenon DEF ExactShares, LargestFirst
<1>6. /\ T * (ci - 1) = T * ci - T /\ T * (cj - 1) = T * cj - T
      /\ ci * T = T * ci /\ T * ci \in Nat /\ T * cj \in Nat
  BY <1>2, <1>3
<1>7. cj >= ci + 1 => T * cj >= T * ci + T
  <2>1. T * (ci + 1) = T * ci + T
    BY <1>2, <1>3
  <2>2. cj >= ci + 1 => T * cj >= T * (ci + 1)
    BY <1>2, <1>3
  <2>3. QED
    BY <2>1, <2>2, <1>2, <1>3
<1> DEFINE p == T * ci  q == T * cj
<1>8. /\ \/ 0 <= frac[i] /\ frac[i] < T /\ wi = p + frac[i]
         \/ frac[i] = -1 /\ p - T < wi /\ wi < p
      /\ \/ 0 <= frac[j] /\ frac[j] < T /\ wj = q + frac[j]
         \/ frac[j] = -1 /\ q - T < wj /\ wj < q
      /\ frac[i] >= 0 /\ frac[j] = -1 => frac[i] <= wj - (q - T)
      /\ cj >= ci + 1 => q >= p + T
      /\ p \in Nat /\ q \in Nat
  BY <1>5, <1>6, <1>7, Zenon
<1> HIDE DEF p, q, wi, wj, T, ci, cj
<1>9. p < wi + T /\ wi < p + T
  BY <1>2, <1>3, <1>4, <1>8
<1>10. wi > wj => ci >= cj
  BY <1>2, <1>3, <1>4, <1>8
<1>11. Gap(ci * T, wi) < T
  <2>1. Gap(p, wi) < T
    BY <1>3, <1>4, <1>8, <1>9 DEF Gap
  <2>2. ci * T = p
    BY <1>6 DEF p
  <2>3. QED
    BY <2>1, <2>2
<1>12. QED
  BY <1>4, <1>10, <1>11 DEF wi, T, ci, cj

(* No worker is an input or more off its exact share, and a faster one     *)
(* never has fewer inputs: for any throughputs, not only the ones of a     *)
(* small model.                                                            *)
THEOREM SharesCorrect == ShardSpec => []ProportionalShares
<1>1. QED
  BY ShardInvariance, SharesFair, PTL

-----------------------------------------------------------------------------
(* The four together. *)

JobInv == CompanionsInv /\ UploadInv /\ SerialInv /\ ShardInv

(* A step of the composition is a step of each of the four, or leaves it   *)
(* alone.                                                                  *)
THEOREM JobInvariance == JobSpec => []JobInv
<1>1. JobInit => JobInv
  BY CompanionsInitInv, UploadInitInv, SerialInitInv, ShardInitInv DEF JobInit, JobInv
<1>2. [JobNext]_<<vars, uploadVars, serialVars, shardVars>> =>
         /\ [Next]_vars /\ [UploadNext]_uploadVars
         /\ [SerialNext]_serialVars /\ [ShardNext]_shardVars
  BY DEF JobNext
<1>3. CompanionsInv /\ [Next]_vars => CompanionsInv'
  BY CompanionsTypeStep, CourseStep DEF CompanionsInv, Course
<1>4. JobInv /\ [JobNext]_<<vars, uploadVars, serialVars, shardVars>> => JobInv'
  BY <1>2, <1>3, UploadStep, SerialStep, ShardStep DEF JobInv
<1>5. QED
  BY <1>1, <1>4, PTL DEF JobSpec

(* Companions, transfers, processes and shards of a job keep their types:  *)
(* in particular no more inputs are handed out than the job has.           *)
THEOREM JobTypeCorrect == JobSpec => []JobTypeOK
<1>1. JobInv => JobTypeOK
  BY DEF JobInv, JobTypeOK, CompanionsInv, UploadInv, SerialInv, ShardInv
<1>2. QED
  BY JobInvariance, <1>1, PTL
=============================================================================
