-------------------------- MODULE PerFrame_proofs --------------------------
(***************************************************************************)
(* A distributed per-frame operation, for any number of frames and         *)
(* workers, any split and placement, and any failures of the cluster.      *)
(***************************************************************************)
EXTENDS PerFrame, TLAPS

(* Where operation.run is, and which path took it there. *)
Control ==
    /\ pc = "start" => client = {} /\ job = "none" /\ agent = "idle" /\ fetched = {}
    /\ pc = "native" => fellback
    /\ pc \in {"start", "server", "join", "check", "settle"} => ~fellback
    /\ pc # "done" => \A f \in Frames : status[f] = "active"

(* The ctl process is there if the cluster has frames, and is over when    *)
(* the shim has joined it.  Behind a report the agent writes no more;      *)
(* behind an error it may.                                                 *)
JobAwaited ==
    /\ job = "none" <=> agent = "idle"
    /\ job = "none" => client = {}
    /\ job = "reported" => agent = "ended"
    /\ job = "out" => agent \in {"asked", "running"}
    /\ pc \in {"check", "settle", "done"} /\ ~fellback => job \in {"none", "reported", "error"}
    /\ agent \in {"idle", "asked"} \/ job = "reported" => \A f \in Frames : xfer[f] = "none"
    /\ agent # "ended" => \A f \in Frames : xfer[f] # "cut"

(* A download under way is that of a client frame without a record, in a   *)
(* lane that has come to its downloads.                                    *)
Transferring ==
    \A f \in Frames : xfer[f] # "none" =>
        f \in client \ fetched /\ place[f] \in Workers /\ lane[place[f]] = "download"

(* Past the handshake every client frame is with a worker of this version. *)
Placed ==
    agent = "running" \/ job = "reported" =>
        \A f \in client : place[f] \in Workers /\ peer[place[f]] = "ok"

(* A verified output stays what it is: the server writes the same. *)
Delivered == \A f \in verified : out[f] = "new"

(* What the server has run itself by then. *)
ServerShare ==
    /\ pc \in {"start", "server"} => tried = {}
    /\ pc = "join" => tried = Frames \ client
    /\ pc \in {"check", "settle"} => Frames \ client \subseteq tried
    /\ pc \in {"check", "settle", "done"} /\ job = "error" => client \subseteq tried
    /\ pc = "done" /\ fellback => tried = Frames

(* A file that is still missing after the check was run here, or the       *)
(* report was empty: the case the shim leaves to processingFailed.         *)
MissingTried ==
    pc = "settle" => \A f \in Frames :
        out[f] = "none" /\ f \notin tried =>
            f \in client /\ job = "reported" /\ \A g \in client : out[g] = "none"

PerFrameInv ==
    /\ TypeOK /\ Control /\ JobAwaited /\ Transferring /\ Placed /\ Delivered /\ ServerShare /\ MissingTried
    /\ PartialShortfallRecovered /\ NoWorkRepeated

(* When operation.run is called nothing has been tried or delivered. *)
LEMMA InitInv == Init => PerFrameInv
<1> SUFFICES ASSUME Init PROVE PerFrameInv
  OBVIOUS
<1>1. fellback \in BOOLEAN
  BY Zenon DEF Init
<1>2. TypeOK
  BY <1>1 DEF Init, TypeOK, Files, Transfers
<1>3. Control /\ JobAwaited /\ Transferring /\ Placed /\ Delivered /\ ServerShare /\ MissingTried
  BY DEF Init, Control, JobAwaited, InFlight, Transferring, Placed, Delivered, ServerShare, MissingTried
<1>4. PartialShortfallRecovered /\ NoWorkRepeated
  BY DEF Init, PartialShortfallRecovered, NoWorkRepeated
<1> QED
  BY <1>2, <1>3, <1>4 DEF PerFrameInv

(* Every step of the server lane and of the cluster lane preserves it. *)
LEMMA InvStep == PerFrameInv /\ [Next]_vars => PerFrameInv'
<1> SUFFICES ASSUME PerFrameInv, [Next]_vars PROVE PerFrameInv'
  OBVIOUS
<1> USE PerFrameAssumption
    DEF PerFrameInv, TypeOK, Control, JobAwaited, InFlight, Transferring, Placed, Delivered, ServerShare,
        MissingTried, PartialShortfallRecovered, NoWorkRepeated, Files, Transfers, clusterVars, serverVars
<1>1. ASSUME StayNative PROVE PerFrameInv'
  BY <1>1 DEF StayNative
<1>2. ASSUME CaptureFails PROVE PerFrameInv'
  BY <1>2 DEF CaptureFails
<1>3. ASSUME Join PROVE PerFrameInv'
  BY <1>3 DEF Join
<1>4. ASSUME Settle PROVE PerFrameInv'
  BY <1>4 DEF Settle
<1>5. ASSUME NEW c \in SUBSET Frames, Split(c) PROVE PerFrameInv'
  BY <1>5 DEF Split
<1>6. ASSUME NEW made \in SUBSET Frames, RunMissing(made) PROVE PerFrameInv'
  BY <1>6 DEF RunMissing, Execute, Missing
<1>7. ASSUME NEW made \in SUBSET Frames, RunNative(made) PROVE PerFrameInv'
  BY <1>7 DEF RunNative, Execute
<1>8. ASSUME NEW made \in SUBSET Frames, NEW throws \in BOOLEAN, RunServerShard(made, throws) PROVE PerFrameInv'
  BY <1>8 DEF RunServerShard, Execute
<1>9. ASSUME NEW made \in SUBSET Frames, NEW throws \in BOOLEAN, JoinFailed(made, throws) PROVE PerFrameInv'
  BY <1>9 DEF JoinFailed, Execute
<1>10. ASSUME JobFails PROVE PerFrameInv'
  BY <1>10 DEF JobFails, AnswerError
<1>11. ASSUME Refuse PROVE PerFrameInv'
  BY <1>11 DEF Refuse, AnswerError
<1>12. ASSUME ReportJob PROVE PerFrameInv'
  BY <1>12 DEF ReportJob, LaneDone, ShardOf
<1>13. ASSUME NEW p \in [client -> Workers], Handshake(p) PROVE PerFrameInv'
  BY <1>13 DEF Handshake, Reachable
<1>14. ASSUME NEW w \in Workers, ShardFails(w) PROVE PerFrameInv'
  BY <1>14 DEF ShardFails
<1>15. ASSUME NEW w \in Workers, ShardWorked(w) PROVE PerFrameInv'
  BY <1>15 DEF ShardWorked
<1>16. ASSUME CtlDies PROVE PerFrameInv'
  BY <1>16 DEF CtlDies
<1>17. ASSUME ContextDone PROVE PerFrameInv'
  BY <1>17 DEF ContextDone
<1>18. ASSUME AgentEnds PROVE PerFrameInv'
  BY <1>18 DEF AgentEnds
<1>19. ASSUME NEW f \in Frames, Receive(f) PROVE PerFrameInv'
  BY <1>19 DEF Receive, NextDownload
<1>20. ASSUME NEW f \in Frames, OpenOutput(f) PROVE PerFrameInv'
  BY <1>20 DEF OpenOutput
<1>21. ASSUME NEW f \in Frames, Download(f) PROVE PerFrameInv'
  BY <1>21 DEF Download, Record
<1>22. ASSUME NEW f \in Frames, DownloadFails(f) PROVE PerFrameInv'
  BY <1>22 DEF DownloadFails, NextDownload, Record
<1>23. ASSUME NEW f \in Frames, NEW left \in Files, WriteFails(f, left) PROVE PerFrameInv'
  BY <1>23 DEF WriteFails, Record
<1>24. CASE UNCHANGED vars
  BY <1>24 DEF vars
<1> HIDE DEF PerFrameInv
<1> QED
  BY <1>1, <1>2, <1>3, <1>4, <1>5, <1>6, <1>7, <1>8, <1>9, <1>10, <1>11, <1>12, <1>13, <1>14, <1>15, <1>16, <1>17, <1>18,
     <1>19, <1>20, <1>21, <1>22, <1>23, <1>24 DEF Next, Server, Cluster, Returned

(* The two lanes of the operation and the outputs they share agree in      *)
(* every state it reaches.                                                 *)
THEOREM Invariance == Spec => []PerFrameInv
<1>1. QED
  BY InitInv, InvStep, PTL DEF Spec

(* The operation keeps its types; in particular a download has a record    *)
(* only for a frame of the cluster's share.                                *)
THEOREM TypeCorrect == Spec => []TypeOK
<1>1. PerFrameInv => TypeOK
  BY DEF PerFrameInv
<1>2. QED
  BY Invariance, <1>1, PTL

(* A frame reported as failed that the server did not run itself belongs   *)
(* to a share of which nothing came back, from workers that shook hands.   *)
THEOREM ShortfallCorrect == Spec => []PartialShortfallRecovered
<1>1. PerFrameInv => PartialShortfallRecovered
  BY DEF PerFrameInv
<1>2. QED
  BY Invariance, <1>1, PTL

(* The check for missing outputs runs no frame that a worker delivered. *)
THEOREM NoWorkRepeatedCorrect == Spec => []NoWorkRepeated
<1>1. PerFrameInv => NoWorkRepeated
  BY DEF PerFrameInv
<1>2. QED
  BY Invariance, <1>1, PTL

(* Only a download that is under way writes to an accepted frame: then the *)
(* report was not read, and the server has run the frame itself.           *)
LEMMA AcceptedStep ==
    ASSUME PerFrameInv, [Next]_vars, NEW f \in Frames, status[f] = "ok", out'[f] # out[f]
    PROVE  job # "reported" /\ f \in (client \cap tried) \ fetched
<1>1. pc = "done"
  BY DEF PerFrameInv, Control
<1>2. ASSUME xfer[f] \in {"received", "open"} PROVE job # "reported" /\ f \in (client \cap tried) \ fetched
  <2>1. job # "reported" /\ f \in client \ fetched
    BY <1>2 DEF PerFrameInv, JobAwaited, InFlight, Transferring
  <2>2. f \in tried
    BY <1>1, <2>1 DEF PerFrameInv, JobAwaited, ServerShare
  <2>3. QED
    BY <2>1, <2>2
<1>3. CASE Server
  BY <1>1, <1>3 DEF Server, StayNative, CaptureFails, Join, Settle, Split, RunMissing, RunNative,
     RunServerShard, JoinFailed
<1>4. CASE Cluster
  <2>1. ASSUME NEW g \in Frames,
               OpenOutput(g) \/ Download(g) \/ \E left \in Files : WriteFails(g, left)
        PROVE  xfer[f] \in {"received", "open"}
    BY <2>1 DEF OpenOutput, Download, WriteFails, PerFrameInv, TypeOK
  <2>2. QED
    BY <1>2, <1>4, <2>1 DEF Cluster, JobFails, Refuse, AnswerError, ReportJob, CtlDies, ContextDone,
       AgentEnds, Handshake, ShardFails, ShardWorked, Receive, DownloadFails
<1>5. CASE UNCHANGED vars
  BY <1>5 DEF vars
<1> QED
  BY <1>3, <1>4, <1>5 DEF Next, Returned

(* Whoever dies and whichever run took over, a frame that was accepted on  *)
(* its worker's file, or with the report at hand, keeps that file.         *)
THEOREM AcceptedFileCorrect == Spec => AcceptedFileStable
<1>1. PerFrameInv /\ [Next]_vars =>
        [\A f \in Frames : status[f] = "ok" /\ out'[f] # out[f]
            => job # "reported" /\ f \in (client \cap tried) \ fetched]_vars
  BY AcceptedStep
<1>2. QED
  BY Invariance, <1>1, PTL DEF Spec, AcceptedFileStable

-----------------------------------------------------------------------------
(* What holds although AcceptedIsGood does not: where a file that is not   *)
(* this run's output can come from, and how Settle judges it.              *)
Origins ==
    /\ \A f \in Frames : out[f] = "stale" => f \in Leftovers
    /\ \A f \in Frames : out[f] = "torn" => f \in fetched \ verified \/ xfer[f] \in {"open", "cut"}
    /\ \A f \in Frames : out[f] = "other" => f \in fetched \ verified
    /\ pc = "done" /\ ~fellback =>
          \A f \in Frames :
             /\ status[f] = "ok" => out[f] # "none"
             /\ job # "error" => status[f] = IF out[f] # "none" THEN "ok" ELSE "failed"

(* processingSucceeded is called for a file that is not this run's output  *)
(* only if an earlier run left it, or if the agent's record of that frame  *)
(* says it is unverified, or if there is no report and the agent was       *)
(* writing the file; and every frame of which the report that was read has *)
(* a verified record is accepted, with the worker's output.                *)
BadFilesOnRecord ==
    pc = "done" /\ ~fellback =>
        \A f \in Frames :
            /\ f \in verified /\ job = "reported" => status[f] = "ok" /\ out[f] = "new"
            /\ status[f] = "ok" /\ out[f] # "new"
                  => \/ f \in Leftovers \/ f \in fetched \ verified
                     \/ job = "error" /\ xfer[f] \in {"open", "cut"}

(* Every step of either lane keeps the origins. *)
LEMMA OriginsStep == PerFrameInv /\ Origins /\ [Next]_vars => Origins'
<1> SUFFICES ASSUME PerFrameInv, Origins, [Next]_vars PROVE Origins'
  OBVIOUS
<1>0. TypeOK /\ Control /\ JobAwaited /\ Transferring /\ Delivered
  BY DEF PerFrameInv
<1> USE <1>0 DEF Origins, clusterVars, serverVars
<1>1. ASSUME StayNative \/ CaptureFails \/ Join PROVE Origins'
  BY <1>1 DEF StayNative, CaptureFails, Join
<1>2. ASSUME Settle PROVE Origins'
  BY <1>2 DEF Settle
<1>3. ASSUME NEW c \in SUBSET Frames, Split(c) PROVE Origins'
  BY <1>3 DEF Split
<1>4. ASSUME NEW targets, NEW made \in SUBSET Frames, Execute(targets, made),
             UNCHANGED <<fetched, verified, xfer>>, pc' = "done" => fellback'
      PROVE  Origins'
  BY <1>4 DEF Execute
<1>5. ASSUME NEW made \in SUBSET Frames, RunMissing(made) PROVE Origins'
  <2>1. UNCHANGED <<fetched, verified, xfer>> /\ pc' = "settle"
    BY <1>5 DEF RunMissing
  <2>2. Execute(Missing, made) \/ UNCHANGED out
    BY <1>5 DEF RunMissing
  <2>3. CASE Execute(Missing, made)
    BY <1>4, <2>1, <2>3
  <2>4. CASE UNCHANGED out
    BY <2>1, <2>4
  <2>5. QED
    BY <2>2, <2>3, <2>4
<1>6. ASSUME NEW made \in SUBSET Frames, RunNative(made) PROVE Origins'
  BY <1>4, <1>6 DEF RunNative, Control
<1>7. ASSUME NEW made \in SUBSET Frames, NEW throws \in BOOLEAN, RunServerShard(made, throws)
      PROVE  Origins'
  BY <1>4, <1>7 DEF RunServerShard
<1>8. ASSUME NEW made \in SUBSET Frames, NEW throws \in BOOLEAN, JoinFailed(made, throws)
      PROVE  Origins'
  BY <1>4, <1>8 DEF JoinFailed
<1>9. ASSUME UNCHANGED <<serverVars, out, fetched, verified, xfer>>,
             pc = "done" /\ ~fellback /\ job' # "error" => job # "error"
      PROVE  Origins'
  BY <1>9
<1>10. ASSUME JobFails \/ Refuse \/ ReportJob \/ CtlDies \/ ContextDone PROVE Origins'
  BY <1>9, <1>10 DEF JobFails, Refuse, AnswerError, ReportJob, CtlDies, ContextDone, JobAwaited
<1>11. ASSUME AgentEnds PROVE Origins'
  BY <1>11 DEF AgentEnds, TypeOK, Transfers
<1>12. ASSUME NEW f \in Frames, Receive(f) PROVE Origins'
  BY <1>12 DEF Receive, NextDownload, TypeOK, Transferring, JobAwaited, ShardOf, InFlight
<1>13. ASSUME NEW f \in Frames, xfer[f] \in {"received", "open"}
       PROVE  f \notin verified /\ (pc = "done" /\ ~fellback => job = "error")
  BY <1>13 DEF TypeOK, Transferring, JobAwaited, InFlight
<1>14. ASSUME NEW f \in Frames, OpenOutput(f) PROVE Origins'
  BY <1>13, <1>14 DEF OpenOutput, TypeOK
<1>15. ASSUME NEW f \in Frames, Download(f) PROVE Origins'
  BY <1>13, <1>15 DEF Download, Record, TypeOK
<1>16. ASSUME NEW f \in Frames, DownloadFails(f) PROVE Origins'
  BY <1>16 DEF DownloadFails, NextDownload, Record, TypeOK, Transferring
<1>17. ASSUME NEW f \in Frames, NEW left \in Files, WriteFails(f, left) PROVE Origins'
  BY <1>13, <1>17 DEF WriteFails, Record, TypeOK
<1>18. CASE UNCHANGED vars
  BY <1>18 DEF vars
<1>19. ASSUME NEW w \in Workers, ShardFails(w) \/ ShardWorked(w) PROVE Origins'
  BY <1>9, <1>19 DEF ShardFails, ShardWorked
<1>20. ASSUME NEW p \in [client -> Workers], Handshake(p) PROVE Origins'
  BY <1>9, <1>20 DEF Handshake
<1> HIDE DEF Origins
<1>21. QED
  BY <1>1, <1>2, <1>3, <1>5, <1>6, <1>7, <1>8, <1>10, <1>11, <1>12, <1>14, <1>15, <1>16, <1>17, <1>18, <1>19, <1>20
     DEF Next, Server, Cluster, Returned

(* The exact extent of what File.exists lets through: whatever fails, a    *)
(* frame that is accepted without this run's output has a leftover, an     *)
(* unverified record, or a write under way that nobody waits for.          *)
THEOREM BadFilesCorrect == Spec => []BadFilesOnRecord
<1>1. Init => Origins
  BY DEF Init, Origins
<1>2. PerFrameInv /\ Origins => BadFilesOnRecord
  BY DEF PerFrameInv, TypeOK, Files, Delivered, JobAwaited, InFlight, Transferring, Origins, BadFilesOnRecord
<1>3. QED
  BY <1>1, <1>2, Invariance, OriginsStep, PTL DEF Spec
=============================================================================
