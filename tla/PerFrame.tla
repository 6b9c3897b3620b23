------------------------------ MODULE PerFrame ------------------------------
(***************************************************************************)
(* One per-frame operation of a group (calibration, registration, ...) as  *)
(* the shim runs it: captureAndDistribute and the fallback of wrapQueue    *)
(* (WBPPShim.js), against the agent's distributeJob and runWorkerShard     *)
(* (distribute.go).  The server processes its own frames while the workers *)
(* process theirs; both lanes leave their outputs in the same directory,   *)
(* and the shim decides by looking which files exist there.                *)
(*                                                                         *)
(* A file is abstracted to where its content comes from.  The split of the *)
(* frames and the placement of the client frames on workers are arbitrary. *)
(***************************************************************************)
EXTENDS FiniteSets

CONSTANTS Frames,      \* group.activeFrames()
          Workers,     \* the registry entries the agent gives the job
          Leftovers,   \* frames that may have an output of an earlier run
          None         \* no worker

ASSUME PerFrameAssumption ==
    /\ Frames # {}
    /\ Leftovers \subseteq Frames
    /\ None \notin Workers

VARIABLES
    pc,        \* where operation.run is
    peer,      \* what the handshake meets behind each registry entry
    client,    \* the frames of the cluster's share
    place,     \* the worker of each frame in a shard
    job,       \* the ctl distribute process and its report
    agent,     \* the agent's handler of that request
    lane,      \* runWorkerShard, per worker
    xfer,      \* DownloadFile, per frame
    fetched,   \* frames with an OutputRecord of a download
    verified,  \* those whose record says verified
    out,       \* the expected output file of each frame
    tried,     \* frames the server ran itself
    status,    \* what the operation told WBPP about each frame
    fellback   \* the native run took over

vars == <<pc, peer, client, place, job, agent, lane, xfer, fetched, verified, out, tried, status, fellback>>

clusterVars == <<peer, place, job, agent, lane, xfer, fetched, verified>>
serverVars  == <<pc, client, tried, status, fellback>>

Files == {"none",    \* no file
          "stale",   \* written by an earlier run
          "new",     \* the output of this operation
          "torn",    \* truncated, and not written to its end
          "other"}   \* not what the worker's result announced

Peers == {"ok",
          "down",    \* not reached: off, or restarted under another node id
          "older"}   \* another WBPP, PixInsight or protocol version

Transfers == {"none",
              "received",  \* cs.do has returned the whole body
              "open",      \* os.WriteFile has truncated the file
              "cut"}       \* the agent ended while it wrote

InFlight == {f \in Frames : xfer[f] \in {"received", "open"}}

ShardOf(w) == {f \in Frames : place[f] = w}

(* installShim found workers and wrapped the queue: the operation's run is *)
(* about to be called.  An output may be left over from an earlier run.    *)
Init ==
    /\ pc = "start"
    /\ peer \in [Workers -> Peers]
    /\ client = {}
    /\ place = [f \in Frames |-> None]
    /\ job = "none" /\ agent = "idle"
    /\ lane = [w \in Workers |-> "todo"]
    /\ xfer = [f \in Frames |-> "none"]
    /\ fetched = {} /\ verified = {}
    /\ \E S \in SUBSET Leftovers :
          out = [f \in Frames |-> IF f \in S THEN "stale" ELSE "none"]
    /\ tried = {}
    /\ status = [f \in Frames |-> "active"]
    /\ fellback = FALSE

-----------------------------------------------------------------------------
(* The server lane. *)

(* P.executeGlobal() (external) over targets: it writes the outputs made.  *)
Execute(targets, made) ==
    /\ made \subseteq targets
    /\ out' = [f \in Frames |-> IF f \in made THEN "new" ELSE out[f]]
    /\ tried' = tried \cup targets

(* Groups that are not distributed, and errors up to distributeAsync. *)
StayNative ==
    /\ pc = "start"
    /\ pc' = "native" /\ fellback' = TRUE
    /\ UNCHANGED <<client, out, tried, status, clusterVars>>

(* Up to the container the operation's own run threw, had nothing to add   *)
(* (all frames cached), or added another process first.                    *)
CaptureFails ==
    /\ pc = "start"
    /\ pc' = "native" /\ fellback' = TRUE
    /\ UNCHANGED <<client, out, tried, status, clusterVars>>

(* serverCount frames stay here, the rest goes to distributeAsync. *)
Split(c) ==
    /\ pc = "start"
    /\ client' = c
    /\ job' = IF c # {} THEN "out" ELSE "none"
    /\ agent' = IF c # {} THEN "asked" ELSE "idle"
    /\ pc' = "server"
    /\ UNCHANGED <<peer, place, lane, xfer, fetched, verified, out, tried, status, fellback>>

(* An exception of executeGlobal reaches the catch of wrapQueue, which runs *)
(* the operation natively; the ctl process, if any, is left running.       *)
RunServerShard(made, throws) ==
    /\ pc = "server"
    /\ Execute(Frames \ client, made)
    /\ throws => client # Frames
    /\ pc' = IF throws THEN "native" ELSE "join"
    /\ fellback' = throws
    /\ UNCHANGED <<client, status, clusterVars>>

\* Defect: the shim does not wait for the report.
JoinEarly ==
    /\ pc = "join" /\ job # "error"
    /\ pc' = "check"
    /\ UNCHANGED <<client, out, tried, status, fellback, clusterVars>>

(* distributeWait returns a report. *)
Join ==
    /\ pc = "join"
    /\ job \in {"none", "reported"}
    /\ pc' = "check"
    /\ UNCHANGED <<client, out, tried, status, fellback, clusterVars>>

(* distributeWait throws: every client frame is run here. *)
JoinFailed(made, throws) ==
    /\ pc = "join"
    /\ job = "error"
    /\ Execute(client, made)
    /\ pc' = IF throws THEN "native" ELSE "check"
    /\ fellback' = throws
    /\ UNCHANGED <<client, status, clusterVars>>

Missing == {f \in client : out[f] = "none"}

\* Defect: one missing frame has the whole client share run again.
MissingRunsAll(made) ==
    /\ pc = "check"
    /\ IF Missing # {} /\ Missing # client
       THEN Execute(client, made)
       ELSE made = {} /\ UNCHANGED <<out, tried>>
    /\ pc' = "settle"
    /\ UNCHANGED <<client, status, fellback, clusterVars>>

(* A partial shortfall is run here; an exception is swallowed. *)
RunMissing(made) ==
    /\ pc = "check"
    /\ IF Missing # {} /\ Missing # client
       THEN Execute(Missing, made)
       ELSE made = {} /\ UNCHANGED <<out, tried>>
    /\ pc' = "settle"
    /\ UNCHANGED <<client, status, fellback, clusterVars>>

\* Defect: processingFailed is not called for a missing output.
SettleSilently ==
    /\ pc = "settle"
    /\ status' = [f \in Frames |-> IF out[f] # "none" THEN "ok" ELSE status[f]]
    /\ pc' = "done"
    /\ UNCHANGED <<client, out, tried, fellback, clusterVars>>

(* The file is there: processingSucceeded, else processingFailed. *)
Settle ==
    /\ pc = "settle"
    /\ status' = [f \in Frames |-> IF out[f] # "none" THEN "ok" ELSE "failed"]
    /\ pc' = "done"
    /\ UNCHANGED <<client, out, tried, fellback, clusterVars>>

(* The operation's own run (external): all frames, judged by its outcome. *)
RunNative(made) ==
    /\ pc = "native"
    /\ Execute(Frames, made)
    /\ status' = [f \in Frames |-> IF f \in made THEN "ok" ELSE "failed"]
    /\ pc' = "done"
    /\ UNCHANGED <<client, fellback, clusterVars>>

-----------------------------------------------------------------------------
(* The cluster lane: the agent's distributeJob, and the ctl process that   *)
(* waits for its answer.                                                   *)

Reachable == {w \in Workers : peer[w] # "down"}

(* The handler answers with an error, which ctl writes if it is still      *)
(* there.                                                                  *)
AnswerError ==
    /\ agent' = "ended"
    /\ job' = "error"
    /\ UNCHANGED <<serverVars, peer, place, lane, xfer, fetched, verified, out>>

(* No worker was seen for 20 s, or the output directory is unusable. *)
JobFails == agent = "asked" /\ AnswerError

(* Entries that do not answer are skipped, one with another version ends   *)
(* the job (Force is never set by the shim).                               *)
Refuse ==
    /\ agent = "asked"
    /\ Reachable = {} \/ \E w \in Reachable : peer[w] = "older"
    /\ AnswerError

\* Defect: the shards are cut from the registry, not from who answered,
\* and an upload to nobody counts as a failed shard.
HandshakeAll(p) ==
    /\ agent = "asked"
    /\ p \in [client -> Workers]
    /\ place' = [f \in Frames |-> IF f \in client THEN p[f] ELSE None]
    /\ agent' = "running"
    /\ UNCHANGED <<serverVars, peer, job, lane, xfer, fetched, verified, out>>

(* weightedShard over the entries that answered. *)
Handshake(p) ==
    /\ agent = "asked"
    /\ \A w \in Reachable : peer[w] = "ok"
    /\ p \in [client -> Reachable]
    /\ place' = [f \in Frames |-> IF f \in client THEN p[f] ELSE None]
    /\ agent' = "running"
    /\ UNCHANGED <<serverVars, peer, job, lane, xfer, fetched, verified, out>>

(* ctl ends without a report: killed, or it cannot write the file.  The    *)
(* agent learns of it from the closed connection, some time later.         *)
CtlDies ==
    /\ job = "out"
    /\ job' = "error"
    /\ UNCHANGED <<serverVars, peer, place, agent, lane, xfer, fetched, verified, out>>

(* The request's context is cancelled: cs.do returns an error from now on, *)
(* but a DownloadFile that has its answer looks at the context no more.    *)
ContextDone ==
    /\ job = "error" /\ agent \in {"asked", "running"}
    /\ agent' = "ended"
    /\ UNCHANGED <<serverVars, peer, place, job, lane, xfer, fetched, verified, out>>

(* The agent process ends, and ctl with an error.  A file it had open      *)
(* stays as it is.                                                         *)
AgentEnds ==
    /\ agent \in {"asked", "running"} \/ InFlight # {}
    /\ agent' = "ended"
    /\ job' = IF job = "out" THEN "error" ELSE job
    /\ xfer' = [f \in Frames |-> IF xfer[f] = "open" THEN "cut"
                                 ELSE IF xfer[f] = "received" THEN "none" ELSE xfer[f]]
    /\ UNCHANGED <<serverVars, peer, place, lane, fetched, verified, out>>

(* shardError: an upload, the work, or one unreadable output failed.       *)
ShardFails(w) ==
    /\ agent = "running" /\ ShardOf(w) # {}
    /\ lane[w] = "todo"
    /\ lane' = [lane EXCEPT ![w] = "failed"]
    /\ UNCHANGED <<serverVars, peer, place, job, agent, xfer, fetched, verified, out>>

ShardWorked(w) ==
    /\ agent = "running" /\ ShardOf(w) # {}
    /\ lane[w] = "todo"
    /\ lane' = [lane EXCEPT ![w] = "download"]
    /\ UNCHANGED <<serverVars, peer, place, job, agent, xfer, fetched, verified, out>>

(* runWorkerShard takes its outputs one by one. *)
NextDownload(f) ==
    /\ agent = "running"
    /\ f \in client \ fetched
    /\ lane[place[f]] = "download"
    /\ ShardOf(place[f]) \cap InFlight = {}

Receive(f) ==
    /\ NextDownload(f)
    /\ xfer' = [xfer EXCEPT ![f] = "received"]
    /\ UNCHANGED <<serverVars, peer, place, job, agent, lane, fetched, verified, out>>

(* os.WriteFile truncates the file before it writes. *)
OpenOutput(f) ==
    /\ xfer[f] = "received"
    /\ xfer' = [xfer EXCEPT ![f] = "open"]
    /\ out' = [out EXCEPT ![f] = "torn"]
    /\ UNCHANGED <<serverVars, peer, place, job, agent, lane, fetched, verified>>

\* Defect: a download leaves no record in the report.
Unrecorded(f) ==
    /\ xfer' = [xfer EXCEPT ![f] = "none"]
    /\ UNCHANGED <<serverVars, peer, place, job, agent, lane, fetched>>

(* DownloadFile returned: the output gets its OutputRecord. *)
Record(f) ==
    /\ xfer' = [xfer EXCEPT ![f] = "none"]
    /\ fetched' = fetched \cup {f}
    /\ UNCHANGED <<serverVars, peer, place, job, agent, lane>>

Download(f) ==
    /\ xfer[f] = "open"
    /\ out' = [out EXCEPT ![f] = "new"]
    /\ verified' = verified \cup {f}
    /\ Record(f)

(* The request failed, or its answer cannot be unpacked or opened. *)
DownloadFails(f) ==
    /\ NextDownload(f) \/ xfer[f] = "received"
    /\ UNCHANGED <<out, verified>>
    /\ Record(f)

(* The write failed half way (os.WriteFile leaves what it wrote), or the   *)
(* file is not the one the worker's result announced: DownloadFile has     *)
(* written it by the time runWorkerShard compares hashes.                  *)
WriteFails(f, left) ==
    /\ xfer[f] = "open"
    /\ left \in {"torn", "other"}
    /\ out' = [out EXCEPT ![f] = left]
    /\ UNCHANGED verified
    /\ Record(f)

LaneDone(w) ==
    \/ ShardOf(w) = {}
    \/ lane[w] = "failed"
    \/ lane[w] = "download" /\ ShardOf(w) \subseteq fetched

(* wg.Wait returns and ctl, if it is still there, writes the report. *)
ReportJob ==
    /\ agent = "running"
    /\ \A w \in Workers : LaneDone(w)
    /\ agent' = "ended"
    /\ job' = IF job = "out" THEN "reported" ELSE job
    /\ UNCHANGED <<serverVars, peer, place, lane, xfer, fetched, verified, out>>

-----------------------------------------------------------------------------
Server ==
    \/ StayNative \/ CaptureFails \/ Join \/ Settle
    \/ \E c \in SUBSET Frames : Split(c)
    \/ \E made \in SUBSET Frames :
          \/ RunMissing(made) \/ RunNative(made)
          \/ \E throws \in BOOLEAN :
                RunServerShard(made, throws) \/ JoinFailed(made, throws)

Cluster ==
    \/ JobFails \/ Refuse \/ ReportJob
    \/ CtlDies \/ ContextDone \/ AgentEnds
    \/ \E p \in [client -> Workers] : Handshake(p)
    \/ \E w \in Workers : ShardFails(w) \/ ShardWorked(w)
    \/ \E f \in Frames :
          \/ Receive(f) \/ OpenOutput(f) \/ Download(f) \/ DownloadFails(f)
          \/ \E left \in Files : WriteFails(f, left)

(* The operation has returned and nothing of it runs any more. *)
Returned ==
    /\ pc = "done" /\ agent \in {"idle", "ended"} /\ InFlight = {}
    /\ UNCHANGED vars

Next == Server \/ Cluster \/ Returned

Spec == Init /\ [][Next]_vars

(* WBPP runs the operation to its end, and the agent's goroutines come to  *)
(* an end: the worker's timers bound the work, TCP keep-alive the rest.    *)
FairSpec == Spec /\ WF_vars(Server) /\ WF_vars(Cluster)
-----------------------------------------------------------------------------
TypeOK ==
    /\ pc \in {"start", "server", "join", "check", "settle", "native", "done"}
    /\ peer \in [Workers -> Peers] /\ client \subseteq Frames
    /\ place \in [Frames -> Workers \cup {None}]
    /\ job \in {"none", "out", "error", "reported"}
    /\ agent \in {"idle", "asked", "running", "ended"}
    /\ lane \in [Workers -> {"todo", "failed", "download"}]
    /\ xfer \in [Frames -> Transfers]
    /\ fetched \subseteq client /\ verified \subseteq fetched
    /\ out \in [Frames -> Files]
    /\ tried \subseteq Frames
    /\ status \in [Frames -> {"active", "ok", "failed"}]
    /\ fellback \in BOOLEAN

(* "any client frame whose expected output is missing gets processed       *)
(* locally (partial cluster shortfalls must never lose frames)"            *)
(* (WBPPShim.js:1455-1456), "No frame is ever lost" (support-kb.md:387):   *)
(* a frame is reported as failed only after the server tried it itself.    *)
NoFrameLost ==
    \A f \in Frames : status[f] = "failed" => f \in tried

(* "A corrupt or missing result is recomputed locally rather than          *)
(* accepted" (support-kb.md:508-509): a frame the operation reports as     *)
(* succeeded, with the report of the job at hand, has the output of this   *)
(* run.                                                                    *)
AcceptedIsGood ==
    \A f \in Frames :
        status[f] = "ok" /\ ~fellback /\ job = "reported" => out[f] = "new"

(* What the shim does recover: when the job ends in an error, or at least  *)
(* one client frame came back, every frame it reports as failed was run on *)
(* the server.  So "one bad peer never sinks the job" (distribute.go:90):  *)
(* an entry of the registry with nobody behind it, or a worker of another  *)
(* version, costs no frame; only a worker that shook hands can.            *)
PartialShortfallRecovered ==
    \A f \in Frames :
        status[f] = "failed" /\ f \notin tried
            => /\ f \in client /\ job = "reported"
               /\ peer[place[f]] = "ok"
               /\ \A g \in client : status[g] = "failed"

(* A frame a worker delivered is not run again on the server, unless the   *)
(* whole report was lost or the native run took over.                      *)
NoWorkRepeated ==
    verified \cap tried # {} => job = "error" \/ fellback

(* The job is not always over when the shim gives its verdict: the native  *)
(* run may have taken over, or ctl died while the agent was writing.  What *)
(* is exposed to a late download is the file of a frame that the server    *)
(* ran itself as well; a frame accepted on its worker's file, or out of a  *)
(* report that was read, is written by nobody any more.                    *)
AcceptedFileStable ==
    [][\A f \in Frames :
          status[f] = "ok" /\ out'[f] # out[f]
              => job # "reported" /\ f \in (client \cap tried) \ fetched]_vars

(* The operation returns with a verdict on every frame, whichever machine  *)
(* fails and wherever.                                                     *)
EveryFrameSettled ==
    <>(pc = "done" /\ \A f \in Frames : status[f] # "active")
=============================================================================
