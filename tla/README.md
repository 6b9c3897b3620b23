# TLA+ models of Distributed WBPP

Distributed WBPP spreads the work of PixInsight's WeightedBatchPreprocessing
(WBPP) script over the machines of a local network. These modules model the
protocol that does so: who computes what, who waits for whom, which file is
believed, and what happens when any of it fails. TLC checks them on small
instances; TLAPS proves every invariant and action property of them, and that
the agent implements an exclusive lease, for any number of requests, jobs,
workers, frames and launches. Liveness is left to TLC.

## 1. The system

    server machine                                 worker machine
    PixInsight                                     PixInsight
      WBPP + WBPPShim.js                             WorkerRuntime.js (timer)
        | SidecarBridge.js: ctl processes, files        | pull / report
        v                                               v
      agent sidecar (api.go, distribute.go)  --LAN-->  worker sidecar
        registry, leases, sharding, downloads          (transport.go, pullexecutor.go)

| Component | State it keeps | Operations | Interacts with |
|---|---|---|---|
| Pull queue (`pullexecutor.go`, `handleWork`, `WorkerRuntime.js`) | `pending` channel of 64 manifests, `waiting` (job id -> result channel), the script's busy flag | `Process`, `handlePull`, `handleResult`, the timer loop | `/lan/work` requests of a server on one side, the PixInsight script on the other |
| Agent (`api.go`) | `busy` set of leased workers | `handleDistribute`, `acquireWorker`, `releaseWorker` | registry snapshots; one goroutine per request |
| Job (`distribute.go`) | shards, per-worker lanes, the report | `distributeJob`, `runWorkerShard` | uploads, `SendWork`, downloads into the output directory |
| Per-frame shim (`captureAndDistribute`, `wrapQueue`) | the split, the ctl handle, the files in the output directory | capture, split, server lane, join, local recovery, verdicts | the agent through a ctl process; WBPP's operation queue |
| Whole-job batches (`dispatchIntegrationBatch` and its siblings) | `__clusterDone`, `__clusterStatus` memos, handles of the jobs that are out | gather, capture, local, join, finalize | WBPP's queue; the agent's leases |
| Measurements (`distributeMeasurements`) | descriptors attached to frames | split, measure, join rows, leftovers | WBPP's `computeDescriptors` |
| Upload (`UploadFileCached`, `handleHave`, `handleUpload`) | `<name>.part`, `<name>` in the worker's data directory | hash query, upload, rename | PixInsight reads `<name>` |
| Load balancing (`__serverCount`, `__learnCosts`) | smoothed cost per frame and lane, a global share | split, learn | the per-frame shim |
| Sharding (`weighting.go`) | `workerTP`, throughput per worker | `weightedShard`, `recordThroughput` | `distributeJob` |
| Companion files (`captureAndDistribute`, `captureII`, `finalizeLightMaster`, `captureDrizzle`, `processJob`, `integrateFrames`, `drizzleIntegrate`) | a `.xdrz` and a `.xnml` per frame on every machine, the frames' attachments | register, normalize, integrate, drizzle, here or on a worker | by file name, judged by `File.exists` |
| Process rebuilding (`ProcessSerializer.js`, `WorkerRuntime.js`) | the description of a process, the instance rebuilt from it | serialize, write as JSON, validate, assign, rewrite paths, execute | one job |
| Sessions (`DistributedWBPP.js`, `SidecarBridge.js`, `main.go`) | key file, control port, client cache, download directories, the daemon process | pick a role, start, poll for workers, run WBPP, stop, clear | the next launch on the same machine |
| Discovery and registry (`discovery.go`) | nodes with the time they were last heard | beacons, expiry, static peers | the agent reads snapshots |
| Compression, security, CLI, dialogs and logs | | | not modelled, see section 7 |

What is hard here:

- A request lives in several processes at once. A timer, a dead ctl process or
  a closed connection ends one end of it and leaves the manifest in a queue or
  in PixInsight, while job ids and file names are reused by the next group.
- The registry snapshot a handler looks at is old by the time it takes a worker.
- Both lanes of an operation write into one directory, and the shim judges
  frames by which files exist.
- A batch runs operations before WBPP reaches them, and an exception anywhere
  in it drops the local variables that know which jobs are out.
- The estimates that decide the next split come from the last one.
- A frame's companion files travel between machines under one name, and an
  absent new file is replaced by whatever an earlier run left.
- The daemon is a process of its own: it can be slower than the script expects,
  fail after the script has seen it run, and outlive a crash of PixInsight.

`PROJECT.json` lists these hazards one by one, with the line where each bites
and the properties that would catch it.

## 2. Modules

| Module | Models | Correspondence |
|---|---|---|
| `PullExecutor` | worker's pull queue | one action per blocking point of `Process` (`Register`, `Enqueue`, `EnqueueTimeout`, `ReceiveResult`, `WaitTimeout`, `Return` with its deferred delete), `Pull`/`PullLost` for `handlePull`, `Report`/`ReportLost` for the script, `LookUp`/`Send` for the two halves of `handleResult` (under the lock and after it). `Abandon` is a server that no longer waits |
| `Exchange` | what `/lan/work` promises the server | abstract specification: `Ask`, `Refuse`, `Give`, `Answer`, `TimeOut`, `GiveUp`; it knows no queue, map or channel, only which manifests have left the queue and which result answered which request |
| `Lease` | what `acquireWorker`'s comment promises | abstract specification: `Grant`, `GiveBack` |
| `Agent` | control API and leases | `handleDistribute` step by step; `Poll` takes the snapshot, `Acquire`/`Sleep`/`GiveUp` are the locked half; `hosted` is what a worker still has after the agent gave up |
| `PerFrame` | one per-frame operation, both lanes | server actions in the order of `captureAndDistribute`; `Refuse`/`Handshake` for the handshake loop over registry entries behind which a compatible worker, another version or nobody answers; cluster actions of `distributeJob` and `runWorkerShard`. The ctl process (`job`), the agent's handler (`agent`) and each `DownloadFile` (`xfer`: `Receive`, `OpenOutput`, `Download`/`WriteFails`) end apart from each other: `CtlDies` makes `distributeWait` throw while the handler goes on, `ContextDone` stops new requests but not a download that has its answer, `AgentEnds` leaves an open file torn. A file is its origin (`none`, `stale`, `new`, `torn`, `other`) |
| `WholeJobBatch` | the batches of whole jobs | `Gather*` per family, `StartBatch`, the capture, local and join loops, `Finalize*` per family, `JoinFails` before, between and behind its write and the wiring (`Stages`), `Fallback` for the catch of the wrapped run |
| `Measurements` | distributed measurements | one action per call that can throw; on the cluster's side one `Upload` and one `Pull` per frame, which overwrite files of the same name on the worker's disk (`rows`) and in the output directory (`tmp`); `JoinReport` reads what is there. `Json` is what `JSON.stringify` makes of a row, `Usable` is `buildDescriptor`'s test |
| `Upload` | transfer of one file name | inodes and names: `os.Create` truncates whatever `.part` names, an open descriptor keeps its inode |
| `AdaptiveSplit` | split between server and cluster | `ServerCount`, `LearnCosts`, `Smooth`, in whole units and percent; each lane is measured with any of `Costs`, or not at all; `Unlearnt` is the split while a lane's cost is not known; `seen` remembers what was measured |
| `Sharding` | split over the workers | `StartJob`, one `HandOut` per turn of the remainder loop, `RunShards` with the new estimates; `Sums` are the running sums of its loops |
| `Companions` | registered images, `.xdrz` and `.xnml` files of a light group | `Register`, `Normalize`, `IntegrateHere`/`IntegrateAt`, `DrizzleHere`/`DrizzleAt`, and `RegisterCached`, `NormalizeCached`, `IntegrationCached` for what WBPP takes from its own cache; a drizzle file is its run, the machine its `<SourceImage>` names and whether it was updated. A frame is accepted, returned and given its `.xdrz` by the name of the file (`Returned`, `Collected`, `active`), so a file of an earlier run passes for this run's; `Rerun` is what the server runs itself; `Canonicalize` and `MarkFailed` are operators of their own |
| `ProcessSerializer` | a process on its way to a worker | `Serialize`, `Write` (JSON), `Pull` (validation), `Rebuild`/`RejectParameter`, `RejectField`, `Execute`, which points the instance at local files (`LocalFields`), sets the output names of the job (`naming`) and the switches of an unattended run (`Forced`: `overwriteExistingFiles` per frame, `showImages` in whole jobs, `generateDrizzleData` for calibration masters); a value is what these steps tell apart: default, set, not finite, not plain |
| `Session` | launches of the script on one machine | `main` and `start` step by step (`WriteKey`, `KillStale`, `Spawn`, `Settled`), `runServer`, `Stop`, `Clear`; `UserDirFails`, `LogDirFails` and `ServerThrows` for exceptions outside the `try` around `start()`; per launch a daemon with actions of its own; `Crash` at any point |

`MC*` modules give the constants their values. `MCShim` and `MCJob` each check
several components that share no state in one run: the specification is the
union of theirs, a behaviour is one of a single component while the others stay
in their initial state, so every component is explored exactly as it would be
alone. `*_proofs` modules hold the theorems (section 6): one for each component,
`Shim_proofs` for the modules of `MCShim`, `Job_proofs` for those of `MCJob`; the
two build on `Measurements_proofs` and `ProcessSerializer_proofs`.
Definitions under a comment
`\* Defect:` are plausible bugs; no specification uses them. Each shows, put in
the place of the definition it follows, that a property can fail.

The whole-job families (calibration frames, flats, lights, LN references,
drizzle) are separate functions in the shim with the same three loops.
`WholeJobBatch` has that skeleton once and keeps apart what differs: what is
gathered, what must exist first, what is finalized. The map in `PROJECT.json`
names the loop of one family for each skeleton action.

## 3. Runs

Sizes are distinct states.

| Run | Checks | Bounds and why they suffice |
|---|---|---|
| `pull` (684,560) | `RegisteredWhileWaiting`, `SendBlocksOnlyIfDisturbed`, the inductive `IInv` (with `OwnResultUnlessDisturbed`), `ImplementsExchange` | three requests: two share a job id, so a stale manifest can meet its successor, and one does not, so routing between ids shows; queue capacity 1, so that a second request finds it full |
| `pull_live` (5,064) | `EveryRequestAnswered`, `AnsweredWithoutTimer` | two requests with different ids at a queue of capacity 1: each can block the other; `pull` covers the reuse of an id |
| `pull_stale` | finding 1 | as `pull` |
| `frames` (858,437) | `PartialShortfallRecovered`, `NoWorkRepeated`, `AcceptedFileStable`, `EveryFrameSettled` | three frames, two registry entries with every combination of a compatible worker, another version and nobody behind them: every way to place frames on a server and two lanes, one of which has two frames and may deliver one; every order of the end of ctl, of the agent and of a download under way; two frames may have an output of an earlier run |
| `frames_lost`, `frames_corrupt` | findings 2 and 3 | as `frames` |
| `agent` (93,645) | `BusyIsLeased`, `OneAwaitedPerWorker`, `LeaseInv`, `ImplementsLease`, `EveryJobReturns` | two whole jobs and a sharded one for two workers, two registry changes, two empty polls before giving up |
| `shim` (514,071) | batches: `DoneMeansWired`, `ComputedOnce`, `PrerequisitesMet`, `OrphanedByThrow` | queues of the phases in which batches form (the 5 of `MCQueues`), three groups at most, every outcome of every call. A batch of three has a job out, one to be captured and one local at once |
| | measurements: `UnmeasuredWasTried`, `DescriptorIsOwn` | four frames on two workers: `x.fit` in two folders, `x.xisf` and `y.fit`, so that files, rows, row files and downloads of one name meet on one worker and across two |
| | split: `LanesFinishTogether`, `IdleOnEvidence` | two operations that share the global share, six groups of one, three or eight frames; a frame costs either lane 1 or 20 units, more than twice the largest group, so either lane can be the cheap one and be left with everything |
| `measure_finite` | finding 4 | as `shim` |
| `job` (1,264,375) | companions: `DrizzleReadsThisRun`, `SourceFound`, `StrangersAreOld` | three frames, the least a light batch takes, on a server and two workers, so that a file can be made on one worker and used on another; one frame meets leftovers and failures at every step, the others succeed, which keeps the group large enough to be sent; these two lie on one machine (`Places`), and an earlier run left the files of all frames on the server or of the exposed one anywhere |
| | upload: `StoredFileWhole`, `KeptOnlyByPackedFailure` | three uploads: two of equal content (the cache hit), one compressed, one of other content |
| | process: `ExecutedAsConfigured` | one parameter of each role (file reference, output directory, targets, number, table, output name, the three switches), any three of them not at their default (`MaxSet`), the four kinds of job, a worker that lacks any one of the parameters |
| | shards: `ShardsPartitionInputs`, `ProportionalShares` | up to three workers in each order, throughputs that make equal, larger and smaller remainders; the estimates are all those reachable from the rates |
| `session` (300,355) | `WBPPOnce`, `KeyFileGone`, `OutlivesOnlyCrash`, `CacheFresh`, `ServerGetsWBPP` | three launches: one that crashes, one that meets its leftovers, one that meets those of both; one poll for workers before the time is up |
| `session_leftover` | finding 5 | as `session` |

The bounds matter only for the five liveness properties and the five
counterexamples: every other property of the table is proved without them.

A type invariant is checked for every module: as part of `IInv` in `pull` and
of `LeaseInv` in `agent`, by `TypeOK` in `frames` and `session`, and for the
modules of `shim` and `job` by `ShimTypeOK` and `JobTypeOK`.

What they show:

- The pull queue implements `Exchange`: a manifest is given to PixInsight once, a
  request is answered once, a result answers one request. It is its own as long
  as no request with that job id timed out or was abandoned; registration and the
  one-slot channel never fail otherwise. No `/lan/work` request hangs, whatever
  PixInsight does, and only a lost manifest needs the 30-minute timer.
- The agent implements the exclusive lease in spite of stale snapshots: `busy`
  is exactly the set of leased workers after every way a handler can end, so a
  worker is neither given out twice nor lost. Every request returns.
- A per-frame operation ends with a verdict for each frame; partial shortfalls
  are run on the server and delivered frames are not. A file once accepted is
  written again only where the report was not read (ctl died, or the native run
  took over), and then only that of a client frame which the server ran as well
  and whose download has no record yet: a frame accepted on its worker's file, or
  out of a report, keeps it. A registry entry with nobody behind it, or with a
  worker of another version, costs no frame.
- A memo never claims a product that was not written and made known to WBPP.
  Double work, and jobs nobody waits for, follow only from an exception of a
  native run or from a failure behind the write. Flats wait for their
  calibrations, drizzle for its light master.
- A frame left without a descriptor was measured, in vain, by the server. A
  descriptor from the cluster measures the frame's own file unless another frame
  of the cluster's share has the same name, extension apart; among such frames on
  one worker all get the row of the last one.
- Drizzle integration reads files that this run's light integration updated,
  unless WBPP took that integration from its cache or the copy back failed, and
  that this run's registration made, unless the new file did not come back or the
  registered image beside it is as old: from WBPP's cache, or because the frame's
  registration failed and `File.exists` found the earlier output. No frame is left
  out because its file names another machine, be it that of an interrupted earlier
  run, unless the source is not where its name derives it or the last attempt to
  rewrite the file failed. A worker uses a companion it was not sent only if an earlier
  run left it there or it could not return its own.
- A worker runs the process WBPP configured, output names included, with its own
  paths and rows and the switches of an unattended run, or rejects the job; only a
  parameter that is not plain falls back to its default. The drizzle data of a
  light integration is never switched off. No path of the server is left in a
  per-frame job, but one whose file the server lacks.
- Whatever fails in starting the daemon, a server launch enters WBPP once and a
  client launch never; only an exception outside `start()` (a directory that
  cannot be created, the dashboard) keeps a server from WBPP. No key file and no daemon is left behind except by a crash
  or a process that could not be started, and a client starts on a cache without
  files of daemons that are gone.
- A name in the worker's data directory holds a whole file unless two uploads of
  it overlapped; `.part` files remain only after a failed write of a compressed
  upload.
- The split balances both lanes to within a frame for every reachable estimate,
  as closely as whole frames allow. A lane whose cost is known is left without
  frames only on evidence: costs of this operation a factor of `2m - 1` apart for
  a group of `m`. It is not always given frames again (section 4).
- Shards partition the inputs in order, each within one input of its share.

## 4. Findings

Five runs are expected to end with a counterexample: they state what the
repository's documentation or comments say, and the code does otherwise.

1. `pull_stale`, `OwnResult`. Job ids are `<op>-w<i>` (`distribute.go:195`), the
   same for every group. A request that times out leaves its manifest behind;
   the next request with that id is handed the old manifest's result.
2. `frames_lost`, `NoFrameLost`. Missing outputs are run locally only if
   `missing.length < clientInputs.length` (`WBPPShim.js:1464`): when the report
   carries no error and *no* client frame came back, all are declared failed
   without an attempt.
3. `frames_corrupt`, `AcceptedIsGood`. Per-frame outputs are judged by
   `File.exists` (`WBPPShim.js:1477`), but `DownloadFile` writes the destination
   before the checksum is compared, and a failed write leaves what it wrote.
4. `measure_finite`, `DescriptorFinite`. Rows cross the network as JSON, which
   writes `null` for a number that is not finite; `isFinite(null)` is true
   (`WBPPShim.js:295`), so the row counts as valid and the frame is not measured
   on the server.
5. `session_leftover`, `NoZombie`. `start()` ends leftover daemons with
   `taskkill /F /IM wbpp-sidecar.exe` (`SidecarBridge.js:97`), but the shipped
   program is `wbpp-sidecar-windows-amd64.exe`, and the other systems have no
   `taskkill`: after a crash the old daemon keeps the control port.

Observed while modelling, without a run of their own:

- "The split self-tunes across a run" (`WBPPShim.js:71-72`) only while both lanes
  have frames. A cluster whose share rounds to zero for every group of an
  operation is not measured any more: one outlier can leave it without frames for
  good, whatever it would cost by then, until the server's own cost grows. This is
  the theorem `IdleForGoodCorrect`; `IdleOnEvidence` says how large the outlier
  must be. The global share carries it to operations whose own costs are not
  known.
- A server whose own shard throws, or whose ctl process dies, runs the client's
  frames itself while the agent may still have a download of one of them under
  way: it truncates and rewrites the accepted output (`transport.go:493`), and the
  write may fail. `AcceptedFileStable` names the frames this can happen to.
- A worker without an estimate weighs 1 frame per second (`weighting.go:53`). If
  the others run below that, the newcomer gets the larger share.
- A failed write of a compressed upload leaves its `.part` file
  (`transport.go:214`), although the comment at line 181 says nothing is kept;
  `KeptOnlyByPackedFailure` says that this is the only such branch.
- A light integration is finalized although the download of an updated drizzle
  file failed; its frame is then left out of drizzle (`WBPPShim.js:747`). If the
  file arrives but cannot be copied over the server's, the frame stays active and
  drizzle reads the file that was not updated, or none if it was already removed
  (`WBPPShim.js:711-716`). These are the exceptions of `DrizzleReadsThisRun`.
- A `.xdrz` that a worker could not return is replaced by one of an earlier run
  in the output directory, if there is one (`WBPPShim.js:1486`). Likewise a frame
  whose registration failed, on the server (whose result line 1430 does not look
  at) or on a worker, is accepted with the image and `.xdrz` an earlier run left
  under its name (line 1477); a worker returns an old output of its own disk the
  same way. A normalization file is taken by name too.
- Frames with one name in different folders overwrite each other on a worker; the
  earlier ones are given the measurements of the last (`DescriptorIsOwn`).
- A failure of `finalizeLightMaster` behind `setMasterFileName`
  (`WBPPShim.js:741`) followed by a failed local run leaves the group with the
  cluster's master although the operation is reported failed; a drizzle batch
  then uses it.
- A worker of another version refuses the whole job (`distribute.go:101`); its
  frames, and those of compatible workers, are run on the server.
- A parameter that is not finite makes every worker reject the job, and the work
  runs on the server.
- If `ExternalProcess.start` raises, the key file stays on disk
  (`SidecarBridge.js:105`); `KeyFileGone` names this exception.

## 5. Fairness

- `PullExecutor`, `FairSpec`: Go runs a goroutine of `Process` whose channel
  operation can proceed. The two liveness properties name what else they need:
  `TimersFire`, the two 30-minute timers of `Process`, and nothing of
  PixInsight; `ScriptWorks`, a script that polls and reports, and handlers that
  are served, and no timer.
- `Agent`, `FairSpec`: handlers are goroutines that sleep on timers of their own,
  and a request sent to a worker comes to an end, since the worker's `Process`
  answers (`EveryRequestAnswered`) or the connection breaks. Nothing is assumed
  of the registry. Starvation of one job by others is excluded because the jobs
  are finitely many.
- `PerFrame`, `FairSpec`: WBPP runs an operation to its end, and the agent's
  goroutines end for the reasons above.

- `Session`, `FairSpec`: PixInsight runs the script. Nothing is assumed of the
  user (who may never close a client) or of a daemon, and an exception outside
  `start()` is possible at any time, never required.

All fairness is weak. The other modules are checked for safety only.

## 6. Proofs

`PullExecutor_proofs` assumes `PullAssumption` (each request has a job id, the
queue has room for one, `None` is no request). None of the properties is
inductive: that a result goes to its own request depends on where its manifest
has been. `IInv` adds

- `OnePlace`: a manifest is in at most one of queue, PixInsight, result handler
  and channel, and in none before it is queued;
- `Registration`: two live `Process` calls share a job id only after an
  abandonment, and `p.waiting` leads to live calls of its own id;
- `Routing`: on an undisturbed id a manifest in flight has a request that still
  waits, and its result is addressed to that request;
- `UsedOnce`: a manifest that was refused, or whose result has answered a
  request, is in none of these places any more.

`Invariance` proves `IInv` inductive, one step per action; `TypeCorrect`,
`OwnResultCorrect`, `RegistrationCorrect` and `SendCorrect` follow. `FlightStep` is
the lemma behind `UsedOnce`: only the send of `Process` brings a manifest into
flight. `ExchangeRefined` shows the refinement of `Exchange`, with `given` mapped
to the manifests that have left the queue: the four ways out of `Process` are
`Answer`, `TimeOut` and twice `Refuse`, `handlePull` is `Give`, and all else that
happens between the queue, the script and `p.waiting` is a stutter.
`UsedOnceCorrect` states the part of it that holds on disturbed ids as well: no
two requests are answered with one result.

`Agent_proofs` assumes `AgentAssumption`. `LeaseInv` adds to `BusyIsLeased` that
a job has a lease exactly while it runs (`LeaseWhileRunning`), that leases are
exclusive, that a worker hosts only jobs that were sent to it, and that empty
polls stay below the limit. The stale snapshot does not matter in it: `Acquire`
reads and writes `busy` in one step, and `busy` mirrors the leases. From it
follow `BusyCorrect`, `OneAwaitedCorrect` and `Refinement`: each step of `Agent`
is a `Grant`, a `GiveBack` or a stutter of `Lease`, with `owns <- leased`.
`SendsAloneCorrect` joins the two components: `PullExecutor` takes for granted that
the server has no other request with the job id under way (`ServerMaySend`), and
the lease held across `SendWork` guarantees it for whole-jobs. For the per-frame
operations, which take no lease, it rests on WBPP running one at a time.

`PerFrame_proofs` assumes `PerFrameAssumption`. A verdict is given long after
the frame's file was written, by steps that look only at what exists, so
`PerFrameInv` carries the history forward: which frames the server has tried at
each point (`ServerShare`), what the ends of ctl and of the agent's handler imply
for each other (`JobAwaited`: behind a report nobody writes, behind an error
somebody may), that a download under way belongs to a client frame without a
record (`Transferring`), that a verified output stays new although the server may run it again
(`Delivered`), that past the handshake frames are with compatible workers
(`Placed`), and that a file still missing after the check was tried or belongs
to an empty report (`MissingTried`). `AcceptedFileStable`
follows from the first three: who can still write has no record yet, and where
the report was lost the server has run every client frame. `BadFilesCorrect`
bounds finding 3: a frame accepted without this run's output has a leftover of an
earlier run, an unverified record, or, when the report was lost, a write of the
agent under way or cut short (`Origins`); every verified record of a report that
was read stands for an accepted frame with the worker's output.

`Session_proofs` assumes `SessionAssumption`. `SessionInv` says how often WBPP
was entered at each point of `main`, also of one that threw (`Progress`), that a launch to come has left
nothing (`NotBegun`), that a key file belongs to a daemon that has not read it
(`KeyUnread`), that only a crash leaves downloads (`TempLeft`), and that while a
client runs every daemon that can write to the cache was counted when the cache
was cleared (`WritersKnown`). The last is what makes `CacheFresh` inductive: a
daemon of an earlier launch may write at any time.

`ProcessSerializer_proofs` assumes `SerializerAssumption` (the roles of parameters
are apart). `SerialInv` follows a parameter from the instance over the wire, and
the output names beside it (`WireCarries`), into the worker's instance, which has
the configured value wherever that is plain (`RebuiltWhole`) before `Execute`
overrides some of it.

`Measurements_proofs` assumes `ItemsAssumption`. `MeasureInv` adds that the
server has been through its own share before the report is read and that every
client frame which is not a leftover has a descriptor (`ShareByShare`): together
they leave no frame that nobody tried. `DescriptorIsOwn` needs what the disks hold:
shards are sent in order (`InOrder`), so a row file on a worker is that of the
last frame of its name sent so far, and one in the output directory that of the
last of its shard, whichever worker wrote it last (`LastWins`).
`OnlyNullsCorrect` bounds finding 4 (nothing
but a number that became `null` passes `buildDescriptor` undeservedly), and
`DescriptorsStandCorrect` is an action property: what `setDescriptor` attached is
replaced only by the server's own measurement. Both need that the report is read
once, before any frame of the cluster has a descriptor (`ReadOnce`).

`Shim_proofs`:

- Batches, from `QueuesAssumption` alone: any number of operations in any order.
  `DoneMeansWired` and `PrerequisitesMet` need that the memo names only products
  that exist (`MemoHonest`) and that flat calibrations start in queue order or
  before the flats of their batch (`CalsFirst`). `ComputedOnce` needs
  `OneTurnEach`: while no run has thrown, the loops of a batch share no
  operation and what is done or pending has no gap. The steps of the three loops
  differ only in where an operation comes from, so the proof describes what a
  run does to the state once (`RunEffect`, `MemoEffect`, `QueueEffect`) and each
  action cites it.
- `LanesFinishTogether` follows from the types, a lemma on rounding
  (`RoundedShare`: the planned split is off by at most half a frame of each lane)
  and one on the alternatives (`NoSplitCloser`: a frame more or fewer on the
  server moves the ends by a whole frame of each lane, so no split is better).
- `IdleOnEvidence` needs that an estimate lies between two costs the lane was
  measured with (`Founded`, by `SmoothBetween` for every step), and `IdleShare`:
  a share that rounds to all or none of `m` frames means costs a factor `2m - 1`
  apart. `IdleForGood` is an action property: without frames there is nothing
  to learn, and a server that is no slower keeps the share where it is.

`Job_proofs`:

- Upload, from `UploadAssumption`: two names never lead to one inode
  (`NamesApart`), and while no handlers overlapped, `.part` names the file of the
  one handler that is open and holds what that handler wrote (`PartIsOwn`). So no
  handler writes into the file under the final name; it changes only by the
  rename of a complete one (`ReplacedCorrect`, an action property).
- Companions, from `CompanionsAssumption`. A file is used two or three operations
  after it was made, by another machine. `CompanionsInv` states what each stage
  leaves for the next: only leftovers before it (`OnlyLeftovers`), then what
  registration, normalization and integration guarantee of an active frame's
  files (`FromRegistration`, `FromNormalization`, `FromIntegration`). The age of a
  drizzle file is tied to the age of the image beside it, since both are accepted
  by name.
- Sharding, from `ShardingAssumption`: any number of workers and inputs and any
  throughputs. The loop over remainders stops only when `assigned` reaches the
  number of inputs, so its correctness is that there are always enough workers
  left whose remainder is positive and not yet used. `ShardInv` has the
  equation of each exact share, before and after its remainder is used
  (`ExactShares`), that used remainders are at least as large as unused ones
  (`LargestFirst`), and that the unused ones cover the inputs not yet assigned
  (`EnoughLeft`). The lemmas on sums it needs (`SumsOfDivision`, `SumsChanged`,
  `SumsPositive`, `SumsCut`) are about every length. Induction over a predicate
  is out of the provers' reach; they are proved by the least counterexample,
  which exists because `<` is well-founded on the naturals (`LeastElement`).

`ShimTypeCorrect` and `JobInvariance` carry the invariants over to the
compositions: a step of the union is a step of each component or leaves it alone.

Each inductive invariant was checked by TLC before it was proved. What the proofs
changed in the models: the guards of the split's `CASE` overlapped, so its value
was not determined where both lanes' costs and a share are known, and it became
an `IF` in the order of the code; a frame of `Measurements` must not be
called like the marks `none` and `server`; sums over arrays are running sums, as in the
code's loops.

Only model-checked, because liveness under fairness is out of the prover's
reach: `EveryRequestAnswered`, `AnsweredWithoutTimer`, `EveryFrameSettled`,
`EveryJobReturns` and `ServerGetsWBPP`. The properties of the five runs of section
4 are false and have no theorem; what remains true of each is proved:
`OwnResultCorrect` (1), `ShortfallCorrect` (2), `BadFilesCorrect` (3),
`OnlyNullsCorrect` (4) and the theorem on `OutlivesOnlyCrash` (5).

## 7. Abstractions, and what is not modelled

- What a process computes in PixInsight is one step that succeeds, fails or
  throws. In `Companions` a whole operation on one machine is one step; the order
  of its transfers is the matter of `PerFrame` and `Upload`.
- Costs and throughputs are whole numbers; the code has floating point. Smoothed
  values are rounded down.
- Frames of a group have different output names in `PerFrame`; `Measurements` has
  frames with equal names and is where uploads and downloads overwrite each other.
- What WBPP itself does with an operation (its cache, its native runs) is external:
  an operation is taken from the cache only if all its outputs are an earlier
  run's and none of its inputs is new.
- Removing a file fails only where a live process has it open (`Session`).
- Integrity checks succeed or fail; hashes do not collide.
- Discovery is a set of workers that changes at any time (`Agent`), and entries
  with a compatible worker, another version or nobody behind them (`PerFrame`):
  the outcome of expiry, of a restart under a new node id and of static peers,
  without their clocks.
- Not modelled: TLS, signatures, nonces and key derivation (cryptography; a
  request arrives as sent or fails), zstd and byte shuffling (pure functions of a
  codec), sockets, flags, settings, dialogs and logs.

## 8. Plan

1. Compositions as modules of their own: `Agent` over `Exchange` instead of its
   `hosted` sets (`SendsAloneCorrect` is the condition on one side, `ExchangeRefined`
   on the other), and `WholeJobBatch` over `Agent` with orphaned jobs that still
   hold leases.
2. The byte shuffle's round trip as a pure function.
