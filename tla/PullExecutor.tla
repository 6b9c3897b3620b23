---------------------------- MODULE PullExecutor ----------------------------
(***************************************************************************)
(* The pull queue of a worker (sidecar/pullexecutor.go), between the       *)
(* /lan/work requests of the server (transport.go, handleWork) and the     *)
(* PixInsight worker script that polls it (WorkerRuntime.js, onTimeout).   *)
(*                                                                         *)
(* A request and the manifest it carries share one identity, a member of   *)
(* Requests; JobID gives the id the server wrote into the manifest.  The   *)
(* server derives it from the operation and the worker's index only        *)
(* (distribute.go, JobID: "<op>-w<i>"), so requests may share one.         *)
(***************************************************************************)
EXTENDS Naturals, Sequences

CONSTANTS Requests,     \* the /lan/work requests this worker receives
          JobIDs,       \* the job ids they use
          JobID,        \* JobID[r]: the id in the manifest of r
          PendingCap,   \* capacity of the pending channel (64 in the code)
          None          \* no request

ASSUME PullAssumption ==
    /\ JobID \in [Requests -> JobIDs]
    /\ PendingCap \in Nat \ {0}
    /\ None \notin Requests

VARIABLES
    phase,       \* where the Process call of each request is
    outcome,     \* what /lan/work answered
    source,      \* the manifest whose work the answer reports
    pending,     \* p.pending, a bounded channel of manifests
    waiting,     \* p.waiting: job id -> the request whose channel it holds
    chan,        \* the one-slot result channel of each request
    pixinsight,  \* the manifest the PixInsight script is processing
    post,        \* the POST /v1/work/result handlers in flight, by manifest
    abandoned,   \* requests the server no longer waits for
    dropped      \* manifests lost between the queue and PixInsight

vars == <<phase, outcome, source, pending, waiting, chan, pixinsight, post,
          abandoned, dropped>>

Phases   == {"new", "parking", "waiting", "returning", "done"}
Outcomes == {"none", "outputs", "failed", "rejected", "noworker", "timeout"}
Refusals == {"rejected", "noworker"}

OrNone   == Requests \cup {None}
Results  == [of : Requests, ok : BOOLEAN]
NoResult == [of |-> None, ok |-> FALSE]
Posts    == [at : {"idle", "hash", "send"}, ok : BOOLEAN, to : OrNone]
NoPost   == [at |-> "idle", ok |-> FALSE, to |-> None]

SameJob(r) == {q \in Requests \ {r} : JobID[q] = JobID[r]}

Init ==
    /\ phase = [r \in Requests |-> "new"]
    /\ outcome = [r \in Requests |-> "none"]
    /\ source = [r \in Requests |-> None]
    /\ pending = <<>>
    /\ waiting = [j \in JobIDs |-> None]
    /\ chan = [r \in Requests |-> NoResult]
    /\ pixinsight = None
    /\ post = [r \in Requests |-> NoPost]
    /\ abandoned = {}
    /\ dropped = {}

-----------------------------------------------------------------------------
(* The server.  It has one request per job id under way: a whole-job holds *)
(* the worker's lease and the per-frame operations of a run follow one     *)
(* another.  It stops waiting when its process ends or when the shim gives *)
(* up its handle; handleWork does not look at the request's context, so    *)
(* the Process call goes on.                                               *)

\* Defect: the server sends without regard to its earlier requests.
MaySendAlways(r) == TRUE

ServerMaySend(r) ==
    \A q \in SameJob(r) : phase[q] \in {"new", "done"} \/ q \in abandoned

Abandon(r) ==
    /\ phase[r] \in {"parking", "waiting", "returning"}
    /\ r \notin abandoned
    /\ abandoned' = abandoned \cup {r}
    /\ UNCHANGED <<phase, outcome, source, pending, waiting, chan, pixinsight,
                   post, dropped>>

-----------------------------------------------------------------------------
(* handleWork and Process.                                                 *)

(* The manifest does not decode or validateManifest refuses it. *)
Reject(r) ==
    /\ phase[r] = "new" /\ ServerMaySend(r)
    /\ phase' = [phase EXCEPT ![r] = "done"]
    /\ outcome' = [outcome EXCEPT ![r] = "rejected"]
    /\ UNCHANGED <<source, pending, waiting, chan, pixinsight, post, abandoned,
                   dropped>>

(* Process makes its channel and registers it under the job id. *)
Register(r) ==
    /\ phase[r] = "new" /\ ServerMaySend(r)
    /\ phase' = [phase EXCEPT ![r] = "parking"]
    /\ waiting' = [waiting EXCEPT ![JobID[r]] = r]
    /\ UNCHANGED <<outcome, source, pending, chan, pixinsight, post, abandoned,
                   dropped>>

Enqueue(r) ==
    /\ phase[r] = "parking"
    /\ Len(pending) < PendingCap
    /\ pending' = Append(pending, r)
    /\ phase' = [phase EXCEPT ![r] = "waiting"]
    /\ UNCHANGED <<outcome, source, waiting, chan, pixinsight, post, abandoned,
                   dropped>>

(* Process leaves its select with what it will return. *)
Leave(r, what, of) ==
    /\ phase' = [phase EXCEPT ![r] = "returning"]
    /\ outcome' = [outcome EXCEPT ![r] = what]
    /\ source' = [source EXCEPT ![r] = of]
    /\ UNCHANGED <<pending, waiting, pixinsight, post, abandoned, dropped>>

(* The send is still blocked on a full channel when the timer fires. *)
EnqueueTimeout(r) ==
    /\ phase[r] = "parking"
    /\ Len(pending) = PendingCap
    /\ Leave(r, "noworker", None)
    /\ UNCHANGED chan

ReceiveResult(r) ==
    /\ phase[r] = "waiting"
    /\ chan[r] # NoResult
    /\ chan' = [chan EXCEPT ![r] = NoResult]
    /\ Leave(r, IF chan[r].ok THEN "outputs" ELSE "failed", chan[r].of)

\* Defect: the timer starts only when PixInsight has pulled the manifest.
WaitTimeoutOncePulled(r) ==
    /\ phase[r] = "waiting" /\ pixinsight = r
    /\ Leave(r, "timeout", None)
    /\ UNCHANGED chan

WaitTimeout(r) ==
    /\ phase[r] = "waiting"
    /\ chan[r] = NoResult
    /\ Leave(r, "timeout", None)
    /\ UNCHANGED chan

\* Defect: the deferred call clears the whole map.
ReturnForgetsAll(r) ==
    /\ phase[r] = "returning"
    /\ waiting' = [j \in JobIDs |-> None]
    /\ phase' = [phase EXCEPT ![r] = "done"]
    /\ UNCHANGED <<outcome, source, pending, chan, pixinsight, post, abandoned,
                   dropped>>

(* The deferred delete, whoever is registered by now; then handleWork      *)
(* writes the response.                                                    *)
Return(r) ==
    /\ phase[r] = "returning"
    /\ waiting' = [waiting EXCEPT ![JobID[r]] = None]
    /\ phase' = [phase EXCEPT ![r] = "done"]
    /\ UNCHANGED <<outcome, source, pending, chan, pixinsight, post, abandoned,
                   dropped>>

-----------------------------------------------------------------------------
(* handlePull and the timer loop of the PixInsight script: one job at a    *)
(* time, the busy flag keeps the timer from starting another.              *)

Pull ==
    /\ pixinsight = None
    /\ pending # <<>>
    /\ pixinsight' = Head(pending)
    /\ pending' = Tail(pending)
    /\ UNCHANGED <<phase, outcome, source, waiting, chan, post, abandoned,
                   dropped>>

(* handlePull took the manifest off the channel but its response never     *)
(* reached the script: the ctl process ended, or its file was unreadable.  *)
PullLost ==
    /\ pixinsight = None
    /\ pending # <<>>
    /\ dropped' = dropped \cup {Head(pending)}
    /\ pending' = Tail(pending)
    /\ UNCHANGED <<phase, outcome, source, waiting, chan, pixinsight, post,
                   abandoned>>

PullNothing ==
    /\ pixinsight = None
    /\ pending = <<>>
    /\ UNCHANGED vars

\* Defect: the script does not let go of a job it has reported.
ReportAgain(ok) ==
    /\ pixinsight # None
    /\ post' = [post EXCEPT ![pixinsight] = [at |-> "hash", ok |-> ok, to |-> None]]
    /\ UNCHANGED <<phase, outcome, source, pending, waiting, chan, pixinsight,
                   abandoned, dropped>>

(* processJob (with integrateFrames and its like) returned or threw, and   *)
(* reportResult posts what it did.  The script goes on when its ctl        *)
(* process ends, after 30 s at the latest, whether or not the handler has  *)
(* finished.                                                               *)
Report(ok) ==
    /\ pixinsight # None
    /\ post' = [post EXCEPT ![pixinsight] = [at |-> "hash", ok |-> ok, to |-> None]]
    /\ pixinsight' = None
    /\ UNCHANGED <<phase, outcome, source, pending, waiting, chan, abandoned,
                   dropped>>

(* The ctl process that should post the result does not start or dies. *)
ReportLost ==
    /\ pixinsight # None
    /\ dropped' = dropped \cup {pixinsight}
    /\ pixinsight' = None
    /\ UNCHANGED <<phase, outcome, source, pending, waiting, chan, post,
                   abandoned>>

-----------------------------------------------------------------------------
(* handleResult: hash the outputs (an unreadable one turns the result into *)
(* an error), look the job id up under the lock, then send.                *)

\* Defect: the result goes to whichever request waits.
LookUpAny(m, hashed) ==
    /\ post[m].at = "hash"
    /\ \E j \in JobIDs :
          /\ waiting[j] # None
          /\ post' = [post EXCEPT ![m] =
                         [at |-> "send", ok |-> @.ok /\ hashed, to |-> waiting[j]]]
    /\ UNCHANGED <<phase, outcome, source, pending, waiting, chan, pixinsight,
                   abandoned, dropped>>

\* Defect: an unreadable output ends the handler before it wakes the request.
LookUpDropsErrors(m, hashed) ==
    LET ch == waiting[JobID[m]] IN
    /\ post[m].at = "hash"
    /\ post' = [post EXCEPT ![m] =
                    IF ch = None \/ ~hashed THEN NoPost
                    ELSE [at |-> "send", ok |-> @.ok, to |-> ch]]
    /\ UNCHANGED <<phase, outcome, source, pending, waiting, chan, pixinsight,
                   abandoned, dropped>>

LookUp(m, hashed) ==
    LET ch == waiting[JobID[m]] IN
    /\ post[m].at = "hash"
    /\ post' = [post EXCEPT ![m] =
                    IF ch = None THEN NoPost     \* 404 unknown or expired
                    ELSE [at |-> "send", ok |-> @.ok /\ hashed, to |-> ch]]
    /\ UNCHANGED <<phase, outcome, source, pending, waiting, chan, pixinsight,
                   abandoned, dropped>>

Send(m) ==
    /\ post[m].at = "send"
    /\ chan[post[m].to] = NoResult
    /\ chan' = [chan EXCEPT ![post[m].to] = [of |-> m, ok |-> post[m].ok]]
    /\ post' = [post EXCEPT ![m] = NoPost]
    /\ UNCHANGED <<phase, outcome, source, pending, waiting, pixinsight,
                   abandoned, dropped>>

-----------------------------------------------------------------------------
Next ==
    \/ \E r \in Requests :
          \/ Reject(r) \/ Register(r) \/ Enqueue(r) \/ EnqueueTimeout(r)
          \/ ReceiveResult(r) \/ WaitTimeout(r) \/ Return(r) \/ Abandon(r)
          \/ Send(r)
          \/ \E hashed \in BOOLEAN : LookUp(r, hashed)
    \/ Pull \/ PullLost \/ PullNothing \/ ReportLost
    \/ \E ok \in BOOLEAN : Report(ok)

Spec == Init /\ [][Next]_vars

(* Go runs the goroutines of Process that can run. *)
Fairness ==
    \A r \in Requests :
        WF_vars(Enqueue(r)) /\ WF_vars(ReceiveResult(r)) /\ WF_vars(Return(r))

FairSpec == Spec /\ Fairness

(* The timers of Process fire, whatever the script does. *)
TimersFire ==
    \A r \in Requests : WF_vars(EnqueueTimeout(r)) /\ WF_vars(WaitTimeout(r))

(* The script keeps polling and reporting, and its requests are served. *)
ScriptWorks ==
    /\ WF_vars(Pull) /\ WF_vars(\E ok \in BOOLEAN : Report(ok))
    /\ \A r \in Requests :
          WF_vars(Send(r)) /\ WF_vars(\E hashed \in BOOLEAN : LookUp(r, hashed))
-----------------------------------------------------------------------------
TypeOK ==
    /\ phase \in [Requests -> Phases]
    /\ outcome \in [Requests -> Outcomes]
    /\ source \in [Requests -> OrNone]
    /\ pending \in Seq(Requests) /\ Len(pending) <= PendingCap
    /\ waiting \in [JobIDs -> OrNone]
    /\ chan \in [Requests -> Results \cup {NoResult}]
    /\ pixinsight \in OrNone
    /\ post \in [Requests -> Posts]
    /\ abandoned \subseteq Requests
    /\ dropped \subseteq Requests

(* The job ids of requests the server gave up; their Process calls go on. *)
AbandonedJobs == {JobID[q] : q \in abandoned}

(* Those, and the ids of requests that ended by their timer, with their    *)
(* manifests still in the queue or in PixInsight.                          *)
DisturbedJobs ==
    AbandonedJobs \cup {JobID[q] : q \in {r \in Requests : outcome[r] = "timeout"}}

(* "A distributed run can never produce a silently wrong result"           *)
(* (docs/support-kb.md:29), on this queue: a server that waits for every   *)
(* request it sends is never handed the result of another manifest.        *)
OwnResult ==
    abandoned = {} => \A r \in Requests : source[r] \in {None, r}

(* Reusing a job id for the next group is harmless as long as every        *)
(* earlier request with that id was answered: the only ways to be handed a *)
(* result of another manifest are a timed-out or an abandoned request.     *)
OwnResultUnlessDisturbed ==
    \A r \in Requests : source[r] \notin {None, r} => JobID[r] \in DisturbedJobs

(* While Process waits, p.waiting leads to its channel, so its result is   *)
(* not refused with 404; only a Process call the server abandoned, by its  *)
(* deferred delete or its registration, can take the entry away.           *)
RegisteredWhileWaiting ==
    \A r \in Requests :
        phase[r] \in {"parking", "waiting"} /\ waiting[JobID[r]] # r
            => JobID[r] \in AbandonedJobs

(* handleResult sends outside the lock on a channel with one slot: the     *)
(* send blocks (and its goroutine leaks) only if two results meet on one   *)
(* channel, which takes a disturbed job id.                                *)
SendBlocksOnlyIfDisturbed ==
    \A m \in Requests :
        post[m].at = "send" /\ chan[post[m].to] # NoResult
            => JobID[m] \in DisturbedJobs

(* No /lan/work request hangs: with the timers alone, whatever PixInsight  *)
(* does or loses, every parked request is answered.                        *)
EveryRequestAnswered ==
    TimersFire => \A r \in Requests : phase[r] # "new" ~> phase[r] = "done"

(* The timers are a last resort: on an undisturbed job id, a request whose *)
(* manifest was not lost on the way is answered although no timer fires.   *)
AnsweredWithoutTimer ==
    ScriptWorks =>
        \A r \in Requests :
            phase[r] # "new"
                ~> phase[r] = "done" \/ r \in dropped \/ JobID[r] \in DisturbedJobs

-----------------------------------------------------------------------------
(* The inductive strengthening the proofs rest on. *)

Live(r) == phase[r] \in {"parking", "waiting", "returning"}

(* The places a manifest can be in. *)
InPending(m) == \E i \in 1..Len(pending) : pending[i] = m
InChannel(m) == \E x \in Requests : chan[x].of = m
InFlight(m)  == InPending(m) \/ pixinsight = m \/ post[m].at # "idle" \/ InChannel(m)

(* A manifest is in at most one of them, once; none before it is queued. *)
OnePlace ==
    /\ \A i, k \in 1..Len(pending) : pending[i] = pending[k] => i = k
    /\ \A x, y \in Requests : chan[x].of = chan[y].of /\ chan[x] # NoResult => x = y
    /\ \A m \in Requests :
          /\ InPending(m) => pixinsight # m /\ post[m].at = "idle" /\ ~InChannel(m)
          /\ pixinsight = m => post[m].at = "idle" /\ ~InChannel(m)
          /\ post[m].at # "idle" => ~InChannel(m)
          /\ phase[m] \in {"new", "parking"} => ~InFlight(m)

(* Process answers once.  Two live Process calls share a job id only after *)
(* an abandonment, and p.waiting holds live calls only, each under its own *)
(* job id.                                                                 *)
Registration ==
    /\ \A r \in Requests :
          phase[r] \in {"new", "parking", "waiting"} => outcome[r] = "none"
    /\ \A r \in Requests : \A q \in SameJob(r) :
          Live(r) /\ Live(q) => JobID[r] \in AbandonedJobs
    /\ \A r \in Requests : Live(r) => waiting[JobID[r]] = r \/ JobID[r] \in AbandonedJobs
    /\ \A j \in JobIDs : waiting[j] # None => JobID[waiting[j]] = j /\ Live(waiting[j])

(* A result travels to a request with the manifest's job id, and on an     *)
(* undisturbed id to the manifest's own request, which still waits for it. *)
Routing ==
    /\ \A m \in Requests : InFlight(m) => phase[m] = "waiting" \/ JobID[m] \in DisturbedJobs
    /\ \A m \in Requests : post[m].at = "send" =>
          /\ post[m].to \in Requests /\ JobID[post[m].to] = JobID[m]
          /\ post[m].to = m \/ JobID[m] \in DisturbedJobs
    /\ \A x \in Requests : chan[x] # NoResult =>
          /\ JobID[chan[x].of] = JobID[x]
          /\ chan[x].of = x \/ JobID[x] \in DisturbedJobs
    /\ OwnResultUnlessDisturbed

(* A manifest that was refused, or whose result has answered a request, is *)
(* nowhere any more.                                                       *)
UsedOnce ==
    /\ \A m \in Requests : outcome[m] \in Refusals => ~InFlight(m)
    /\ \A r, m \in Requests : source[r] = m =>
          /\ outcome[r] \in {"outputs", "failed"}
          /\ phase[m] \notin {"new", "parking"} /\ ~InFlight(m)

IInv == TypeOK /\ OnePlace /\ Registration /\ Routing /\ UsedOnce

-----------------------------------------------------------------------------
(* What the server may rely on. *)

AnswerOf(what) ==
    IF what \in {"none", "timeout"} THEN what
    ELSE IF what \in Refusals THEN "refused" ELSE "result"

Arrived == {r \in Requests : phase[r] # "new"}
Answers == [r \in Requests |-> AnswerOf(outcome[r])]
LeftQueue == {m \in Requests : /\ phase[m] \notin {"new", "parking"}
                               /\ outcome[m] \notin Refusals /\ ~InPending(m)}

X == INSTANCE Exchange WITH asked     <- Arrived,
                            given     <- LeftQueue,
                            answer    <- Answers,
                            abandoned <- AbandonedJobs

(* The queue, the waiting map and the one-slot channels implement the      *)
(* exchange of Exchange.tla: Process and handleResult, meeting over a job  *)
(* id that is used again and again, answer every request at most once, use *)
(* every result at most once, and mix results up only on a disturbed id.   *)
ImplementsExchange == X!Spec
=============================================================================
