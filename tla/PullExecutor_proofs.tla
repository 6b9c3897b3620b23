------------------------ MODULE PullExecutor_proofs ------------------------
(***************************************************************************)
(* Safety of the pull queue for any number of requests, any reuse of job   *)
(* ids and any queue capacity.                                             *)
(***************************************************************************)
EXTENDS PullExecutor, TLAPS

(* What Process's send does to p.pending: the manifest is added at the end. *)
LEMMA AppendElements ==
    ASSUME NEW S, NEW s \in Seq(S), NEW e \in S
    PROVE  /\ Append(s, e) \in Seq(S)
           /\ Len(Append(s, e)) = Len(s) + 1
           /\ Len(s) \in Nat
           /\ \A i \in 1..Len(s) : Append(s, e)[i] = s[i]
           /\ Append(s, e)[Len(s) + 1] = e
  OBVIOUS

(* What handlePull does to p.pending: it takes the first manifest off. *)
LEMMA TailElements ==
    ASSUME NEW S, NEW s \in Seq(S), s # <<>>
    PROVE  /\ Tail(s) \in Seq(S)
           /\ Len(s) \in Nat \ {0}
           /\ Len(Tail(s)) = Len(s) - 1
           /\ Head(s) = s[1] /\ s[1] \in S
           /\ \A i \in 1..(Len(s) - 1) : Tail(s)[i] = s[i + 1]
  OBVIOUS

-----------------------------------------------------------------------------
(* Every action of Process, handlePull and handleResult keeps the types.   *)
LEMMA TypeStep == TypeOK /\ [Next]_vars => TypeOK'
<1> SUFFICES ASSUME TypeOK, [Next]_vars PROVE TypeOK'
  OBVIOUS
<1> USE PullAssumption DEF TypeOK, Phases, Outcomes, OrNone, Results, NoResult,
        Posts, NoPost
<1>1. ASSUME NEW r \in Requests, Reject(r) PROVE TypeOK'
  BY <1>1 DEF Reject
<1>2. ASSUME NEW r \in Requests, Register(r) PROVE TypeOK'
  BY <1>2 DEF Register
<1>3. ASSUME NEW r \in Requests, Enqueue(r) PROVE TypeOK'
  BY <1>3, AppendElements DEF Enqueue
<1>4. ASSUME NEW r \in Requests, EnqueueTimeout(r) PROVE TypeOK'
  BY <1>4 DEF EnqueueTimeout, Leave
<1>5. ASSUME NEW r \in Requests, ReceiveResult(r) PROVE TypeOK'
  BY <1>5 DEF ReceiveResult, Leave
<1>6. ASSUME NEW r \in Requests, WaitTimeout(r) PROVE TypeOK'
  BY <1>6 DEF WaitTimeout, Leave
<1>7. ASSUME NEW r \in Requests, Return(r) PROVE TypeOK'
  BY <1>7 DEF Return
<1>8. ASSUME NEW r \in Requests, Abandon(r) PROVE TypeOK'
  BY <1>8 DEF Abandon
<1>9. ASSUME NEW r \in Requests, Send(r) PROVE TypeOK'
  BY <1>9 DEF Send
<1>10. ASSUME NEW r \in Requests, NEW hashed \in BOOLEAN, LookUp(r, hashed) PROVE TypeOK'
  BY <1>10 DEF LookUp
<1>11. ASSUME Pull PROVE TypeOK'
  BY <1>11, TailElements DEF Pull
<1>12. ASSUME PullLost PROVE TypeOK'
  BY <1>12, TailElements DEF PullLost
<1>13. ASSUME ReportLost PROVE TypeOK'
  BY <1>13 DEF ReportLost
<1>14. ASSUME NEW ok \in BOOLEAN, Report(ok) PROVE TypeOK'
  BY <1>14 DEF Report
<1>15. ASSUME UNCHANGED vars PROVE TypeOK'
  BY <1>15 DEF vars
<1>16. QED
  BY <1>1, <1>2, <1>3, <1>4, <1>5, <1>6, <1>7, <1>8, <1>9, <1>10, <1>11, <1>12,
     <1>13, <1>14, <1>15 DEF Next, PullNothing

(* A result channel is empty exactly when it names no manifest. *)
LEMMA ChannelContents ==
    ASSUME TypeOK, NEW x \in Requests
    PROVE  /\ NoResult.of = None
           /\ chan[x] # NoResult => chan[x] \in Results /\ chan[x].of \in Requests
  BY PullAssumption DEF TypeOK, Results, NoResult

(* No action duplicates a manifest: at each moment it is in one place.     *)
LEMMA OnePlaceStep == TypeOK /\ OnePlace /\ [Next]_vars => OnePlace'
<1> SUFFICES ASSUME TypeOK, OnePlace, [Next]_vars PROVE OnePlace'
  OBVIOUS
<1> USE PullAssumption DEF TypeOK, OrNone, Results, NoResult, Posts, NoPost, Phases,
        OnePlace, InPending, InChannel, InFlight
<1>1. ASSUME NEW r \in Requests, Reject(r) PROVE OnePlace'
  BY <1>1 DEF Reject
<1>2. ASSUME NEW r \in Requests, Register(r) PROVE OnePlace'
  BY <1>2 DEF Register
<1>3. ASSUME NEW r \in Requests, Enqueue(r) PROVE OnePlace'
  BY <1>3, AppendElements DEF Enqueue
<1>4. ASSUME NEW r \in Requests, EnqueueTimeout(r) PROVE OnePlace'
  BY <1>4 DEF EnqueueTimeout, Leave
<1>5. ASSUME NEW r \in Requests, ReceiveResult(r) PROVE OnePlace'
  <2>1. \A x \in Requests : chan'[x] = IF x = r THEN NoResult ELSE chan[x]
    BY <1>5 DEF ReceiveResult
  <2>2. \A m \in Requests : InChannel(m)' => InChannel(m)
    BY <2>1
  <2>3. UNCHANGED <<pending, pixinsight, post>> /\ phase' = [phase EXCEPT ![r] = "returning"]
    BY <1>5 DEF ReceiveResult, Leave
  <2>4. \A m \in Requests : InFlight(m)' => InFlight(m)
    BY <2>2, <2>3
  <2>5. ASSUME NEW x \in Requests, NEW y \in Requests,
               chan'[x].of = chan'[y].of, chan'[x] # NoResult
        PROVE  x = y
    <3>1. x # r /\ chan'[x] = chan[x] /\ chan[x].of \in Requests
      BY <2>1, <2>5, ChannelContents
    <3>2. y # r /\ chan'[y] = chan[y]
      BY <2>1, <2>5, <3>1, ChannelContents
    <3>3. QED
      BY <2>5, <3>1, <3>2
  <2>6. \A m \in Requests : phase'[m] \in {"new", "parking"} => ~InFlight(m)'
    BY <2>3, <2>4
  <2>7. \A m \in Requests : post'[m] = post[m] /\ InPending(m)' = InPending(m)
    BY <2>3
  <2> HIDE DEF InPending, InChannel, InFlight
  <2>8. QED
    BY <2>2, <2>3, <2>5, <2>6, <2>7
<1>6. ASSUME NEW r \in Requests, WaitTimeout(r) PROVE OnePlace'
  BY <1>6 DEF WaitTimeout, Leave
<1>7. ASSUME NEW r \in Requests, Return(r) PROVE OnePlace'
  BY <1>7 DEF Return
<1>8. ASSUME NEW r \in Requests, Abandon(r) PROVE OnePlace'
  BY <1>8 DEF Abandon
<1>9. ASSUME NEW r \in Requests, Send(r) PROVE OnePlace'
  <2> DEFINE to == post[r].to
  <2>1. /\ UNCHANGED <<phase, pending, pixinsight>>
        /\ post[r].at = "send"
        /\ \A m \in Requests : post'[m] = IF m = r THEN NoPost ELSE post[m]
    BY <1>9 DEF Send
  <2>2. \A x \in Requests :
           chan'[x] = IF x = to THEN [of |-> r, ok |-> post[r].ok] ELSE chan[x]
    BY <1>9 DEF Send
  <2>3. ~InChannel(r) /\ ~InPending(r) /\ pixinsight # r /\ phase[r] \notin {"new", "parking"}
    BY <2>1
  <2> HIDE DEF to
  <2>4. \A m \in Requests : InChannel(m)' => InChannel(m) \/ m = r
    BY <2>2
  <2>5. \A m \in Requests : InPending(m)' = InPending(m)
    BY <2>1
  <2>6. \A m \in Requests : post'[m].at # "idle" => m # r /\ post[m].at # "idle"
    BY <2>1
  <2>7. \A m \in Requests : InFlight(m)' => InFlight(m)
    <3> TAKE m \in Requests
    <3>1. CASE m = r
      BY <2>1, <3>1
    <3>2. CASE m # r
      BY <2>1, <2>4, <2>5, <2>6, <3>2
    <3>3. QED
      BY <3>1, <3>2
  <2>8. ASSUME NEW x \in Requests, NEW y \in Requests,
               chan'[x].of = chan'[y].of, chan'[x] # NoResult
        PROVE  x = y
    <3>1. CASE x = to /\ y = to
      BY <3>1
    <3>2. CASE x = to /\ y # to
      BY <2>2, <2>3, <2>8, <3>2
    <3>3. CASE x # to /\ y = to
      BY <2>2, <2>3, <2>8, <3>3
    <3>4. CASE x # to /\ y # to
      <4>1. chan[x].of = chan[y].of /\ chan[x] # NoResult
        BY <2>2, <2>8, <3>4
      <4>2. QED
        BY <4>1
    <3>5. QED
      BY <3>1, <3>2, <3>3, <3>4
  <2> HIDE DEF InPending, InChannel, InFlight
  <2>9. \A i, k \in 1..Len(pending') : pending'[i] = pending'[k] => i = k
    BY <2>1
  <2>10. \A m \in Requests : phase'[m] \in {"new", "parking"} => ~InFlight(m)'
    BY <2>1, <2>7
  <2>11. \A m \in Requests :
            /\ InPending(m)' => pixinsight' # m /\ post'[m].at = "idle" /\ ~InChannel(m)'
            /\ pixinsight' = m => post'[m].at = "idle" /\ ~InChannel(m)'
            /\ post'[m].at # "idle" => ~InChannel(m)'
    BY <2>1, <2>3, <2>4, <2>5, <2>6
  <2>12. QED
    BY <2>8, <2>9, <2>10, <2>11
<1>10. ASSUME NEW r \in Requests, NEW hashed \in BOOLEAN, LookUp(r, hashed) PROVE OnePlace'
  <2>1. UNCHANGED <<phase, pending, pixinsight, chan>> /\ post[r].at = "hash"
    BY <1>10 DEF LookUp
  <2>2. \A m \in Requests : post'[m].at # "idle" => post[m].at # "idle"
    BY <1>10 DEF LookUp
  <2>3. \A m \in Requests : /\ InPending(m)' = InPending(m) /\ InChannel(m)' = InChannel(m)
                            /\ InFlight(m)' => InFlight(m)
    BY <2>1, <2>2
  <2> HIDE DEF InPending, InChannel, InFlight
  <2>4. QED
    BY <2>1, <2>2, <2>3
<1>11. ASSUME Pull PROVE OnePlace'
  BY <1>11, TailElements DEF Pull
<1>12. ASSUME PullLost PROVE OnePlace'
  BY <1>12, TailElements DEF PullLost
<1>13. ASSUME ReportLost PROVE OnePlace'
  BY <1>13 DEF ReportLost
<1>14. ASSUME NEW ok \in BOOLEAN, Report(ok) PROVE OnePlace'
  BY <1>14 DEF Report
<1>15. ASSUME UNCHANGED vars PROVE OnePlace'
  BY <1>15 DEF vars
<1> HIDE DEF TypeOK, OnePlace
<1>16. QED
  BY <1>1, <1>2, <1>3, <1>4, <1>5, <1>6, <1>7, <1>8, <1>9, <1>10, <1>11, <1>12,
     <1>13, <1>14, <1>15 DEF Next, PullNothing

(* Register and Return keep p.waiting consistent with the live calls. *)
LEMMA RegistrationStep == TypeOK /\ Registration /\ [Next]_vars => Registration'
<1> SUFFICES ASSUME TypeOK, Registration, [Next]_vars PROVE Registration'
  OBVIOUS
<1> USE PullAssumption DEF TypeOK, OrNone, Phases, Registration, Live, SameJob,
        AbandonedJobs, ServerMaySend, Outcomes
<1>1. ASSUME NEW r \in Requests, Reject(r) PROVE Registration'
  BY <1>1 DEF Reject
<1>2. ASSUME NEW r \in Requests, Register(r) PROVE Registration'
  BY <1>2 DEF Register
<1>3. ASSUME NEW r \in Requests, Enqueue(r) PROVE Registration'
  BY <1>3, AppendElements DEF Enqueue
<1>4. ASSUME NEW r \in Requests, EnqueueTimeout(r) PROVE Registration'
  BY <1>4 DEF EnqueueTimeout, Leave
<1>5. ASSUME NEW r \in Requests, ReceiveResult(r) PROVE Registration'
  BY <1>5 DEF ReceiveResult, Leave
<1>6. ASSUME NEW r \in Requests, WaitTimeout(r) PROVE Registration'
  BY <1>6 DEF WaitTimeout, Leave
<1>7. ASSUME NEW r \in Requests, Return(r) PROVE Registration'
  BY <1>7 DEF Return
<1>8. ASSUME NEW r \in Requests, Abandon(r) PROVE Registration'
  BY <1>8 DEF Abandon
<1>9. ASSUME NEW r \in Requests, Send(r) PROVE Registration'
  BY <1>9 DEF Send
<1>10. ASSUME NEW r \in Requests, NEW hashed \in BOOLEAN, LookUp(r, hashed) PROVE Registration'
  BY <1>10 DEF LookUp
<1>11. ASSUME Pull PROVE Registration'
  BY <1>11, TailElements DEF Pull
<1>12. ASSUME PullLost PROVE Registration'
  BY <1>12, TailElements DEF PullLost
<1>13. ASSUME ReportLost PROVE Registration'
  BY <1>13 DEF ReportLost
<1>14. ASSUME NEW ok \in BOOLEAN, Report(ok) PROVE Registration'
  BY <1>14 DEF Report
<1>15. ASSUME UNCHANGED vars PROVE Registration'
  BY <1>15 DEF vars
<1>16. QED
  BY <1>1, <1>2, <1>3, <1>4, <1>5, <1>6, <1>7, <1>8, <1>9, <1>10, <1>11, <1>12,
     <1>13, <1>14, <1>15 DEF Next, PullNothing

(* A disturbed job id stays disturbed: requests answer once. *)
LEMMA DisturbedStable ==
    TypeOK /\ Registration /\ [Next]_vars => DisturbedJobs \subseteq DisturbedJobs'
<1> SUFFICES ASSUME TypeOK, Registration, [Next]_vars
             PROVE  DisturbedJobs \subseteq DisturbedJobs'
  OBVIOUS
<1>1. abandoned \subseteq abandoned'
  BY DEF Next, vars, Reject, Register, Enqueue, EnqueueTimeout, Leave, ReceiveResult,
     WaitTimeout, Return, Abandon, Send, LookUp, Pull, PullLost, PullNothing, ReportLost,
     Report
<1>2. ASSUME NEW q \in Requests, outcome[q] = "timeout" PROVE outcome'[q] = "timeout"
  <2>1. phase[q] \notin {"new", "parking", "waiting"}
    BY <1>2 DEF Registration
  <2>2. \/ outcome' = outcome
        \/ \E r \in Requests : Reject(r) \/ EnqueueTimeout(r) \/ ReceiveResult(r) \/ WaitTimeout(r)
    BY DEF Next, vars, Register, Enqueue, Return, Abandon, Send, LookUp, Pull, PullLost,
       PullNothing, ReportLost, Report
  <2>3. ASSUME NEW r \in Requests,
               Reject(r) \/ EnqueueTimeout(r) \/ ReceiveResult(r) \/ WaitTimeout(r)
        PROVE  outcome'[q] = outcome[q]
    BY <2>1, <2>3 DEF TypeOK, Reject, EnqueueTimeout, ReceiveResult, WaitTimeout, Leave
  <2>4. QED
    BY <1>2, <2>2, <2>3
<1>3. QED
  BY <1>1, <1>2 DEF DisturbedJobs, AbandonedJobs

(* Results are routed by job id, on an undisturbed id to their own request. *)
LEMMA RoutingStep == IInv /\ [Next]_vars => Routing'
<1> SUFFICES ASSUME IInv, [Next]_vars PROVE Routing'
  OBVIOUS
<1> USE PullAssumption DEF IInv, TypeOK, OrNone, Results, NoResult, Posts, NoPost, Phases,
        OnePlace, InPending, InChannel, InFlight, Registration, Live,
        Routing, OwnResultUnlessDisturbed
<1>0. DisturbedJobs \subseteq DisturbedJobs' /\ AbandonedJobs \subseteq DisturbedJobs
  BY DisturbedStable DEF DisturbedJobs
<1>1. ASSUME NEW r \in Requests, Reject(r) PROVE Routing'
  BY <1>0, <1>1 DEF Reject
<1>2. ASSUME NEW r \in Requests, Register(r) PROVE Routing'
  BY <1>0, <1>2 DEF Register
<1>3. ASSUME NEW r \in Requests, Enqueue(r) PROVE Routing'
  BY <1>0, <1>3, AppendElements DEF Enqueue
<1>4. ASSUME NEW r \in Requests, EnqueueTimeout(r) PROVE Routing'
  BY <1>0, <1>4 DEF EnqueueTimeout, Leave
<1>5. ASSUME NEW r \in Requests, ReceiveResult(r) PROVE Routing'
  <2>1. \A x \in Requests : chan'[x] = IF x = r THEN NoResult ELSE chan[x]
    BY <1>5 DEF ReceiveResult
  <2>2. \A m \in Requests : InChannel(m)' => InChannel(m)
    BY <2>1
  <2>3. /\ UNCHANGED <<pending, pixinsight, post>>
        /\ phase' = [phase EXCEPT ![r] = "returning"]
        /\ source' = [source EXCEPT ![r] = chan[r].of]
        /\ chan[r] # NoResult
    BY <1>5 DEF ReceiveResult, Leave
  <2>4. \A m \in Requests : InFlight(m)' => InFlight(m) /\ (m = r => JobID[r] \in DisturbedJobs)
    <3> TAKE m \in Requests
    <3>1. InFlight(m)' => InFlight(m)
      BY <2>2, <2>3
    <3>2. CASE m = r /\ chan[r].of = r
      <4>1. ~InChannel(r)'
        BY <2>1, <2>3, <3>2
      <4>2. QED
        BY <2>3, <3>2, <4>1
    <3>3. QED
      BY <3>1, <3>2, <2>3
  <2>5. source'[r] \notin {None, r} => JobID[r] \in DisturbedJobs'
    BY <1>0, <2>3
  <2>6. OwnResultUnlessDisturbed'
    BY <1>0, <2>3, <2>5
  <2>7. \A m \in Requests : InFlight(m)' => phase'[m] = "waiting" \/ JobID[m] \in DisturbedJobs'
    BY <1>0, <2>3, <2>4
  <2>8. \A x \in Requests : chan'[x] # NoResult =>
           JobID[chan'[x].of] = JobID[x] /\ (chan'[x].of = x \/ JobID[x] \in DisturbedJobs')
    BY <1>0, <2>1
  <2>9. QED
    BY <1>0, <2>3, <2>6, <2>7, <2>8
<1>6. ASSUME NEW r \in Requests, WaitTimeout(r) PROVE Routing'
  <2>1. JobID[r] \in DisturbedJobs'
    BY <1>6 DEF WaitTimeout, Leave, DisturbedJobs
  <2>2. QED
    BY <1>0, <1>6, <2>1 DEF WaitTimeout, Leave
<1>7. ASSUME NEW r \in Requests, Return(r) PROVE Routing'
  BY <1>0, <1>7 DEF Return
<1>8. ASSUME NEW r \in Requests, Abandon(r) PROVE Routing'
  BY <1>0, <1>8 DEF Abandon
<1>9. ASSUME NEW r \in Requests, Send(r) PROVE Routing'
  <2> DEFINE to == post[r].to
  <2>1. /\ to \in Requests /\ JobID[to] = JobID[r]
        /\ to = r \/ JobID[r] \in DisturbedJobs
        /\ InFlight(r)
    BY <1>9 DEF Send
  <2>2. \A x \in Requests :
           chan'[x] = IF x = to THEN [of |-> r, ok |-> post[r].ok] ELSE chan[x]
    BY <1>9, <2>1 DEF Send
  <2>3. \A x \in Requests : post'[x] = IF x = r THEN NoPost ELSE post[x]
    BY <1>9 DEF Send
  <2>4. \A m \in Requests : InFlight(m)' => InFlight(m)
    BY <1>9, <2>1, <2>2, <2>3 DEF Send
  <2>5. \A m \in Requests : InFlight(m)' => phase'[m] = "waiting" \/ JobID[m] \in DisturbedJobs'
    BY <1>0, <1>9, <2>4 DEF Send
  <2>6. \A x \in Requests : chan'[x] # NoResult =>
           JobID[chan'[x].of] = JobID[x] /\ (chan'[x].of = x \/ JobID[x] \in DisturbedJobs')
    <3> TAKE x \in Requests
    <3>1. CASE x = to
      BY <1>0, <2>1, <2>2, <3>1
    <3>2. CASE x # to
      <4>1. chan'[x] = chan[x]
        BY <2>2, <3>2
      <4>2. QED
        BY <1>0, <4>1
    <3>3. QED
      BY <3>1, <3>2
  <2>7. \A m \in Requests : post'[m].at = "send" => m # r /\ post'[m] = post[m]
    BY <2>3
  <2>8. OwnResultUnlessDisturbed'
    BY <1>0, <1>9 DEF Send
  <2>9. \A m \in Requests : post'[m].at = "send" =>
           /\ post'[m].to \in Requests /\ JobID[post'[m].to] = JobID[m]
           /\ post'[m].to = m \/ JobID[m] \in DisturbedJobs'
    BY <1>0, <2>7
  <2> HIDE DEF InFlight, OwnResultUnlessDisturbed
  <2>10. QED
    BY <2>5, <2>6, <2>8, <2>9
<1>10. ASSUME NEW r \in Requests, NEW hashed \in BOOLEAN, LookUp(r, hashed) PROVE Routing'
  BY <1>0, <1>10 DEF LookUp
<1>11. ASSUME Pull PROVE Routing'
  BY <1>0, <1>11, TailElements DEF Pull
<1>12. ASSUME PullLost PROVE Routing'
  BY <1>0, <1>12, TailElements DEF PullLost
<1>13. ASSUME ReportLost PROVE Routing'
  BY <1>0, <1>13 DEF ReportLost
<1>14. ASSUME NEW ok \in BOOLEAN, Report(ok) PROVE Routing'
  BY <1>0, <1>14 DEF Report
<1>15. ASSUME UNCHANGED vars PROVE Routing'
  BY <1>0, <1>15 DEF vars
<1> HIDE DEF IInv, Routing
<1>16. QED
  BY <1>1, <1>2, <1>3, <1>4, <1>5, <1>6, <1>7, <1>8, <1>9, <1>10, <1>11, <1>12,
     <1>13, <1>14, <1>15 DEF Next, PullNothing

(* What the two ends of p.pending do: a send adds the manifest, handlePull *)
(* takes one that is not queued a second time.                             *)
LEMMA PendingSent ==
    ASSUME TypeOK, NEW r \in Requests, Enqueue(r), NEW m \in Requests
    PROVE  InPending(m)' <=> InPending(m) \/ m = r
<1>1. /\ pending' = Append(pending, r) /\ pending \in Seq(Requests)
  BY DEF Enqueue, TypeOK
<1>2. /\ Len(pending') = Len(pending) + 1 /\ Len(pending) \in Nat
      /\ \A i \in 1..Len(pending) : pending'[i] = pending[i]
      /\ pending'[Len(pending) + 1] = r
  BY <1>1, AppendElements
<1>3. QED
  BY <1>2 DEF InPending

LEMMA PendingTaken ==
    ASSUME TypeOK, OnePlace, pending # <<>>, pending' = Tail(pending)
    PROVE  /\ Head(pending) \in Requests /\ InPending(Head(pending))
           /\ \A m \in Requests : InPending(m)' <=> InPending(m) /\ m # Head(pending)
<1>1. /\ pending \in Seq(Requests)
      /\ \A i, k \in 1..Len(pending) : pending[i] = pending[k] => i = k
  BY DEF TypeOK, OnePlace
<1>2. /\ Len(pending) \in Nat \ {0} /\ Len(pending') = Len(pending) - 1
      /\ Head(pending) = pending[1] /\ pending[1] \in Requests
      /\ \A i \in 1..(Len(pending) - 1) : pending'[i] = pending[i + 1]
  BY <1>1, TailElements
<1>3. InPending(Head(pending))
  BY <1>2 DEF InPending
<1>4. ASSUME NEW m \in Requests PROVE InPending(m)' => InPending(m) /\ m # Head(pending)
  <2> SUFFICES ASSUME NEW i \in 1..Len(pending'), pending'[i] = m
               PROVE  InPending(m) /\ m # Head(pending)
    BY DEF InPending
  <2>1. i + 1 \in 1..Len(pending) /\ i + 1 # 1 /\ pending[i + 1] = m /\ 1 \in 1..Len(pending)
    BY <1>2
  <2>2. QED
    BY <1>1, <1>2, <2>1 DEF InPending
<1>5. ASSUME NEW m \in Requests PROVE InPending(m) /\ m # Head(pending) => InPending(m)'
  <2> SUFFICES ASSUME NEW i \in 1..Len(pending), pending[i] = m, m # Head(pending)
               PROVE  InPending(m)'
    BY DEF InPending
  <2>1. i - 1 \in 1..Len(pending') /\ i - 1 \in 1..(Len(pending) - 1) /\ (i - 1) + 1 = i
    BY <1>2
  <2>2. pending'[i - 1] = m
    BY <1>2, <2>1
  <2>3. QED
    BY <2>1, <2>2 DEF InPending
<1>6. QED
  BY <1>2, <1>3, <1>4, <1>5

(* Only the send of Process brings a manifest into flight. *)
LEMMA FlightStep ==
    ASSUME TypeOK, OnePlace, [Next]_vars, NEW m \in Requests, InFlight(m)'
    PROVE  InFlight(m) \/ Enqueue(m)
<1> SUFFICES ASSUME ~Enqueue(m) PROVE InFlight(m)
  OBVIOUS
<1> USE PullAssumption DEF InFlight
<1>1. ASSUME NEW r \in Requests,
             Reject(r) \/ Register(r) \/ EnqueueTimeout(r) \/ WaitTimeout(r) \/ Return(r)
                \/ Abandon(r)
      PROVE  InFlight(m)
  BY <1>1 DEF Reject, Register, EnqueueTimeout, WaitTimeout, Return, Abandon, Leave,
     InPending, InChannel
<1>2. ASSUME NEW r \in Requests, Enqueue(r) PROVE InFlight(m)
  <2>1. r # m
    BY <1>2
  <2>2. InPending(m)' <=> InPending(m)
    BY <1>2, <2>1, PendingSent
  <2>3. UNCHANGED <<pixinsight, post, chan>>
    BY <1>2 DEF Enqueue
  <2>4. QED
    BY <2>2, <2>3 DEF InChannel
<1>3. ASSUME NEW r \in Requests, ReceiveResult(r) PROVE InFlight(m)
  <2>1. UNCHANGED <<pending, pixinsight, post>>
    BY <1>3 DEF ReceiveResult, Leave
  <2>2. InChannel(m)' => InChannel(m)
    BY <1>3 DEF ReceiveResult, InChannel, NoResult, TypeOK
  <2>3. QED
    BY <2>1, <2>2 DEF InPending
<1>4. ASSUME NEW r \in Requests, Send(r) PROVE InFlight(m)
  <2>1. UNCHANGED <<pending, pixinsight>> /\ post[r].at = "send"
    BY <1>4 DEF Send
  <2>2. InChannel(m)' => InChannel(m) \/ m = r
    BY <1>4 DEF Send, InChannel, TypeOK
  <2>3. post'[m].at # "idle" => post[m].at # "idle"
    BY <1>4 DEF Send, TypeOK, NoPost
  <2>4. QED
    BY <2>1, <2>2, <2>3 DEF InPending
<1>5. ASSUME NEW r \in Requests, NEW hashed \in BOOLEAN, LookUp(r, hashed) PROVE InFlight(m)
  <2>1. UNCHANGED <<pending, pixinsight, chan>>
    BY <1>5 DEF LookUp
  <2>2. post'[m].at # "idle" => post[m].at # "idle"
    BY <1>5 DEF LookUp, TypeOK, NoPost
  <2>3. QED
    BY <2>1, <2>2 DEF InPending, InChannel
<1>6. ASSUME Pull \/ PullLost PROVE InFlight(m)
  <2>1. /\ pending # <<>> /\ pending' = Tail(pending) /\ UNCHANGED <<post, chan>>
        /\ pixinsight' \in {pixinsight, Head(pending)}
    BY <1>6 DEF Pull, PullLost
  <2>2. InPending(Head(pending)) /\ (InPending(m)' => InPending(m))
    BY <2>1, PendingTaken
  <2>3. QED
    BY <2>1, <2>2 DEF InChannel
<1>7. ASSUME ReportLost \/ \E ok \in BOOLEAN : Report(ok) PROVE InFlight(m)
  <2>1. UNCHANGED <<pending, chan>> /\ pixinsight' = None
    BY <1>7 DEF ReportLost, Report
  <2>2. post'[m].at # "idle" => post[m].at # "idle" \/ pixinsight = m
    BY <1>7 DEF ReportLost, Report, TypeOK
  <2>3. QED
    BY <2>1, <2>2 DEF InPending, InChannel
<1>8. ASSUME UNCHANGED vars PROVE InFlight(m)
  BY <1>8 DEF vars, InPending, InChannel
<1> HIDE DEF InFlight
<1>9. QED
  BY <1>1, <1>2, <1>3, <1>4, <1>5, <1>6, <1>7, <1>8 DEF Next, PullNothing

(* Which actions of Process answer, and what the others leave alone. *)
LEMMA AnswerEffect ==
    ASSUME [Next]_vars
    PROVE  \/ UNCHANGED <<outcome, source>>
           \/ \E r \in Requests :
                 Reject(r) \/ EnqueueTimeout(r) \/ ReceiveResult(r) \/ WaitTimeout(r)
  BY DEF Next, vars, Register, Enqueue, Return, Abandon, Send, LookUp, Pull, PullLost,
     PullNothing, ReportLost, Report

(* A request that has left the queue's send never comes back to it. *)
LEMMA PhaseForward ==
    ASSUME TypeOK, [Next]_vars, NEW m \in Requests, phase[m] \notin {"new", "parking"}
    PROVE  phase'[m] \notin {"new", "parking"}
  BY DEF TypeOK, Next, vars, Reject, Register, Enqueue, EnqueueTimeout, ReceiveResult,
     WaitTimeout, Leave, Return, Abandon, Send, LookUp, Pull, PullLost, PullNothing,
     ReportLost, Report

(* A refused manifest is never queued, and a result that Process has       *)
(* received is gone from every channel.                                    *)
LEMMA UsedOnceStep == IInv /\ [Next]_vars => UsedOnce'
<1> SUFFICES ASSUME IInv, [Next]_vars PROVE UsedOnce'
  OBVIOUS
<1>0. TypeOK /\ OnePlace /\ Registration /\ UsedOnce
  BY DEF IInv
<1>1. \A m \in Requests : InFlight(m)' => InFlight(m) \/ Enqueue(m)
  BY <1>0, FlightStep
<1>2. \A m \in Requests : Enqueue(m) => phase[m] = "parking" /\ outcome[m] = "none"
                                       /\ UNCHANGED <<outcome, source>>
  BY <1>0 DEF Enqueue, Registration
<1>3. \A m \in Requests : phase[m] \notin {"new", "parking"} => phase'[m] \notin {"new", "parking"}
  BY <1>0, PhaseForward
<1>4. CASE UNCHANGED <<outcome, source>>
  <2>1. ASSUME NEW m \in Requests, outcome'[m] \in Refusals PROVE ~InFlight(m)'
    <3>1. outcome[m] \in Refusals
      BY <1>4, <2>1
    <3>2. ~InFlight(m) /\ ~Enqueue(m)
      BY <1>0, <1>2, <3>1 DEF UsedOnce, Refusals
    <3>3. QED
      BY <1>1, <3>2
  <2>2. ASSUME NEW r \in Requests, NEW m \in Requests, source'[r] = m
        PROVE  /\ outcome'[r] \in {"outputs", "failed"}
               /\ phase'[m] \notin {"new", "parking"} /\ ~InFlight(m)'
    <3>1. /\ outcome[r] \in {"outputs", "failed"}
          /\ phase[m] \notin {"new", "parking"} /\ ~InFlight(m)
      BY <1>0, <1>4, <2>2 DEF UsedOnce
    <3>2. QED
      BY <1>1, <1>2, <1>3, <1>4, <3>1
  <2>3. QED
    BY <2>1, <2>2 DEF UsedOnce
<1>5. ASSUME NEW r \in Requests, Reject(r) \/ EnqueueTimeout(r) \/ WaitTimeout(r)
      PROVE  UsedOnce'
  <2>1. /\ phase[r] \in {"new", "parking", "waiting"} /\ outcome[r] = "none"
        /\ phase[r] # "waiting" => ~InFlight(r)
    BY <1>0, <1>5 DEF Reject, EnqueueTimeout, WaitTimeout, OnePlace, Registration, TypeOK, Phases
  <2>2. \A m \in Requests : source[r] # m
    BY <1>0, <2>1 DEF UsedOnce
  <2>3. /\ outcome' = [outcome EXCEPT ![r] = IF phase[r] = "new" THEN "rejected"
                                            ELSE IF phase[r] = "parking" THEN "noworker"
                                            ELSE "timeout"]
        /\ \A q \in Requests : source'[q] \in Requests => q # r /\ source'[q] = source[q]
    BY <1>0, <1>5, <2>2, PullAssumption
       DEF Reject, EnqueueTimeout, WaitTimeout, Leave, TypeOK
  <2>4. \A m \in Requests : ~Enqueue(m)
    BY <1>0, <1>2, <2>1, <2>3 DEF TypeOK
  <2>5. ASSUME NEW m \in Requests, outcome'[m] \in Refusals PROVE ~InFlight(m)'
    <3>1. CASE m = r
      <4>1. phase[r] # "waiting"
        BY <1>0, <2>3, <2>5, <3>1 DEF TypeOK, Refusals
      <4>2. QED
        BY <1>1, <2>1, <2>4, <3>1, <4>1
    <3>2. CASE m # r
      <4>1. outcome[m] \in Refusals
        BY <1>0, <2>3, <2>5, <3>2 DEF TypeOK
      <4>2. QED
        BY <1>0, <1>1, <2>4, <4>1 DEF UsedOnce
    <3>3. QED
      BY <3>1, <3>2
  <2>6. ASSUME NEW q \in Requests, NEW m \in Requests, source'[q] = m
        PROVE  /\ outcome'[q] \in {"outputs", "failed"}
               /\ phase'[m] \notin {"new", "parking"} /\ ~InFlight(m)'
    <3>1. q # r /\ source[q] = m
      BY <2>3, <2>6
    <3>2. /\ outcome[q] \in {"outputs", "failed"}
          /\ phase[m] \notin {"new", "parking"} /\ ~InFlight(m)
      BY <1>0, <3>1 DEF UsedOnce
    <3>3. outcome'[q] = outcome[q]
      BY <1>0, <2>3, <3>1 DEF TypeOK
    <3>4. QED
      BY <1>1, <1>3, <2>4, <3>2, <3>3
  <2>7. QED
    BY <2>5, <2>6 DEF UsedOnce
<1>6. ASSUME NEW r \in Requests, ReceiveResult(r) PROVE UsedOnce'
  <2>1. /\ phase[r] = "waiting" /\ chan[r] # NoResult /\ chan[r].of \in Requests
        /\ UNCHANGED <<pending, pixinsight, post>>
    BY <1>0, <1>6, ChannelContents DEF ReceiveResult, Leave
  <2> PICK n \in Requests : n = chan[r].of
    BY <2>1
  <2>2. /\ outcome' = [outcome EXCEPT ![r] = IF chan[r].ok THEN "outputs" ELSE "failed"]
        /\ source' = [source EXCEPT ![r] = n]
        /\ chan' = [chan EXCEPT ![r] = NoResult]
    BY <1>6 DEF ReceiveResult, Leave
  <2>3. InChannel(n)
    BY DEF InChannel
  <2>4. ~InPending(n) /\ pixinsight # n /\ post[n].at = "idle" /\ phase[n] \notin {"new", "parking"}
    BY <1>0, <2>1, <2>3 DEF OnePlace, InFlight
  <2>5. ~InChannel(n)'
    <3> SUFFICES ASSUME NEW x \in Requests, chan'[x].of = n PROVE FALSE
      BY DEF InChannel
    <3>1. x # r
      BY <1>0, <2>1, <2>2, PullAssumption DEF TypeOK, NoResult
    <3>2. chan[x].of = chan[r].of
      BY <1>0, <2>2, <3>1 DEF TypeOK
    <3>3. QED
      BY <1>0, <2>1, <3>1, <3>2 DEF OnePlace
  <2>6. ~InFlight(n)'
    BY <2>1, <2>4, <2>5 DEF InFlight, InPending
  <2>7. \A m \in Requests : ~Enqueue(m)
    <3>1. UNCHANGED chan => FALSE
      BY <1>0, <2>1, <2>2 DEF TypeOK
    <3>2. QED
      BY <3>1 DEF Enqueue
  <2>8. \A q \in Requests : q # r => outcome'[q] = outcome[q] /\ source'[q] = source[q]
    BY <1>0, <2>2 DEF TypeOK
  <2>9. source'[r] = n /\ outcome'[r] \in {"outputs", "failed"}
    BY <1>0, <2>2 DEF TypeOK
  <2>10. ASSUME NEW m \in Requests, outcome'[m] \in Refusals PROVE ~InFlight(m)'
    <3>1. m # r /\ outcome[m] \in Refusals
      BY <2>8, <2>9, <2>10 DEF Refusals
    <3>2. QED
      BY <1>0, <1>1, <2>7, <3>1 DEF UsedOnce
  <2>11. ASSUME NEW q \in Requests, NEW m \in Requests, source'[q] = m
         PROVE  /\ outcome'[q] \in {"outputs", "failed"}
                /\ phase'[m] \notin {"new", "parking"} /\ ~InFlight(m)'
    <3>1. CASE q = r
      BY <1>3, <2>1, <2>4, <2>6, <2>9, <2>11, <3>1
    <3>2. CASE q # r
      <4>1. /\ outcome[q] \in {"outputs", "failed"}
            /\ phase[m] \notin {"new", "parking"} /\ ~InFlight(m)
        BY <1>0, <2>8, <2>11, <3>2 DEF UsedOnce
      <4>2. QED
        BY <1>1, <1>3, <2>7, <2>8, <3>2, <4>1
    <3>3. QED
      BY <3>1, <3>2
  <2>12. QED
    BY <2>10, <2>11 DEF UsedOnce
<1>7. QED
  BY <1>4, <1>5, <1>6, AnswerEffect

(* The variables of the pull queue keep their types in every behaviour. *)
THEOREM TypeCorrect == Spec => []TypeOK
<1>1. Init => TypeOK
  BY PullAssumption DEF Init, TypeOK, Phases, Outcomes, OrNone, Results, NoResult,
     Posts, NoPost
<1>2. QED
  BY <1>1, TypeStep, PTL DEF Spec

-----------------------------------------------------------------------------
(* The inductive invariant holds initially: nothing is queued, registered  *)
(* or answered.                                                            *)
LEMMA InitInv == Init => IInv
<1> SUFFICES ASSUME Init PROVE IInv
  OBVIOUS
<1> USE PullAssumption DEF Init
<1>1. TypeOK
  BY DEF TypeOK, Phases, Outcomes, OrNone, Results, NoResult, Posts, NoPost
<1>2. OnePlace
  BY DEF OnePlace, InPending, InChannel, InFlight, NoResult, NoPost
<1>3. Registration
  BY DEF Registration, Live, SameJob
<1>4. Routing
  BY DEF Routing, InPending, InChannel, InFlight, NoResult, NoPost, OwnResultUnlessDisturbed
<1>5. UsedOnce
  BY DEF UsedOnce, Refusals, InPending, InChannel, InFlight, NoResult, NoPost
<1>6. QED
  BY <1>1, <1>2, <1>3, <1>4, <1>5 DEF IInv

(* The strengthening is inductive: it holds in every reachable state. *)
THEOREM Invariance == Spec => []IInv
<1>1. IInv /\ [Next]_vars => IInv'
  BY TypeStep, OnePlaceStep, RegistrationStep, RoutingStep, UsedOnceStep DEF IInv
<1>2. QED
  BY <1>1, InitInv, PTL DEF Spec

(* Process is handed the result of another manifest only on a job id with  *)
(* a timed-out or an abandoned request, for every queue and every use of   *)
(* job ids.                                                                *)
THEOREM OwnResultCorrect == Spec => []OwnResultUnlessDisturbed
<1>1. IInv => OwnResultUnlessDisturbed
  BY DEF IInv, Routing
<1>2. QED
  BY <1>1, Invariance, PTL

(* A waiting Process call stays registered in p.waiting unless a request   *)
(* of its job id was abandoned, so its result is not refused with 404.     *)
THEOREM RegistrationCorrect == Spec => []RegisteredWhileWaiting
<1>1. IInv => RegisteredWhileWaiting
  BY DEF IInv, Registration, Live, RegisteredWhileWaiting
<1>2. QED
  BY <1>1, Invariance, PTL

(* handleResult never blocks on a full channel of an undisturbed job id. *)
THEOREM SendCorrect == Spec => []SendBlocksOnlyIfDisturbed
<1>1. IInv => SendBlocksOnlyIfDisturbed
  <2> SUFFICES ASSUME IInv, NEW m \in Requests, post[m].at = "send",
                      chan[post[m].to] # NoResult, JobID[m] \notin DisturbedJobs
               PROVE  FALSE
    BY DEF SendBlocksOnlyIfDisturbed
  <2>1. post[m].to = m
    BY DEF IInv, Routing
  <2>2. chan[m].of = m
    BY <2>1 DEF IInv, Routing
  <2>3. QED
    BY <2>2 DEF IInv, OnePlace, InChannel
<1>2. QED
  BY <1>1, Invariance, PTL

(* No two requests are answered with one result of PixInsight: what a      *)
(* worker computed for one group is not collected a second time as the     *)
(* next group's, even on a disturbed job id.                               *)
ResultUsedOnce ==
    \A q, r \in Requests : source[q] = source[r] /\ source[q] # None => q = r

(* handleResult hands a result to one channel and Process takes it out, so *)
(* it is used once however the calls of a job id interleave.               *)
THEOREM UsedOnceCorrect == Spec => []ResultUsedOnce
<1>1. Init => ResultUsedOnce
  BY DEF Init, ResultUsedOnce
<1>2. ASSUME IInv, ResultUsedOnce, [Next]_vars PROVE ResultUsedOnce'
  <2>1. TypeOK /\ UsedOnce
    BY <1>2 DEF IInv
  <2>2. CASE UNCHANGED <<outcome, source>>
    BY <1>2, <2>2 DEF ResultUsedOnce
  <2>3. ASSUME NEW r \in Requests, Reject(r) \/ EnqueueTimeout(r) \/ WaitTimeout(r)
        PROVE  ResultUsedOnce'
    <3>1. \A q \in Requests : source'[q] \in {source[q], None}
      BY <2>1, <2>3 DEF Reject, EnqueueTimeout, WaitTimeout, Leave, TypeOK
    <3>2. QED
      BY <1>2, <3>1 DEF ResultUsedOnce
  <2>4. ASSUME NEW r \in Requests, ReceiveResult(r) PROVE ResultUsedOnce'
    <3>1. chan[r].of \in Requests
      BY <2>1, <2>4, ChannelContents DEF ReceiveResult
    <3>2. \A q \in Requests : source[q] # chan[r].of
      BY <2>1, <3>1 DEF UsedOnce, InFlight, InChannel
    <3>3. \A q \in Requests : source'[q] = IF q = r THEN chan[r].of ELSE source[q]
      BY <2>1, <2>4 DEF ReceiveResult, Leave, TypeOK
    <3>4. QED
      BY <1>2, <3>2, <3>3 DEF ResultUsedOnce
  <2>5. QED
    BY <1>2, <2>2, <2>3, <2>4, AnswerEffect
<1>3. QED
  BY <1>1, <1>2, Invariance, PTL DEF Spec

-----------------------------------------------------------------------------
(* The refinement of Exchange. *)

(* The disturbed ids are the same ones, seen from outside. *)
LEMMA SameDisturbed == X!Disturbed = DisturbedJobs
<1>1. \A r \in Requests : Answers[r] = "timeout" <=> outcome[r] = "timeout"
  BY DEF Answers, AnswerOf, Refusals
<1>2. QED
  BY <1>1 DEF X!Disturbed, DisturbedJobs

(* What a step leaves of the exchange when it neither answers a request    *)
(* nor takes a manifest off the queue.                                     *)
LEMMA ExchangeUnchanged ==
    ASSUME UNCHANGED outcome,
           \A m \in Requests : InPending(m)' <=> InPending(m),
           \A m \in Requests : phase'[m] \in {"new", "parking"} <=> phase[m] \in {"new", "parking"}
    PROVE  UNCHANGED <<Answers, LeftQueue>>
<1>1. Answers' = Answers
  BY DEF Answers
<1>2. ASSUME NEW m \in Requests PROVE m \in LeftQueue' <=> m \in LeftQueue
  BY DEF LeftQueue
<1>3. LeftQueue' = LeftQueue
  BY <1>2 DEF LeftQueue
<1>4. QED
  BY <1>1, <1>3

(* Each answer of Process is one of the exchange's. *)
LEMMA ExchangeAnswers ==
    ASSUME IInv, NEW r \in Requests, NEW what \in Outcomes \ {"none"}, outcome[r] = "none",
           outcome' = [outcome EXCEPT ![r] = what], UNCHANGED pending,
           what \in Refusals => phase[r] \in {"new", "parking"},
           what \notin Refusals => phase[r] = "waiting",
           \E to \in {"returning", "done"} : phase' = [phase EXCEPT ![r] = to]
    PROVE  /\ Answers[r] = "none" /\ Answers' = [Answers EXCEPT ![r] = AnswerOf(what)]
           /\ LeftQueue' = LeftQueue
           /\ Arrived' = Arrived \cup {r}
           /\ what \in Refusals => r \notin LeftQueue
           /\ what \notin Refusals => r \in Arrived /\ Arrived' = Arrived
<1>1. TypeOK
  BY DEF IInv
<1>2. \A q \in Requests : outcome'[q] = IF q = r THEN what ELSE outcome[q]
  BY <1>1 DEF TypeOK
<1>3. \A q \in Requests : IF q = r THEN phase'[q] \in {"returning", "done"} ELSE phase'[q] = phase[q]
  BY <1>1 DEF TypeOK
<1>4. Answers[r] = "none" /\ Answers' = [Answers EXCEPT ![r] = AnswerOf(what)]
  <2>1. Answers[r] = "none"
    BY DEF Answers, AnswerOf
  <2>2. \A q \in Requests : Answers'[q] = IF q = r THEN AnswerOf(what) ELSE Answers[q]
    BY <1>2 DEF Answers
  <2>3. DOMAIN Answers' = Requests /\ DOMAIN Answers = Requests
    BY DEF Answers
  <2>4. Answers' = [q \in Requests |-> Answers'[q]]
    BY DEF Answers
  <2>5. QED
    BY <2>1, <2>2, <2>3, <2>4
<1>5. \A q \in Requests : InPending(q)' <=> InPending(q)
  BY DEF InPending
<1>6. ASSUME NEW q \in Requests PROVE q \in LeftQueue' <=> q \in LeftQueue
  <2>1. CASE q = r /\ what \in Refusals
    BY <1>2, <1>5, <2>1 DEF LeftQueue
  <2>2. CASE q = r /\ what \notin Refusals
    BY <1>2, <1>3, <1>5, <2>2 DEF LeftQueue, Refusals
  <2>3. CASE q # r
    BY <1>2, <1>3, <1>5, <2>3 DEF LeftQueue
  <2>4. QED
    BY <2>1, <2>2, <2>3
<1>7. LeftQueue' = LeftQueue
  BY <1>6 DEF LeftQueue
<1>8. Arrived' = Arrived \cup {r}
  BY <1>3 DEF Arrived
<1>9. what \in Refusals => r \notin LeftQueue
  BY DEF LeftQueue
<1>10. what \notin Refusals => r \in Arrived /\ Arrived' = Arrived
  BY <1>8 DEF Arrived
<1>11. QED
  BY <1>4, <1>7, <1>8, <1>9, <1>10

(* Every step of the pull queue is one of the exchange, or none: Register  *)
(* asks, handlePull gives, the four ways out of Process answer.            *)
LEMMA ExchangeStep == IInv /\ [Next]_vars => [X!Next]_(X!vars)
<1> SUFFICES ASSUME IInv, [Next]_vars PROVE X!Next \/ UNCHANGED X!vars
  OBVIOUS
<1>0. TypeOK /\ OnePlace /\ Registration /\ Routing /\ UsedOnce
  BY DEF IInv
<1> USE DEF X!vars
<1>1. ASSUME NEW r \in Requests, Reject(r) PROVE X!Next
  <2>1. /\ phase[r] = "new" /\ outcome[r] = "none"
        /\ phase' = [phase EXCEPT ![r] = "done"]
        /\ outcome' = [outcome EXCEPT ![r] = "rejected"]
        /\ UNCHANGED <<source, pending, abandoned>>
    BY <1>0, <1>1 DEF Reject, Registration
  <2>2. /\ Answers[r] = "none" /\ Answers' = [Answers EXCEPT ![r] = "refused"]
        /\ LeftQueue' = LeftQueue /\ r \notin LeftQueue /\ Arrived' = Arrived \cup {r}
    BY <2>1, ExchangeAnswers DEF Outcomes, Refusals, AnswerOf
  <2>3. X!Refuse(r)
    BY <2>1, <2>2 DEF X!Refuse, AbandonedJobs
  <2>4. QED
    BY <2>3 DEF X!Next
<1>2. ASSUME NEW r \in Requests, Register(r) PROVE X!Next
  <2>1. /\ phase[r] = "new" /\ phase' = [phase EXCEPT ![r] = "parking"]
        /\ UNCHANGED <<outcome, source, pending, abandoned>>
    BY <1>2 DEF Register
  <2>2. UNCHANGED <<Answers, LeftQueue>>
    BY <1>0, <2>1, ExchangeUnchanged DEF TypeOK, InPending
  <2>3. r \notin Arrived /\ Arrived' = Arrived \cup {r}
    BY <1>0, <2>1 DEF Arrived, TypeOK
  <2>4. X!Ask(r)
    BY <2>1, <2>2, <2>3 DEF X!Ask, AbandonedJobs
  <2>5. QED
    BY <2>4 DEF X!Next
<1>3. ASSUME NEW r \in Requests, Enqueue(r) PROVE UNCHANGED X!vars
  <2>1. /\ phase[r] = "parking" /\ phase' = [phase EXCEPT ![r] = "waiting"]
        /\ UNCHANGED <<outcome, source, abandoned>>
    BY <1>3 DEF Enqueue
  <2>2. \A m \in Requests : InPending(m)' <=> InPending(m) \/ m = r
    BY <1>0, <1>3, PendingSent
  <2>3. ASSUME NEW m \in Requests PROVE m \in LeftQueue' <=> m \in LeftQueue
    <3>1. CASE m = r
      BY <2>1, <2>2, <3>1 DEF LeftQueue
    <3>2. CASE m # r
      BY <1>0, <2>1, <2>2, <3>2 DEF LeftQueue, TypeOK
    <3>3. QED
      BY <3>1, <3>2
  <2>4. LeftQueue' = LeftQueue
    BY <2>3 DEF LeftQueue
  <2>5. Arrived' = Arrived
    BY <1>0, <2>1 DEF Arrived, TypeOK
  <2>6. QED
    BY <2>1, <2>4, <2>5 DEF Answers, AbandonedJobs
<1>4. ASSUME NEW r \in Requests, EnqueueTimeout(r) PROVE X!Next
  <2>1. /\ phase[r] = "parking" /\ outcome[r] = "none"
        /\ phase' = [phase EXCEPT ![r] = "returning"]
        /\ outcome' = [outcome EXCEPT ![r] = "noworker"]
        /\ source' = [source EXCEPT ![r] = None]
        /\ UNCHANGED <<pending, abandoned>>
    BY <1>0, <1>4 DEF EnqueueTimeout, Leave, Registration
  <2>2. /\ Answers[r] = "none" /\ Answers' = [Answers EXCEPT ![r] = "refused"]
        /\ LeftQueue' = LeftQueue /\ r \notin LeftQueue /\ Arrived' = Arrived \cup {r}
    BY <2>1, ExchangeAnswers DEF Outcomes, Refusals, AnswerOf
  <2>3. source' = source
    BY <1>0, <2>1 DEF UsedOnce, TypeOK, OrNone
  <2>4. X!Refuse(r)
    BY <2>1, <2>2, <2>3 DEF X!Refuse, AbandonedJobs
  <2>5. QED
    BY <2>4 DEF X!Next
<1>5. ASSUME NEW r \in Requests, ReceiveResult(r) PROVE X!Next
  <2>1. chan[r] # NoResult /\ chan[r].of \in Requests
    BY <1>0, <1>5, ChannelContents DEF ReceiveResult
  <2> DEFINE m == chan[r].of
             what == IF chan[r].ok THEN "outputs" ELSE "failed"
  <2>2. /\ phase[r] = "waiting" /\ outcome[r] = "none"
        /\ phase' = [phase EXCEPT ![r] = "returning"]
        /\ outcome' = [outcome EXCEPT ![r] = what]
        /\ source' = [source EXCEPT ![r] = m]
        /\ UNCHANGED <<pending, abandoned>>
    BY <1>0, <1>5 DEF ReceiveResult, Leave, Registration
  <2>3. what \in {"outputs", "failed"}
    OBVIOUS
  <2>4. InChannel(m)
    BY DEF InChannel
  <2>5. JobID[m] = JobID[r] /\ (m = r \/ JobID[r] \in DisturbedJobs)
    BY <1>0, <2>1 DEF Routing
  <2> HIDE DEF m, what
  <2>6. /\ Answers[r] = "none" /\ Answers' = [Answers EXCEPT ![r] = "result"]
        /\ LeftQueue' = LeftQueue /\ r \in Arrived /\ Arrived' = Arrived
    BY <2>2, <2>3, ExchangeAnswers DEF Outcomes, Refusals, AnswerOf
  <2>7. m \in Requests /\ InFlight(m)
    BY <2>1, <2>4 DEF m, InFlight
  <2>8. m \in LeftQueue
    BY <1>0, <2>4, <2>7 DEF LeftQueue, OnePlace, UsedOnce
  <2>9. \A q \in Requests : source[q] # m
    BY <1>0, <2>7 DEF UsedOnce
  <2>10. X!Answer(r, m)
    BY <2>2, <2>5, <2>6, <2>8, <2>9, SameDisturbed DEF X!Answer, AbandonedJobs
  <2>11. QED
    BY <2>7, <2>10 DEF X!Next
<1>6. ASSUME NEW r \in Requests, WaitTimeout(r) PROVE X!Next
  <2>1. /\ phase[r] = "waiting" /\ outcome[r] = "none"
        /\ phase' = [phase EXCEPT ![r] = "returning"]
        /\ outcome' = [outcome EXCEPT ![r] = "timeout"]
        /\ source' = [source EXCEPT ![r] = None]
        /\ UNCHANGED <<pending, abandoned>>
    BY <1>0, <1>6 DEF WaitTimeout, Leave, Registration
  <2>2. /\ Answers[r] = "none" /\ Answers' = [Answers EXCEPT ![r] = "timeout"]
        /\ LeftQueue' = LeftQueue /\ r \in Arrived /\ Arrived' = Arrived
    BY <2>1, ExchangeAnswers DEF Outcomes, Refusals, AnswerOf
  <2>3. source' = source
    BY <1>0, <2>1 DEF UsedOnce, TypeOK, OrNone
  <2>4. X!TimeOut(r)
    BY <2>1, <2>2, <2>3 DEF X!TimeOut, AbandonedJobs
  <2>5. QED
    BY <2>4 DEF X!Next
<1>7. ASSUME NEW r \in Requests, Return(r) PROVE UNCHANGED X!vars
  <2>1. /\ phase[r] = "returning" /\ phase' = [phase EXCEPT ![r] = "done"]
        /\ UNCHANGED <<outcome, source, pending, abandoned>>
    BY <1>7 DEF Return
  <2>2. UNCHANGED <<Answers, LeftQueue>>
    BY <1>0, <2>1, ExchangeUnchanged DEF TypeOK, InPending
  <2>3. Arrived' = Arrived
    BY <1>0, <2>1 DEF Arrived, TypeOK
  <2>4. QED
    BY <2>1, <2>2, <2>3 DEF AbandonedJobs
<1>8. ASSUME NEW r \in Requests, Abandon(r) PROVE X!Next
  <2>1. /\ phase[r] \in {"parking", "waiting", "returning"}
        /\ abandoned' = abandoned \cup {r}
        /\ UNCHANGED <<phase, outcome, source, pending>>
    BY <1>8 DEF Abandon
  <2>2. UNCHANGED <<Answers, LeftQueue, Arrived>> /\ r \in Arrived
    BY <2>1 DEF Answers, LeftQueue, Arrived, InPending
  <2>3. AbandonedJobs' = AbandonedJobs \cup {JobID[r]}
    BY <2>1 DEF AbandonedJobs
  <2>4. X!GiveUp(r)
    BY <2>1, <2>2, <2>3 DEF X!GiveUp
  <2>5. QED
    BY <2>4 DEF X!Next
<1>9. ASSUME UNCHANGED <<phase, outcome, source, pending, abandoned>> PROVE UNCHANGED X!vars
  BY <1>9 DEF Answers, LeftQueue, Arrived, AbandonedJobs, InPending
<1>10. ASSUME Pull \/ PullLost PROVE X!Next
  <2>1. /\ pending # <<>> /\ pending' = Tail(pending)
        /\ UNCHANGED <<phase, outcome, source, abandoned>>
    BY <1>10 DEF Pull, PullLost
  <2> DEFINE h == Head(pending)
  <2>2. /\ h \in Requests /\ InPending(h)
        /\ \A m \in Requests : InPending(m)' <=> InPending(m) /\ m # h
    BY <1>0, <2>1, PendingTaken
  <2> HIDE DEF h
  <2>3. /\ phase[h] \notin {"new", "parking"} /\ outcome[h] \notin Refusals
        /\ outcome[h] = "none" \/ JobID[h] \in DisturbedJobs
    BY <1>0, <2>2 DEF OnePlace, UsedOnce, Routing, Registration, InFlight
  <2>4. ASSUME NEW m \in Requests PROVE m \in LeftQueue' <=> m \in LeftQueue \/ m = h
    BY <2>1, <2>2, <2>3 DEF LeftQueue
  <2>5. LeftQueue' = LeftQueue \cup {h}
    BY <2>2, <2>4 DEF LeftQueue
  <2>6. h \in Arrived \ LeftQueue
    BY <2>2, <2>3 DEF Arrived, LeftQueue
  <2>7. Answers[h] # "refused" /\ (Answers[h] = "none" \/ JobID[h] \in DisturbedJobs)
    <3>1. outcome[h] \in Outcomes /\ Answers[h] = AnswerOf(outcome[h])
      BY <1>0, <2>2 DEF TypeOK, Answers
    <3>2. QED
      BY <2>3, <3>1 DEF AnswerOf, Outcomes, Refusals
  <2>8. UNCHANGED <<Answers, Arrived, AbandonedJobs, source>>
    BY <2>1 DEF Answers, Arrived, AbandonedJobs
  <2>9. X!Give(h)
    BY <2>5, <2>6, <2>7, <2>8, SameDisturbed DEF X!Give
  <2>10. QED
    BY <2>2, <2>9 DEF X!Next
<1> HIDE DEF X!vars
<1>11. QED
  BY <1>1, <1>2, <1>3, <1>4, <1>5, <1>6, <1>7, <1>8, <1>9, <1>10
     DEF Next, PullNothing, vars, Send, LookUp, ReportLost, Report

(* The pull queue implements the exchange of Exchange.tla for any number   *)
(* of requests, any reuse of job ids and any capacity: each request is     *)
(* answered at most once, each manifest leaves the queue at most once and  *)
(* each result of PixInsight answers at most one request, its own unless   *)
(* the job id was disturbed.                                               *)
THEOREM ExchangeRefined == Spec => ImplementsExchange
<1>1. Init => X!Init
  <2> SUFFICES ASSUME Init PROVE X!Init
    OBVIOUS
  <2>1. Arrived = {} /\ LeftQueue = {} /\ AbandonedJobs = {}
    BY DEF Init, Arrived, LeftQueue, AbandonedJobs
  <2>2. Answers = [r \in Requests |-> "none"]
    BY DEF Init, Answers, AnswerOf
  <2>3. source = [r \in Requests |-> None]
    BY DEF Init
  <2>4. QED
    BY <2>1, <2>2, <2>3 DEF X!Init
<1>2. QED
  BY <1>1, ExchangeStep, Invariance, PTL DEF Spec, ImplementsExchange, X!Spec
=============================================================================
