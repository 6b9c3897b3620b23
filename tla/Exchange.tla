------------------------------ MODULE Exchange ------------------------------
(***************************************************************************)
(* What a worker promises the server about its /lan/work requests          *)
(* (sidecar/pullexecutor.go, the comment of Process): a manifest is given  *)
(* to PixInsight at most once, a request is answered once, a result        *)
(* answers at most one request, and that request is the one which brought  *)
(* the manifest, unless a request with its job id timed out or was given   *)
(* up by the server.                                                       *)
(***************************************************************************)
CONSTANTS Requests, JobID, None

VARIABLES
    asked,      \* requests that have arrived
    given,      \* requests whose manifest has left the queue
    answer,     \* how each request was answered
    source,     \* the manifest whose result it was answered with
    abandoned   \* job ids of requests the server gave up

vars == <<asked, given, answer, source, abandoned>>

Init ==
    /\ asked = {} /\ given = {} /\ abandoned = {}
    /\ answer = [r \in Requests |-> "none"]
    /\ source = [r \in Requests |-> None]

Disturbed ==
    abandoned \cup {JobID[q] : q \in {r \in Requests : answer[r] = "timeout"}}

Ask(r) ==
    /\ r \notin asked
    /\ asked' = asked \cup {r}
    /\ UNCHANGED <<given, answer, source, abandoned>>

GiveUp(r) ==
    /\ r \in asked
    /\ abandoned' = abandoned \cup {JobID[r]}
    /\ UNCHANGED <<asked, given, answer, source>>

Refuse(r) ==
    /\ answer[r] = "none" /\ r \notin given
    /\ asked' = asked \cup {r}
    /\ answer' = [answer EXCEPT ![r] = "refused"]
    /\ UNCHANGED <<given, source, abandoned>>

(* Nobody works for a request that is already answered, but for one that   *)
(* timed out.                                                              *)
Give(m) ==
    /\ m \in asked \ given
    /\ answer[m] # "refused"
    /\ answer[m] = "none" \/ JobID[m] \in Disturbed
    /\ given' = given \cup {m}
    /\ UNCHANGED <<asked, answer, source, abandoned>>

Answer(r, m) ==
    /\ r \in asked /\ answer[r] = "none"
    /\ m \in given /\ JobID[m] = JobID[r]
    /\ m = r \/ JobID[r] \in Disturbed
    /\ \A q \in Requests : source[q] # m
    /\ answer' = [answer EXCEPT ![r] = "result"]
    /\ source' = [source EXCEPT ![r] = m]
    /\ UNCHANGED <<asked, given, abandoned>>

TimeOut(r) ==
    /\ r \in asked /\ answer[r] = "none"
    /\ answer' = [answer EXCEPT ![r] = "timeout"]
    /\ UNCHANGED <<asked, given, source, abandoned>>

Next ==
    \E r \in Requests :
        \/ Ask(r) \/ GiveUp(r) \/ Refuse(r) \/ Give(r) \/ TimeOut(r)
        \/ \E m \in Requests : Answer(r, m)

Spec == Init /\ [][Next]_vars
=============================================================================
