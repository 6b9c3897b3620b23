---------------------------- MODULE Measurements ----------------------------
(***************************************************************************)
(* The distributed frame measurements (WBPPShim.js,                        *)
(* distributeMeasurements, against measureFrames of WorkerRuntime.js): the *)
(* one per-frame operation whose result is data.  Every client frame comes *)
(* back as one small JSON file, and its row is attached to the frame as    *)
(* its descriptor (setDescriptor).  Whatever does not come back usable is  *)
(* measured on the server.  Files and rows go by base names.               *)
(***************************************************************************)
EXTENDS FiniteSets, Naturals

CONSTANTS Items,     \* fileItems: the frames computeDescriptors is called with
          Pos,       \* Pos[f]: the position of frame f in fileItems
          Names,     \* base names, with their extension
          Base,      \* Base[f]: the base name of frame f, in whatever folder
          Stems,     \* names without extension
          Stem,      \* Stem[n]: File.extractName of a base name
          Computers  \* the workers that take part in the job

ASSUME ItemsAssumption ==
    /\ IsFiniteSet(Items) /\ Base \in [Items -> Names] /\ Stem \in [Names -> Stems]
    /\ Pos \in [Items -> Nat] /\ \A f, g \in Items : f # g => Pos[f] # Pos[g]
    /\ {"none", "server"} \cap Items = {} /\ "none" \notin Computers

VARIABLES
    at,         \* where computeDescriptors is
    client,     \* the frames of the cluster's share
    row,        \* what the report delivers for each client frame
    leftovers,  \* client frames without a usable row
    attached,   \* the descriptor of each frame: measured on the server, or
                \* on a worker from the file of the frame named here
    tried,      \* frames the server's own measurement was called with
    shard,      \* the worker of each client frame
    sent,       \* frames whose file and row are on the disk of their worker
    rows,       \* rows[w][s]: the frame whose row is in <s>.ssm.json of worker w
    broken,     \* workers whose shard ended with an error
    pulled,     \* frames whose row file was asked for
    records,    \* those with a verified record in the report
    tmp         \* tmp[s]: the frame whose row is in <s>.ssm.json of out_dir

callVars    == <<at, client, row, leftovers, attached, tried>>
laneVars    == <<shard, sent, rows, broken, pulled, records, tmp>>
measureVars == <<callVars, laneVars>>

(* What SubframeSelector makes of a frame: no row, no stars, a value that  *)
(* is not a finite number, or a good row.                                  *)
Measured == {"skipped", "nostars", "nan", "good"}

(* JSON.stringify writes null for no row and for NaN and Infinity. *)
Json(m) == CASE m = "skipped" -> "null"
             [] m = "nan"     -> "nulls"
             [] OTHER         -> m

MeasureInit ==
    /\ at = "call"
    /\ client = {} /\ leftovers = {} /\ tried = {}
    /\ row = [f \in Items |-> "absent"]
    /\ attached = [f \in Items |-> "none"]
    /\ shard = [f \in Items |-> "none"]
    /\ rows = [w \in Computers |-> [s \in Stems |-> "none"]]
    /\ sent = {} /\ broken = {} /\ pulled = {} /\ records = {}
    /\ tmp = [s \in Stems |-> "none"]

(* computeDescriptors of WBPP (external): it measures the frames good, or  *)
(* throws on the way.                                                      *)
Original(targets, good) ==
    /\ good \subseteq targets
    /\ tried' = tried \cup targets
    /\ attached' = [f \in Items |-> IF f \in good THEN "server" ELSE attached[f]]

(* Fewer than two frames, no worker, or a server that does not work. *)
Native(good, throws) ==
    /\ at = "call"
    /\ Original(Items, good)
    /\ at' = IF throws THEN "fallback" ELSE "returned"
    /\ UNCHANGED <<client, row, leftovers, laneVars>>

(* The first frames stay here, the others go to the workers of p. *)
SplitItems(c, p) ==
    /\ at = "call" /\ Cardinality(Items) >= 2
    /\ \A f \in c, g \in Items \ c : Pos[g] < Pos[f]
    /\ client' = c
    /\ shard' = [f \in Items |-> IF f \in c THEN p[f] ELSE "none"]
    /\ at' = "server"
    /\ UNCHANGED <<row, leftovers, attached, tried, sent, rows, broken, pulled, records, tmp>>

(* The ctl process does not start. *)
DispatchFails ==
    /\ at = "call" /\ Cardinality(Items) >= 2
    /\ at' = "fallback"
    /\ UNCHANGED <<client, row, leftovers, attached, tried, laneVars>>

(* An exception leaves distributeMeasurements: the wrapper measures all.   *)
MeasureServer(good, throws) ==
    /\ at = "server"
    /\ Original(Items \ client, good)
    /\ throws => client # Items
    /\ at' = IF throws THEN "fallback" ELSE IF client = {} THEN "returned" ELSE "join"
    /\ UNCHANGED <<client, row, leftovers, laneVars>>

(* buildDescriptor: no row and no stars count as failed.  A number that    *)
(* was not finite does not: it has become null, and isFinite(null) holds.  *)
Usable(r) == r \in {"good", "nulls"}

-----------------------------------------------------------------------------
(* The job of the cluster, as far as file names matter; once the shim has  *)
(* given it up nobody looks at its folder any more.                        *)

\* Defect: all the rows of a worker go to one file.
RowNameShared(f) == CHOOSE s \in Stems : TRUE

(* <stem>.ssm.json, on the disk of the worker and in out_dir. *)
RowName(f) == Stem[Base[f]]

ShardMates(f) == {g \in client : shard[g] = shard[f]}

(* The frames of a shard in their order: a file replaces the one of the    *)
(* same base name before it, and its row, keyed by the base name, the row  *)
(* file of the same stem.                                                  *)
Upload(f) ==
    /\ at \in {"server", "join"} /\ f \in client \ sent /\ shard[f] \notin broken
    /\ \A g \in ShardMates(f) : Pos[g] < Pos[f] => g \in sent
    /\ sent' = sent \cup {f}
    /\ rows' = [rows EXCEPT ![shard[f]][RowName(f)] = f]
    /\ UNCHANGED <<callVars, shard, broken, pulled, records, tmp>>

(* An upload, SubframeSelector or the report of the shard fails. *)
ShardBreaks(w) ==
    /\ at \in {"server", "join"} /\ \E f \in client : shard[f] = w
    /\ w \notin broken /\ \A f \in pulled : shard[f] # w
    /\ broken' = broken \cup {w}
    /\ UNCHANGED <<callVars, shard, sent, rows, pulled, records, tmp>>

Pulling(f) ==
    /\ at \in {"server", "join"} /\ f \in client \ pulled /\ shard[f] \notin broken
    /\ ShardMates(f) \subseteq sent
    /\ pulled' = pulled \cup {f}
    /\ UNCHANGED <<callVars, shard, sent, rows, broken>>

(* Two workers may write the same file of out_dir: the later one stays. *)
Pull(f) ==
    /\ Pulling(f)
    /\ tmp' = [tmp EXCEPT ![RowName(f)] = rows[shard[f]][RowName(f)]]
    /\ records' = records \cup {f}

(* The download fails, and may leave a file that cannot be read. *)
PullFails(f, left) ==
    /\ Pulling(f)
    /\ left \in {tmp[RowName(f)], "none"}
    /\ tmp' = [tmp EXCEPT ![RowName(f)] = left]
    /\ UNCHANGED records

-----------------------------------------------------------------------------
(* rowByBase: the file of a verified record, under the base name of its    *)
(* input, as it is when all downloads are over.  content: what each file   *)
(* says.  setDescriptor for the usable rows.                               *)
JoinReport(content) ==
    /\ at = "join"
    /\ \A f \in client : f \in pulled \/ shard[f] \in broken
    /\ row' = [f \in Items |->
                  IF /\ f \in client /\ tmp[RowName(f)] # "none"
                     /\ \E g \in records : Base[g] = Base[f]
                  THEN Json(content[RowName(f)]) ELSE "absent"]
    /\ LET good == {f \in client : Usable(row'[f])} IN
       /\ attached' = [f \in Items |-> IF f \in good THEN tmp[RowName(f)] ELSE attached[f]]
       /\ leftovers' = client \ good
    /\ at' = IF leftovers' = {} THEN "returned" ELSE "leftovers"
    /\ UNCHANGED <<client, tried, laneVars>>

\* Defect: an exception of the second measurement is swallowed.
LeftoversSwallowed(good, throws) ==
    /\ at = "leftovers"
    /\ IF throws THEN UNCHANGED <<tried, attached>> ELSE Original(leftovers, good)
    /\ at' = "returned"
    /\ UNCHANGED <<client, row, leftovers, laneVars>>

MeasureLeftovers(good, throws) ==
    /\ at = "leftovers"
    /\ Original(leftovers, good)
    /\ at' = IF throws THEN "clusterfailed" ELSE "returned"
    /\ UNCHANGED <<client, row, leftovers, laneVars>>

(* distributeWait throws: no report, or the report of an error. *)
ReportFails ==
    /\ at = "join"
    /\ at' = "clusterfailed"
    /\ UNCHANGED <<client, row, leftovers, attached, tried, laneVars>>

(* The catch: the whole share of the cluster is measured here. *)
MeasureClient(good, throws) ==
    /\ at = "clusterfailed"
    /\ Original(client, good)
    /\ at' = IF throws THEN "fallback" ELSE "returned"
    /\ UNCHANGED <<client, row, leftovers, laneVars>>

(* The catch of wrapMeasurements. *)
MeasureAll(good) ==
    /\ at = "fallback"
    /\ Original(Items, good)
    /\ at' = "returned"
    /\ UNCHANGED <<client, row, leftovers, laneVars>>

Returned == at = "returned" /\ UNCHANGED measureVars

MeasureNext ==
    \/ DispatchFails \/ ReportFails \/ Returned
    \/ \E c \in SUBSET Items : \E p \in [c -> Computers] : SplitItems(c, p)
    \/ \E f \in Items :
          \/ Upload(f) \/ Pull(f)
          \/ \E left \in Items \cup {"none"} : PullFails(f, left)
    \/ \E w \in Computers : ShardBreaks(w)
    \/ \E content \in [Stems -> Measured] : JoinReport(content)
    \/ \E good \in SUBSET Items :
          \/ MeasureAll(good)
          \/ \E throws \in BOOLEAN :
                \/ Native(good, throws) \/ MeasureServer(good, throws)
                \/ MeasureLeftovers(good, throws) \/ MeasureClient(good, throws)

MeasureSpec == MeasureInit /\ [][MeasureNext]_measureVars
-----------------------------------------------------------------------------
MeasureTypeOK ==
    /\ at \in {"call", "server", "join", "leftovers", "clusterfailed", "fallback", "returned"}
    /\ client \subseteq Items /\ leftovers \subseteq client /\ tried \subseteq Items
    /\ row \in [Items -> {"absent", "null", "nostars", "nulls", "good"}]
    /\ attached \in [Items -> {"none", "server"} \cup Items]
    /\ shard \in [Items -> Computers \cup {"none"}]
    /\ rows \in [Computers -> [Stems -> Items \cup {"none"}]]
    /\ tmp \in [Stems -> Items \cup {"none"}]
    /\ sent \subseteq client /\ pulled \subseteq sent /\ records \subseteq pulled
    /\ broken \subseteq Computers

(* No frame goes unmeasured because of the cluster: when                   *)
(* computeDescriptors returns, a frame without a descriptor is one the     *)
(* server itself tried to measure.                                         *)
UnmeasuredWasTried ==
    at = "returned" => \A f \in Items : attached[f] = "none" => f \in tried

(* Files, rows and downloads of one name overwrite each other.  A          *)
(* descriptor of the cluster still measures the frame it is attached to    *)
(* unless another frame of the share has the same name, extension apart,   *)
(* in another folder; of those on one worker only the last is measured.    *)
DescriptorIsOwn ==
    \A f \in client, g \in Items :
        attached[f] = g /\ g # f =>
            /\ g \in client /\ Stem[Base[g]] = Stem[Base[f]]
            /\ shard[g] = shard[f] => Pos[f] < Pos[g]

(* "not returned/invalid -> measure locally" (WBPPShim.js:375): a frame    *)
(* with a value that is not a finite number gets no descriptor of the      *)
(* cluster.                                                                *)
DescriptorFinite ==
    \A f \in Items : attached[f] \in Items => row[f] = "good"
=============================================================================
