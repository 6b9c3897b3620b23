------------------------------- MODULE MCJob -------------------------------
(* What a job carries, in one run: its companion files, the transfer of    *)
(* one of its files, its process, and its shards.  The four share no state *)
(* here; a behaviour is one of a single component, the others at rest.     *)
EXTENDS Companions, Upload, ProcessSerializer, Sharding, TLC

CONSTANTS f1, f2, f3, w1, w2, u1, u2, u3, c1, c2, n1, n2, n3

(* Three frames, the least a light batch takes, on a server and two        *)
(* workers; one of them meets leftovers and failures, the others lie on    *)
(* one machine.                                                            *)
MCFrames    == {f1, f2, f3}
MCWorkers   == {w1, w2}
MCLeftovers == {f1}
MCPlaces    == {place \in [MCFrames -> MCWorkers \cup {Server}] : place[f2] = place[f3]}

(* Three transfers of a name: two of one content, one of another. *)
MCUploads  == {u1, u2, u3}
MCContents == {c1, c2}
MCContent  == [u \in MCUploads |-> IF u = u3 THEN c2 ELSE c1]
MCPacked   == {u2}

(* Three nodes, one frame in ten, four or two seconds. *)
MCNodes    == {n1, n2, n3}
MCJobSizes == {1, 4, 7}
MCRates    == {2, 5, 10}

Symmetry == Permutations(MCWorkers)

JobInit == Init /\ UploadInit /\ SerialInit /\ ShardInit

JobNext ==
    \/ UploadInit /\ SerialInit /\ ShardInit /\ Next /\ UNCHANGED <<uploadVars, serialVars, shardVars>>
    \/ Init /\ SerialInit /\ ShardInit /\ UploadNext /\ UNCHANGED <<vars, serialVars, shardVars>>
    \/ Init /\ UploadInit /\ ShardInit /\ SerialNext /\ UNCHANGED <<vars, uploadVars, shardVars>>
    \/ Init /\ UploadInit /\ SerialInit /\ ShardNext /\ UNCHANGED <<vars, uploadVars, serialVars>>

JobSpec == JobInit /\ [][JobNext]_<<vars, uploadVars, serialVars, shardVars>>

(* The type invariants of the four. *)
JobTypeOK == TypeOK /\ UploadTypeOK /\ SerialTypeOK /\ ShardTypeOK
=============================================================================
