------------------------ MODULE Measurements_proofs ------------------------
(***************************************************************************)
(* The distributed measurements, for any number of frames, any base names  *)
(* and whatever the workers and the server's own measurement return.       *)
(***************************************************************************)
EXTENDS Measurements, TLAPS

(* Descriptors and leftovers come only once the frames are split, and so   *)
(* does what the cluster writes.                                           *)
NothingYet ==
    at = "call" => /\ leftovers = {} /\ sent = {}
                   /\ \A f \in Items : attached[f] = "none"
                   /\ \A w \in Computers, s \in Stems : rows[w][s] = "none"
                   /\ \A s \in Stems : tmp[s] = "none"

(* By the time the report is looked at the server has been through its own *)
(* share, and what is not left over has a descriptor.                      *)
ShareByShare ==
    /\ at \in {"join", "leftovers", "clusterfailed"} => Items \ client \subseteq tried
    /\ at = "leftovers" => \A f \in client \ leftovers : attached[f] # "none"

(* A shard is sent in the order of its frames. *)
InOrder ==
    /\ \A f \in client : shard[f] \in Computers
    /\ \A f \in client, g \in sent : shard[f] = shard[g] /\ Pos[f] < Pos[g] => f \in sent

(* g has the last row of its name among the frames S of its worker. *)
LastOf(S, g) ==
    \A h \in S : shard[h] = shard[g] /\ RowName(h) = RowName(g) => Pos[h] <= Pos[g]

(* What the row files hold, on a worker and, the shard being complete by   *)
(* then, in out_dir.                                                       *)
LastWins ==
    /\ \A w \in Computers, s \in Stems, g \in Items :
          rows[w][s] = g => g \in sent /\ shard[g] = w /\ RowName(g) = s /\ LastOf(sent, g)
    /\ \A s \in Stems, g \in Items :
          tmp[s] = g => g \in client /\ RowName(g) = s /\ LastOf(client, g)

MeasureInv ==
    /\ MeasureTypeOK /\ NothingYet /\ ShareByShare /\ InOrder /\ LastWins
    /\ UnmeasuredWasTried /\ DescriptorIsOwn

(* When computeDescriptors is called no frame has a descriptor. *)
LEMMA MeasureInitInv == MeasureInit => MeasureInv
  BY ItemsAssumption
     DEF MeasureInit, MeasureInv, MeasureTypeOK, NothingYet, ShareByShare, InOrder, LastWins,
         UnmeasuredWasTried, DescriptorIsOwn

(* The type of what JSON makes of a measurement. *)
LEMMA JsonType ==
    ASSUME NEW m \in Measured
    PROVE  Json(m) \in {"absent", "null", "nostars", "nulls", "good"}
  BY DEF Json, Measured

(* Row files have the stems for names, and positions can be compared. *)
LEMMA RowNameType ==
    /\ \A f \in Items : RowName(f) \in Stems /\ Pos[f] \in Nat
    /\ \A f, g \in Items : f # g => Pos[f] # Pos[g]
    /\ "none" \notin Items /\ "server" \notin Items
  BY ItemsAssumption DEF RowName

(* The cluster's steps keep the call as it is, and the last row of a name. *)
LEMMA LaneStep ==
    ASSUME MeasureInv,
           NEW f \in Items,
           Upload(f) \/ Pull(f) \/ \E left \in Items \cup {"none"} : PullFails(f, left)
    PROVE  MeasureInv'
<1>1. /\ MeasureTypeOK /\ InOrder /\ LastWins
  BY DEF MeasureInv
<1>2. /\ UNCHANGED <<callVars, shard, broken>> /\ at # "call" /\ f \in client
  BY DEF Upload, Pull, PullFails, Pulling
<1>3. NothingYet' /\ ShareByShare' /\ UnmeasuredWasTried' /\ DescriptorIsOwn'
  BY <1>2 DEF MeasureInv, callVars, NothingYet, ShareByShare, UnmeasuredWasTried, DescriptorIsOwn
<1>4. CASE Upload(f)
  <2>1. /\ f \notin sent /\ sent' = sent \cup {f} /\ UNCHANGED <<pulled, records, tmp>>
        /\ \A g \in client : shard[g] = shard[f] /\ Pos[g] < Pos[f] => g \in sent
        /\ rows' = [rows EXCEPT ![shard[f]][RowName(f)] = f]
    BY <1>4 DEF Upload, ShardMates
  <2>2. \A w \in Computers, s \in Stems :
           rows'[w][s] = IF w = shard[f] /\ s = RowName(f) THEN f ELSE rows[w][s]
    BY <1>1, <1>2, <2>1, RowNameType DEF MeasureTypeOK, InOrder
  <2>3. MeasureTypeOK'
    <3>1. rows' \in [Computers -> [Stems -> Items \cup {"none"}]]
      BY <1>1, <1>2, <2>1, RowNameType DEF MeasureTypeOK, InOrder
    <3>2. QED
      BY <1>1, <1>2, <2>1, <3>1 DEF MeasureTypeOK, callVars
  <2>4. InOrder'
    BY <1>1, <1>2, <2>1, RowNameType DEF InOrder, callVars, MeasureTypeOK
  <2>5. \A g \in sent : shard[g] = shard[f] => Pos[g] <= Pos[f]
    BY <1>1, <1>2, <2>1, RowNameType DEF InOrder, MeasureTypeOK
  <2>6. ASSUME NEW w \in Computers, NEW s \in Stems, NEW g \in Items, rows'[w][s] = g
        PROVE  g \in sent' /\ shard[g] = w /\ RowName(g) = s /\ LastOf(sent', g)
    <3>1. CASE w = shard[f] /\ s = RowName(f)
      <4>1. g = f
        BY <2>2, <2>6, <3>1
      <4>2. LastOf(sent', f)
        BY <1>1, <2>1, <2>5, RowNameType DEF LastOf
      <4>3. QED
        BY <2>1, <3>1, <4>1, <4>2
    <3>2. CASE ~(w = shard[f] /\ s = RowName(f))
      <4>1. rows[w][s] = g
        BY <2>2, <2>6, <3>2
      <4>2. g \in sent /\ shard[g] = w /\ RowName(g) = s /\ LastOf(sent, g)
        BY <1>1, <4>1 DEF LastWins
      <4>3. QED
        BY <2>1, <3>2, <4>2 DEF LastOf
    <3>3. QED
      BY <3>1, <3>2
  <2>7. LastWins'
    <3>1. \A s \in Stems, g \in Items :
             tmp'[s] = g => g \in client' /\ RowName(g) = s /\ LastOf(client, g)
      BY <1>1, <1>2, <2>1 DEF LastWins, callVars
    <3>2. QED
      BY <1>2, <2>6, <3>1 DEF LastWins, LastOf, RowName, callVars
  <2>8. QED
    BY <1>3, <2>3, <2>4, <2>7 DEF MeasureInv
<1>5. CASE Pull(f) \/ \E left \in Items \cup {"none"} : PullFails(f, left)
  <2>1. PICK v : /\ v \in {tmp[RowName(f)], "none", rows[shard[f]][RowName(f)]}
                 /\ tmp' = [tmp EXCEPT ![RowName(f)] = v]
    BY <1>5 DEF Pull, PullFails
  <2>2. /\ UNCHANGED <<sent, rows>> /\ pulled' = pulled \cup {f}
        /\ \A g \in client : shard[g] = shard[f] => g \in sent
        /\ records' = records \/ records' = records \cup {f}
    BY <1>5 DEF Pull, PullFails, Pulling, ShardMates
  <2>3. f \in sent /\ shard[f] \in Computers /\ RowName(f) \in Stems
    BY <1>1, <1>2, <2>2, RowNameType DEF InOrder
  <2>4. v \in Items \cup {"none"}
    BY <1>1, <2>1, <2>3 DEF MeasureTypeOK
  <2>5. MeasureTypeOK'
    BY <1>1, <1>2, <2>1, <2>2, <2>3, <2>4 DEF MeasureTypeOK, callVars
  <2>6. InOrder'
    BY <1>1, <1>2, <2>2 DEF InOrder, callVars
  <2>7. ASSUME NEW s \in Stems, NEW g \in Items, tmp'[s] = g
        PROVE  g \in client /\ RowName(g) = s /\ LastOf(client, g)
    <3>1. CASE tmp[s] = g
      BY <1>1, <3>1 DEF LastWins
    <3>2. CASE tmp[s] # g
      <4>1. s = RowName(f) /\ v = g
        BY <1>1, <2>1, <2>3, <2>7, <3>2 DEF MeasureTypeOK
      <4>2. g = rows[shard[f]][s]
        BY <2>1, <3>2, <4>1, RowNameType
      <4>3. g \in sent /\ shard[g] = shard[f] /\ RowName(g) = s /\ LastOf(sent, g)
        BY <1>1, <2>3, <4>2 DEF LastWins
      <4>4. QED
        BY <1>1, <2>2, <4>3 DEF LastOf, MeasureTypeOK
    <3>3. QED
      BY <3>1, <3>2
  <2>8. LastWins'
    <3>1. \A w \in Computers, s \in Stems, g \in Items :
             rows'[w][s] = g => g \in sent' /\ shard[g] = w /\ RowName(g) = s /\ LastOf(sent', g)
      BY <1>1, <2>2 DEF LastWins
    <3>2. QED
      BY <1>2, <2>7, <3>1 DEF LastWins, LastOf, RowName, callVars
  <2>9. QED
    BY <1>3, <2>5, <2>6, <2>8 DEF MeasureInv
<1>6. QED
  BY <1>4, <1>5

(* The steps of the server, which leave the cluster's alone. *)
LEMMA CallStep ==
    ASSUME MeasureInv, UNCHANGED <<client, row, leftovers, laneVars>>,
           at = "call" \/ at' # "call",
           MeasureTypeOK', NothingYet', ShareByShare', UnmeasuredWasTried',
           \A f \in Items : attached'[f] \in {attached[f], "server"}
    PROVE  MeasureInv'
<1>1. InOrder' /\ LastWins'
  BY DEF MeasureInv, laneVars, InOrder, LastWins, LastOf, RowName
<1>2. DescriptorIsOwn'
  BY RowNameType DEF MeasureInv, laneVars, DescriptorIsOwn, MeasureTypeOK
<1>3. QED
  BY <1>1, <1>2 DEF MeasureInv

(* The split: the row files are still empty. *)
LEMMA SplitKeeps ==
    ASSUME MeasureInv, NEW c \in SUBSET Items, NEW p \in [c -> Computers], SplitItems(c, p)
    PROVE  MeasureInv'
<1>1. /\ client' = c /\ at = "call" /\ at' = "server"
      /\ shard' = [f \in Items |-> IF f \in c THEN p[f] ELSE "none"]
      /\ UNCHANGED <<row, leftovers, attached, tried, sent, rows, broken, pulled, records, tmp>>
  BY DEF SplitItems
<1>2. MeasureTypeOK'
  BY <1>1 DEF MeasureInv, MeasureTypeOK, NothingYet
<1>3. NothingYet' /\ ShareByShare' /\ UnmeasuredWasTried' /\ InOrder'
  BY <1>1 DEF MeasureInv, NothingYet, ShareByShare, UnmeasuredWasTried, InOrder
<1>4. LastWins' /\ DescriptorIsOwn'
  BY <1>1, RowNameType DEF MeasureInv, NothingYet, LastWins, DescriptorIsOwn
<1>5. QED
  BY <1>2, <1>3, <1>4 DEF MeasureInv

(* The report: each usable row is that of the last frame of its name. *)
LEMMA JoinKeeps ==
    ASSUME MeasureInv, NEW content \in [Stems -> Measured], JoinReport(content)
    PROVE  MeasureInv'
<1>1. PICK good : /\ good = {f \in client : Usable(row'[f])}
                  /\ attached' = [f \in Items |-> IF f \in good THEN tmp[RowName(f)] ELSE attached[f]]
                  /\ leftovers' = client \ good
  BY DEF JoinReport
<1>2. /\ at = "join" /\ at' = IF leftovers' = {} THEN "returned" ELSE "leftovers"
      /\ UNCHANGED <<client, tried, laneVars>>
  BY DEF JoinReport
<1>3. row' \in [Items -> {"absent", "null", "nostars", "nulls", "good"}]
  BY JsonType, RowNameType DEF JoinReport
<1>4. \A f \in good : f \in client /\ tmp[RowName(f)] \in Items
  <2>1. ASSUME NEW f \in client, tmp[RowName(f)] = "none" PROVE ~Usable(row'[f])
    <3>1. row'[f] = "absent"
      BY <2>1 DEF JoinReport, MeasureInv, MeasureTypeOK
    <3>2. QED
      BY <3>1 DEF Usable
  <2>2. QED
    BY <1>1, <2>1, RowNameType DEF MeasureInv, MeasureTypeOK
<1>5. MeasureTypeOK'
  BY <1>1, <1>2, <1>3, <1>4 DEF MeasureInv, MeasureTypeOK, laneVars
<1>6. NothingYet' /\ ShareByShare' /\ UnmeasuredWasTried'
  BY <1>1, <1>2, <1>4, RowNameType DEF MeasureInv, MeasureTypeOK, NothingYet, ShareByShare, UnmeasuredWasTried
<1>7. InOrder' /\ LastWins'
  BY <1>2 DEF MeasureInv, laneVars, InOrder, LastWins, LastOf, RowName
<1>8. ASSUME NEW f \in client, NEW g \in Items, attached'[f] = g, g # f
      PROVE  /\ g \in client /\ Stem[Base[g]] = Stem[Base[f]]
             /\ shard[g] = shard[f] => Pos[f] < Pos[g]
  <2>1. CASE f \in good
    <3>1. tmp[RowName(f)] = g /\ f \in Items
      BY <1>1, <1>8, <2>1 DEF MeasureInv, MeasureTypeOK
    <3>2. g \in client /\ RowName(g) = RowName(f) /\ LastOf(client, g)
      BY <3>1, RowNameType DEF MeasureInv, LastWins
    <3>3. shard[g] = shard[f] => Pos[f] <= Pos[g]
      BY <3>2 DEF LastOf
    <3>4. QED
      BY <1>8, <3>1, <3>2, <3>3, RowNameType DEF RowName
  <2>2. CASE f \notin good
    BY <1>1, <1>8, <2>2 DEF MeasureInv, MeasureTypeOK, DescriptorIsOwn
  <2>3. QED
    BY <2>1, <2>2
<1>9. DescriptorIsOwn'
  BY <1>2, <1>8 DEF DescriptorIsOwn, laneVars
<1>10. QED
  BY <1>5, <1>6, <1>7, <1>9 DEF MeasureInv

(* Each measurement on the server, the split and the report preserve it. *)
LEMMA MeasureStep == MeasureInv /\ [MeasureNext]_measureVars => MeasureInv'
<1> SUFFICES ASSUME MeasureInv, [MeasureNext]_measureVars PROVE MeasureInv'
  OBVIOUS
<1>0. MeasureTypeOK /\ NothingYet /\ ShareByShare /\ UnmeasuredWasTried
  BY DEF MeasureInv
<1> DEFINE Basics == MeasureTypeOK' /\ NothingYet' /\ ShareByShare' /\ UnmeasuredWasTried'
           Taken  == \A f \in Items : attached'[f] \in {attached[f], "server"}
<1>1. ASSUME DispatchFails \/ ReportFails PROVE MeasureInv'
  <2>1. Basics /\ Taken /\ UNCHANGED <<client, row, leftovers, laneVars>> /\ at' # "call"
    BY <1>0, <1>1 DEF DispatchFails, ReportFails, laneVars, MeasureTypeOK, NothingYet, ShareByShare,
       UnmeasuredWasTried
  <2>2. QED
    BY <2>1, CallStep
<1>2. ASSUME NEW targets \in SUBSET Items, NEW good \in SUBSET Items, Original(targets, good),
             UNCHANGED <<client, row, leftovers, laneVars>>,
             at' \in {"join", "clusterfailed", "fallback", "returned"},
             at' \in {"join", "clusterfailed"} => Items \ client \subseteq tried \cup targets,
             at' = "returned" => \A f \in Items : f \in targets \/ f \in tried \/ attached[f] # "none"
      PROVE  MeasureInv'
  <2>1. Taken
    BY <1>2 DEF Original
  <2>2. MeasureTypeOK'
    BY <1>0, <1>2 DEF Original, laneVars, MeasureTypeOK
  <2>3. NothingYet' /\ ShareByShare'
    BY <1>0, <1>2 DEF Original, NothingYet, ShareByShare
  <2>4. UnmeasuredWasTried'
    BY <1>0, <1>2 DEF Original, UnmeasuredWasTried, MeasureTypeOK
  <2>5. QED
    BY <1>2, <2>1, <2>2, <2>3, <2>4, CallStep
<1>3. ASSUME NEW good \in SUBSET Items, MeasureAll(good) PROVE MeasureInv'
  BY <1>2, <1>3 DEF MeasureAll
<1>4. ASSUME NEW good \in SUBSET Items, NEW throws \in BOOLEAN, Native(good, throws)
      PROVE  MeasureInv'
  BY <1>2, <1>4 DEF Native
<1>5. ASSUME NEW good \in SUBSET Items, NEW throws \in BOOLEAN, MeasureServer(good, throws)
      PROVE  MeasureInv'
  BY <1>0, <1>2, <1>5 DEF MeasureServer, MeasureTypeOK
<1>6. ASSUME NEW good \in SUBSET Items, NEW throws \in BOOLEAN, MeasureLeftovers(good, throws)
      PROVE  MeasureInv'
  <2>1. /\ Original(leftovers, good) /\ UNCHANGED <<client, row, leftovers, laneVars>>
        /\ at = "leftovers" /\ at' \in {"clusterfailed", "returned"}
    BY <1>6 DEF MeasureLeftovers
  <2>2. leftovers \in SUBSET Items /\ Items \ client \subseteq tried
    BY <1>0, <2>1 DEF MeasureTypeOK, ShareByShare
  <2>3. \A f \in Items : f \in leftovers \/ f \in tried \/ attached[f] # "none"
    BY <1>0, <2>1, <2>2 DEF ShareByShare
  <2>4. QED
    BY <1>2, <2>1, <2>2, <2>3
<1>7. ASSUME NEW good \in SUBSET Items, NEW throws \in BOOLEAN, MeasureClient(good, throws)
      PROVE  MeasureInv'
  <2>1. /\ Original(client, good) /\ UNCHANGED <<client, row, leftovers, laneVars>>
        /\ at = "clusterfailed" /\ at' \in {"fallback", "returned"}
    BY <1>7 DEF MeasureClient
  <2>2. client \in SUBSET Items /\ Items \ client \subseteq tried
    BY <1>0, <2>1 DEF MeasureTypeOK, ShareByShare
  <2>3. QED
    BY <1>2, <2>1, <2>2
<1>8. ASSUME NEW w \in Computers, ShardBreaks(w) PROVE MeasureInv'
  <2>1. /\ UNCHANGED <<callVars, shard, sent, rows, pulled, records, tmp>>
        /\ broken' = broken \cup {w}
    BY <1>8 DEF ShardBreaks
  <2>2. Basics
    BY <1>0, <2>1 DEF callVars, MeasureTypeOK, NothingYet, ShareByShare, UnmeasuredWasTried
  <2>3. InOrder' /\ LastWins' /\ DescriptorIsOwn'
    BY <2>1 DEF MeasureInv, callVars, InOrder, LastWins, LastOf, RowName, DescriptorIsOwn
  <2>4. QED
    BY <2>2, <2>3 DEF MeasureInv
<1>9. CASE UNCHANGED measureVars
  <2>1. Basics
    BY <1>0, <1>9 DEF measureVars, callVars, laneVars, MeasureTypeOK, NothingYet, ShareByShare,
       UnmeasuredWasTried
  <2>2. InOrder' /\ LastWins' /\ DescriptorIsOwn'
    BY <1>9 DEF measureVars, callVars, laneVars, MeasureInv, InOrder, LastWins, LastOf, RowName,
       DescriptorIsOwn
  <2>3. QED
    BY <2>1, <2>2 DEF MeasureInv
<1> QED
  BY <1>1, <1>3, <1>4, <1>5, <1>6, <1>7, <1>8, <1>9, LaneStep, SplitKeeps, JoinKeeps DEF MeasureNext, Returned

(* Shares, descriptors and attempts agree at every step of the call. *)
THEOREM MeasureInvariance == MeasureSpec => []MeasureInv
<1>1. QED
  BY MeasureInitInv, MeasureStep, PTL DEF MeasureSpec

(* distributeMeasurements keeps its types, whatever rows the report holds. *)
THEOREM MeasureTypeCorrect == MeasureSpec => []MeasureTypeOK
<1>1. MeasureInv => MeasureTypeOK
  BY DEF MeasureInv
<1>2. QED
  BY MeasureInvariance, <1>1, PTL

(* Wherever the cluster, the report or the server's own measurement fails, *)
(* a frame that ends without a descriptor was tried on the server.         *)
THEOREM UnmeasuredCorrect == MeasureSpec => []UnmeasuredWasTried
<1>1. MeasureInv => UnmeasuredWasTried
  BY DEF MeasureInv
<1>2. QED
  BY MeasureInvariance, <1>1, PTL

(* However uploads, row files and downloads overwrite each other: no       *)
(* frames are confused but those of one stem, and on one worker the last   *)
(* of them wins.                                                           *)
THEOREM DescriptorCorrect == MeasureSpec => []DescriptorIsOwn
<1>1. MeasureInv => DescriptorIsOwn
  BY DEF MeasureInv
<1>2. QED
  BY MeasureInvariance, <1>1, PTL

-----------------------------------------------------------------------------
(* What holds although DescriptorFinite does not: the only rows that pass  *)
(* buildDescriptor without being good are those in which JSON has written  *)
(* null for a number.  A frame without a row, without stars or without a   *)
(* verified output never gets a descriptor of the cluster, and neither     *)
(* does a frame of the server's share.                                     *)
OnlyNullsSlip ==
    \A f \in Items : attached[f] \in Items => f \in client /\ row[f] \in {"good", "nulls"}

(* setDescriptor, once called, stands: only the server's own measurement   *)
(* replaces a descriptor, and none is taken away.                          *)
DescriptorsStand ==
    [][\A f \in Items : attached[f] # "none" => attached'[f] \in {attached[f], "server"}]_measureVars

(* The report is read once, before any frame of the cluster has one. *)
ReadOnce ==
    /\ at \in {"call", "server"} => \A f \in Items : attached[f] = "none"
    /\ at = "join" => \A f \in Items : attached[f] \in {"none", "server"}
    /\ at = "join" => \A f \in client : attached[f] = "none"

(* A measurement on the server gives a frame its own descriptor or leaves  *)
(* what it has.                                                            *)
LEMMA OriginalEffect ==
    ASSUME MeasureInv, NEW targets, NEW good, Original(targets, good), NEW f \in Items
    PROVE  /\ attached'[f] \in {attached[f], "server"}
           /\ f \notin targets => attached'[f] = attached[f]
  BY DEF Original

(* Each step of the call keeps the two. *)
LEMMA ReadOnceStep ==
    MeasureInv /\ ReadOnce /\ OnlyNullsSlip /\ [MeasureNext]_measureVars
        => /\ ReadOnce' /\ OnlyNullsSlip'
           /\ \A f \in Items : attached[f] # "none" => attached'[f] \in {attached[f], "server"}
<1> DEFINE Stand == \A f \in Items : attached[f] # "none" => attached'[f] \in {attached[f], "server"}
<1> SUFFICES ASSUME MeasureInv, ReadOnce, OnlyNullsSlip, [MeasureNext]_measureVars
             PROVE  ReadOnce' /\ OnlyNullsSlip' /\ Stand
  OBVIOUS
<1>0. MeasureTypeOK /\ "none" \notin Items /\ "server" \notin Items
  BY ItemsAssumption DEF MeasureInv
<1>1. ASSUME UNCHANGED <<client, row, attached>>, at' \in {"fallback", "clusterfailed"}
      PROVE  ReadOnce' /\ OnlyNullsSlip' /\ Stand
  BY <1>1 DEF ReadOnce, OnlyNullsSlip
<1>2. ASSUME NEW c \in SUBSET Items, NEW p, SplitItems(c, p) PROVE ReadOnce' /\ OnlyNullsSlip' /\ Stand
  BY <1>0, <1>2 DEF SplitItems, ReadOnce, OnlyNullsSlip
<1>3. ASSUME NEW targets, NEW good, Original(targets, good), UNCHANGED <<client, row>>,
             at' \notin {"call", "server", "join"}
      PROVE  ReadOnce' /\ OnlyNullsSlip' /\ Stand
  <2>1. \A f \in Items : attached'[f] \in {attached[f], "server"}
    BY <1>3, OriginalEffect
  <2>2. ReadOnce'
    BY <1>3 DEF ReadOnce
  <2>3. QED
    BY <1>0, <1>3, <2>1, <2>2 DEF OnlyNullsSlip
<1>4. ASSUME NEW good, NEW throws \in BOOLEAN, MeasureServer(good, throws)
      PROVE  ReadOnce' /\ OnlyNullsSlip' /\ Stand
  <2>1. /\ at = "server" /\ UNCHANGED <<client, row>> /\ at' \notin {"call", "server"}
        /\ Original(Items \ client, good)
    BY <1>4 DEF MeasureServer
  <2>2. \A f \in Items : /\ attached[f] = "none" /\ attached'[f] \in {"none", "server"}
                         /\ f \in client => attached'[f] = "none"
    BY <2>1, OriginalEffect DEF ReadOnce
  <2>3. ReadOnce' /\ OnlyNullsSlip'
    BY <1>0, <2>1, <2>2 DEF ReadOnce, OnlyNullsSlip, MeasureTypeOK
  <2>4. QED
    BY <2>2, <2>3
<1>5. ASSUME NEW content \in [Stems -> Measured], JoinReport(content)
      PROVE  ReadOnce' /\ OnlyNullsSlip' /\ Stand
  <2> DEFINE good == {f \in client : Usable(row'[f])}
  <2>1. /\ at = "join" /\ at' \in {"returned", "leftovers"} /\ client' = client
        /\ attached' = [f \in Items |-> IF f \in good THEN tmp[RowName(f)] ELSE attached[f]]
    BY <1>5 DEF JoinReport
  <2>2. \A f \in good : f \in client /\ row'[f] \in {"good", "nulls"}
    BY DEF Usable
  <2> HIDE DEF good
  <2>3. \A f \in Items : attached[f] \in {"none", "server"}
    BY <2>1 DEF ReadOnce
  <2>4. \A f \in client : attached[f] = "none"
    BY <2>1 DEF ReadOnce
  <2>5. OnlyNullsSlip'
    BY <1>0, <2>1, <2>2, <2>3 DEF OnlyNullsSlip
  <2>6. ReadOnce' /\ Stand
    BY <2>1, <2>2, <2>4 DEF ReadOnce
  <2>7. QED
    BY <2>5, <2>6
<1>6. ASSUME UNCHANGED callVars PROVE ReadOnce' /\ OnlyNullsSlip' /\ Stand
  BY <1>6 DEF callVars, ReadOnce, OnlyNullsSlip
<1>7. ASSUME DispatchFails \/ ReportFails PROVE ReadOnce' /\ OnlyNullsSlip' /\ Stand
  BY <1>1, <1>7 DEF DispatchFails, ReportFails
<1>8. ASSUME NEW good \in SUBSET Items, NEW throws \in BOOLEAN,
             \/ MeasureAll(good) \/ Native(good, throws)
             \/ MeasureLeftovers(good, throws) \/ MeasureClient(good, throws)
      PROVE  ReadOnce' /\ OnlyNullsSlip' /\ Stand
  <2>1. /\ UNCHANGED <<client, row>> /\ at' \notin {"call", "server", "join"}
        /\ \E targets : Original(targets, good)
    BY <1>8 DEF MeasureAll, Native, MeasureLeftovers, MeasureClient
  <2>2. QED
    BY <1>3, <2>1
<1>9. ASSUME (\E f \in Items : Upload(f) \/ Pull(f) \/ \E left \in Items \cup {"none"} : PullFails(f, left))
             \/ (\E w \in Computers : ShardBreaks(w)) \/ UNCHANGED measureVars
      PROVE  UNCHANGED callVars
  BY <1>9 DEF Upload, Pull, PullFails, Pulling, ShardBreaks, measureVars
<1> HIDE DEF Stand
<1>10. QED
  BY <1>2, <1>4, <1>5, <1>6, <1>7, <1>8, <1>9 DEF MeasureNext, Returned

(* Both hold from the start. *)
LEMMA ReadOnceInit == MeasureInit => ReadOnce /\ OnlyNullsSlip
  BY ItemsAssumption DEF MeasureInit, ReadOnce, OnlyNullsSlip

(* The exact extent of what isFinite(null) lets through buildDescriptor. *)
THEOREM OnlyNullsCorrect == MeasureSpec => []OnlyNullsSlip
<1>1. MeasureInv /\ ReadOnce /\ OnlyNullsSlip /\ [MeasureNext]_measureVars
         => ReadOnce' /\ OnlyNullsSlip'
  BY ReadOnceStep
<1>2. QED
  BY <1>1, ReadOnceInit, MeasureInvariance, PTL DEF MeasureSpec

(* No failure between the cluster's rows and the end of computeDescriptors *)
(* takes a descriptor away or gives it to another frame.                   *)
THEOREM DescriptorsStandCorrect == MeasureSpec => DescriptorsStand
<1>1. MeasureInv /\ ReadOnce /\ OnlyNullsSlip /\ [MeasureNext]_measureVars
         => ReadOnce' /\ OnlyNullsSlip'
  BY ReadOnceStep
<1>2. MeasureInv /\ ReadOnce /\ OnlyNullsSlip /\ [MeasureNext]_measureVars
         => [\A f \in Items : attached[f] # "none"
                => attached'[f] \in {attached[f], "server"}]_measureVars
  BY ReadOnceStep
<1>3. QED
  BY <1>1, <1>2, ReadOnceInit, MeasureInvariance, PTL DEF MeasureSpec, DescriptorsStand
=============================================================================
