-------------------------- MODULE Session_proofs --------------------------
(***************************************************************************)
(* The launches of the script and their daemons, for any number of         *)
(* launches, any number of polls and every sidecar that is shipped.        *)
(***************************************************************************)
EXTENDS Session, TLAPS

(* A launch that has not begun has left no trace. *)
NotBegun ==
    \A s \in Launches : s > session =>
        /\ role[s] = "none" /\ wbpp[s] = 0 /\ proc[s] = "none"
        /\ s \notin keyFile \cup temp \cup raised \cup crashed \cup threw \cup ended

(* Where main() stands, and what it has done by then. *)
Progress ==
    script # "off" =>
        /\ session \in Launches /\ role[session] # "none"
        /\ session \notin ended \cup crashed
        /\ session \in raised => script = "native"
        /\ script \in {"native", "wbpp", "ran"} => role[session] = "server"
        /\ session \in threw => script \in {"stop", "clear"}
        /\ wbpp[session] = IF /\ role[session] = "server" /\ session \notin threw
                              /\ script \in {"ran", "stop", "clear"}
                           THEN 1 ELSE 0
        /\ script \in {"start", "kill", "spawn"} => proc[session] = "none"
        /\ script \in {"native", "clear"} => ~Alive(session)

(* A launch leaves download directories behind only by crashing. *)
TempLeft ==
    /\ \A s \in crashed : s \notin ended
    /\ \A s \in temp : s \in crashed \/ (s = session /\ script = "ran")

(* The daemon removes the key file as it reads it. *)
KeyUnread == \A s \in keyFile : proc[s] \in {"none", "starting"}

(* While a client runs, a daemon that can write to the cache is its own or *)
(* was there when the cache was cleared.                                   *)
WritersKnown ==
    IsClient /\ script # "off" =>
        \A d \in Launches : Alive(d) => d \in {session} \cup survivors

SessionInv ==
    /\ TypeOK /\ NotBegun /\ Progress /\ TempLeft /\ KeyUnread /\ WritersKnown
    /\ WBPPOnce /\ KeyFileGone /\ OutlivesOnlyCrash /\ CacheFresh

(* Before the first launch there is neither a daemon nor a file. *)
LEMMA InitInv == Init => SessionInv
<1> SUFFICES ASSUME Init PROVE SessionInv
  OBVIOUS
<1>1. TypeOK
  <2>1. active \in BOOLEAN
    BY Zenon DEF Init
  <2> QED
    BY <2>1, SessionAssumption DEF Init, TypeOK, Launches
<1>2. NotBegun /\ Progress /\ TempLeft /\ KeyUnread
  BY DEF Init, NotBegun, Progress, TempLeft, KeyUnread
<1>3. \A d \in Launches : ~Alive(d)
  BY DEF Init, Alive
<1>4. WBPPOnce
  BY DEF Init, WBPPOnce
<1>5. KeyFileGone
  BY DEF Init, KeyFileGone
<1>6. OutlivesOnlyCrash /\ CacheFresh /\ WritersKnown
  BY <1>3 DEF Init, OutlivesOnlyCrash, CacheFresh, WritersKnown
<1> QED
  BY <1>1, <1>2, <1>4, <1>5, <1>6 DEF SessionInv

(* Every step keeps the types: main() is past the role picker only in a    *)
(* launch that has a number.                                               *)
LEMMA TypeStep == SessionInv /\ [Next]_vars => TypeOK'
<1> SUFFICES ASSUME SessionInv, [Next]_vars PROVE TypeOK'
  OBVIOUS
<1>a. TypeOK /\ (script # "off" => session \in Launches)
  BY DEF SessionInv, Progress
<1>b. session \in 0..Last /\ (session < Last => session + 1 \in Launches /\ session + 1 \in 0..Last)
  BY <1>a, SessionAssumption DEF TypeOK, Launches
<1>c. Polls \in 0..Polls /\ (polls > 0 => polls - 1 \in 0..Polls)
  BY <1>a, SessionAssumption DEF TypeOK
<1> USE <1>a, <1>b, <1>c DEF TypeOK, fileVars, scriptVars, history
<1>1. ASSUME Decline PROVE TypeOK'
  BY <1>1 DEF Decline
<1>2. ASSUME NEW r \in {"server", "client"}, NEW kept \in SUBSET Launches, PickRole(r, kept)
      PROVE  TypeOK'
  BY <1>2 DEF PickRole, ClearCache
<1>3. ASSUME WriteKeyFails PROVE TypeOK'
  BY <1>3 DEF WriteKeyFails, StartThrows, End
<1>4. ASSUME WriteKey PROVE TypeOK'
  BY <1>4 DEF WriteKey
<1>5. ASSUME KillStale PROVE TypeOK'
  BY <1>5 DEF KillStale, Kill
<1>6. ASSUME Spawn PROVE TypeOK'
  BY <1>6 DEF Spawn
<1>7. ASSUME SpawnFails PROVE TypeOK'
  BY <1>7 DEF SpawnFails, StartThrows, End
<1>8. ASSUME SpawnRaises PROVE TypeOK'
  BY <1>8 DEF SpawnRaises, StartThrows, End
<1>9. ASSUME Settled PROVE TypeOK'
  BY <1>9 DEF Settled, StartThrows, End
<1>10. ASSUME Unsupported PROVE TypeOK'
  BY <1>10 DEF Unsupported
<1>11. ASSUME PollNobody PROVE TypeOK'
  BY <1>11 DEF PollNobody
<1>12. ASSUME PollTimeout PROVE TypeOK'
  BY <1>12 DEF PollTimeout
<1>13. ASSUME FoundClients PROVE TypeOK'
  BY <1>13 DEF FoundClients
<1>14. ASSUME NEW downloads \in BOOLEAN, RunWBPP(downloads) PROVE TypeOK'
  BY <1>14 DEF RunWBPP
<1>15. ASSUME Recap PROVE TypeOK'
  BY <1>15 DEF Recap
<1>16. ASSUME RunLocally PROVE TypeOK'
  BY <1>16 DEF RunLocally, End
<1>17. ASSUME LeaveClient PROVE TypeOK'
  BY <1>17 DEF LeaveClient
<1>18. ASSUME Stop PROVE TypeOK'
  BY <1>18 DEF Stop, Kill
<1>19. ASSUME NEW kept \in SUBSET Launches, Clear(kept) PROVE TypeOK'
  BY <1>19 DEF Clear, ClearCache, End
<1>20. ASSUME Crash PROVE TypeOK'
  BY <1>20 DEF Crash
<1>21. ASSUME NEW d \in Launches, ReadKey(d) PROVE TypeOK'
  BY <1>21 DEF ReadKey
<1>22. ASSUME NEW d \in Launches, KeyMissing(d) PROVE TypeOK'
  BY <1>22 DEF KeyMissing
<1>23. ASSUME NEW d \in Launches, Bind(d) PROVE TypeOK'
  BY <1>23 DEF Bind
<1>24. ASSUME NEW d \in Launches, BindFails(d) PROVE TypeOK'
  BY <1>24 DEF BindFails
<1>25. ASSUME NEW d \in Launches, Receive(d) PROVE TypeOK'
  BY <1>25 DEF Receive
<1>26. ASSUME NEW d \in Launches, DaemonDies(d) PROVE TypeOK'
  BY <1>26 DEF DaemonDies, Kill
<1>28. ASSUME NEW r \in {"server", "client"}, UserDirFails(r) PROVE TypeOK'
  BY <1>28 DEF UserDirFails
<1>29. ASSUME LogDirFails PROVE TypeOK'
  BY <1>29 DEF LogDirFails, End
<1>30. ASSUME ServerThrows PROVE TypeOK'
  BY <1>30 DEF ServerThrows
<1>27. ASSUME UNCHANGED vars PROVE TypeOK'
  BY <1>27 DEF vars
<1> QED
  BY <1>1, <1>2, <1>3, <1>4, <1>5, <1>6, <1>7, <1>8, <1>9, <1>10, <1>11, <1>12, <1>13,
     <1>14, <1>15, <1>16, <1>17, <1>18, <1>19, <1>20, <1>21, <1>22, <1>23, <1>24, <1>25,
     <1>26, <1>27, <1>28, <1>29, <1>30
     DEF Next, Script, User, Mishap, Daemon, Closed

(* Every step of main(), of the user and of a daemon preserves it. *)
LEMMA InvStep == SessionInv /\ [Next]_vars => SessionInv'
<1> SUFFICES ASSUME SessionInv, [Next]_vars PROVE SessionInv'
  OBVIOUS
<1>0. TypeOK'
  BY TypeStep
<1> USE <1>0, SessionAssumption
        DEF SessionInv, TypeOK, Launches, IsClient, Alive, fileVars, scriptVars, history
<1>2. ASSUME NEW r \in {"server", "client"}, NEW kept \in SUBSET Launches, PickRole(r, kept)
      PROVE  SessionInv'
  <2>1. NotBegun' /\ Progress' /\ TempLeft'
    BY <1>2 DEF PickRole, ClearCache, NotBegun, Progress, TempLeft
  <2>2. KeyUnread' /\ KeyFileGone'
    BY <1>2 DEF PickRole, ClearCache, NotBegun, Progress, KeyUnread, KeyFileGone
  <2>3. WBPPOnce' /\ OutlivesOnlyCrash'
    BY <1>2 DEF PickRole, ClearCache, NotBegun, Progress, TempLeft, WBPPOnce, OutlivesOnlyCrash
  <2>4. WritersKnown' /\ CacheFresh'
    <3>1. IsClient' <=> r = "client"
      BY <1>2 DEF PickRole
    <3>2. r = "client" => cache' \subseteq survivors' /\ survivors' = {d \in Launches : Alive(d)}
      <4>1. r = "client" => ClearCache(kept)
        BY <1>2 DEF PickRole
      <4> HIDE DEF Alive, SessionInv
      <4> QED
        BY <4>1 DEF ClearCache
    <3>3. \A d \in Launches : Alive(d)' <=> Alive(d)
      BY <1>2 DEF PickRole
    <3> HIDE DEF IsClient, Alive
    <3> QED
      BY <3>1, <3>2, <3>3 DEF WritersKnown, CacheFresh
  <2> QED
    BY <2>1, <2>2, <2>3, <2>4
<1>3. ASSUME WriteKeyFails PROVE SessionInv'
  <2>1. NotBegun' /\ Progress' /\ TempLeft'
    BY <1>3 DEF WriteKeyFails, StartThrows, End, NotBegun, Progress, TempLeft
  <2>2. KeyUnread' /\ KeyFileGone'
    BY <1>3 DEF WriteKeyFails, StartThrows, End, NotBegun, Progress, KeyUnread, KeyFileGone
  <2>3. WBPPOnce' /\ OutlivesOnlyCrash'
    BY <1>3
       DEF WriteKeyFails, StartThrows, End, NotBegun, Progress, TempLeft, WBPPOnce,
           OutlivesOnlyCrash
  <2>4. WritersKnown' /\ CacheFresh'
    BY <1>3
       DEF WriteKeyFails, StartThrows, End, NotBegun, Progress, OutlivesOnlyCrash,
           WritersKnown, CacheFresh
  <2> QED
    BY <2>1, <2>2, <2>3, <2>4
<1>7. ASSUME SpawnFails PROVE SessionInv'
  <2>1. NotBegun' /\ Progress' /\ TempLeft'
    BY <1>7 DEF SpawnFails, StartThrows, End, NotBegun, Progress, TempLeft
  <2>2. KeyUnread' /\ KeyFileGone'
    BY <1>7 DEF SpawnFails, StartThrows, End, NotBegun, Progress, KeyUnread, KeyFileGone
  <2>3. WBPPOnce' /\ OutlivesOnlyCrash'
    BY <1>7
       DEF SpawnFails, StartThrows, End, NotBegun, Progress, TempLeft, WBPPOnce,
           OutlivesOnlyCrash
  <2>4. WritersKnown' /\ CacheFresh'
    BY <1>7
       DEF SpawnFails, StartThrows, End, NotBegun, Progress, OutlivesOnlyCrash,
           WritersKnown, CacheFresh
  <2> QED
    BY <2>1, <2>2, <2>3, <2>4
<1>8. ASSUME SpawnRaises PROVE SessionInv'
  <2>1. NotBegun' /\ Progress' /\ TempLeft'
    BY <1>8 DEF SpawnRaises, StartThrows, End, NotBegun, Progress, TempLeft
  <2>2. KeyUnread' /\ KeyFileGone'
    BY <1>8 DEF SpawnRaises, StartThrows, End, NotBegun, Progress, KeyUnread, KeyFileGone
  <2>3. WBPPOnce' /\ OutlivesOnlyCrash'
    BY <1>8
       DEF SpawnRaises, StartThrows, End, NotBegun, Progress, TempLeft, WBPPOnce,
           OutlivesOnlyCrash
  <2>4. WritersKnown' /\ CacheFresh'
    BY <1>8
       DEF SpawnRaises, StartThrows, End, NotBegun, Progress, OutlivesOnlyCrash,
           WritersKnown, CacheFresh
  <2> QED
    BY <2>1, <2>2, <2>3, <2>4
<1>9. ASSUME Settled PROVE SessionInv'
  <2>1. NotBegun' /\ Progress' /\ TempLeft'
    BY <1>9 DEF Settled, StartThrows, End, NotBegun, Progress, TempLeft
  <2>2. KeyUnread' /\ KeyFileGone'
    BY <1>9 DEF Settled, StartThrows, End, NotBegun, Progress, KeyUnread, KeyFileGone
  <2>3. WBPPOnce' /\ OutlivesOnlyCrash'
    BY <1>9
       DEF Settled, StartThrows, End, NotBegun, Progress, TempLeft, WBPPOnce,
           OutlivesOnlyCrash
  <2>4. WritersKnown' /\ CacheFresh'
    BY <1>9
       DEF Settled, StartThrows, End, NotBegun, Progress, OutlivesOnlyCrash, WritersKnown,
           CacheFresh
  <2> QED
    BY <2>1, <2>2, <2>3, <2>4
<1>18. ASSUME Stop PROVE SessionInv'
  <2>1. NotBegun' /\ Progress' /\ TempLeft'
    BY <1>18 DEF Stop, Kill, NotBegun, Progress, TempLeft
  <2>2. KeyUnread' /\ KeyFileGone'
    BY <1>18 DEF Stop, Kill, NotBegun, Progress, KeyUnread, KeyFileGone
  <2>3. WBPPOnce' /\ OutlivesOnlyCrash'
    BY <1>18 DEF Stop, Kill, NotBegun, Progress, TempLeft, WBPPOnce, OutlivesOnlyCrash
  <2>4. WritersKnown' /\ CacheFresh'
    BY <1>18 DEF Stop, Kill, NotBegun, Progress, OutlivesOnlyCrash, WritersKnown, CacheFresh
  <2> QED
    BY <2>1, <2>2, <2>3, <2>4
<1>19. ASSUME NEW kept \in SUBSET Launches, Clear(kept) PROVE SessionInv'
  <2>1. NotBegun' /\ Progress' /\ TempLeft'
    BY <1>19 DEF Clear, ClearCache, End, NotBegun, Progress, TempLeft
  <2>2. KeyUnread' /\ KeyFileGone'
    BY <1>19 DEF Clear, ClearCache, End, NotBegun, Progress, KeyUnread, KeyFileGone
  <2>3. WBPPOnce' /\ OutlivesOnlyCrash'
    BY <1>19
       DEF Clear, ClearCache, End, NotBegun, Progress, TempLeft, WBPPOnce,
           OutlivesOnlyCrash
  <2>4. WritersKnown' /\ CacheFresh'
    BY <1>19
       DEF Clear, ClearCache, End, NotBegun, Progress, OutlivesOnlyCrash, WritersKnown,
           CacheFresh
  <2> QED
    BY <2>1, <2>2, <2>3, <2>4
<1>20. ASSUME Crash PROVE SessionInv'
  <2>1. NotBegun' /\ Progress' /\ TempLeft'
    BY <1>20 DEF Crash, NotBegun, Progress, TempLeft
  <2>2. KeyUnread' /\ KeyFileGone'
    BY <1>20 DEF Crash, NotBegun, Progress, KeyUnread, KeyFileGone
  <2>3. WBPPOnce' /\ OutlivesOnlyCrash'
    BY <1>20 DEF Crash, NotBegun, Progress, TempLeft, WBPPOnce, OutlivesOnlyCrash
  <2>4. WritersKnown' /\ CacheFresh'
    BY <1>20 DEF Crash, NotBegun, Progress, OutlivesOnlyCrash, WritersKnown, CacheFresh
  <2> QED
    BY <2>1, <2>2, <2>3, <2>4
<1>21. ASSUME NEW d \in Launches, ReadKey(d) PROVE SessionInv'
  <2>1. NotBegun' /\ Progress' /\ TempLeft'
    BY <1>21 DEF ReadKey, NotBegun, Progress, TempLeft
  <2>2. KeyUnread' /\ KeyFileGone'
    BY <1>21 DEF ReadKey, NotBegun, Progress, KeyUnread, KeyFileGone
  <2>3. WBPPOnce' /\ OutlivesOnlyCrash'
    BY <1>21 DEF ReadKey, NotBegun, Progress, TempLeft, WBPPOnce, OutlivesOnlyCrash
  <2>4. WritersKnown' /\ CacheFresh'
    BY <1>21 DEF ReadKey, NotBegun, Progress, OutlivesOnlyCrash, WritersKnown, CacheFresh
  <2> QED
    BY <2>1, <2>2, <2>3, <2>4
<1>22. ASSUME NEW d \in Launches, KeyMissing(d) PROVE SessionInv'
  <2>1. NotBegun' /\ Progress' /\ TempLeft'
    BY <1>22 DEF KeyMissing, NotBegun, Progress, TempLeft
  <2>2. KeyUnread' /\ KeyFileGone'
    BY <1>22 DEF KeyMissing, NotBegun, Progress, KeyUnread, KeyFileGone
  <2>3. WBPPOnce' /\ OutlivesOnlyCrash'
    BY <1>22 DEF KeyMissing, NotBegun, Progress, TempLeft, WBPPOnce, OutlivesOnlyCrash
  <2>4. WritersKnown' /\ CacheFresh'
    BY <1>22 DEF KeyMissing, NotBegun, Progress, OutlivesOnlyCrash, WritersKnown, CacheFresh
  <2> QED
    BY <2>1, <2>2, <2>3, <2>4
<1>23. ASSUME NEW d \in Launches, Bind(d) PROVE SessionInv'
  <2>1. NotBegun' /\ Progress' /\ TempLeft'
    BY <1>23 DEF Bind, NotBegun, Progress, TempLeft
  <2>2. KeyUnread' /\ KeyFileGone'
    BY <1>23 DEF Bind, NotBegun, Progress, KeyUnread, KeyFileGone
  <2>3. WBPPOnce' /\ OutlivesOnlyCrash'
    BY <1>23 DEF Bind, NotBegun, Progress, TempLeft, WBPPOnce, OutlivesOnlyCrash
  <2>4. WritersKnown' /\ CacheFresh'
    BY <1>23 DEF Bind, NotBegun, Progress, OutlivesOnlyCrash, WritersKnown, CacheFresh
  <2> QED
    BY <2>1, <2>2, <2>3, <2>4
<1>24. ASSUME NEW d \in Launches, BindFails(d) PROVE SessionInv'
  <2>1. NotBegun' /\ Progress' /\ TempLeft'
    BY <1>24 DEF BindFails, NotBegun, Progress, TempLeft
  <2>2. KeyUnread' /\ KeyFileGone'
    BY <1>24 DEF BindFails, NotBegun, Progress, KeyUnread, KeyFileGone
  <2>3. WBPPOnce' /\ OutlivesOnlyCrash'
    BY <1>24 DEF BindFails, NotBegun, Progress, TempLeft, WBPPOnce, OutlivesOnlyCrash
  <2>4. WritersKnown' /\ CacheFresh'
    BY <1>24 DEF BindFails, NotBegun, Progress, OutlivesOnlyCrash, WritersKnown, CacheFresh
  <2> QED
    BY <2>1, <2>2, <2>3, <2>4
<1>27. ASSUME UNCHANGED vars PROVE SessionInv'
  <2>1. NotBegun' /\ Progress' /\ TempLeft'
    BY <1>27 DEF vars, fileVars, scriptVars, history, NotBegun, Progress, TempLeft
  <2>2. KeyUnread' /\ KeyFileGone'
    BY <1>27 DEF vars, fileVars, scriptVars, history, NotBegun, Progress, KeyUnread, KeyFileGone
  <2>3. WBPPOnce' /\ OutlivesOnlyCrash'
    BY <1>27
       DEF vars, fileVars, scriptVars, history, NotBegun, Progress, TempLeft, WBPPOnce,
           OutlivesOnlyCrash
  <2>4. WritersKnown' /\ CacheFresh'
    BY <1>27
       DEF vars, fileVars, scriptVars, history, NotBegun, Progress, OutlivesOnlyCrash,
           WritersKnown, CacheFresh
  <2> QED
    BY <2>1, <2>2, <2>3, <2>4
<1>16. ASSUME RunLocally PROVE SessionInv'
  <2>1. NotBegun' /\ Progress' /\ TempLeft'
    BY <1>16 DEF RunLocally, End, NotBegun, Progress, TempLeft
  <2>2. KeyUnread' /\ KeyFileGone'
    BY <1>16 DEF RunLocally, End, NotBegun, Progress, KeyUnread, KeyFileGone
  <2>3. WBPPOnce' /\ OutlivesOnlyCrash'
    BY <1>16 DEF RunLocally, End, NotBegun, Progress, TempLeft, WBPPOnce, OutlivesOnlyCrash
  <2>4. WritersKnown' /\ CacheFresh'
    BY <1>16
       DEF RunLocally, End, NotBegun, Progress, OutlivesOnlyCrash, WritersKnown,
           CacheFresh
  <2> QED
    BY <2>1, <2>2, <2>3, <2>4
<1>25. ASSUME NEW d \in Launches, Receive(d) PROVE SessionInv'
  <2>1. NotBegun' /\ Progress' /\ TempLeft'
    BY <1>25 DEF Receive, NotBegun, Progress, TempLeft
  <2>2. KeyUnread' /\ KeyFileGone'
    BY <1>25 DEF Receive, NotBegun, Progress, KeyUnread, KeyFileGone
  <2>3. WBPPOnce' /\ OutlivesOnlyCrash'
    BY <1>25 DEF Receive, NotBegun, Progress, TempLeft, WBPPOnce, OutlivesOnlyCrash
  <2>4. WritersKnown' /\ CacheFresh'
    BY <1>25 DEF Receive, NotBegun, Progress, OutlivesOnlyCrash, WritersKnown, CacheFresh
  <2> QED
    BY <2>1, <2>2, <2>3, <2>4
<1>14. ASSUME NEW downloads \in BOOLEAN, RunWBPP(downloads) PROVE SessionInv'
  <2>1. NotBegun' /\ Progress' /\ TempLeft'
    BY <1>14 DEF RunWBPP, NotBegun, Progress, TempLeft
  <2>2. KeyUnread' /\ KeyFileGone'
    BY <1>14 DEF RunWBPP, NotBegun, Progress, KeyUnread, KeyFileGone
  <2>3. WBPPOnce' /\ OutlivesOnlyCrash'
    BY <1>14 DEF RunWBPP, NotBegun, Progress, TempLeft, WBPPOnce, OutlivesOnlyCrash
  <2>4. WritersKnown' /\ CacheFresh'
    BY <1>14 DEF RunWBPP, NotBegun, Progress, OutlivesOnlyCrash, WritersKnown, CacheFresh
  <2> QED
    BY <2>1, <2>2, <2>3, <2>4
<1>28. ASSUME NEW r \in {"server", "client"}, UserDirFails(r) PROVE SessionInv'
  <2>1. NotBegun' /\ Progress' /\ TempLeft'
    BY <1>28 DEF UserDirFails, NotBegun, Progress, TempLeft
  <2>2. KeyUnread' /\ KeyFileGone'
    BY <1>28 DEF UserDirFails, NotBegun, Progress, KeyUnread, KeyFileGone
  <2>3. WBPPOnce' /\ OutlivesOnlyCrash'
    BY <1>28 DEF UserDirFails, NotBegun, Progress, TempLeft, WBPPOnce, OutlivesOnlyCrash
  <2>4. WritersKnown' /\ CacheFresh'
    BY <1>28 DEF UserDirFails, NotBegun, Progress, OutlivesOnlyCrash, WritersKnown, CacheFresh
  <2> QED
    BY <2>1, <2>2, <2>3, <2>4
<1>29. ASSUME LogDirFails PROVE SessionInv'
  <2>1. NotBegun' /\ Progress' /\ TempLeft'
    BY <1>29 DEF LogDirFails, End, NotBegun, Progress, TempLeft
  <2>2. KeyUnread' /\ KeyFileGone'
    BY <1>29 DEF LogDirFails, End, NotBegun, Progress, KeyUnread, KeyFileGone
  <2>3. WBPPOnce' /\ OutlivesOnlyCrash'
    BY <1>29 DEF LogDirFails, End, NotBegun, Progress, TempLeft, WBPPOnce, OutlivesOnlyCrash
  <2>4. WritersKnown' /\ CacheFresh'
    BY <1>29 DEF LogDirFails, End, NotBegun, Progress, OutlivesOnlyCrash, WritersKnown, CacheFresh
  <2> QED
    BY <2>1, <2>2, <2>3, <2>4
<1>30. ASSUME ServerThrows PROVE SessionInv'
  <2>1. NotBegun' /\ Progress' /\ TempLeft'
    BY <1>30 DEF ServerThrows, NotBegun, Progress, TempLeft
  <2>2. KeyUnread' /\ KeyFileGone'
    BY <1>30 DEF ServerThrows, NotBegun, Progress, KeyUnread, KeyFileGone
  <2>3. WBPPOnce' /\ OutlivesOnlyCrash'
    BY <1>30 DEF ServerThrows, NotBegun, Progress, TempLeft, WBPPOnce, OutlivesOnlyCrash
  <2>4. WritersKnown' /\ CacheFresh'
    BY <1>30 DEF ServerThrows, NotBegun, Progress, OutlivesOnlyCrash, WritersKnown, CacheFresh
  <2> QED
    BY <2>1, <2>2, <2>3, <2>4
<1>6. ASSUME Spawn PROVE SessionInv'
  <2>1. NotBegun' /\ Progress' /\ TempLeft'
    BY <1>6 DEF Spawn, NotBegun, Progress, TempLeft
  <2>2. KeyUnread' /\ KeyFileGone'
    BY <1>6 DEF Spawn, NotBegun, Progress, KeyUnread, KeyFileGone
  <2>3. WBPPOnce' /\ OutlivesOnlyCrash'
    BY <1>6 DEF Spawn, NotBegun, Progress, TempLeft, WBPPOnce, OutlivesOnlyCrash
  <2>4. WritersKnown' /\ CacheFresh'
    BY <1>6 DEF Spawn, NotBegun, Progress, OutlivesOnlyCrash, WritersKnown, CacheFresh
  <2> QED
    BY <2>1, <2>2, <2>3, <2>4
<1> USE DEF NotBegun, Progress, TempLeft, KeyUnread, WritersKnown, WBPPOnce, KeyFileGone,
        OutlivesOnlyCrash, CacheFresh
<1>1. ASSUME Decline PROVE SessionInv'
  BY <1>1 DEF Decline
<1>4. ASSUME WriteKey PROVE SessionInv'
  BY <1>4 DEF WriteKey
<1>5. ASSUME KillStale PROVE SessionInv'
  BY <1>5 DEF KillStale, Kill, Candidates
<1>10. ASSUME Unsupported PROVE SessionInv'
  BY <1>10 DEF Unsupported, InstallShim
<1>11. ASSUME PollNobody PROVE SessionInv'
  BY <1>11 DEF PollNobody, InstallShim
<1>12. ASSUME PollTimeout PROVE SessionInv'
  BY <1>12 DEF PollTimeout, InstallShim
<1>13. ASSUME FoundClients PROVE SessionInv'
  BY <1>13 DEF FoundClients, InstallShim
<1>15. ASSUME Recap PROVE SessionInv'
  BY <1>15 DEF Recap
<1>17. ASSUME LeaveClient PROVE SessionInv'
  BY <1>17 DEF LeaveClient
<1>26. ASSUME NEW d \in Launches, DaemonDies(d) PROVE SessionInv'
  BY <1>26 DEF DaemonDies, Kill
<1> HIDE DEF SessionInv
<1> QED
  BY <1>1, <1>2, <1>3, <1>4, <1>5, <1>6, <1>7, <1>8, <1>9, <1>10, <1>11, <1>12, <1>13,
     <1>14, <1>15, <1>16, <1>17, <1>18, <1>19, <1>20, <1>21, <1>22, <1>23, <1>24, <1>25,
     <1>26, <1>27, <1>28, <1>29, <1>30
     DEF Next, Script, User, Mishap, Daemon, Closed

(* What main() has done, the daemons, the key files and the caches agree   *)
(* in every state that a sequence of launches reaches.                     *)
THEOREM Invariance == Spec => []SessionInv
<1>1. QED
  BY InitInv, InvStep, PTL DEF Spec

(* The state of script and daemons keeps its type; in particular main() is *)
(* never past the role picker without a launch.                            *)
THEOREM TypeCorrect == Spec => []TypeOK
<1>1. SessionInv => TypeOK
  BY DEF SessionInv
<1>2. QED
  BY Invariance, <1>1, PTL

(* Whichever step of bridge.start() fails, main() enters the native WBPP   *)
(* once for a server and never for a client, and removes its downloads;    *)
(* only an exception outside start() keeps a server from WBPP.             *)
THEOREM WBPPCorrect == Spec => []WBPPOnce
<1>1. SessionInv => WBPPOnce
  BY DEF SessionInv
<1>2. QED
  BY Invariance, <1>1, PTL

(* The cluster key is on disk outside start() only after a crash or a      *)
(* process that could not be started, however slow the daemon is.          *)
THEOREM KeyFileCorrect == Spec => []KeyFileGone
<1>1. SessionInv => KeyFileGone
  BY DEF SessionInv
<1>2. QED
  BY Invariance, <1>1, PTL

(* bridge.stop() leaves no daemon: only a crash of PixInsight does. *)
THEOREM DaemonCorrect == Spec => []OutlivesOnlyCrash
<1>1. SessionInv => OutlivesOnlyCrash
  BY DEF SessionInv
<1>2. QED
  BY Invariance, <1>1, PTL

(* dwbppClearCache at the start of a client session: what the cache holds  *)
(* came from its own daemon, or from one that outlived the clearing.       *)
THEOREM CacheCorrect == Spec => []CacheFresh
<1>1. SessionInv => CacheFresh
  BY DEF SessionInv
<1>2. QED
  BY Invariance, <1>1, PTL

=============================================================================
