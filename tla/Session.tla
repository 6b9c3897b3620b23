------------------------------ MODULE Session ------------------------------
(***************************************************************************)
(* The launches of the script on one machine (DistributedWBPP.js, main)    *)
(* and the sidecar daemons they start (SidecarBridge.js, start and stop;   *)
(* main.go, loadSecret; api.go, the control listeners).  Script and daemon *)
(* share the key file, the control port and, on a client, the cache        *)
(* directory.  A daemon is a process of its own: it outlives a script that *)
(* crashes, and it may be slower than the 800 ms the script gives it.      *)
(* Removing a file fails only where a live process has it open.            *)
(***************************************************************************)
EXTENDS Naturals

CONSTANTS Last,    \* bound: launches, numbered from 1
          Polls,   \* bound: polls of workers() before its time is up
          Image,   \* the file name of the sidecar that resolveSidecar picks
          None     \* no launch

(* sidecarCandidates: the builds that are shipped. *)
Candidates == {"wbpp-sidecar-windows-amd64.exe",
               "wbpp-sidecar-darwin-arm64", "wbpp-sidecar-darwin-amd64",
               "wbpp-sidecar-linux-amd64", "wbpp-sidecar-linux-arm64"}

Launches == 1..Last

ASSUME SessionAssumption ==
    /\ Last \in Nat /\ Polls \in Nat \ {0}
    /\ Image \in Candidates
    /\ None \notin Launches

VARIABLES
    session,    \* the launch that is or was on last
    script,     \* where its main() is
    role,       \* the role picked in each launch
    polls,      \* polls of workers() left
    active,     \* installShim wrapped the engine
    wbpp,       \* how often each launch entered the native WBPP
    proc,       \* the daemon each launch started
    port,       \* the launch whose daemon has the control port
    keyFile,    \* launches whose key file is on disk
    cache,      \* launches whose daemon stored the files in the client cache
    temp,       \* launches whose download directories are on disk
    raised,     \* launches in which starting the process raised an exception
    crashed,    \* launches whose PixInsight crashed
    threw,      \* launches whose main() threw between the role picker and WBPP
    ended,      \* launches whose main() was left after a role was picked
    survivors   \* daemons that were alive when the cache was last cleared

scriptVars == <<session, script, role, polls, active, wbpp>>
fileVars   == <<keyFile, cache, temp>>
history    == <<raised, crashed, threw, ended, survivors>>
vars == <<scriptVars, proc, port, fileVars, history>>

Init ==
    /\ session = 0 /\ script = "off" /\ polls = 0 /\ active = FALSE
    /\ role = [s \in Launches |-> "none"]
    /\ wbpp = [s \in Launches |-> 0]
    /\ proc = [s \in Launches |-> "none"]
    /\ port = None
    /\ keyFile = {} /\ cache = {} /\ temp = {}
    /\ raised = {} /\ crashed = {} /\ threw = {} /\ ended = {} /\ survivors = {}

Alive(d) == proc[d] \in {"starting", "keyed", "bound"}
IsClient == session \in Launches /\ role[session] = "client"

(* main() is left. *)
End ==
    /\ script' = "off"
    /\ ended' = ended \cup {session}

(* The processes killed are dead, and the port of a dead one is free. *)
Kill(dead) ==
    /\ proc' = [d \in Launches |-> IF d \in dead THEN "dead" ELSE proc[d]]
    /\ port' = IF port \in dead THEN None ELSE port

-----------------------------------------------------------------------------
(* main() up to bridge.start(). *)

(* No sidecar runs here, or the role picker is cancelled. *)
Decline ==
    /\ script = "off" /\ session < Last
    /\ session' = session + 1
    /\ UNCHANGED <<script, role, polls, active, wbpp, proc, port, fileVars, history>>

(* dwbppClearCache: a file that a live daemon has open stays. *)
ClearCache(kept) ==
    /\ kept \subseteq {d \in cache : Alive(d)}
    /\ cache' = kept
    /\ survivors' = {d \in Launches : Alive(d)}

\* Defect: the cache is cleared only when a session ends.
PickRoleUncleared(r, kept) ==
    /\ script = "off" /\ session < Last
    /\ session' = session + 1
    /\ role' = [role EXCEPT ![session + 1] = r]
    /\ survivors' = {d \in Launches : Alive(d)} /\ kept = {}
    /\ script' = "start"
    /\ UNCHANGED <<polls, active, wbpp, proc, port, fileVars, raised, crashed, threw, ended>>

(* A role button: the picker returns with a valid key. *)
PickRole(r, kept) ==
    /\ script = "off" /\ session < Last
    /\ session' = session + 1
    /\ role' = [role EXCEPT ![session + 1] = r]
    /\ IF r = "client" THEN ClearCache(kept)
                       ELSE kept = {} /\ UNCHANGED <<cache, survivors>>
    /\ script' = "start"
    /\ UNCHANGED <<polls, active, wbpp, proc, port, keyFile, temp, raised, crashed, threw, ended>>

(* The user directory cannot be created: nothing catches it, nothing has   *)
(* been cleared or started.                                                *)
UserDirFails(r) ==
    /\ script = "off" /\ session < Last
    /\ session' = session + 1
    /\ role' = [role EXCEPT ![session + 1] = r]
    /\ threw' = threw \cup {session + 1}
    /\ ended' = ended \cup {session + 1}
    /\ UNCHANGED <<script, polls, active, wbpp, proc, port, fileVars, raised, crashed,
                   survivors>>

(* The log directory cannot be created, outside the try around start().    *)
LogDirFails ==
    /\ script = "start"
    /\ End
    /\ threw' = threw \cup {session}
    /\ UNCHANGED <<session, role, polls, active, wbpp, proc, port, fileVars, raised,
                   crashed, survivors>>

-----------------------------------------------------------------------------
(* bridge.start(). *)

(* main's catch around it: a server goes on without the cluster, a client  *)
(* shows a message and returns.                                            *)
StartThrows ==
    IF IsClient THEN End ELSE script' = "native" /\ UNCHANGED ended

WriteKeyFails ==
    /\ script = "start"
    /\ StartThrows
    /\ UNCHANGED <<session, role, polls, active, wbpp, proc, port, fileVars,
                   raised, crashed, threw, survivors>>

WriteKey ==
    /\ script = "start"
    /\ keyFile' = keyFile \cup {session}
    /\ script' = "kill"
    /\ UNCHANGED <<session, role, polls, active, wbpp, proc, port, cache, temp, history>>

(* taskkill /F /IM wbpp-sidecar.exe, where there is a taskkill. *)
KillStale ==
    /\ script = "kill"
    /\ Kill({d \in Launches : Alive(d) /\ Image = "wbpp-sidecar.exe"})
    /\ script' = "spawn"
    /\ UNCHANGED <<session, role, polls, active, wbpp, fileVars, history>>

Spawn ==
    /\ script = "spawn"
    /\ proc' = [proc EXCEPT ![session] = "starting"]
    /\ script' = "settle"
    /\ UNCHANGED <<session, role, polls, active, wbpp, port, fileVars, history>>

(* waitForStarted says no. *)
SpawnFails ==
    /\ script = "spawn"
    /\ keyFile' = keyFile \ {session}
    /\ StartThrows
    /\ UNCHANGED <<session, role, polls, active, wbpp, proc, port, cache, temp,
                   raised, crashed, threw, survivors>>

(* ExternalProcess.start raises: the line that removes the key file is not *)
(* reached.                                                                *)
SpawnRaises ==
    /\ script = "spawn"
    /\ raised' = raised \cup {session}
    /\ StartThrows
    /\ UNCHANGED <<session, role, polls, active, wbpp, proc, port, fileVars,
                   crashed, threw, survivors>>

\* Defect: the key file is left to the daemon.
SettledKeepingKey ==
    /\ script = "settle"
    /\ IF proc[session] = "dead" THEN StartThrows ELSE script' = "serve" /\ UNCHANGED ended
    /\ polls' = Polls /\ active' = FALSE
    /\ UNCHANGED <<session, role, wbpp, proc, port, fileVars, raised, crashed, threw, survivors>>

(* After 800 ms: the key file is removed whether or not the daemon has     *)
(* read it, then the daemon is asked for.                                  *)
Settled ==
    /\ script = "settle"
    /\ keyFile' = keyFile \ {session}
    /\ IF proc[session] = "dead" THEN StartThrows ELSE script' = "serve" /\ UNCHANGED ended
    /\ polls' = Polls /\ active' = FALSE
    /\ UNCHANGED <<session, role, wbpp, proc, port, cache, temp, raised, crashed, threw, survivors>>

-----------------------------------------------------------------------------
(* runServer: installShim, the native WBPP, removeClusterTempDirs. *)

InstallShim == script = "serve" /\ ~IsClient

(* The WBPP version is not in the table: workers() is not called. *)
Unsupported ==
    /\ InstallShim /\ polls = Polls
    /\ script' = "wbpp"
    /\ UNCHANGED <<session, role, polls, active, wbpp, proc, port, fileVars, history>>

\* Defect: the time is looked at only after another poll.
PollOnceMore ==
    /\ InstallShim
    /\ polls' = polls - 1
    /\ UNCHANGED <<session, script, role, active, wbpp, proc, port, fileVars, history>>

(* ctl nodes lists nobody yet: nobody has the port, a worker's daemon that *)
(* does not know the request has it, or its agent has heard no beacon.     *)
PollNobody ==
    /\ InstallShim /\ polls > 0
    /\ polls' = polls - 1
    /\ UNCHANGED <<session, script, role, active, wbpp, proc, port, fileVars, history>>

\* Defect: the time is up only for a script that is answered.
PollTimeoutIfServed ==
    /\ InstallShim /\ polls = 0 /\ port # None
    /\ script' = "wbpp"
    /\ UNCHANGED <<session, role, polls, active, wbpp, proc, port, fileVars, history>>

PollTimeout ==
    /\ InstallShim /\ polls = 0
    /\ script' = "wbpp"
    /\ UNCHANGED <<session, role, polls, active, wbpp, proc, port, fileVars, history>>

(* An agent has the port, this launch's or another one's; the count of its *)
(* workers has been stable.                                                *)
FoundClients ==
    /\ InstallShim /\ polls > 0
    /\ port # None /\ role[port] = "server"
    /\ active' = TRUE
    /\ script' = "wbpp"
    /\ UNCHANGED <<session, role, polls, wbpp, proc, port, fileVars, history>>

(* runServer throws before runNativeWBPP: the dashboard, installShim or    *)
(* what is logged about the workers.  main's finally stops the daemon, and *)
(* no WBPP follows.                                                        *)
ServerThrows ==
    /\ script \in {"serve", "wbpp"} /\ ~IsClient
    /\ threw' = threw \cup {session}
    /\ script' = "stop"
    /\ UNCHANGED <<session, role, polls, active, wbpp, proc, port, fileVars, raised,
                   crashed, ended, survivors>>

(* __makeTempDir, once or more during the run; WBPP may throw, the finally *)
(* block of runServer follows either way.                                  *)
RunWBPP(downloads) ==
    /\ script = "wbpp"
    /\ wbpp' = [wbpp EXCEPT ![session] = @ + 1]
    /\ downloads => active
    /\ temp' = IF downloads THEN temp \cup {session} ELSE temp
    /\ script' = "ran"
    /\ UNCHANGED <<session, role, polls, active, proc, port, keyFile, cache, history>>

(* The finally block of runServer. *)
Recap ==
    /\ script = "ran"
    /\ temp' = temp \ {session}
    /\ script' = "stop"
    /\ UNCHANGED <<session, role, polls, active, wbpp, proc, port, keyFile, cache, history>>

\* Defect: main goes on after the catch.
RunLocallyAndGoOn ==
    /\ script = "native"
    /\ wbpp' = [wbpp EXCEPT ![session] = @ + 1]
    /\ script' = "wbpp"
    /\ UNCHANGED <<session, role, polls, active, proc, port, fileVars, history>>

(* The catch of main: WBPP without the cluster. *)
RunLocally ==
    /\ script = "native"
    /\ wbpp' = [wbpp EXCEPT ![session] = @ + 1]
    /\ End
    /\ UNCHANGED <<session, role, polls, active, proc, port, fileVars, raised,
                   crashed, threw, survivors>>

-----------------------------------------------------------------------------
(* runWorker and the end of main. *)

LeaveClient ==
    /\ script = "serve" /\ IsClient
    /\ script' = "stop"
    /\ UNCHANGED <<session, role, polls, active, wbpp, proc, port, fileVars, history>>

\* Defect: terminate() is trusted; a daemon that ignores it lives on.
StopGently ==
    /\ script = "stop"
    /\ UNCHANGED <<proc, port>>
    /\ script' = "clear"
    /\ UNCHANGED <<session, role, polls, active, wbpp, fileVars, history>>

(* bridge.stop(): terminate, then kill, this launch's own process. *)
Stop ==
    /\ script = "stop"
    /\ Kill({session})
    /\ script' = "clear"
    /\ UNCHANGED <<session, role, polls, active, wbpp, fileVars, history>>

Clear(kept) ==
    /\ script = "clear"
    /\ IF IsClient THEN ClearCache(kept) ELSE kept = {} /\ UNCHANGED <<cache, survivors>>
    /\ End
    /\ UNCHANGED <<session, role, polls, active, wbpp, proc, port, keyFile, temp,
                   raised, crashed, threw>>

(* PixInsight goes down with the script; its child process does not. *)
Crash ==
    /\ script # "off"
    /\ crashed' = crashed \cup {session}
    /\ script' = "off"
    /\ UNCHANGED <<session, role, polls, active, wbpp, proc, port, fileVars,
                   raised, threw, ended, survivors>>

-----------------------------------------------------------------------------
(* The daemon of launch d. *)

ReadKey(d) ==
    /\ proc[d] = "starting" /\ d \in keyFile
    /\ keyFile' = keyFile \ {d}
    /\ proc' = [proc EXCEPT ![d] = "keyed"]
    /\ UNCHANGED <<scriptVars, port, cache, temp, history>>

(* The script has removed the file: log.Fatalf. *)
KeyMissing(d) ==
    /\ proc[d] = "starting" /\ d \notin keyFile
    /\ proc' = [proc EXCEPT ![d] = "dead"]
    /\ UNCHANGED <<scriptVars, port, fileVars, history>>

Bind(d) ==
    /\ proc[d] = "keyed" /\ port = None
    /\ port' = d
    /\ proc' = [proc EXCEPT ![d] = "bound"]
    /\ UNCHANGED <<scriptVars, fileVars, history>>

(* The control port, or a worker's LAN port, is taken: log.Fatalf. *)
BindFails(d) ==
    /\ proc[d] = "keyed"
    /\ proc' = [proc EXCEPT ![d] = "dead"]
    /\ UNCHANGED <<scriptVars, port, fileVars, history>>

(* A server on the LAN uploads a frame, or its PixInsight writes a result. *)
Receive(d) ==
    /\ proc[d] = "bound" /\ role[d] = "client"
    /\ cache' = cache \cup {d}
    /\ UNCHANGED <<scriptVars, proc, port, keyFile, temp, history>>

DaemonDies(d) ==
    /\ proc[d] = "bound"
    /\ Kill({d})
    /\ UNCHANGED <<scriptVars, fileVars, history>>

-----------------------------------------------------------------------------
Script ==
    \/ WriteKeyFails \/ WriteKey \/ KillStale \/ Spawn \/ SpawnFails \/ SpawnRaises \/ Settled
    \/ Unsupported \/ PollNobody \/ PollTimeout \/ FoundClients \/ Recap \/ RunLocally
    \/ Stop
    \/ \E downloads \in BOOLEAN : RunWBPP(downloads)
    \/ \E kept \in SUBSET Launches : Clear(kept)

User ==
    \/ Decline \/ LeaveClient
    \/ \E r \in {"server", "client"}, kept \in SUBSET Launches : PickRole(r, kept)

(* What nobody handles; main() need not meet it. *)
Mishap ==
    \/ Crash \/ LogDirFails \/ ServerThrows
    \/ \E r \in {"server", "client"} : UserDirFails(r)

Daemon(d) ==
    \/ ReadKey(d) \/ KeyMissing(d) \/ Bind(d) \/ BindFails(d) \/ Receive(d) \/ DaemonDies(d)

Closed == script = "off" /\ session = Last /\ UNCHANGED vars

Next == Script \/ User \/ Mishap \/ Closed \/ \E d \in Launches : Daemon(d)

Spec == Init /\ [][Next]_vars

(* PixInsight runs the script; nothing is assumed of user or daemon. *)
FairSpec == Spec /\ WF_vars(Script)
-----------------------------------------------------------------------------
TypeOK ==
    /\ session \in 0..Last /\ polls \in 0..Polls /\ active \in BOOLEAN
    /\ script \in {"off", "start", "kill", "spawn", "settle", "serve", "wbpp", "ran",
                   "native", "stop", "clear"}
    /\ role \in [Launches -> {"none", "server", "client"}]
    /\ wbpp \in [Launches -> Nat]
    /\ proc \in [Launches -> {"none", "starting", "keyed", "bound", "dead"}]
    /\ port \in Launches \cup {None}
    /\ keyFile \subseteq Launches /\ cache \subseteq Launches /\ temp \subseteq Launches
    /\ raised \subseteq Launches /\ crashed \subseteq Launches /\ threw \subseteq Launches
    /\ ended \subseteq Launches /\ survivors \subseteq Launches

(* "If anything is unexpected [...], the work runs locally, as in a normal *)
(* WBPP run" (DistributedWBPP.js:400-401): whichever step of start() fails *)
(* and whatever the daemons do, a server launch that is over has entered   *)
(* WBPP once, unless main() threw outside start(), and then it has not at  *)
(* all; a client launch never does; no download directory is left behind.  *)
WBPPOnce ==
    \A s \in Launches :
        /\ wbpp[s] <= IF role[s] = "server" THEN 1 ELSE 0
        /\ s \in threw => wbpp[s] = 0
        /\ s \in ended => /\ role[s] = "server" => wbpp[s] = 1 \/ s \in threw
                          /\ s \notin temp

(* "make sure it is gone either way" (SidecarBridge.js:109): outside       *)
(* start() a key file is on disk only if the launch crashed in start() or  *)
(* the process could not be started, and no daemon has read it.            *)
KeyFileGone ==
    \A s \in keyFile :
        \/ s = session /\ script \in {"kill", "spawn", "settle"}
        \/ s \in crashed \cup raised /\ proc[s] \in {"none", "starting"}

(* A script that is answered is answered by its own daemon, and no daemon  *)
(* is left when the script is gone, unless PixInsight crashed in the       *)
(* launch that started it.                                                 *)
OutlivesOnlyCrash ==
    \A d \in Launches :
        Alive(d) /\ (d # session \/ script = "off") => d \in crashed

(* "leftovers of a session that did not end cleanly" are gone              *)
(* (DistributedWBPP.js:723): a client works on files that its own daemon   *)
(* received, or one that was still alive when the cache was cleared.       *)
CacheFresh ==
    IsClient /\ script # "off" => cache \subseteq {session} \cup survivors

(* Once a server role is picked the user gets WBPP, with or without the    *)
(* cluster, whatever the daemons do, unless PixInsight crashes or main()   *)
(* throws outside start().                                                 *)
ServerGetsWBPP ==
    \A s \in Launches :
        s = session /\ script = "start" /\ role[s] = "server"
            ~> wbpp[s] = 1 \/ s \in crashed \cup threw

(* "relaunching is safe: no zombie agent holds the control port"           *)
(* (SidecarBridge.js:86-88): past the taskkill, the port is free or this   *)
(* launch's own.                                                           *)
NoZombie ==
    script \in {"spawn", "settle", "serve", "wbpp"} => port \in {None, session}
=============================================================================
