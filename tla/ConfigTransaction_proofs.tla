---------------------- MODULE ConfigTransaction_proofs ----------------------
(***************************************************************************)
(* Proofs about the config transaction.  The inductive invariant IInv is   *)
(* a conjunction, each part proved on its own:                             *)
(*                                                                         *)
(*   TypeOK    every variable has its type, by lemmas that say once which  *)
(*             steps write a file, start a service or move the hook;       *)
(*   FileInv   which files the try block has written, which it leaves      *)
(*             alone, what the snapshot holds and how far rollback is;     *)
(*   ServInv   which services may be behind the files, during the try      *)
(*             block, during rollback and between hooks;                   *)
(*   UpInv, BackInv   which services are up again after their restart,     *)
(*             provided that none dies of itself.                          *)
(*                                                                         *)
(* Two conditions on the constants appear as hypotheses, where the code    *)
(* promises nothing without them: NeverCleared and Deathless.              *)
(***************************************************************************)
EXTENDS ConfigTransaction, TLAPS

AllConfigs == Configs \cup InitConfigs

\* The parts of TypeOK.
HookType ==
    /\ config \in AllConfigs /\ stored \in AllConfigs /\ cfg \in AllConfigs
    /\ due \in BOOLEAN /\ taint \subseteq {"unfinished", "race"}
    /\ pc \in Labels /\ next \in DOMAIN Paths
    /\ errors \in SUBSET {"operation", "readiness"}
BoundType == changes \in 0..MaxChanges /\ faults \in 0..MaxFaults
DiskType == DOMAIN disk = Files /\ \A f \in Files : disk[f] \in Contents(f)
ServiceType ==
    /\ svc \in [Services -> {"up", "down", "waiting"}]
    /\ DOMAIN loaded = Services
    /\ \A s \in Services : DOMAIN loaded[s] = Reads[s] /\ \A f \in Reads[s] : loaded[s][f] \in Contents(f)
SnapType ==
    /\ DOMAIN snap.disk = Files /\ \A f \in Files : snap.disk[f] \in Contents(f)
    /\ snap.running \in SUBSET Services

-----------------------------------------------------------------------------
(* Files and services.                                                     *)

\* The managed files that depend on config.
LEMMA FilesAre ==
  /\ Files = {"bitcoind", "cli", "proxybin", "nodeenv", "monenv", "proxyenv"}
  /\ DOMAIN Paths = 1..6 /\ Len(Paths) = 6
BY DEF Files, Paths

\* Files are rendered from config keys.
LEMMA FilesOfConfig == \A f \in Files : RenderedFrom[f] \subseteq Keys
BY FilesAre DEF RenderedFrom, Keys

\* Services read managed files and want services.
LEMMA FilesOfService == \A s \in Services : Reads[s] \subseteq Files /\ Wants[s] \subseteq Services
BY FilesAre DEF Reads, Services, Wants

\* What a file may hold.
LEMMA ContentsOf ==
  ASSUME NEW f \in Files, NEW c \in AllConfigs
  PROVE  Render(f, c) \in Contents(f) /\ Torn(f) \in Contents(f) /\ Absent \in Contents(f)
BY FilesOfConfig DEF Render, Torn, Contents, Values, AllConfigs

\* TypeOK in parts that steps change together.
LEMMA TypeParts == TypeOK <=> HookType /\ BoundType /\ DiskType /\ ServiceType /\ SnapType
BY DEF TypeOK, HookType, BoundType, DiskType, ServiceType, SnapType, AllConfigs

-----------------------------------------------------------------------------
(* What the steps do, variable by variable.                                *)

\* The six steps that write a managed file.
Writes == \/ WriteProxyBinary \/ WriteNodeEnv \/ WriteMonitorEnv \/ WriteProxyEnv
          \/ ActivateNode \/ RestoreFile

\* Only the writing steps write.
LEMMA OthersKeepDisk ==
  ASSUME [Next]_vars, ~Writes
  PROVE  disk' = disk
<1>1. CASE UNCHANGED vars
  BY <1>1 DEF vars, host
<1>2. CASE ConfigChanged \/ TrySteps
  BY <1>2, Zenon DEF Writes, ConfigChanged, TrySteps, ProveNode, ActivateMonitor, ProveMonitor, ActivateProxy,
     ProveProxy, ProveNodeStayed, Commit, StatusFails, ProveStep, RestartStep, Skip, host
<1>3. CASE RollbackSteps
  BY <1>3, Zenon DEF Writes, RollbackSteps, StopProxy, StopMonitor, StopNode, Reload, StartNode, StartMonitor, StartProxy,
     StartAgain, Undo, Skip, Reraise, host
<1>4. CASE Environment
  BY <1>4, Zenon DEF Environment, SetConfig, Killed, StartNodeAction, StopNodeAction, RestartNodeAction,
     ServiceDies, AutoRestart, host
<1> QED
  BY <1>1, <1>2, <1>3, <1>4, Zenon DEF Next, HookStep

\* A step starts services, stops some, restarts the node on given files, or is
\* the death of one.
ServiceEffect ==
    \/ UNCHANGED <<svc, loaded>>
    \/ \E S \in SUBSET Services : BringUp(S) \/ Stop(S)
    \/ NodeRestartedOn(disk) \/ NodeRestartedOn(Installed)
    \/ \E s \in Services : /\ svc' = [svc EXCEPT ![s] = "waiting"]
                           /\ loaded' = [loaded EXCEPT ![s] = NoView(s)]

\* systemctl start and restart bring up a set of services.
LEMMA StartEffect ==
  ASSUME NEW s \in Services, Start(s) \/ Restart(s)
  PROVE  \E S \in SUBSET Services : BringUp(S)
<1>1. NotUp({s} \cup Wants[s]) \in SUBSET Services /\ {s} \cup NotUp(Wants[s]) \in SUBSET Services
  BY FilesOfService DEF NotUp
<1> QED
  BY <1>1 DEF Start, Restart

\* What is seen running is up or starts again and again, and nothing that is up
\* is overlooked.
LEMMA Seen ==
  ASSUME NEW seen \in SeenRunning
  PROVE  /\ Running \subseteq seen /\ seen \in SUBSET Services
         /\ \A s \in seen : svc[s] = "up" \/ CrashLooping(s)
BY DEF SeenRunning, Running

\* The monitor always runs, and what runs is no crash loop.
LEMMA NotLooping ==
  /\ ~CrashLooping("monitor")
  /\ \A s : svc[s] = "up" => ~CrashLooping(s)
BY DEF CrashLooping, Runnable

\* What a step may do to the services.
LEMMA EveryEffect ==
  ASSUME [Next]_vars
  PROVE  ServiceEffect
<1> USE DEF ServiceEffect
<1>1. CASE UNCHANGED vars
  BY <1>1 DEF vars, host
<1>2. CASE UNCHANGED <<svc, loaded>>
  BY <1>2
<1>3. ASSUME NEW s \in Services, Start(s) \/ Restart(s) PROVE ServiceEffect
  BY <1>3, StartEffect
<1>4. ASSUME NEW S \in SUBSET Services, Stop(S) \/ BringUp(S) PROVE ServiceEffect
  BY <1>4
<1>5. "node" \in Services /\ "monitor" \in Services /\ "proxy" \in Services
      /\ {"node"} \in SUBSET Services
  BY DEF Services
<1>6. ASSUME NEW s \in Services, NEW label, NEW successor, RestartStep(s, label, successor) PROVE ServiceEffect
  BY <1>3, <1>6, Zenon DEF RestartStep
<1>7. CASE ActivateNode
  <2>1. CASE Install
    BY <1>4, <1>5, <2>1, Zenon DEF Install, InstallSucceeds, InstallNotReady, InstallFails, InstallBreaks, host
  <2> QED
    BY <1>2, <1>5, <1>6, <1>7, <2>1, Zenon DEF ActivateNode, Skip, host
<1>8. CASE ActivateMonitor \/ ActivateProxy
  BY <1>2, <1>5, <1>6, <1>8, Zenon DEF ActivateMonitor, ActivateProxy, Skip, host
<1>9. CASE ConfigChanged \/ WriteProxyBinary \/ WriteNodeEnv \/ WriteMonitorEnv \/ WriteProxyEnv
           \/ ProveNode \/ ProveMonitor \/ ProveProxy \/ ProveNodeStayed \/ Commit \/ StatusFails
           \/ RestoreFile \/ Reraise \/ SetConfig \/ Killed
  <2>1. UNCHANGED <<svc, loaded>>
    BY <1>9, Zenon DEF ConfigChanged, WriteProxyBinary, WriteNodeEnv, WriteMonitorEnv, WriteProxyEnv, Write, Skip,
       ProveNode, ProveMonitor, ProveProxy, ProveNodeStayed, ProveStep, Commit, StatusFails, RestoreFile, Reraise,
       SetConfig, Killed, host
  <2> QED
    BY <1>2, <2>1
<1>10. CASE StopProxy \/ StopMonitor \/ StopNode \/ Reload
  <2>1. {"proxy"} \in SUBSET Services /\ {"monitor"} \in SUBSET Services /\ {"node"} \in SUBSET Services
    BY <1>5
  <2> QED
    BY <1>2, <1>4, <1>10, <2>1, Zenon DEF StopProxy, StopMonitor, StopNode, Reload, Undo
<1>11. CASE StartNode \/ StartMonitor \/ StartProxy
  BY <1>2, <1>3, <1>5, <1>11, Zenon DEF StartNode, StartMonitor, StartProxy, StartAgain, Undo, Skip, host
<1>12. CASE StartNodeAction \/ StopNodeAction \/ RestartNodeAction
  <2>1. /\ NotUp({"node", "monitor"} \cup ProxyIfInstalled) \in SUBSET Services
        /\ {"node"} \cup ProxyIfInstalled \in SUBSET Services
        /\ \A S \in {{"node"}, {"node", "monitor"}, {"monitor"}, {"monitor", "node"}, Services} :
              S \in SUBSET Services /\ NotUp(S) \in SUBSET Services
    BY <1>5 DEF NotUp, ProxyIfInstalled
  <2>2. CASE StartNodeAction
    BY <1>4, <2>1, <2>2 DEF StartNodeAction
  <2>3. CASE StopNodeAction
    BY <1>4, <2>1, <2>3 DEF StopNodeAction
  <2>4. CASE RestartNodeAction
    BY <1>4, <2>1, <2>4 DEF RestartNodeAction
  <2> QED
    BY <1>12, <2>2, <2>3, <2>4
<1>13. ASSUME NEW s \in Services, ServiceDies(s) \/ AutoRestart(s) PROVE ServiceEffect
  BY <1>3, <1>13 DEF ServiceDies, AutoRestart
<1> HIDE DEF ServiceEffect
<1> QED
  BY <1>1, <1>7, <1>8, <1>9, <1>10, <1>11, <1>12, <1>13, Zenon
     DEF Next, HookStep, TrySteps, RollbackSteps, Environment

\* Installing a release writes its two binaries; a failed one may leave each
\* old, new or missing.
LEMMA InstallWrites ==
  ASSUME HookType, DiskType, ActivateNode
  PROVE  /\ DOMAIN disk' = Files
         /\ \A f \in Files \ {"bitcoind", "cli"} : disk'[f] = disk[f]
         /\ \A f \in {"bitcoind", "cli"} : disk'[f] \in {disk[f], Render(f, cfg), Absent}
         /\ disk' # disk => "release" \in Changed /\ ~Skipped("bitcoind", cfg)
<1>1. /\ DOMAIN Installed = Files /\ \A f \in Files \ {"bitcoind", "cli"} : Installed[f] = disk[f]
      /\ Installed["bitcoind"] = Render("bitcoind", cfg) /\ Installed["cli"] = Render("cli", cfg)
  BY FilesAre DEF Installed, DiskType
<1>2. CASE disk' = disk
  BY <1>2 DEF DiskType
<1>3. ASSUME disk' = Installed
      PROVE  /\ DOMAIN disk' = Files
             /\ \A f \in Files \ {"bitcoind", "cli"} : disk'[f] = disk[f]
             /\ \A f \in {"bitcoind", "cli"} : disk'[f] \in {disk[f], Render(f, cfg), Absent}
  BY <1>1, <1>3
<1>4. ASSUME NEW d \in {disk, Installed, [f \in Files |-> Absent]}, NEW c \in {disk, Installed, [f \in Files |-> Absent]},
             disk' = [disk EXCEPT !["bitcoind"] = d["bitcoind"], !["cli"] = c["cli"]]
      PROVE  /\ DOMAIN disk' = Files
             /\ \A f \in Files \ {"bitcoind", "cli"} : disk'[f] = disk[f]
             /\ \A f \in {"bitcoind", "cli"} : disk'[f] \in {disk[f], Render(f, cfg), Absent}
  <2>1. disk'["bitcoind"] = d["bitcoind"] /\ disk'["cli"] = c["cli"]
    BY <1>4, FilesAre DEF DiskType
  <2>2. /\ DOMAIN disk' = Files
        /\ \A f \in Files \ {"bitcoind", "cli"} : disk'[f] = disk[f]
    BY <1>4 DEF DiskType
  <2>3. d["bitcoind"] \in {disk["bitcoind"], Render("bitcoind", cfg), Absent}
    BY <1>1, <1>4, FilesAre
  <2>4. c["cli"] \in {disk["cli"], Render("cli", cfg), Absent}
    BY <1>1, <1>4, FilesAre
  <2> QED
    BY <2>1, <2>2, <2>3, <2>4
<1>5. CASE "release" \in Changed /\ ~Skipped("bitcoind", cfg)
  <2>1. \/ disk' = disk \/ disk' = Installed
        \/ \E d, c \in {disk, Installed, [f \in Files |-> Absent]} :
              disk' = [disk EXCEPT !["bitcoind"] = d["bitcoind"], !["cli"] = c["cli"]]
    BY <1>5, Zenon DEF ActivateNode, Install, InstallSucceeds, InstallNotReady, InstallFails, InstallBreaks, host
  <2> QED
    BY <1>2, <1>3, <1>4, <1>5, <2>1
<1>6. CASE ~("release" \in Changed /\ ~Skipped("bitcoind", cfg))
  <2>1. disk' = disk
    BY <1>6, Zenon DEF ActivateNode, Skip, RestartStep, host
  <2> QED
    BY <1>2, <2>1
<1> QED
  BY <1>5, <1>6

\* The other writing steps of the try block write one file.
LEMMA OneWrite ==
  ASSUME DiskType, NEW f \in Files, NEW label, NEW successor, Write(f, label, successor)
  PROVE  /\ DOMAIN disk' = Files
         /\ \A g \in Files \ {f} : disk'[g] = disk[g]
         /\ disk'[f] \in {disk[f], Render(f, cfg), Torn(f)}
         /\ pc' # "stopProxy" => disk'[f] = Render(f, cfg)
BY DEF Write, Try, Except, DiskType

\* Every step keeps the disk well typed.
LEMMA DiskTypeStep ==
  ASSUME HookType, DiskType, SnapType, [Next]_vars
  PROVE  DiskType'
<1>1. CASE disk' = disk
  BY <1>1 DEF DiskType
<1>2. ASSUME NEW f \in Files, DOMAIN disk' = Files, \A g \in Files \ {f} : disk'[g] = disk[g],
             disk'[f] \in {disk[f], Render(f, cfg), Torn(f)}
      PROVE  DiskType'
  <2>1. Render(f, cfg) \in Contents(f) /\ Torn(f) \in Contents(f)
    BY ContentsOf DEF HookType
  <2> QED
    BY <1>2, <2>1 DEF DiskType
<1>3. ASSUME NEW f \in Files, NEW label, NEW successor, Write(f, label, successor) PROVE DiskType'
  BY <1>2, <1>3, OneWrite
<1>4. CASE WriteNodeEnv \/ WriteMonitorEnv \/ WriteProxyEnv
  <2>1. "nodeenv" \in Files /\ "monenv" \in Files /\ "proxyenv" \in Files
    BY FilesAre
  <2> QED
    BY <1>1, <1>3, <1>4, <2>1, Zenon DEF WriteNodeEnv, WriteMonitorEnv, WriteProxyEnv, Skip, host
<1>5. CASE WriteProxyBinary
  <2>1. "proxybin" \in Files
    BY FilesAre
  <2>2. disk' = disk \/ disk' = [disk EXCEPT !["proxybin"] = Render("proxybin", cfg)]
    BY <1>5, Zenon DEF WriteProxyBinary, Skip, host
  <2>3. CASE disk' = [disk EXCEPT !["proxybin"] = Render("proxybin", cfg)]
    BY <1>2, <2>1, <2>3 DEF DiskType
  <2> QED
    BY <1>1, <2>2, <2>3
<1>6. CASE ActivateNode
  <2>1. ASSUME NEW f \in {"bitcoind", "cli"} PROVE disk'[f] \in Contents(f)
    BY <1>6, InstallWrites, ContentsOf, FilesAre DEF DiskType, HookType
  <2> QED
    BY <1>6, <2>1, InstallWrites DEF DiskType
<1>7. CASE RestoreFile
  <2>1. Paths[next] \in Files
    BY DEF HookType, Files
  <2>2. disk' = disk \/ disk' = [disk EXCEPT ![Paths[next]] = snap.disk[Paths[next]]]
    BY <1>7, Zenon DEF RestoreFile
  <2> QED
    BY <2>1, <2>2 DEF DiskType, SnapType
<1> QED
  BY <1>1, <1>4, <1>5, <1>6, <1>7, OthersKeepDisk DEF Writes

\* Every step keeps the services well typed.
LEMMA ServiceTypeStep ==
  ASSUME HookType, DiskType, ServiceType, [Next]_vars
  PROVE  ServiceType'
<1>1. ASSUME NEW s \in Services, NEW d, \A f \in Files : d[f] \in Contents(f)
      PROVE  /\ DOMAIN View(s, d) = Reads[s] /\ \A f \in Reads[s] : View(s, d)[f] \in Contents(f)
             /\ DOMAIN NoView(s) = Reads[s] /\ \A f \in Reads[s] : NoView(s)[f] \in Contents(f)
  <2>1. Reads[s] \subseteq Files
    BY FilesOfService
  <2>2. \A f \in Files : Absent \in Contents(f)
    BY DEF Contents
  <2> QED
    BY <1>1, <2>1, <2>2 DEF View, NoView
<1>2. CASE UNCHANGED <<svc, loaded>>
  BY <1>2 DEF ServiceType
<1>3. ASSUME NEW S \in SUBSET Services, BringUp(S) PROVE ServiceType'
  BY <1>1, <1>3 DEF BringUp, ServiceType, DiskType
<1>4. ASSUME NEW S \in SUBSET Services, Stop(S) PROVE ServiceType'
  BY <1>1, <1>4 DEF Stop, ServiceType, DiskType
<1>5. ASSUME NEW d, \A f \in Files : d[f] \in Contents(f), NodeRestartedOn(d) PROVE ServiceType'
  <2>1. "node" \in Services
    BY DEF Services
  <2> QED
    BY <1>1, <1>5, <2>1 DEF NodeRestartedOn, ServiceType
<1>6. \A f \in Files : disk[f] \in Contents(f) /\ Installed[f] \in Contents(f)
  BY ContentsOf, FilesAre DEF DiskType, Installed, HookType
<1>7. ASSUME NEW s \in Services, svc' = [svc EXCEPT ![s] = "waiting"], loaded' = [loaded EXCEPT ![s] = NoView(s)]
      PROVE  ServiceType'
  BY <1>1, <1>7 DEF ServiceType, DiskType
<1> QED
  BY <1>2, <1>3, <1>4, <1>5, <1>6, <1>7, EveryEffect DEF ServiceEffect

\* Which steps change the hook's local variables and StoredState.
LEMMA LocalsStep ==
  ASSUME [Next]_vars
  PROVE  /\ ~ConfigChanged => cfg' = cfg /\ snap' = snap
         /\ ~Commit => stored' = stored
         /\ ~ConfigChanged /\ ~RestoreFile => next' = next
<1>1. CASE UNCHANGED vars
  BY <1>1 DEF vars, locals
<1>2. CASE ConfigChanged
  BY <1>2 DEF ConfigChanged
<1>3. CASE TrySteps
  <2>1. cfg' = cfg /\ snap' = snap /\ next' = next /\ (~Commit => stored' = stored)
    BY <1>3, Zenon DEF TrySteps, WriteProxyBinary, WriteNodeEnv, WriteMonitorEnv, WriteProxyEnv, Write, Skip,
       ActivateNode, RestartStep, ActivateMonitor, ActivateProxy, ProveNode, ProveMonitor, ProveProxy,
       ProveNodeStayed, ProveStep, Commit, StatusFails, Frame, locals
  <2> QED
    BY <2>1
<1>4. CASE RollbackSteps
  <2>1. cfg' = cfg /\ snap' = snap /\ stored' = stored /\ (~RestoreFile => next' = next)
    BY <1>4, Zenon DEF RollbackSteps, StopProxy, StopMonitor, StopNode, RestoreFile, Reload, StartNode, StartMonitor,
       StartProxy, StartAgain, Undo, Skip, Reraise, Frame, locals
  <2> QED
    BY <2>1
<1>5. CASE Environment
  <2>1. cfg' = cfg /\ snap' = snap /\ stored' = stored /\ next' = next
    BY <1>5, Zenon DEF Environment, SetConfig, Killed, StartNodeAction, StopNodeAction, RestartNodeAction,
       ServiceDies, AutoRestart, locals
  <2> QED
    BY <2>1
<1> QED
  BY <1>1, <1>2, <1>3, <1>4, <1>5, Zenon DEF Next, HookStep

\* Every fault is counted within its bound.
LEMMA FaultBound == ASSUME BoundType, NEW kind, Fault(kind) PROVE faults' \in 0..MaxFaults
BY BoundsAssumption DEF BoundType, Fault

\* Every step keeps the counters well typed.
LEMMA BoundTypeStep ==
  ASSUME BoundType, [Next]_vars
  PROVE  BoundType'
<1>1. faults' = faults \/ (\E kind : Fault(kind)) \/ (faults + 2 <= MaxFaults /\ faults' = faults + 2)
  <2>1. CASE UNCHANGED vars
    BY <2>1 DEF vars
  <2>2. CASE ConfigChanged \/ TrySteps
    BY <2>2, Zenon DEF ConfigChanged, TrySteps, WriteProxyBinary, WriteNodeEnv, WriteMonitorEnv, WriteProxyEnv,
       Write, Skip, ActivateNode, Install, InstallSucceeds, InstallNotReady, InstallFails, InstallBreaks, RestartStep,
       ActivateMonitor, ActivateProxy, ProveNode, ProveMonitor, ProveProxy, ProveNodeStayed, ProveStep, Commit,
       StatusFails
  <2>3. CASE RollbackSteps
    BY <2>3, Zenon DEF RollbackSteps, StopProxy, StopMonitor, StopNode, RestoreFile, Reload, StartNode, StartMonitor,
       StartProxy, StartAgain, Undo, Skip, Reraise
  <2>4. CASE Environment
    BY <2>4, Zenon DEF Environment, SetConfig, Killed, StartNodeAction, StopNodeAction, RestartNodeAction,
       ServiceDies, AutoRestart
  <2> QED
    BY <2>1, <2>2, <2>3, <2>4, Zenon DEF Next, HookStep
<1>2. changes' = changes \/ SetConfig
  BY Zenon DEF Next, HookStep, vars, operator, ConfigChanged, TrySteps, WriteProxyBinary, WriteNodeEnv,
     WriteMonitorEnv, WriteProxyEnv, Write, Skip, ActivateNode, RestartStep, ActivateMonitor, ActivateProxy,
     ProveNode, ProveMonitor, ProveProxy, ProveNodeStayed, ProveStep, Commit, StatusFails, Frame, RollbackSteps,
     StopProxy, StopMonitor, StopNode, RestoreFile, Reload, StartNode, StartMonitor, StartProxy, StartAgain, Undo, Reraise,
     Environment, Killed, StartNodeAction, StopNodeAction, RestartNodeAction, ServiceDies, AutoRestart
<1>3. changes' \in 0..MaxChanges
  BY <1>2, BoundsAssumption DEF BoundType, SetConfig
<1>4. faults' \in 0..MaxFaults
  BY <1>1, FaultBound, BoundsAssumption DEF BoundType
<1> QED
  BY <1>3, <1>4 DEF BoundType

\* Every step keeps the snapshot well typed.
LEMMA SnapTypeStep ==
  ASSUME DiskType, SnapType, [Next]_vars
  PROVE  SnapType'
<1>1. CASE snap' = snap
  BY <1>1 DEF SnapType
<1>2. ASSUME NEW seen \in SeenRunning, snap' = [disk |-> disk, running |-> seen] PROVE SnapType'
  <2>1. snap'.disk = disk /\ snap'.running = seen /\ seen \in SUBSET Services
    BY <1>2, Seen
  <2> QED
    BY <2>1 DEF SnapType, DiskType
<1>3. snap' = snap \/ \E seen \in SeenRunning : snap' = [disk |-> disk, running |-> seen]
  BY LocalsStep, Zenon DEF ConfigChanged
<1> QED
  BY <1>1, <1>2, <1>3

\* Every step keeps the state of the hook well typed.
LEMMA HookTypeStep ==
  ASSUME HookType, [Next]_vars
  PROVE  HookType'
<1>1. config' \in AllConfigs /\ stored' \in AllConfigs /\ cfg' \in AllConfigs
  <2>1. config' = config \/ SetConfig
    BY Zenon DEF Next, HookStep, vars, operator, ConfigChanged, TrySteps, WriteProxyBinary, WriteNodeEnv,
       WriteMonitorEnv, WriteProxyEnv, Write, Skip, ActivateNode, RestartStep, ActivateMonitor, ActivateProxy,
       ProveNode, ProveMonitor, ProveProxy, ProveNodeStayed, ProveStep, Commit, StatusFails, Frame, RollbackSteps,
       StopProxy, StopMonitor, StopNode, RestoreFile, Reload, StartNode, StartMonitor, StartProxy, StartAgain, Undo, Reraise,
       Environment, Killed, StartNodeAction, StopNodeAction, RestartNodeAction, ServiceDies, AutoRestart
  <2>2. config' \in AllConfigs
    BY <2>1 DEF HookType, SetConfig, AllConfigs
  <2>3. (stored' = stored \/ stored' = cfg) /\ (cfg' = cfg \/ cfg' = config)
    BY LocalsStep, Zenon DEF Commit, ConfigChanged
  <2> QED
    BY <2>2, <2>3 DEF HookType
<1>2. due' \in BOOLEAN
  BY Zenon DEF HookType, Next, HookStep, vars, operator, ConfigChanged, TrySteps, WriteProxyBinary, WriteNodeEnv,
     WriteMonitorEnv, WriteProxyEnv, Write, Skip, ActivateNode, RestartStep, ActivateMonitor, ActivateProxy,
     ProveNode, ProveMonitor, ProveProxy, ProveNodeStayed, ProveStep, Commit, StatusFails, Frame, RollbackSteps,
     StopProxy, StopMonitor, StopNode, RestoreFile, Reload, StartNode, StartMonitor, StartProxy, StartAgain, Undo, Reraise,
     Environment, SetConfig, Killed, StartNodeAction, StopNodeAction, RestartNodeAction, ServiceDies, AutoRestart
<1>3. taint' \subseteq {"unfinished", "race"}
  <2>1. taint' = taint \/ taint' = taint \cup {"unfinished"} \/ taint' = taint \cup {"race"}
    BY Zenon DEF Next, HookStep, vars, ConfigChanged, TrySteps, WriteProxyBinary, WriteNodeEnv,
       WriteMonitorEnv, WriteProxyEnv, Write, Skip, ActivateNode, RestartStep, ActivateMonitor, ActivateProxy,
       ProveNode, ProveMonitor, ProveProxy, ProveNodeStayed, ProveStep, Commit, StatusFails, Frame, RollbackSteps,
       StopProxy, StopMonitor, StopNode, RestoreFile, Reload, StartNode, StartMonitor, StartProxy, StartAgain, Undo, Reraise,
       Environment, SetConfig, Killed, StartNodeAction, StopNodeAction, RestartNodeAction, ServiceDies, AutoRestart
  <2> QED
    BY <2>1 DEF HookType
<1>4. pc' \in Labels
  <2>1. CASE UNCHANGED pc
    BY <2>1 DEF HookType
  <2>2. CASE ConfigChanged \/ TrySteps
    BY <2>1, <2>2 DEF ConfigChanged, TrySteps, WriteProxyBinary, WriteNodeEnv, WriteMonitorEnv, WriteProxyEnv,
       Write, Skip, ActivateNode, Install, InstallSucceeds, InstallNotReady, InstallFails, InstallBreaks, RestartStep,
       ActivateMonitor, ActivateProxy, ProveNode, ProveMonitor, ProveProxy, ProveNodeStayed, ProveStep, Commit,
       StatusFails, Try, Except, Labels
  <2>3. CASE RollbackSteps
    BY <2>1, <2>3 DEF RollbackSteps, StopProxy, StopMonitor, StopNode, RestoreFile, Reload, StartNode, StartMonitor,
       StartProxy, StartAgain, Undo, Skip, Reraise, Try, Labels
  <2>4. CASE Environment
    BY <2>1, <2>4 DEF Environment, SetConfig, Killed, StartNodeAction, StopNodeAction, RestartNodeAction,
       ServiceDies, AutoRestart, Labels
  <2> QED
    BY <2>1, <2>2, <2>3, <2>4, Zenon DEF Next, HookStep, vars
<1>5. next' \in DOMAIN Paths
  <2>1. next' = next \/ next' = 1 \/ (next # Len(Paths) /\ next' = next + 1)
    BY LocalsStep, Zenon DEF ConfigChanged, RestoreFile
  <2> QED
    BY <2>1, FilesAre DEF HookType
<1>6. errors' \in SUBSET {"operation", "readiness"}
  <2>1. errors' \in {errors, {}, errors \cup {"operation"}, errors \cup {"readiness"}}
    BY Zenon DEF Next, HookStep, vars, locals, ConfigChanged, TrySteps, WriteProxyBinary, WriteNodeEnv,
       WriteMonitorEnv, WriteProxyEnv, Write, Skip, ActivateNode, RestartStep, ActivateMonitor, ActivateProxy,
       ProveNode, ProveMonitor, ProveProxy, ProveNodeStayed, ProveStep, Commit, StatusFails, Frame, RollbackSteps,
       StopProxy, StopMonitor, StopNode, RestoreFile, Reload, StartNode, StartMonitor, StartProxy, StartAgain, Undo, Reraise,
       Environment, SetConfig, Killed, StartNodeAction, StopNodeAction, RestartNodeAction, ServiceDies, AutoRestart
  <2> QED
    BY <2>1 DEF HookType
<1> QED
  BY <1>1, <1>2, <1>3, <1>4, <1>5, <1>6 DEF HookType

-----------------------------------------------------------------------------
(* Type correctness.                                                       *)

\* The initial states are well typed.
LEMMA TypeInit == Init => TypeOK
<1> SUFFICES ASSUME Init PROVE TypeOK
  OBVIOUS
<1>1. \A f \in Files : Absent \in Contents(f)
  BY DEF Contents
<1>2. DiskType
  <2>1. config \in AllConfigs
    BY DEF Init, AllConfigs
  <2>2. \A f \in Files : Render(f, config) \in Contents(f)
    BY <2>1, ContentsOf
  <2> QED
    BY <1>1, <2>2 DEF Init, DiskType
<1>3. ServiceType
  <2>1. \A s \in Services : Reads[s] \subseteq Files
    BY FilesOfService
  <2>2. ASSUME NEW s \in Services
        PROVE  /\ DOMAIN View(s, disk) = Reads[s] /\ \A f \in Reads[s] : View(s, disk)[f] \in Contents(f)
               /\ DOMAIN NoView(s) = Reads[s] /\ \A f \in Reads[s] : NoView(s)[f] \in Contents(f)
    BY <1>1, <1>2, <2>1 DEF View, NoView, DiskType
  <2> QED
    BY <2>2 DEF Init, ServiceType
<1>4. SnapType
  <2>1. snap.disk = disk /\ snap.running = Running /\ Running \in SUBSET Services
    BY DEF Init, Running
  <2> QED
    BY <1>2, <2>1 DEF SnapType, DiskType
<1>5. HookType
  <2>1. config \in AllConfigs /\ stored \in AllConfigs /\ cfg \in AllConfigs
    BY DEF Init, AllConfigs
  <2>2. due \in BOOLEAN
    BY Zenon DEF Init
  <2>3. taint \subseteq {"unfinished", "race"} /\ errors \in SUBSET {"operation", "readiness"} /\ pc \in Labels
    BY DEF Init, Labels
  <2>4. next \in DOMAIN Paths
    BY FilesAre DEF Init
  <2> QED
    BY <2>1, <2>2, <2>3, <2>4 DEF HookType
<1>6. BoundType
  BY BoundsAssumption DEF Init, BoundType
<1> QED
  BY <1>2, <1>3, <1>4, <1>5, <1>6, TypeParts

\* Every step preserves the types.
LEMMA TypeStep == TypeOK /\ [Next]_vars => TypeOK'
<1> SUFFICES ASSUME TypeOK, [Next]_vars PROVE TypeOK'
  OBVIOUS
<1>1. HookType /\ BoundType /\ DiskType /\ ServiceType /\ SnapType
  BY TypeParts
<1>2. HookType' /\ BoundType' /\ DiskType' /\ ServiceType' /\ SnapType'
  BY <1>1, HookTypeStep, BoundTypeStep, DiskTypeStep, ServiceTypeStep, SnapTypeStep
<1> QED
  BY <1>2 DEF TypeOK, HookType, BoundType, DiskType, ServiceType, SnapType, AllConfigs

\* Every step of the hook, the operator, Juju and systemd keeps every variable
\* in its type; in particular a rollback never runs off the list of managed
\* files (_restore_file is called for each path once).
THEOREM TypeOKHolds == Spec => []TypeOK
BY TypeInit, TypeStep, PTL DEF Spec

-----------------------------------------------------------------------------
(* The files.                                                              *)

\* f is rendered from a key that the hook found changed.
Affected(f) == RenderedFrom[f] \cap Changed # {}

\* The contents d have f as config c has it.
Matches(f, c, d) == Skipped(f, c) \/ d[f] = Render(f, c)

\* The labels of the try block at which f is not written yet.
Pending ==
    [proxybin |-> {"proxybin"},
     nodeenv  |-> {"proxybin", "nodeenv"},
     monenv   |-> {"proxybin", "nodeenv", "monenv"},
     proxyenv |-> {"proxybin", "nodeenv", "monenv", "proxyenv"},
     bitcoind |-> {"proxybin", "nodeenv", "monenv", "proxyenv", "node"},
     cli      |-> {"proxybin", "nodeenv", "monenv", "proxyenv", "node"}]

Restored == {"reload", "startNode", "startMonitor", "startProxy", "recovered"}

\* Past its step, a file that depends on a changed key is the new one.
WrittenInv ==
    pc \in Trying => \A f \in Files : pc \notin Pending[f] /\ Affected(f) => Matches(f, cfg, disk)

\* The try block leaves the other files as they were.
KeptInv ==
    pc \in Trying /\ "unfinished" \notin taint =>
        \A f \in Files : ~Affected(f) => Matches(f, stored, disk)

\* What the snapshot holds is the generation that StoredState names.
SnapInv ==
    pc # "idle" /\ "unfinished" \notin taint => \A f \in Files : Matches(f, stored, snap.disk)

\* The paths before next are restored, unless an operation failed.
RestoreInv ==
    /\ pc \in Trying \cup {"stopProxy", "stopMonitor", "stopNode"} => next = 1
    /\ pc = "restore" /\ "operation" \notin errors =>
          \A i \in 1..(next - 1) : disk[Paths[i]] = snap.disk[Paths[i]]
    /\ pc \in Restored /\ "operation" \notin errors =>
          \A f \in Files : disk[f] = snap.disk[f]

FileInv == WrittenInv /\ KeptInv /\ SnapInv /\ RestoreInv /\ HostMatchesStored

\* A file that no changed key concerns is the same in both generations.
LEMMA Unaffected ==
  ASSUME NEW f \in Files, ~Affected(f)
  PROVE  Render(f, cfg) = Render(f, stored) /\ (Skipped(f, cfg) <=> Skipped(f, stored))
<1>1. \A k \in RenderedFrom[f] : cfg[k] = stored[k]
  BY FilesOfConfig DEF Affected, Changed
<1>2. Render(f, cfg) = Render(f, stored)
  BY <1>1 DEF Render
<1>3. /\ f \in {"bitcoind", "cli"} => "release" \in RenderedFrom[f]
      /\ f = "proxybin" => "pver" \in RenderedFrom[f]
  BY DEF RenderedFrom
<1>4. Skipped(f, cfg) <=> Skipped(f, stored)
  BY <1>1, <1>3 DEF Skipped
<1> QED
  BY <1>2, <1>4

\* A step of the try block moves on, having written what its label stands for,
\* or leaves for the rollback.
LEMMA Advance ==
  ASSUME HookType, DiskType, TrySteps, ~Commit, ~StatusFails
  PROVE  /\ pc \in Trying
         /\ stored' = stored /\ cfg' = cfg /\ snap' = snap /\ next' = next /\ errors' = errors /\ taint' = taint
         /\ \/ pc' = "stopProxy"
            \/ /\ pc' \in Trying
               /\ \A f \in Files :
                     /\ disk'[f] \in {disk[f], Render(f, cfg)}
                     /\ pc' \notin Pending[f] /\ Affected(f) =>
                           \/ disk'[f] = Render(f, cfg) \/ Skipped(f, cfg)
                           \/ pc \notin Pending[f] /\ disk'[f] = disk[f]
<1> DEFINE Moves == \A f \in Files :
                     /\ disk'[f] \in {disk[f], Render(f, cfg)}
                     /\ pc' \notin Pending[f] /\ Affected(f) =>
                           \/ disk'[f] = Render(f, cfg) \/ Skipped(f, cfg)
                           \/ pc \notin Pending[f] /\ disk'[f] = disk[f]
<1>1. stored' = stored /\ cfg' = cfg /\ snap' = snap /\ next' = next /\ errors' = errors /\ taint' = taint
  BY Zenon DEF TrySteps, WriteProxyBinary, WriteNodeEnv, WriteMonitorEnv, WriteProxyEnv, Write, Skip, ActivateNode,
     RestartStep, ActivateMonitor, ActivateProxy, ProveNode, ProveMonitor, ProveProxy, ProveNodeStayed, ProveStep,
     Frame, locals
<1>2. pc \in Trying /\ (pc' = "stopProxy" \/ pc' \in Trying)
  BY DEF TrySteps, WriteProxyBinary, WriteNodeEnv, WriteMonitorEnv, WriteProxyEnv, Write, Skip, ActivateNode,
     Install, InstallSucceeds, InstallNotReady, InstallFails, InstallBreaks, RestartStep, ActivateMonitor,
     ActivateProxy, ProveNode, ProveMonitor, ProveProxy, ProveNodeStayed, ProveStep, Try, Except, Trying
<1>3. ASSUME pc' # "stopProxy" PROVE Moves
  <2>1. CASE WriteProxyBinary
    <3>1. pc = "proxybin" /\ pc' = "nodeenv"
      BY <1>3, <2>1 DEF WriteProxyBinary, Try, Except, Skip
    <3>2. CASE "pver" \in Changed /\ ~Skipped("proxybin", cfg)
      <4>1. disk' = [disk EXCEPT !["proxybin"] = Render("proxybin", cfg)]
        BY <1>3, <2>1, <3>2 DEF WriteProxyBinary, Try, Except
      <4> QED
        BY <3>1, <4>1, FilesAre DEF DiskType, Pending
    <3>3. CASE ~("pver" \in Changed /\ ~Skipped("proxybin", cfg))
      <4>1. disk' = disk
        BY <2>1, <3>3 DEF WriteProxyBinary, Skip, host
      <4>2. Affected("proxybin") => Skipped("proxybin", cfg)
        BY <3>3 DEF Affected, RenderedFrom
      <4> QED
        BY <3>1, <4>1, <4>2, FilesAre DEF Pending
    <3> QED
      BY <3>2, <3>3
  <2>2. CASE WriteNodeEnv
    <3>1. pc = "nodeenv" /\ pc' = "monenv"
      BY <1>3, <2>2 DEF WriteNodeEnv, Write, Try, Except, Skip
    <3>2. CASE NodeChanged
      <4>1. disk' = [disk EXCEPT !["nodeenv"] = Render("nodeenv", cfg)]
        BY <1>3, <2>2, <3>2 DEF WriteNodeEnv, Write, Try, Except
      <4> QED
        BY <3>1, <4>1, FilesAre DEF DiskType, Pending
    <3>3. CASE ~NodeChanged
      <4>1. disk' = disk
        BY <2>2, <3>3 DEF WriteNodeEnv, Skip, host
      <4>2. ~Affected("nodeenv")
        BY <3>3 DEF Affected, RenderedFrom, NodeChanged
      <4> QED
        BY <3>1, <4>1, <4>2, FilesAre DEF Pending
    <3> QED
      BY <3>2, <3>3
  <2>3. CASE WriteMonitorEnv
    <3>1. pc = "monenv" /\ pc' = "proxyenv"
      BY <1>3, <2>3 DEF WriteMonitorEnv, Write, Try, Except, Skip
    <3>2. CASE CredsChanged
      <4>1. disk' = [disk EXCEPT !["monenv"] = Render("monenv", cfg)]
        BY <1>3, <2>3, <3>2 DEF WriteMonitorEnv, Write, Try, Except
      <4> QED
        BY <3>1, <4>1, FilesAre DEF DiskType, Pending
    <3>3. CASE ~CredsChanged
      <4>1. disk' = disk
        BY <2>3, <3>3 DEF WriteMonitorEnv, Skip, host
      <4>2. ~Affected("monenv")
        BY <3>3 DEF Affected, RenderedFrom, CredsChanged
      <4> QED
        BY <3>1, <4>1, <4>2, FilesAre DEF Pending
    <3> QED
      BY <3>2, <3>3
  <2>4. CASE WriteProxyEnv
    <3>1. pc = "proxyenv" /\ pc' = "node"
      BY <1>3, <2>4 DEF WriteProxyEnv, Write, Try, Except, Skip
    <3>2. CASE ProxyChanged
      <4>1. disk' = [disk EXCEPT !["proxyenv"] = Render("proxyenv", cfg)]
        BY <1>3, <2>4, <3>2 DEF WriteProxyEnv, Write, Try, Except
      <4> QED
        BY <3>1, <4>1, FilesAre DEF DiskType, Pending
    <3>3. CASE ~ProxyChanged
      <4>1. disk' = disk
        BY <2>4, <3>3 DEF WriteProxyEnv, Skip, host
      <4>2. ~Affected("proxyenv")
        BY <3>3 DEF Affected, RenderedFrom, ProxyChanged
      <4> QED
        BY <3>1, <4>1, <4>2, FilesAre DEF Pending
    <3> QED
      BY <3>2, <3>3
  <2>5. CASE ActivateNode
    <3>1. pc = "node" /\ pc' \in {"monitor", "nodeReady"}
      BY <1>3, <2>5 DEF ActivateNode, Skip, Install, InstallSucceeds, InstallNotReady, InstallFails, InstallBreaks,
         RestartStep, Try, Except
    <3>2. CASE "release" \in Changed /\ ~Skipped("bitcoind", cfg)
      <4>1. disk' = Installed
        BY <1>3, <2>5, <3>2 DEF ActivateNode, Install, InstallSucceeds, InstallNotReady, InstallFails, InstallBreaks, Try, Except
      <4> QED
        BY <3>1, <4>1, FilesAre DEF DiskType, Installed, Pending
    <3>3. CASE ~("release" \in Changed /\ ~Skipped("bitcoind", cfg))
      <4>1. disk' = disk
        BY <2>5, <3>3, Zenon DEF ActivateNode, Skip, RestartStep, host
      <4>2. \A f \in {"bitcoind", "cli"} : Affected(f) => Skipped(f, cfg)
        BY <3>3 DEF Affected, RenderedFrom, Skipped
      <4> QED
        BY <3>1, <4>1, <4>2, FilesAre DEF Pending
    <3> QED
      BY <3>2, <3>3
  <2>6. CASE ProveNode \/ ActivateMonitor \/ ProveMonitor \/ ActivateProxy \/ ProveProxy \/ ProveNodeStayed
    <3>1. pc \in {"nodeReady", "monitor", "monitorReady", "proxy", "proxyReady", "final"}
      BY <2>6 DEF RestartStep, ActivateMonitor, ActivateProxy, Skip, ProveNode, ProveMonitor, ProveProxy,
         ProveNodeStayed, ProveStep, Try, Except
    <3>2. disk' = disk
      BY <2>6, Zenon DEF RestartStep, ActivateMonitor, ActivateProxy, Skip, ProveNode, ProveMonitor, ProveProxy,
         ProveNodeStayed, ProveStep, host
    <3> QED
      BY <3>1, <3>2, FilesAre DEF Pending
  <2> QED
    BY <2>1, <2>2, <2>3, <2>4, <2>5, <2>6, Zenon DEF TrySteps
<1> QED
  BY <1>1, <1>2, <1>3

\* The files invariant holds initially.
LEMMA FileInit == Init => FileInv
<1> SUFFICES ASSUME Init PROVE FileInv
  OBVIOUS
<1>1. pc = "idle"
  BY DEF Init
<1>2. HostMatchesStored
  BY DEF Init, HostMatchesStored
<1> QED
  BY <1>1, <1>2 DEF FileInv, WrittenInv, KeptInv, SnapInv, RestoreInv, Trying, Restored

\* The history never forgets an unfinished hook.
LEMMA TaintGrows ==
  ASSUME [Next]_vars
  PROVE  taint \subseteq taint'
<1>1. taint' = taint \/ taint' = taint \cup {"unfinished"} \/ taint' = taint \cup {"race"}
  BY Zenon DEF Next, HookStep, vars, ConfigChanged, TrySteps, WriteProxyBinary, WriteNodeEnv,
     WriteMonitorEnv, WriteProxyEnv, Write, Skip, ActivateNode, RestartStep, ActivateMonitor, ActivateProxy,
     ProveNode, ProveMonitor, ProveProxy, ProveNodeStayed, ProveStep, Commit, StatusFails, Frame, RollbackSteps,
     StopProxy, StopMonitor, StopNode, RestoreFile, Reload, StartNode, StartMonitor, StartProxy, StartAgain, Undo, Reraise,
     Environment, SetConfig, Killed, StartNodeAction, StopNodeAction, RestartNodeAction, ServiceDies, AutoRestart
<1> QED
  BY <1>1

\* Steps that leave the hook where it is, and the files alone.
LEMMA QuietStep ==
  ASSUME FileInv, UNCHANGED <<pc, disk, stored, cfg, snap, next, errors>>, taint \subseteq taint'
  PROVE  FileInv'
<1>1. \A f : Affected(f)' <=> Affected(f)
  BY DEF Affected, Changed
<1>2. \A f, c, d : Matches(f, c, d)' <=> Matches(f, c, d)
  BY DEF Matches, Skipped, Render
<1> QED
  BY <1>1, <1>2 DEF FileInv, WrittenInv, KeptInv, SnapInv, RestoreInv, HostMatchesStored, Matches, Skipped, Render

\* The hook takes its snapshot while the host matches StoredState.
LEMMA SnapshotStep ==
  ASSUME FileInv, ConfigChanged
  PROVE  FileInv'
<1>1. pc = "idle" /\ disk' = disk /\ stored' = stored /\ taint' = taint /\ next' = 1 /\ errors' = {}
  BY DEF ConfigChanged, host
<1>2. CASE pc' = "idle"
  BY <1>1, <1>2 DEF FileInv, WrittenInv, KeptInv, SnapInv, RestoreInv, HostMatchesStored, Trying, Restored, Skipped,
     Render
<1>3. CASE pc' # "idle"
  <2>1. pc' = "proxybin" /\ snap'.disk = disk
    BY <1>1, <1>3 DEF ConfigChanged
  <2>2. \A f \in Files : pc' \in Pending[f]
    BY <2>1, FilesAre DEF Pending
  <2>3. "unfinished" \notin taint' => \A f \in Files : Matches(f, stored, disk)
    BY <1>1 DEF FileInv, HostMatchesStored, Matches
  <2>4. WrittenInv'
    BY <2>2 DEF WrittenInv
  <2>5. KeptInv' /\ SnapInv'
    BY <1>1, <2>1, <2>3 DEF KeptInv, SnapInv, Matches, Skipped, Render
  <2>6. RestoreInv' /\ HostMatchesStored'
    BY <1>1, <2>1 DEF RestoreInv, HostMatchesStored, Restored
  <2> QED
    BY <2>4, <2>5, <2>6 DEF FileInv
<1> QED
  BY <1>2, <1>3

\* The try block writes the new generation file by file.
LEMMA TryStep ==
  ASSUME HookType, DiskType, FileInv, TrySteps, ~Commit, ~StatusFails
  PROVE  FileInv'
<1>1. /\ pc \in Trying
      /\ stored' = stored /\ cfg' = cfg /\ snap' = snap /\ next' = next /\ errors' = errors /\ taint' = taint
  BY Advance
<1>2. SnapInv'
  BY <1>1 DEF FileInv, SnapInv, Matches, Skipped, Render, Trying
<1>3. next' = 1
  BY <1>1 DEF FileInv, RestoreInv
<1>4. CASE pc' = "stopProxy"
  BY <1>2, <1>3, <1>4 DEF FileInv, WrittenInv, KeptInv, RestoreInv, HostMatchesStored, Trying, Restored
<1>5. CASE pc' # "stopProxy"
  <2>1. /\ pc' \in Trying
        /\ \A f \in Files :
              /\ disk'[f] \in {disk[f], Render(f, cfg)}
              /\ pc' \notin Pending[f] /\ Affected(f) =>
                    \/ disk'[f] = Render(f, cfg) \/ Skipped(f, cfg)
                    \/ pc \notin Pending[f] /\ disk'[f] = disk[f]
    BY <1>5, Advance
  <2>2. \A f : Affected(f)' <=> Affected(f)
    BY <1>1 DEF Affected, Changed
  <2>3. WrittenInv'
    <3> SUFFICES ASSUME NEW f \in Files, pc' \notin Pending[f], Affected(f) PROVE Matches(f, cfg, disk)'
      BY <2>2 DEF WrittenInv
    <3>1. CASE disk'[f] = Render(f, cfg) \/ Skipped(f, cfg)
      BY <1>1, <3>1 DEF Matches, Skipped, Render
    <3>2. CASE pc \notin Pending[f] /\ disk'[f] = disk[f]
      <4>1. Matches(f, cfg, disk)
        BY <1>1, <3>2 DEF FileInv, WrittenInv
      <4> QED
        BY <1>1, <3>2, <4>1 DEF Matches, Skipped, Render
    <3> QED
      BY <2>1, <3>1, <3>2
  <2>4. KeptInv'
    <3> SUFFICES ASSUME "unfinished" \notin taint', NEW f \in Files, ~Affected(f) PROVE Matches(f, stored, disk)'
      BY <2>2 DEF KeptInv
    <3>1. Matches(f, stored, disk)
      BY <1>1 DEF FileInv, KeptInv
    <3>2. Render(f, cfg) = Render(f, stored)
      BY Unaffected
    <3> QED
      BY <1>1, <2>1, <3>1, <3>2 DEF Matches, Skipped, Render
  <2>5. RestoreInv' /\ HostMatchesStored'
    BY <1>3, <2>1 DEF RestoreInv, HostMatchesStored, Trying, Restored
  <2> QED
    BY <1>2, <2>3, <2>4, <2>5 DEF FileInv
<1> QED
  BY <1>4, <1>5

\* When StoredState moves, every file is the new generation.
LEMMA CommitStep ==
  ASSUME FileInv, Commit
  PROVE  FileInv'
<1>1. pc = "status" /\ pc' = "idle" /\ disk' = disk /\ stored' = cfg /\ taint' = taint
  BY DEF Commit, Try, host
<1>2. ASSUME "unfinished" \notin taint, NEW f \in Files PROVE Matches(f, cfg, disk)
  <2>1. pc \in Trying /\ pc \notin Pending[f]
    BY <1>1, FilesAre DEF Trying, Pending
  <2>2. CASE Affected(f)
    BY <2>1, <2>2 DEF FileInv, WrittenInv
  <2>3. CASE ~Affected(f)
    BY <1>2, <2>1, <2>3, Unaffected DEF FileInv, KeptInv, Matches
  <2> QED
    BY <2>2, <2>3
<1>3. HostMatchesStored'
  BY <1>1, <1>2 DEF HostMatchesStored, Matches, Skipped, Render
<1> QED
  BY <1>1, <1>3 DEF FileInv, WrittenInv, KeptInv, SnapInv, RestoreInv, Trying, Restored

\* A hook that ends without its work done leaves its mark.
LEMMA UnfinishedStep ==
  ASSUME Killed \/ StatusFails
  PROVE  FileInv'
<1>1. pc' = "idle" /\ "unfinished" \in taint'
  BY DEF Killed, StatusFails, Try
<1> QED
  BY <1>1 DEF FileInv, WrittenInv, KeptInv, SnapInv, RestoreInv, HostMatchesStored, Trying, Restored

\* The rollback.
LEMMA RollbackStep ==
  ASSUME HookType, DiskType, SnapType, FileInv, RollbackSteps
  PROVE  FileInv'
<1>1. stored' = stored /\ cfg' = cfg /\ snap' = snap
  BY Zenon DEF RollbackSteps, StopProxy, StopMonitor, StopNode, RestoreFile, Reload, StartNode, StartMonitor,
     StartProxy, StartAgain, Undo, Skip, Reraise, Frame, locals
<1>2. pc # "idle" /\ pc \notin Trying /\ pc' \notin Trying
  BY DEF RollbackSteps, StopProxy, StopMonitor, StopNode, RestoreFile, Reload, StartNode, StartMonitor,
     StartProxy, StartAgain, Undo, Skip, Reraise, Try, Trying
<1>3. taint \subseteq taint'
  BY TaintGrows DEF Next, HookStep
<1>4. WrittenInv' /\ KeptInv'
  BY <1>2 DEF WrittenInv, KeptInv
<1>5. SnapInv'
  BY <1>1, <1>2, <1>3 DEF FileInv, SnapInv, Matches, Skipped, Render
<1>6. RestoreInv' /\ HostMatchesStored'
  <2>1. CASE StopProxy \/ StopMonitor \/ StopNode
    <3>1. pc \in {"stopProxy", "stopMonitor", "stopNode"} /\ pc' \in {"stopMonitor", "stopNode", "restore"} /\ next' = next
      BY <2>1 DEF StopProxy, StopMonitor, StopNode, Undo, Try
    <3>2. next = 1
      BY <3>1 DEF FileInv, RestoreInv
    <3> QED
      BY <1>2, <3>1, <3>2 DEF RestoreInv, HostMatchesStored, Restored
  <2>2. CASE RestoreFile
    <3>1. pc = "restore" /\ errors \subseteq errors'
      BY <2>2 DEF RestoreFile
    <3>2. next \in 1..6
      BY FilesAre DEF HookType
    <3>3. ASSUME "operation" \notin errors' PROVE \A i \in 1..next : disk'[Paths[i]] = snap'.disk[Paths[i]]
      <4>1. disk' = [disk EXCEPT ![Paths[next]] = snap.disk[Paths[next]]]
        BY <2>2, <3>3 DEF RestoreFile
      <4>2. \A i \in 1..(next - 1) : disk[Paths[i]] = snap.disk[Paths[i]]
        BY <3>1, <3>3 DEF FileInv, RestoreInv
      <4>3. \A i \in 1..next : Paths[i] \in DOMAIN disk
        BY <3>2, FilesAre DEF DiskType, Files
      <4>4. \A i \in 1..next : i = next \/ i \in 1..(next - 1)
        BY <3>2
      <4> QED
        BY <1>1, <4>1, <4>2, <4>3, <4>4
    <3>4. CASE next = 6
      <4>1. pc' = "reload"
        BY <2>2, <3>4, FilesAre DEF RestoreFile
      <4>2. "operation" \notin errors' => \A f \in Files : disk'[f] = snap'.disk[f]
        BY <3>3, <3>4, FilesAre DEF Files
      <4> QED
        BY <1>2, <4>1, <4>2 DEF RestoreInv, HostMatchesStored, Restored
    <3>5. CASE next # 6
      <4>1. pc' = "restore" /\ next' = next + 1
        BY <2>2, <3>5, FilesAre DEF RestoreFile
      <4>2. next' - 1 = next
        BY <3>2, <4>1
      <4> QED
        BY <1>2, <3>3, <4>1, <4>2 DEF RestoreInv, HostMatchesStored, Restored
    <3> QED
      BY <3>4, <3>5
  <2>3. CASE Reload \/ StartNode \/ StartMonitor \/ StartProxy
    <3>1. pc \in Restored /\ pc' \in Restored
      BY <2>3 DEF Reload, StartNode, StartMonitor, StartProxy, StartAgain, Undo, Skip, Try, Restored
    <3>2. disk' = disk
      BY <2>3, Zenon DEF Reload, StartNode, StartMonitor, StartProxy, StartAgain, Undo, Skip, host
    <3>3. errors' = errors \/ errors' = errors \cup {"operation"}
      BY <2>3, Zenon DEF Reload, StartNode, StartMonitor, StartProxy, StartAgain, Undo, Skip, Frame, locals
    <3> QED
      BY <1>1, <1>2, <3>1, <3>2, <3>3 DEF FileInv, RestoreInv, HostMatchesStored, Restored
  <2>4. CASE Reraise
    <3>1. pc = "recovered" /\ pc' = "idle" /\ disk' = disk
      BY <2>4 DEF Reraise, Try, host
    <3>2. "unfinished" \notin taint' => "operation" \notin errors /\ "unfinished" \notin taint
      BY <2>4 DEF Reraise
    <3>3. "unfinished" \notin taint' => \A f \in Files : Matches(f, stored, snap.disk) /\ disk[f] = snap.disk[f]
      BY <3>1, <3>2 DEF FileInv, SnapInv, RestoreInv, Restored
    <3>4. HostMatchesStored'
      BY <1>1, <3>1, <3>3 DEF HostMatchesStored, Matches, Skipped, Render
    <3> QED
      BY <3>1, <3>4 DEF RestoreInv, Restored, Trying
  <2> QED
    BY <2>1, <2>2, <2>3, <2>4, Zenon DEF RollbackSteps
<1> QED
  BY <1>4, <1>5, <1>6 DEF FileInv

\* Every step preserves the files invariant.
LEMMA FileStep == TypeOK /\ FileInv /\ [Next]_vars => FileInv'
<1> SUFFICES ASSUME TypeOK, FileInv, [Next]_vars PROVE FileInv'
  OBVIOUS
<1>1. HookType /\ DiskType /\ SnapType
  BY TypeParts
<1>2. CASE UNCHANGED vars
  BY <1>2, QuietStep, TaintGrows DEF vars, host, locals
<1>3. CASE SetConfig \/ StartNodeAction \/ StopNodeAction \/ RestartNodeAction
           \/ \E s \in Services : ServiceDies(s) \/ AutoRestart(s)
  <2>1. pc' = pc /\ disk' = disk /\ stored' = stored /\ cfg' = cfg /\ snap' = snap /\ next' = next /\ errors' = errors
    BY <1>3, Zenon DEF SetConfig, StartNodeAction, StopNodeAction, RestartNodeAction, ServiceDies, AutoRestart, host,
       locals
  <2> QED
    BY <2>1, QuietStep, TaintGrows
<1> QED
  BY <1>1, <1>2, <1>3, SnapshotStep, TryStep, CommitStep, UnfinishedStep, RollbackStep, Zenon
     DEF Next, HookStep, TrySteps, Environment

-----------------------------------------------------------------------------
(* The services.  What the code proves of them when it commits holds as    *)
(* long as no config the operator sets has an empty version: a hook that   *)
(* finds the version cleared restarts no node, whatever else changed.      *)

NeverCleared == \A c \in Configs : c["release"] \notin NoReleases

\* The labels of the try block up to the step that restarts s, and the label
\* at which its recovery is checked.
Before ==
    [node    |-> {"proxybin", "nodeenv", "monenv", "proxyenv", "node"},
     monitor |-> {"proxybin", "nodeenv", "monenv", "proxyenv", "node", "nodeReady", "monitor"},
     proxy   |-> {"proxybin", "nodeenv", "monenv", "proxyenv", "node", "nodeReady", "monitor",
                  "monitorReady", "proxy"}]
Proving == [node |-> "nodeReady", monitor |-> "monitorReady", proxy |-> "proxyReady"]

\* The changed keys concern s.
Touched(s) ==
    \/ s = "node" /\ NodeChanged
    \/ s = "monitor" /\ CredsChanged
    \/ s = "proxy" /\ ProxyChanged

\* s runs on the files on disk, if it runs.
Current(s) == svc[s] = "up" => loaded[s] = View(s, disk)

\* A hook runs on a config that the operator set.
GivenInv ==
    /\ due \/ pc # "idle" => config \in Configs
    /\ pc # "idle" => cfg \in Configs

\* Past its restart, a service that the change concerns runs on the new files.
RestartedInv ==
    NeverCleared /\ pc \in Trying => \A s \in snap.running : Touched(s) /\ pc \notin Before[s] => Current(s)

\* While nothing interferes, only services still to be restarted are behind.
StaleInv ==
    NeverCleared /\ pc \in Trying /\ taint = {} =>
        \A s \in Services :
            svc[s] = "up" => /\ pc \in Before[s] => s \in snap.running
                             /\ Current(s) \/ (pc \in Before[s] /\ Touched(s))

\* Rollback restores the files with every service stopped.
StoppedInv ==
    "operation" \notin errors =>
        /\ pc \in {"stopMonitor", "stopNode", "restore", "reload", "startNode"} => svc["proxy"] = "down"
        /\ pc \in {"stopNode", "restore", "reload", "startNode"} => svc["monitor"] = "down"
        /\ pc \in {"restore", "reload", "startNode"} => svc["node"] = "down"

\* What rollback started runs on the restored files, and ran before.
AgainInv ==
    pc \in Restored /\ "operation" \notin errors =>
        \A s \in Services :
            /\ Current(s)
            /\ svc[s] # "down" => s \in snap.running \/ (s = "node" /\ "proxy" \in snap.running)

CurrentInv == NeverCleared => ServicesCurrent

ServInv == RestartedInv /\ StaleInv /\ StoppedInv /\ AgainInv /\ CurrentInv

\* The services, what they want and what they read.
LEMMA ServiceNames ==
  /\ Services = {"node", "monitor", "proxy"}
  /\ Wants["node"] = {} /\ Wants["monitor"] = {} /\ Wants["proxy"] = {"node"}
  /\ Reads["node"] = {"bitcoind", "nodeenv"} /\ Reads["monitor"] = {"monenv"}
  /\ Reads["proxy"] = {"proxybin", "proxyenv"}
BY DEF Services, Wants, Reads

\* Which services a start and a restart bring up.
LEMMA StartSets ==
  ASSUME NEW s \in Services, NEW t \in Services
  PROVE  /\ t \in NotUp({s} \cup Wants[s]) <=> svc[t] # "up" /\ (t = s \/ (s = "proxy" /\ t = "node"))
         /\ t \in {s} \cup NotUp(Wants[s]) <=> t = s \/ (svc[t] # "up" /\ s = "proxy" /\ t = "node")
BY ServiceNames DEF NotUp

\* What bringing services up does to each of them.
LEMMA BroughtUp ==
  ASSUME NEW S, BringUp(S), NEW t \in Services
  PROVE  /\ t \notin S => svc'[t] = svc[t] /\ loaded'[t] = loaded[t]
         /\ t \in S /\ Runnable(t, disk) => svc'[t] = "up" /\ loaded'[t] = View(t, disk)
         /\ t \in S /\ ~Runnable(t, disk) => svc'[t] = "waiting"
BY DEF BringUp

\* What stopping services does to each of them.
LEMMA Stopped ==
  ASSUME NEW S, Stop(S), NEW t \in Services
  PROVE  /\ t \notin S => svc'[t] = svc[t] /\ loaded'[t] = loaded[t]
         /\ t \in S => svc'[t] = "down"
BY DEF Stop

\* Starting or stopping services makes none of them stale.
LEMMA StaysCurrent ==
  ASSUME NEW S, BringUp(S) \/ Stop(S), disk' = disk, NEW t \in Services, Current(t)
  PROVE  Current(t)'
<1>1. CASE BringUp(S)
  BY <1>1, BroughtUp DEF Current, View
<1>2. CASE Stop(S)
  BY <1>2, Stopped DEF Current, View
<1> QED
  BY <1>1, <1>2

\* A hook works on a configuration that was given.
LEMMA GivenStep ==
  ASSUME GivenInv, [Next]_vars
  PROVE  GivenInv'
<1>1. config' = config \/ SetConfig
  BY Zenon DEF Next, HookStep, vars, operator, ConfigChanged, TrySteps, WriteProxyBinary, WriteNodeEnv,
     WriteMonitorEnv, WriteProxyEnv, Write, Skip, ActivateNode, RestartStep, ActivateMonitor, ActivateProxy,
     ProveNode, ProveMonitor, ProveProxy, ProveNodeStayed, ProveStep, Commit, StatusFails, Frame, RollbackSteps,
     StopProxy, StopMonitor, StopNode, RestoreFile, Reload, StartNode, StartMonitor, StartProxy, StartAgain, Undo, Reraise,
     Environment, Killed, StartNodeAction, StopNodeAction, RestartNodeAction, ServiceDies, AutoRestart
<1>2. due' => due \/ pc # "idle" \/ SetConfig
  <2>1. due' = due \/ pc # "idle" \/ due' = FALSE \/ SetConfig
    BY DEF Next, HookStep, vars, operator, ConfigChanged, TrySteps, WriteProxyBinary, WriteNodeEnv,
       WriteMonitorEnv, WriteProxyEnv, Write, Skip, ActivateNode, RestartStep, ActivateMonitor, ActivateProxy,
       ProveNode, ProveMonitor, ProveProxy, ProveNodeStayed, ProveStep, Commit, StatusFails, Frame, RollbackSteps,
       StopProxy, StopMonitor, StopNode, RestoreFile, Reload, StartNode, StartMonitor, StartProxy, StartAgain, Undo, Reraise,
       Environment, Killed, StartNodeAction, StopNodeAction, RestartNodeAction, ServiceDies, AutoRestart, Try
  <2> QED
    BY <2>1
<1>3. pc' # "idle" => pc # "idle" \/ (ConfigChanged /\ due)
  BY DEF Next, HookStep, vars, operator, ConfigChanged, TrySteps, WriteProxyBinary, WriteNodeEnv,
     WriteMonitorEnv, WriteProxyEnv, Write, Skip, ActivateNode, Install, InstallSucceeds, InstallNotReady, InstallFails,
     InstallBreaks, RestartStep, ActivateMonitor, ActivateProxy,
     ProveNode, ProveMonitor, ProveProxy, ProveNodeStayed, ProveStep, Commit, StatusFails, RollbackSteps,
     StopProxy, StopMonitor, StopNode, RestoreFile, Reload, StartNode, StartMonitor, StartProxy, StartAgain, Undo, Reraise,
     Environment, SetConfig, Killed, StartNodeAction, StopNodeAction, RestartNodeAction, ServiceDies, AutoRestart,
     Try, Except
<1>4. SetConfig => config' \in Configs
  BY DEF SetConfig
<1>5. cfg' = cfg \/ (ConfigChanged /\ due /\ cfg' = config)
  BY LocalsStep DEF ConfigChanged
<1> QED
  BY <1>1, <1>2, <1>3, <1>4, <1>5 DEF GivenInv, ConfigChanged

\* Service r is restarted at the label that has its name; the labels after it.
Following == [node |-> "monitor", monitor |-> "proxy", proxy |-> "final"]

\* The order of the activation steps.
LEMMA LabelOrder ==
  ASSUME NEW r \in Services, NEW t \in Services
  PROVE  /\ r # Proving[t]
         /\ r \in Before[r] /\ Proving[r] \notin Before[r] /\ Following[r] \notin Before[r]
         /\ t # r => (r \in Before[t] <=> Proving[r] \in Before[t]) /\ (r \in Before[t] <=> Following[r] \in Before[t])
         /\ (Proving[r] \in Before[t] <=> Following[r] \in Before[t])
         /\ Proving[r] = Proving[t] => r = t
         /\ r = "proxy" => r \notin Before["node"] /\ Proving[r] \notin Before["node"]
         /\ Proving[r] # "status" /\ Following[r] # "status"
<1>1. CASE r = "node"
  BY <1>1, ServiceNames DEF Before, Proving, Following
<1>2. CASE r = "monitor"
  BY <1>2, ServiceNames DEF Before, Proving, Following
<1>3. CASE r = "proxy"
  BY <1>3, ServiceNames DEF Before, Proving, Following
<1> QED
  BY <1>1, <1>2, <1>3, ServiceNames

\* What a step of the try block that succeeds does to service s: nothing (and s
\* is to be restarted, when the step wrote a file that s reads), a restart on
\* the new files, or a restart after which s is not up.
Effect(s) ==
    /\ \/ /\ svc'[s] = svc[s] /\ loaded'[s] = loaded[s]
          /\ \/ View(s, disk') = View(s, disk) \/ (Touched(s) /\ pc' \in Before[s])
             \/ s = "node" /\ svc[s] # "up"
       \/ svc'[s] = "up" /\ loaded'[s] = View(s, disk') /\ pc' \notin Before[s]
       \/ /\ svc'[s] = "waiting" /\ ~Runnable(s, disk')
          /\ pc' \notin Before[s] /\ (svc[s] # "up" \/ pc' = Proving[s])
    /\ pc \notin Before[s] => pc' \notin Before[s]
    /\ pc \in Before[s] /\ pc' \notin Before[s] /\ Touched(s) /\ s \in snap.running /\ svc'[s] = "up" =>
          loaded'[s] = View(s, disk')
    /\ pc = Proving[s] => svc'[s] = "up" \/ s = "proxy"
    /\ s = "proxy" /\ pc \in Before[s] /\ pc' \notin Before[s] /\ Touched(s) /\ s \in snap.running =>
          svc'[s] = "up" \/ (svc'[s] = "waiting" /\ ~Runnable(s, disk'))
    /\ s = "node" /\ pc' = "status" /\ s \in snap.running =>
          svc'[s] = "up" \/ (svc'[s] = "waiting" /\ ~Runnable(s, disk'))

\* What a step of the try block does to one service.
LEMMA TryEffect ==
  ASSUME NeverCleared, cfg \in Configs, DiskType, ServiceType,
         TrySteps, ~Commit, ~StatusFails, pc' # "stopProxy", NEW s \in Services
  PROVE  Effect(s)
<1>1. CASE WriteProxyBinary
  <2>1. pc = "proxybin" /\ pc' = "nodeenv" /\ svc' = svc /\ loaded' = loaded
    BY <1>1 DEF WriteProxyBinary, Write, Skip, Try, Except, host
  <2>2. disk' = disk \/ ("pver" \in Changed /\ disk' = [disk EXCEPT !["proxybin"] = Render("proxybin", cfg)])
    BY <1>1 DEF WriteProxyBinary, Write, Skip, Try, Except, host
  <2>3. View(s, disk') = View(s, disk) \/ Touched(s)
    <3>1. CASE disk' = disk
      BY <3>1
    <3>2. CASE s = "proxy" /\ disk' # disk
      BY <2>2, <3>2 DEF Touched, ProxyChanged
    <3>3. CASE s # "proxy" /\ disk' # disk
      <4>1. \A f \in Reads[s] : disk'[f] = disk[f]
        BY <2>2, <3>3, ServiceNames, FilesOfService DEF DiskType
      <4> QED
        BY <4>1 DEF View
    <3> QED
      BY <3>1, <3>2, <3>3
  <2> QED
    BY <2>1, <2>3, ServiceNames DEF Effect, Before, Proving
<1>2. CASE WriteNodeEnv
  <2>1. pc = "nodeenv" /\ pc' = "monenv" /\ svc' = svc /\ loaded' = loaded
    BY <1>2 DEF WriteNodeEnv, Write, Skip, Try, Except, host
  <2>2. disk' = disk \/ (NodeChanged /\ disk' = [disk EXCEPT !["nodeenv"] = Render("nodeenv", cfg)])
    BY <1>2 DEF WriteNodeEnv, Write, Skip, Try, Except, host
  <2>3. View(s, disk') = View(s, disk) \/ Touched(s)
    <3>1. CASE disk' = disk
      BY <3>1
    <3>2. CASE s = "node" /\ disk' # disk
      BY <2>2, <3>2 DEF Touched, ProxyChanged
    <3>3. CASE s # "node" /\ disk' # disk
      <4>1. \A f \in Reads[s] : disk'[f] = disk[f]
        BY <2>2, <3>3, ServiceNames, FilesOfService DEF DiskType
      <4> QED
        BY <4>1 DEF View
    <3> QED
      BY <3>1, <3>2, <3>3
  <2> QED
    BY <2>1, <2>3, ServiceNames DEF Effect, Before, Proving
<1>3. CASE WriteMonitorEnv
  <2>1. pc = "monenv" /\ pc' = "proxyenv" /\ svc' = svc /\ loaded' = loaded
    BY <1>3 DEF WriteMonitorEnv, Write, Skip, Try, Except, host
  <2>2. disk' = disk \/ (CredsChanged /\ disk' = [disk EXCEPT !["monenv"] = Render("monenv", cfg)])
    BY <1>3 DEF WriteMonitorEnv, Write, Skip, Try, Except, host
  <2>3. View(s, disk') = View(s, disk) \/ Touched(s)
    <3>1. CASE disk' = disk
      BY <3>1
    <3>2. CASE s = "monitor" /\ disk' # disk
      BY <2>2, <3>2 DEF Touched, ProxyChanged
    <3>3. CASE s # "monitor" /\ disk' # disk
      <4>1. \A f \in Reads[s] : disk'[f] = disk[f]
        BY <2>2, <3>3, ServiceNames, FilesOfService DEF DiskType
      <4> QED
        BY <4>1 DEF View
    <3> QED
      BY <3>1, <3>2, <3>3
  <2> QED
    BY <2>1, <2>3, ServiceNames DEF Effect, Before, Proving
<1>4. CASE WriteProxyEnv
  <2>1. pc = "proxyenv" /\ pc' = "node" /\ svc' = svc /\ loaded' = loaded
    BY <1>4 DEF WriteProxyEnv, Write, Skip, Try, Except, host
  <2>2. disk' = disk \/ (ProxyChanged /\ disk' = [disk EXCEPT !["proxyenv"] = Render("proxyenv", cfg)])
    BY <1>4 DEF WriteProxyEnv, Write, Skip, Try, Except, host
  <2>3. View(s, disk') = View(s, disk) \/ Touched(s)
    <3>1. CASE disk' = disk
      BY <3>1
    <3>2. CASE s = "proxy" /\ disk' # disk
      BY <2>2, <3>2 DEF Touched, ProxyChanged
    <3>3. CASE s # "proxy" /\ disk' # disk
      <4>1. \A f \in Reads[s] : disk'[f] = disk[f]
        BY <2>2, <3>3, ServiceNames, FilesOfService DEF DiskType
      <4> QED
        BY <4>1 DEF View
    <3> QED
      BY <3>1, <3>2, <3>3
  <2> QED
    BY <2>1, <2>3, ServiceNames DEF Effect, Before, Proving
<1>5. ASSUME NEW r \in Services, RestartStep(r, r, Proving[r]) PROVE Effect(s)
  <2>1. pc = r /\ pc' = Proving[r] /\ disk' = disk /\ Restart(r)
    <3>1. Proving[r] # "stopProxy"
      BY ServiceNames DEF Proving
    <3> QED
      BY <1>5, <3>1 DEF RestartStep, Try, Except
  <2>2. BringUp({r} \cup NotUp(Wants[r]))
    BY <2>1 DEF Restart
  <2>3. pc # Proving[s] /\ pc' # "status"
    BY <2>1, LabelOrder
  <2>4. CASE s = r
    <3>1. (svc'[s] = "waiting" /\ ~Runnable(s, disk')) \/ (svc'[s] = "up" /\ loaded'[s] = View(s, disk'))
      BY <2>1, <2>2, <2>4, StartSets, BroughtUp
    <3>2. pc \in Before[s] /\ pc' \notin Before[s] /\ pc' = Proving[s]
      BY <2>1, <2>4, LabelOrder
    <3> QED
      BY <2>3, <3>1, <3>2 DEF Effect
  <2>5. CASE s = "node" /\ r = "proxy" /\ svc[s] # "up"
    <3>1. (svc'[s] = "waiting" /\ ~Runnable(s, disk')) \/ (svc'[s] = "up" /\ loaded'[s] = View(s, disk'))
      <4>1. s \in {r} \cup NotUp(Wants[r])
        BY <2>5, StartSets
      <4> QED
        BY <2>1, <2>2, <4>1, BroughtUp
    <3>2. pc \notin Before[s] /\ pc' \notin Before[s]
      BY <2>1, <2>5, LabelOrder
    <3> QED
      BY <2>3, <2>5, <3>1, <3>2 DEF Effect
  <2>6. CASE s # r /\ ~(s = "node" /\ r = "proxy" /\ svc[s] # "up")
    <3>1. svc'[s] = svc[s] /\ loaded'[s] = loaded[s]
      <4>1. s \notin {r} \cup NotUp(Wants[r])
        BY <2>6, StartSets
      <4> QED
        BY <2>2, <4>1, BroughtUp
    <3>2. pc \in Before[s] <=> pc' \in Before[s]
      BY <2>1, <2>6, LabelOrder
    <3> QED
      BY <2>1, <2>3, <3>1, <3>2 DEF Effect
  <2> QED
    BY <2>4, <2>5, <2>6
<1>6. ASSUME NEW r \in Services, Skip(r, Following[r]), s = r => ~(Touched(s) /\ s \in snap.running) PROVE Effect(s)
  <2>1. pc = r /\ pc' = Following[r] /\ disk' = disk /\ svc' = svc /\ loaded' = loaded
    BY <1>6 DEF Skip, Try, host
  <2>2. pc # Proving[s] /\ pc' # "status" /\ (s # r => (pc \in Before[s] <=> pc' \in Before[s])) /\ (pc \notin Before[s] => pc' \notin Before[s])
    BY <2>1, LabelOrder
  <2> QED
    BY <1>6, <2>1, <2>2 DEF Effect
<1>7. CASE ActivateNode
  <2>1. CASE "release" \in Changed
    <3>1. ~Skipped("bitcoind", cfg)
      BY DEF NeverCleared, Skipped
    <3>2. PICK seen \in SeenRunning : InstallSucceeds("node" \in seen)
      BY <1>7, <2>1, <3>1 DEF ActivateNode, Install, InstallNotReady, InstallFails, InstallBreaks, Except
    <3>3. pc = "node" /\ pc' = "monitor" /\ disk' = Installed
      BY <3>2 DEF InstallSucceeds, Try
    <3>4. CASE s = "node" /\ "node" \in seen
      <4>1. Runnable("node", Installed) /\ NodeRestartedOn(Installed)
        BY <3>2, <3>4 DEF InstallSucceeds, ComesUp
      <4>2. svc'["node"] = "up" /\ loaded'["node"] = View("node", Installed)
        BY <4>1, ServiceNames DEF NodeRestartedOn, ServiceType
      <4> QED
        BY <3>3, <3>4, <4>2, ServiceNames DEF Effect, Before, Proving
    <3>5. CASE s = "node" /\ "node" \notin seen
      <4>1. svc' = svc /\ loaded' = loaded
        BY <3>2, <3>5 DEF InstallSucceeds
      <4>2. svc["node"] # "up"
        BY <3>5, Seen, ServiceNames DEF Running
      <4> QED
        BY <3>3, <3>5, <4>1, <4>2, ServiceNames DEF Effect, Before, Proving
    <3>6. CASE s # "node"
      <4>1. svc'[s] = svc[s] /\ loaded'[s] = loaded[s]
        BY <3>2, <3>6 DEF InstallSucceeds, NodeRestartedOn, ServiceType
      <4>2. \A f \in Reads[s] : Installed[f] = disk[f]
        BY <3>6, ServiceNames, FilesAre DEF Installed, DiskType
      <4>3. View(s, disk') = View(s, disk)
        BY <3>3, <4>2 DEF View
      <4> QED
        BY <3>3, <3>6, <4>1, <4>3, ServiceNames DEF Effect, Before, Proving
    <3> QED
      BY <3>4, <3>5, <3>6
  <2>2. CASE "release" \notin Changed /\ NodeChanged /\ "node" \in snap.running
    <3>1. "node" \in Services /\ RestartStep("node", "node", Proving["node"])
      BY <1>7, <2>2 DEF ActivateNode, Proving, Services
    <3> QED
      BY <1>5, <3>1
  <2>3. CASE "release" \notin Changed /\ ~(NodeChanged /\ "node" \in snap.running)
    <3>1. "node" \in Services /\ Skip("node", Following["node"])
      BY <1>7, <2>3 DEF ActivateNode, Following, Services
    <3> QED
      BY <1>6, <2>3, <3>1 DEF Touched
  <2> QED
    BY <2>1, <2>2, <2>3
<1>8. CASE ActivateMonitor
  <2>1. CASE CredsChanged /\ "monitor" \in snap.running
    <3>1. "monitor" \in Services /\ RestartStep("monitor", "monitor", Proving["monitor"])
      BY <1>8, <2>1 DEF ActivateMonitor, Proving, Services
    <3> QED
      BY <1>5, <3>1
  <2>2. CASE ~(CredsChanged /\ "monitor" \in snap.running)
    <3>1. "monitor" \in Services /\ Skip("monitor", Following["monitor"])
      BY <1>8, <2>2 DEF ActivateMonitor, Following, Services
    <3> QED
      BY <1>6, <2>2, <3>1 DEF Touched
  <2> QED
    BY <2>1, <2>2
<1>9. CASE ActivateProxy
  <2>1. CASE ProxyChanged /\ "proxy" \in snap.running
    <3>1. "proxy" \in Services /\ RestartStep("proxy", "proxy", Proving["proxy"])
      BY <1>9, <2>1 DEF ActivateProxy, Proving, Except, Services
    <3> QED
      BY <1>5, <3>1
  <2>2. CASE ~(ProxyChanged /\ "proxy" \in snap.running)
    <3>1. "proxy" \in Services /\ Skip("proxy", Following["proxy"])
      BY <1>9, <2>2 DEF ActivateProxy, Following, Services
    <3> QED
      BY <1>6, <2>2, <3>1 DEF Touched
  <2> QED
    BY <2>1, <2>2
<1>10. CASE ProveNode \/ ProveMonitor \/ ProveProxy \/ ProveNodeStayed
  <2>1. disk' = disk /\ svc' = svc /\ loaded' = loaded
    BY <1>10 DEF ProveNode, ProveMonitor, ProveProxy, ProveNodeStayed, ProveStep, host
  <2>2. \/ pc = "nodeReady" /\ pc' = "monitor" /\ svc["node"] = "up"
        \/ pc = "monitorReady" /\ pc' = "proxy" /\ \E seen \in SeenRunning : "monitor" \in seen
        \/ pc = "proxyReady" /\ pc' = "final"
        \/ pc = "final" /\ pc' = "status" /\ \E seen \in SeenRunning : "node" \in snap.running => "node" \in seen
    BY <1>10 DEF ProveNode, ProveMonitor, ProveProxy, ProveNodeStayed, ProveStep, Try, Except, Ready
  <2>3. /\ (\E seen \in SeenRunning : "monitor" \in seen) => svc["monitor"] = "up"
        /\ (\E seen \in SeenRunning : "node" \in snap.running => "node" \in seen) =>
              ("node" \in snap.running => svc["node"] = "up" \/ CrashLooping("node"))
    BY Seen, NotLooping
  <2>4. /\ pc = Proving[s] => svc[s] = "up" \/ s = "proxy"
        /\ pc \in Before[s] <=> pc' \in Before[s]
        /\ pc' = "status" /\ s = "node" /\ s \in snap.running => svc[s] = "up" \/ CrashLooping(s)
    BY <2>2, <2>3, ServiceNames DEF Before, Proving
  <2> QED
    BY <2>1, <2>4 DEF Effect, CrashLooping
<1> QED
  BY <1>1, <1>2, <1>3, <1>4, <1>7, <1>8, <1>9, <1>10, Zenon DEF TrySteps

\* The services invariant holds initially.
LEMMA ServInit == Init => GivenInv /\ ServInv
<1> SUFFICES ASSUME Init PROVE GivenInv /\ ServInv
  OBVIOUS
<1>1. pc = "idle" /\ ~due
  BY DEF Init
<1>2. CurrentInv
  BY DEF Init, CurrentInv, ServicesCurrent, Running
<1> QED
  BY <1>1, <1>2 DEF GivenInv, ServInv, RestartedInv, StaleInv, StoppedInv, AgainInv, Trying, Restored

\* CurrentInv, service by service.
LEMMA EachCurrent == CurrentInv <=> (NeverCleared /\ pc = "idle" /\ taint = {} => \A s \in Services : Current(s))
BY DEF CurrentInv, NeverCleared, ServicesCurrent, Current, Running

\* CurrentInv after a step, service by service.
LEMMA EachCurrentNext == CurrentInv' <=> (NeverCleared /\ pc' = "idle" /\ taint' = {} => \A s \in Services : Current(s)')
BY DEF CurrentInv, NeverCleared, ServicesCurrent, Current, Running

\* Steps that touch neither the hook nor the host.
LEMMA QuietServ ==
  ASSUME ServInv, UNCHANGED <<pc, disk, svc, loaded, stored, cfg, snap, errors, taint>>
  PROVE  ServInv'
<1>1. \A s : (Touched(s)' <=> Touched(s)) /\ (Current(s)' <=> Current(s))
  BY DEF Touched, NodeChanged, CredsChanged, ProxyChanged, Changed, Current, View
<1> QED
  BY <1>1, EachCurrent, EachCurrentNext DEF ServInv, RestartedInv, StaleInv, StoppedInv, AgainInv

\* The node actions run between hooks.
LEMMA ActionServ ==
  ASSUME ServInv, StartNodeAction \/ StopNodeAction \/ RestartNodeAction
  PROVE  ServInv'
<1>1. pc = "idle" /\ pc' = "idle" /\ disk' = disk /\ taint' = taint
  BY DEF StartNodeAction, StopNodeAction, RestartNodeAction
<1>2. \E S : BringUp(S) \/ Stop(S)
  BY Zenon DEF StartNodeAction, StopNodeAction, RestartNodeAction
<1>3. CurrentInv'
  BY <1>1, <1>2, StaysCurrent, EachCurrent, EachCurrentNext DEF ServInv
<1> QED
  BY <1>1, <1>3 DEF ServInv, RestartedInv, StaleInv, StoppedInv, AgainInv, Trying, Restored

\* A service that dies is no longer up.
LEMMA DeathServ ==
  ASSUME SnapType, ServiceType, ServInv, NEW d \in Services, ServiceDies(d)
  PROVE  ServInv'
<1>1. /\ disk' = disk /\ pc' = pc /\ taint' = taint /\ snap' = snap /\ errors' = errors
      /\ cfg' = cfg /\ stored' = stored
  BY DEF ServiceDies, locals
<1>2. /\ svc[d] = "up" /\ svc'[d] = "waiting"
      /\ \A t \in Services \ {d} : svc'[t] = svc[t] /\ loaded'[t] = loaded[t]
  BY DEF ServiceDies, ServiceType
<1>3. ASSUME NEW t \in Services
      PROVE  (Touched(t)' <=> Touched(t)) /\ (svc'[t] = "up" => svc[t] = "up") /\ (Current(t) => Current(t)')
  BY <1>1, <1>2 DEF Touched, NodeChanged, CredsChanged, ProxyChanged, Changed, Current, View
<1>4. RestartedInv'
  BY <1>1, <1>3 DEF ServInv, RestartedInv, SnapType
<1>5. StaleInv'
  BY <1>1, <1>3 DEF ServInv, StaleInv
<1>6. StoppedInv'
  BY <1>1, <1>2, ServiceNames DEF ServInv, StoppedInv
<1>7. AgainInv'
  BY <1>1, <1>2, <1>3 DEF ServInv, AgainInv
<1>8. CurrentInv'
  BY <1>1, <1>3, EachCurrent, EachCurrentNext DEF ServInv
<1> QED
  BY <1>4, <1>5, <1>6, <1>7, <1>8 DEF ServInv

\* systemd restarts r, and the node with it when r is the proxy, on the files
\* on disk.
LEMMA AutoServ ==
  ASSUME SnapType, ServiceType, ServInv, NEW r \in Services, AutoRestart(r)
  PROVE  ServInv'
<1>1. /\ disk' = disk /\ pc' = pc /\ snap' = snap /\ errors' = errors /\ cfg' = cfg /\ stored' = stored
      /\ svc[r] = "waiting" /\ BringUp(NotUp({r} \cup Wants[r]))
  BY DEF AutoRestart, Start, locals
<1>2. (pc # "idle" => taint' # {}) /\ (taint' = {} => taint = {})
  BY DEF AutoRestart
<1>3. ASSUME NEW t \in Services
      PROVE  \/ svc'[t] = svc[t] /\ loaded'[t] = loaded[t]
             \/ t = r \/ (r = "proxy" /\ t = "node")
  BY <1>1, StartSets, BroughtUp
<1>4. ASSUME NEW t \in Services PROVE (Touched(t)' <=> Touched(t)) /\ (Current(t) => Current(t)')
  <2>1. Touched(t)' <=> Touched(t)
    BY <1>1 DEF Touched, NodeChanged, CredsChanged, ProxyChanged, Changed
  <2> QED
    BY <1>1, <2>1, StaysCurrent
<1>5. RestartedInv'
  BY <1>1, <1>4 DEF ServInv, RestartedInv, SnapType
<1>6. StaleInv'
  BY <1>1, <1>2, Zenon DEF ServInv, StaleInv, Trying
<1>7. StoppedInv'
  <2>1. "down" # "waiting"
    OBVIOUS
  <2>2. svc["proxy"] = "down" => svc'["proxy"] = "down"
    BY <1>1, <1>3, <2>1, ServiceNames
  <2>3. svc["proxy"] = "down" /\ svc["monitor"] = "down" => svc'["monitor"] = "down"
    BY <1>1, <1>3, <2>1, ServiceNames
  <2>4. svc["proxy"] = "down" /\ svc["node"] = "down" => svc'["node"] = "down"
    BY <1>1, <1>3, <2>1, ServiceNames
  <2> QED
    BY <1>1, <2>2, <2>3, <2>4 DEF ServInv, StoppedInv
<1>8. AgainInv'
  <2> SUFFICES ASSUME pc \in Restored, "operation" \notin errors, NEW t \in Services
               PROVE  /\ Current(t)'
                      /\ svc'[t] # "down" => t \in snap.running \/ (t = "node" /\ "proxy" \in snap.running)
    BY <1>1 DEF AgainInv
  <2>1. r \in snap.running \/ (r = "node" /\ "proxy" \in snap.running)
    BY <1>1 DEF ServInv, AgainInv
  <2>2. Current(t)'
    BY <1>4 DEF ServInv, AgainInv
  <2>3. CASE svc'[t] = svc[t]
    BY <2>2, <2>3 DEF ServInv, AgainInv
  <2>4. CASE svc'[t] # svc[t]
    BY <1>3, <2>1, <2>2, <2>4
  <2> QED
    BY <2>3, <2>4
<1>9. CurrentInv'
  BY <1>1, <1>2, <1>4, EachCurrent, EachCurrentNext DEF ServInv
<1> QED
  BY <1>5, <1>6, <1>7, <1>8, <1>9 DEF ServInv

\* The snapshot preserves the services invariant.
LEMMA SnapshotServ ==
  ASSUME ServInv, ConfigChanged
  PROVE  ServInv'
<1>1. pc = "idle" /\ disk' = disk /\ svc' = svc /\ loaded' = loaded /\ taint' = taint /\ errors' = {}
  BY DEF ConfigChanged, host
<1>2. \A s : Current(s)' <=> Current(s)
  BY <1>1 DEF Current, View
<1>3. CASE pc' = "idle"
  BY <1>1, <1>2, <1>3, EachCurrent, EachCurrentNext
     DEF ServInv, RestartedInv, StaleInv, StoppedInv, AgainInv, Trying, Restored
<1>4. CASE pc' # "idle"
  <2>1. /\ pc' = "proxybin" /\ Running \subseteq snap'.running
        /\ snap'.running \subseteq Services
    BY <1>1, <1>4, Seen DEF ConfigChanged
  <2>2. \A s \in Services : pc' \in Before[s]
    BY <2>1, ServiceNames DEF Before
  <2>3. \A s \in snap'.running : s \in Services
    BY <2>1
  <2>4. RestartedInv'
    BY <2>2, <2>3 DEF RestartedInv
  <2>5. StaleInv'
    BY <1>1, <1>2, <2>1, EachCurrent DEF ServInv, StaleInv, Running
  <2>6. StoppedInv' /\ AgainInv' /\ CurrentInv'
    BY <2>1 DEF StoppedInv, AgainInv, CurrentInv, ServicesCurrent, Restored
  <2> QED
    BY <2>4, <2>5, <2>6 DEF ServInv
<1> QED
  BY <1>3, <1>4

\* The try block preserves the services invariant.
LEMMA TryServ ==
  ASSUME GivenInv, HookType, DiskType, ServiceType, SnapType, ServInv,
         TrySteps, ~Commit, ~StatusFails
  PROVE  ServInv'
<1>1. /\ pc \in Trying /\ (pc' = "stopProxy" \/ pc' \in Trying)
      /\ stored' = stored /\ cfg' = cfg /\ snap' = snap /\ next' = next /\ errors' = errors /\ taint' = taint
  BY Advance
<1>2. StoppedInv' /\ AgainInv' /\ CurrentInv'
  BY <1>1 DEF StoppedInv, AgainInv, CurrentInv, ServicesCurrent, Trying, Restored
<1>3. CASE pc' = "stopProxy"
  BY <1>2, <1>3 DEF ServInv, RestartedInv, StaleInv, Trying
<1>4. CASE pc' # "stopProxy"
  <2>1. cfg \in Configs
    BY <1>1 DEF GivenInv, Trying
  <2>2. NeverCleared => \A s \in Services : Effect(s)
    BY <1>4, <2>1, TryEffect
  <2>3. \A s : Touched(s)' <=> Touched(s)
    BY <1>1 DEF Touched, NodeChanged, CredsChanged, ProxyChanged, Changed
  <2>4. RestartedInv'
    <3> SUFFICES ASSUME NeverCleared, NEW s \in snap.running, Touched(s), pc' \notin Before[s], svc'[s] = "up"
                 PROVE  loaded'[s] = View(s, disk')
      BY <1>1, <2>3 DEF RestartedInv, Current, View
    <3>1. s \in Services /\ Effect(s)
      BY <2>2 DEF SnapType
    <3>2. CASE pc \in Before[s]
      BY <3>1, <3>2 DEF Effect
    <3>3. CASE pc \notin Before[s]
      <4>1. Current(s)
        BY <1>1, <3>3 DEF ServInv, RestartedInv
      <4> QED
        BY <3>1, <4>1 DEF Effect, Current
    <3> QED
      BY <3>2, <3>3
  <2>5. StaleInv'
    <3> SUFFICES ASSUME NeverCleared, taint = {}, NEW s \in Services, svc'[s] = "up"
                 PROVE  /\ pc' \in Before[s] => s \in snap.running
                        /\ loaded'[s] = View(s, disk') \/ (pc' \in Before[s] /\ Touched(s))
      BY <1>1, <2>3 DEF StaleInv, Current, View
    <3>1. Effect(s)
      BY <2>2
    <3>2. CASE svc[s] = "up"
      <4>1. /\ pc \in Before[s] => s \in snap.running
            /\ loaded[s] = View(s, disk) \/ (pc \in Before[s] /\ Touched(s))
        BY <1>1, <3>2 DEF ServInv, StaleInv, Current
      <4>2. pc' \in Before[s] => s \in snap.running
        BY <3>1, <4>1 DEF Effect
      <4> QED
        BY <3>1, <3>2, <4>1, <4>2 DEF Effect
    <3>3. CASE svc[s] # "up"
      BY <3>1, <3>3 DEF Effect
    <3> QED
      BY <3>2, <3>3
  <2> QED
    BY <1>2, <2>4, <2>5 DEF ServInv
<1> QED
  BY <1>3, <1>4

\* The commit preserves the services invariant.
LEMMA CommitServ ==
  ASSUME ServInv, Commit
  PROVE  ServInv'
<1>1. pc = "status" /\ pc' = "idle" /\ disk' = disk /\ svc' = svc /\ loaded' = loaded /\ taint' = taint
  BY DEF Commit, Try, host
<1>2. \A s \in Services : pc \notin Before[s]
  BY <1>1, ServiceNames DEF Before
<1>3. NeverCleared /\ taint = {} => \A s \in Services : Current(s)
  BY <1>1, <1>2 DEF ServInv, StaleInv, Current, Trying
<1>4. CurrentInv'
  BY <1>1, <1>3, EachCurrentNext DEF Current, View
<1> QED
  BY <1>1, <1>4 DEF ServInv, RestartedInv, StaleInv, StoppedInv, AgainInv, Trying, Restored

\* A hook that ends unfinished preserves the services invariant.
LEMMA UnfinishedServ ==
  ASSUME Killed \/ StatusFails
  PROVE  ServInv'
<1>1. pc' = "idle" /\ taint' # {}
  BY DEF Killed, StatusFails, Try
<1> QED
  BY <1>1 DEF ServInv, RestartedInv, StaleInv, StoppedInv, AgainInv, CurrentInv, ServicesCurrent, Trying, Restored

\* The rollback preserves the services invariant.
LEMMA RollbackServ ==
  ASSUME SnapType, ServiceType, ServInv, RollbackSteps
  PROVE  ServInv'
<1>1. pc' \notin Trying /\ snap' = snap /\ errors \subseteq errors'
  BY DEF RollbackSteps, StopProxy, StopMonitor, StopNode, RestoreFile, Reload, StartNode, StartMonitor,
     StartProxy, StartAgain, Undo, Skip, Frame, locals, Reraise, Try, Trying
<1>2. RestartedInv' /\ StaleInv'
  BY <1>1 DEF RestartedInv, StaleInv
<1>3. ASSUME NEW d \in Services, NEW label, NEW successor, Undo(label, successor, Stop({d})),
             "operation" \notin errors'
      PROVE  svc'[d] = "down" /\ \A t \in Services \ {d} : svc'[t] = svc[t]
  <2>1. Stop({d})
    BY <1>3 DEF Undo
  <2> QED
    BY <2>1, Stopped
<1>4. CASE StopProxy \/ StopMonitor \/ StopNode
  <2>1. /\ StopProxy => pc = "stopProxy" /\ pc' = "stopMonitor"
        /\ StopMonitor => pc = "stopMonitor" /\ pc' = "stopNode"
        /\ StopNode => pc = "stopNode" /\ pc' = "restore"
    BY DEF StopProxy, StopMonitor, StopNode, Undo, Try
  <2>2. ASSUME "operation" \notin errors'
        PROVE  /\ StopProxy => svc'["proxy"] = "down"
               /\ StopMonitor => svc'["monitor"] = "down" /\ svc'["proxy"] = svc["proxy"]
               /\ StopNode => svc'["node"] = "down" /\ svc'["monitor"] = svc["monitor"] /\ svc'["proxy"] = svc["proxy"]
    BY <1>3, <2>2, ServiceNames DEF StopProxy, StopMonitor, StopNode
  <2>3. StoppedInv'
    BY <1>1, <1>4, <2>1, <2>2 DEF ServInv, StoppedInv
  <2>4. AgainInv' /\ CurrentInv'
    BY <1>4, <2>1 DEF AgainInv, CurrentInv, ServicesCurrent, Restored
  <2> QED
    BY <1>2, <2>3, <2>4 DEF ServInv
<1>5. CASE RestoreFile
  <2>1. pc = "restore" /\ pc' \in {"restore", "reload", "startNode"} /\ svc' = svc
    BY <1>5 DEF RestoreFile
  <2>2. StoppedInv'
    BY <1>1, <2>1 DEF ServInv, StoppedInv
  <2>3. AgainInv'
    <3> SUFFICES ASSUME "operation" \notin errors', NEW t \in Services PROVE svc'[t] = "down"
      BY DEF AgainInv, Current
    <3> QED
      BY <1>1, <2>1, ServiceNames DEF ServInv, StoppedInv
  <2> QED
    BY <1>2, <2>1, <2>2, <2>3 DEF ServInv, CurrentInv, ServicesCurrent
<1>8. CASE Reload
  <2>1. pc = "reload" /\ pc' = "startNode" /\ svc' = svc /\ loaded' = loaded /\ disk' = disk
    BY <1>8 DEF Reload, Undo, Try
  <2>2. StoppedInv'
    BY <1>1, <2>1 DEF ServInv, StoppedInv
  <2>3. AgainInv'
    BY <1>1, <2>1 DEF ServInv, AgainInv, Restored, Current, View
  <2> QED
    BY <1>2, <2>1, <2>2, <2>3 DEF ServInv, CurrentInv, ServicesCurrent
<1>6. CASE StartNode \/ StartMonitor \/ StartProxy
  <2>1. /\ pc \in Restored /\ pc' \in {"startMonitor", "startProxy", "recovered"}
    BY <1>6 DEF StartNode, StartMonitor, StartProxy, StartAgain, Undo, Skip, Try, Restored
  <2>2. disk' = disk
    BY <1>6, Zenon DEF StartNode, StartMonitor, StartProxy, StartAgain, Undo, Skip, host
  <2>3. StoppedInv' /\ CurrentInv'
    BY <2>1 DEF StoppedInv, CurrentInv, ServicesCurrent
  <2>4. AgainInv'
    <3> SUFFICES ASSUME "operation" \notin errors', NEW t \in Services
                 PROVE  /\ Current(t)'
                        /\ svc'[t] # "down" => t \in snap.running \/ (t = "node" /\ "proxy" \in snap.running)
      BY <1>1 DEF AgainInv
    <3>1. /\ Current(t)
          /\ svc[t] # "down" => t \in snap.running \/ (t = "node" /\ "proxy" \in snap.running)
      BY <1>1, <2>1 DEF ServInv, AgainInv
    <3>2. \/ svc' = svc /\ loaded' = loaded
          \/ \E r \in Services : r \in snap.running /\ Start(r)
      BY <1>6, ServiceNames DEF StartNode, StartMonitor, StartProxy, StartAgain, Undo, Skip, host
    <3>3. CASE svc' = svc /\ loaded' = loaded
      BY <2>2, <3>1, <3>3 DEF Current, View
    <3>4. ASSUME NEW r \in Services, r \in snap.running, Start(r)
          PROVE  /\ Current(t)'
                 /\ svc'[t] # "down" => t \in snap.running \/ (t = "node" /\ "proxy" \in snap.running)
      <4>1. BringUp(NotUp({r} \cup Wants[r]))
        BY <3>4 DEF Start
      <4>2. Current(t)'
        BY <2>2, <3>1, <4>1, StaysCurrent
      <4>3. svc'[t] = svc[t] \/ t = r \/ (r = "proxy" /\ t = "node")
        BY <4>1, StartSets, BroughtUp
      <4> QED
        BY <3>1, <3>4, <4>2, <4>3
    <3> QED
      BY <3>2, <3>3, <3>4
  <2> QED
    BY <1>2, <2>3, <2>4 DEF ServInv
<1>7. CASE Reraise
  <2>1. pc = "recovered" /\ pc' = "idle" /\ disk' = disk /\ svc' = svc /\ loaded' = loaded
    BY <1>7 DEF Reraise, Try, host
  <2>2. taint' = {} => "operation" \notin errors
    BY <1>7 DEF Reraise
  <2>3. CurrentInv'
    BY <2>1, <2>2, EachCurrentNext DEF ServInv, AgainInv, Restored, Current, View
  <2> QED
    BY <1>2, <2>1, <2>3 DEF ServInv, StoppedInv, AgainInv, Restored
<1> QED
  BY <1>4, <1>5, <1>6, <1>7, <1>8, Zenon DEF RollbackSteps

\* Every step preserves the services invariant.
LEMMA ServStep ==
  ASSUME TypeOK, GivenInv, ServInv, [Next]_vars
  PROVE  ServInv'
<1>1. HookType /\ DiskType /\ ServiceType /\ SnapType
  BY TypeParts
<1>2. CASE UNCHANGED vars \/ SetConfig
  <2>1. UNCHANGED <<pc, disk, svc, loaded, stored, cfg, snap, errors, taint>>
    BY <1>2 DEF vars, SetConfig, host, locals
  <2> QED
    BY <2>1, QuietServ
<1>3. CASE StartNodeAction \/ StopNodeAction \/ RestartNodeAction
  BY <1>3, ActionServ
<1>4. ASSUME NEW s \in Services, ServiceDies(s) \/ AutoRestart(s) PROVE ServInv'
  BY <1>1, <1>4, DeathServ, AutoServ
<1>5. CASE ConfigChanged \/ Commit \/ StatusFails \/ Killed
  BY <1>5, SnapshotServ, CommitServ, UnfinishedServ
<1>6. CASE TrySteps /\ ~Commit /\ ~StatusFails
  BY <1>1, <1>6, TryServ
<1>7. CASE RollbackSteps
  BY <1>1, <1>7, RollbackServ
<1> QED
  BY <1>2, <1>3, <1>4, <1>5, <1>6, <1>7, Zenon DEF Next, HookStep, Environment

-----------------------------------------------------------------------------
(* Without deaths: what was running is up again.                           *)

\* No service dies by itself.
Deathless == "die" \notin FaultKinds

\* In the try block, what was running and could run is up, but for the service
\* being proven; the proxy may loop on its files or wait for its restart, and
\* before the commit the node was seen running.
UpInv ==
    NeverCleared /\ Deathless /\ pc \in Trying =>
        \A s \in snap.running :
            /\ s # "proxy" /\ Runnable(s, snap.disk) => svc[s] = "up" \/ pc = Proving[s]
            /\ s = "proxy" => svc[s] = "up" \/ CrashLooping(s) \/ (pc \in Before[s] /\ Touched(s))
            /\ s = "node" /\ pc = "status" => svc[s] = "up" \/ CrashLooping(s)

\* Services that see the same files fare the same.
LEMMA SameView ==
  ASSUME NEW s \in Services, NEW d, NEW e, View(s, d) = View(s, e)
  PROVE  Runnable(s, d) <=> Runnable(s, e)
<1>1. \A f \in Reads[s] : d[f] = e[f]
  BY DEF View
<1> QED
  BY <1>1, ServiceNames DEF Runnable

\* The labels of the rollback after service s was started again.
StartedBy ==
    [node    |-> {"startMonitor", "startProxy", "recovered"},
     monitor |-> {"startProxy", "recovered"},
     proxy   |-> {"recovered"}]

\* A rollback none of whose operations failed has brought back what was running.
BackInv ==
    Deathless /\ pc \in Restored /\ "operation" \notin errors =>
        \A s \in snap.running : pc \in StartedBy[s] /\ Runnable(s, disk) => svc[s] = "up"

\* A step that is neither a death nor a stop, a restart or a rollback keeps a
\* service that is up as it is.
LEMMA AutoKeeps ==
  ASSUME NEW r \in Services, AutoRestart(r), NEW t \in Services
  PROVE  /\ svc[t] = "up" => svc'[t] = "up" /\ loaded'[t] = loaded[t]
         /\ CrashLooping(t) => CrashLooping(t)'
<1>1. BringUp(NotUp({r} \cup Wants[r]))
  BY DEF AutoRestart, Start
<1>2. svc[t] = "up" => t \notin NotUp({r} \cup Wants[r])
  BY StartSets
<1> QED
  BY <1>1, <1>2, BroughtUp DEF CrashLooping, AutoRestart, Runnable

\* Without deaths among the faults no service dies.
LEMMA NoDeath == ASSUME Deathless, NEW s PROVE ~ServiceDies(s)
BY DEF Deathless, ServiceDies, Fault

\* Every step preserves UpInv.
LEMMA UpStep ==
  ASSUME TypeOK, GivenInv, UpInv, [Next]_vars
  PROVE  UpInv'
<1> SUFFICES ASSUME NeverCleared, Deathless PROVE UpInv'
  BY DEF UpInv
<1>1. HookType /\ DiskType /\ ServiceType /\ SnapType
  BY TypeParts
<1>2. CASE UNCHANGED vars \/ SetConfig
  <2>1. UNCHANGED <<pc, disk, svc, snap, stored, cfg>>
    BY <1>2 DEF vars, SetConfig, host, locals
  <2> QED
    BY <2>1 DEF UpInv, CrashLooping, Runnable, Touched, NodeChanged, CredsChanged, ProxyChanged, Changed
<1>3. CASE StartNodeAction \/ StopNodeAction \/ RestartNodeAction
  BY <1>3 DEF StartNodeAction, StopNodeAction, RestartNodeAction, UpInv, Trying
<1>4. ASSUME NEW r \in Services, ServiceDies(r) \/ AutoRestart(r) PROVE UpInv'
  <2>1. AutoRestart(r) /\ pc' = pc /\ snap' = snap /\ disk' = disk /\ cfg' = cfg /\ stored' = stored
    BY <1>4, NoDeath DEF AutoRestart, locals
  <2>2. \A s : (Touched(s)' <=> Touched(s)) /\ (Runnable(s, snap.disk)' <=> Runnable(s, snap.disk))
    BY <2>1 DEF Touched, NodeChanged, CredsChanged, ProxyChanged, Changed, Runnable
  <2> QED
    BY <1>1, <2>1, <2>2, AutoKeeps DEF UpInv, SnapType
<1>5. CASE ConfigChanged
  <2>1. CASE pc' = "idle"
    BY <2>1 DEF UpInv, Trying
  <2>2. CASE pc' # "idle"
    <3>1. PICK seen \in SeenRunning : snap' = [disk |-> disk, running |-> seen]
      BY <1>5, <2>2 DEF ConfigChanged
    <3>2. snap'.disk = disk /\ snap'.running = seen /\ svc' = svc /\ disk' = disk /\ pc' = "proxybin"
      BY <1>5, <2>2, <3>1 DEF ConfigChanged, host
    <3>3. \A s \in seen : svc[s] = "up" \/ CrashLooping(s)
      BY Seen
    <3> QED
      BY <3>2, <3>3 DEF UpInv, CrashLooping, Runnable
  <2> QED
    BY <2>1, <2>2
<1>6. CASE Commit \/ StatusFails \/ Killed
  BY <1>6 DEF Commit, StatusFails, Killed, Try, UpInv, Trying
<1>7. CASE TrySteps /\ ~Commit /\ ~StatusFails
  <2>1. /\ pc \in Trying /\ (pc' = "stopProxy" \/ pc' \in Trying) /\ snap' = snap
    BY <1>1, <1>7, Advance
  <2>2. CASE pc' = "stopProxy"
    BY <2>2 DEF UpInv, Trying
  <2>3. CASE pc' # "stopProxy"
    <3>1. cfg \in Configs
      BY <2>1 DEF GivenInv, Trying
    <3>2. \A t : Touched(t)' <=> Touched(t)
      BY <1>1, <1>7, Advance DEF Touched, NodeChanged, CredsChanged, ProxyChanged, Changed
    <3> SUFFICES ASSUME NEW s \in snap.running
                 PROVE  /\ s # "proxy" /\ Runnable(s, snap.disk) => svc'[s] = "up" \/ pc' = Proving[s]
                        /\ s = "proxy" => \/ svc'[s] = "up" \/ CrashLooping(s)'
                                          \/ pc' \in Before[s] /\ Touched(s)
                        /\ s = "node" /\ pc' = "status" => svc'[s] = "up" \/ CrashLooping(s)'
      BY <2>1, <3>2 DEF UpInv, Runnable
    <3>3. s \in Services /\ Effect(s)
      BY <1>1, <1>7, <2>3, <3>1, TryEffect DEF SnapType
    <3>4. ASSUME s # "proxy", Runnable(s, snap.disk) PROVE svc'[s] = "up" \/ pc' = Proving[s]
      <4>1. svc[s] = "up" \/ pc = Proving[s]
        BY <2>1, <3>4 DEF UpInv
      <4> QED
        BY <3>3, <3>4, <4>1 DEF Effect
    <3>5. ASSUME s = "proxy" PROVE svc'[s] = "up" \/ CrashLooping(s)' \/ (pc' \in Before[s] /\ Touched(s))
      <4>1. svc[s] = "up" \/ CrashLooping(s) \/ (pc \in Before[s] /\ Touched(s))
        BY <2>1, <3>5 DEF UpInv
      <4>2. View(s, disk') = View(s, disk) => (Runnable(s, disk') <=> Runnable(s, disk))
        BY <3>3, SameView
      <4>3. CASE svc'[s] = svc[s] /\ View(s, disk') = View(s, disk)
        BY <3>3, <3>5, <4>1, <4>2, <4>3 DEF Effect, CrashLooping
      <4> QED
        BY <3>3, <3>5, <4>1, <4>3 DEF Effect, CrashLooping
    <3>6. s = "node" /\ pc' = "status" => svc'[s] = "up" \/ CrashLooping(s)'
      BY <3>3 DEF Effect, CrashLooping
    <3> QED
      BY <3>4, <3>5, <3>6
  <2> QED
    BY <2>2, <2>3
<1>8. CASE RollbackSteps
  <2>1. pc' \notin Trying
    BY <1>8 DEF RollbackSteps, StopProxy, StopMonitor, StopNode, RestoreFile, Reload, StartNode, StartMonitor,
       StartProxy, StartAgain, Undo, Skip, Reraise, Try, Trying
  <2> QED
    BY <2>1 DEF UpInv
<1> QED
  BY <1>2, <1>3, <1>4, <1>5, <1>6, <1>7, <1>8, Zenon DEF Next, HookStep, Environment

\* Every step preserves BackInv.
LEMMA BackStep ==
  ASSUME TypeOK, BackInv, [Next]_vars
  PROVE  BackInv'
<1> SUFFICES ASSUME Deathless PROVE BackInv'
  BY DEF BackInv
<1>1. HookType /\ DiskType /\ ServiceType /\ SnapType
  BY TypeParts
<1>2. CASE UNCHANGED vars \/ SetConfig
  BY <1>2 DEF vars, SetConfig, host, locals, BackInv, Runnable
<1>3. CASE StartNodeAction \/ StopNodeAction \/ RestartNodeAction \/ Commit \/ StatusFails \/ Killed \/ ConfigChanged
           \/ Reraise \/ StopProxy \/ StopMonitor \/ StopNode
  <2>1. pc' \notin Restored
    BY <1>3 DEF StartNodeAction, StopNodeAction, RestartNodeAction, Commit, StatusFails, Killed, ConfigChanged,
       Reraise, StopProxy, StopMonitor, StopNode, Undo, Try, Restored
  <2> QED
    BY <2>1 DEF BackInv
<1>4. ASSUME NEW r \in Services, ServiceDies(r) \/ AutoRestart(r) PROVE BackInv'
  <2>1. AutoRestart(r) /\ pc' = pc /\ snap' = snap /\ errors' = errors /\ disk' = disk
    BY <1>4, NoDeath DEF AutoRestart, locals
  <2>2. \A t \in Services : svc[t] = "up" => svc'[t] = "up"
    BY <2>1, AutoKeeps
  <2> QED
    BY <1>1, <2>1, <2>2 DEF BackInv, SnapType, Runnable
<1>5. CASE TrySteps /\ ~Commit /\ ~StatusFails
  <2>1. pc' \notin Restored
    BY <1>1, <1>5, Advance DEF Trying, Restored
  <2> QED
    BY <2>1 DEF BackInv
<1>6. CASE RestoreFile \/ Reload
  <2>1. pc' \in {"restore", "reload", "startNode"} /\ snap' = snap
    BY <1>6 DEF RestoreFile, Reload, Undo, Try
  <2>2. \A s \in Services : pc' \notin StartedBy[s]
    BY <2>1, ServiceNames DEF StartedBy
  <2> QED
    BY <1>1, <2>1, <2>2 DEF BackInv, SnapType
<1>7. ASSUME NEW r \in Services, NEW label, NEW successor, StartAgain(r, label, successor),
             label \in Restored,
             \A t \in Services : t # r /\ successor \in StartedBy[t] => label \in StartedBy[t]
      PROVE  BackInv'
  <2>1. pc = label /\ pc' = successor /\ snap' = snap /\ disk' = disk /\ errors \subseteq errors'
    BY <1>7 DEF StartAgain, Undo, Skip, Frame, locals, host, Try
  <2> SUFFICES ASSUME "operation" \notin errors', NEW s \in snap.running, successor \in StartedBy[s], Runnable(s, disk)
               PROVE  svc'[s] = "up"
    BY <2>1 DEF BackInv, Runnable
  <2>2. s \in Services
    BY <1>1 DEF SnapType
  <2>3. svc' = svc \/ Start(r)
    BY <1>7 DEF StartAgain, Undo, Skip, host
  <2>4. CASE s = r
    <3>1. Start(r)
      BY <1>7, <2>4 DEF StartAgain, Undo
    <3>2. BringUp(NotUp({r} \cup Wants[r]))
      BY <3>1 DEF Start
    <3>3. s \in NotUp({r} \cup Wants[r]) <=> svc[s] # "up"
      BY <2>2, <2>4, StartSets
    <3> QED
      BY <2>2, <3>2, <3>3, BroughtUp
  <2>5. CASE s # r
    <3>1. svc[s] = "up"
      BY <1>7, <2>1, <2>2, <2>5 DEF BackInv
    <3>2. ASSUME Start(r) PROVE svc'[s] = "up"
      <4>1. BringUp(NotUp({r} \cup Wants[r]))
        BY <3>2 DEF Start
      <4>2. s \notin NotUp({r} \cup Wants[r])
        BY <2>2, <3>1, StartSets
      <4> QED
        BY <2>2, <3>1, <4>1, <4>2, BroughtUp
    <3> QED
      BY <2>3, <3>1, <3>2
  <2> QED
    BY <2>4, <2>5
<1>8. CASE StartNode \/ StartMonitor \/ StartProxy
  <2>1. /\ \A t \in Services : t # "node" /\ "startMonitor" \in StartedBy[t] => "startNode" \in StartedBy[t]
        /\ \A t \in Services : t # "monitor" /\ "startProxy" \in StartedBy[t] => "startMonitor" \in StartedBy[t]
        /\ \A t \in Services : t # "proxy" /\ "recovered" \in StartedBy[t] => "startProxy" \in StartedBy[t]
    BY ServiceNames DEF StartedBy
  <2>2. CASE StartNode
    BY <1>7, <2>1, <2>2, ServiceNames DEF StartNode, Restored
  <2>3. CASE StartMonitor
    BY <1>7, <2>1, <2>3, ServiceNames DEF StartMonitor, Restored
  <2>4. CASE StartProxy
    BY <1>7, <2>1, <2>4, ServiceNames DEF StartProxy, Restored
  <2> QED
    BY <1>8, <2>2, <2>3, <2>4
<1> QED
  BY <1>2, <1>3, <1>4, <1>5, <1>6, <1>8, Zenon DEF Next, HookStep, Environment, RollbackSteps

-----------------------------------------------------------------------------
(* The theorems.                                                           *)

\* disk and the snapshot are functions on the managed files, so that two of
\* them that agree on every file are equal.
FcnInv == disk = [f \in Files |-> disk[f]] /\ snap.disk = [f \in Files |-> snap.disk[f]]

\* Every step keeps them functions on the managed files.
LEMMA FcnStep ==
  ASSUME TypeOK, FcnInv, [Next]_vars
  PROVE  FcnInv'
<1>1. HookType /\ DiskType /\ SnapType
  BY TypeParts
<1>2. snap' = snap \/ \E seen \in SeenRunning : snap' = [disk |-> disk, running |-> seen]
  BY LocalsStep, Zenon DEF ConfigChanged
<1>3. snap'.disk = [f \in Files |-> snap'.disk[f]]
  BY <1>2 DEF FcnInv
<1>4. disk' = [f \in Files |-> disk'[f]]
  <2>1. ASSUME NEW g \in Files, NEW x, disk' = [disk EXCEPT ![g] = x] PROVE disk' = [f \in Files |-> disk'[f]]
    BY <1>1, <2>1 DEF DiskType
  <2>2. \A f : f \in Files <=> f \in {"bitcoind", "cli", "proxybin", "nodeenv", "monenv", "proxyenv"}
    BY FilesAre
  <2>3. CASE WriteNodeEnv \/ WriteMonitorEnv \/ WriteProxyEnv \/ WriteProxyBinary
    <3>1. disk' = disk \/ \E g \in Files : \E x : disk' = [disk EXCEPT ![g] = x]
      BY <2>2, <2>3 DEF WriteNodeEnv, WriteMonitorEnv, WriteProxyEnv, WriteProxyBinary, Write, Skip, host
    <3> QED
      BY <2>1, <3>1 DEF FcnInv
  <2>4. CASE ActivateNode
    <3>1. disk' = disk \/ disk' = Installed
          \/ \E d, c \in {disk, Installed, [f \in Files |-> Absent]} :
                disk' = [disk EXCEPT !["bitcoind"] = d["bitcoind"], !["cli"] = c["cli"]]
      BY <2>4, Zenon DEF ActivateNode, Install, InstallSucceeds, InstallNotReady, InstallFails, InstallBreaks, Skip,
         RestartStep, host
    <3>2. \A x, y : LET e == [disk EXCEPT !["bitcoind"] = x, !["cli"] = y] IN e = [f \in Files |-> e[f]]
      BY <1>1 DEF DiskType
    <3> QED
      BY <3>1, <3>2 DEF FcnInv, Installed
  <2>5. CASE RestoreFile
    <3>1. Paths[next] \in Files
      BY <1>1 DEF HookType, Files
    <3>2. disk' = disk \/ disk' = [disk EXCEPT ![Paths[next]] = snap.disk[Paths[next]]]
      BY <2>5, Zenon DEF RestoreFile
    <3> QED
      BY <2>1, <3>1, <3>2 DEF FcnInv
  <2> QED
    BY <2>3, <2>4, <2>5, OthersKeepDisk DEF Writes, FcnInv
<1> QED
  BY <1>3, <1>4 DEF FcnInv

IInv == TypeOK /\ FileInv /\ GivenInv /\ ServInv /\ UpInv /\ BackInv /\ FcnInv

\* The inductive invariant.
THEOREM Invariance == Spec => []IInv
<1>1. Init => IInv
  <2> SUFFICES ASSUME Init PROVE IInv
    OBVIOUS
  <2>1. UpInv /\ BackInv
    BY DEF Init, UpInv, BackInv, Trying, Restored
  <2>2. FcnInv
    <3>1. disk = [f \in Files |-> disk[f]] /\ snap.disk = disk
      BY DEF Init
    <3> QED
      BY <3>1 DEF FcnInv
  <2> QED
    BY <2>1, <2>2, TypeInit, FileInit, ServInit DEF IInv
<1>2. IInv /\ [Next]_vars => IInv'
  BY TypeStep, FileStep, GivenStep, ServStep, UpStep, BackStep, FcnStep DEF IInv
<1> QED
  BY <1>1, <1>2, PTL DEF Spec

\* Between hooks the managed files are the generation that StoredState names,
\* for any number of config changes and faults: whichever step of the try
\* block raised, and whatever it left of the file it was writing, the rollback
\* put back all of them (utils.apply_config_transaction).
THEOREM HostMatchesStoredHolds == Spec => []HostMatchesStored
<1>1. IInv => HostMatchesStored
  BY DEF IInv, FileInv
<1> QED
  BY <1>1, Invariance, PTL

\* A hook that moves StoredState has written every file that depends on a
\* changed key, killed hooks and failed rollbacks before it included.
THEOREM CommitWritesHolds == Spec => CommitWrites
<1>1. IInv /\ [Next]_vars =>
        [ stored' # stored =>
            \A f \in Files : RenderedFrom[f] \cap Changed # {} =>
                Skipped(f, cfg) \/ disk[f] = Render(f, cfg) ]_vars
  <2> SUFFICES ASSUME IInv, [Next]_vars, stored' # stored, NEW f \in Files, Affected(f)
               PROVE  Matches(f, cfg, disk)
    BY DEF Affected, Matches
  <2>1. Commit
    BY LocalsStep
  <2>2. pc \in Trying /\ pc \notin Pending[f]
    BY <2>1, FilesAre DEF Commit, Try, Trying, Pending
  <2> QED
    BY <2>2 DEF IInv, FileInv, WrittenInv
<1> QED
  BY <1>1, Invariance, PTL DEF Spec, CommitWrites

\* Between hooks no service runs on the files of an earlier generation, as
\* long as the operator never clears the version: services may die and commands
\* fail at any time.
THEOREM ServicesCurrentHolds == ASSUME NeverCleared PROVE Spec => []ServicesCurrent
<1>1. IInv => ServicesCurrent
  BY DEF IInv, ServInv, CurrentInv
<1> QED
  BY <1>1, Invariance, PTL

\* StoredState moves only when every service that ran before is up, and those
\* that the change concerns run on the new files, but for a proxy that keeps
\* exiting and was caught alive; again with a version that is never cleared,
\* and when no service dies of itself.
THEOREM CommitProvesHolds == ASSUME NeverCleared, Deathless PROVE Spec => CommitProves
<1>1. IInv /\ [Next]_vars =>
        [ stored' # stored =>
            \A s \in snap.running \ {t \in Services : Excused(t)} :
                /\ svc[s] = "up"
                /\ DependsOn(s) \cap Changed # {} => loaded[s] = View(s, disk) ]_vars
  <2> SUFFICES ASSUME IInv, [Next]_vars, stored' # stored, NEW s \in snap.running, s \in Services => ~Excused(s)
               PROVE  svc[s] = "up" /\ (DependsOn(s) \cap Changed # {} => loaded[s] = View(s, disk))
    OBVIOUS
  <2>1. pc = "status"
    BY LocalsStep DEF Commit, Try
  <2>2. s \in Services
    BY TypeParts DEF IInv, SnapType
  <2>3. pc \in Trying /\ pc \notin Before[s] /\ pc # Proving[s]
    BY <2>1, <2>2, ServiceNames DEF Trying, Before, Proving
  <2>4. svc[s] = "up"
    <3>1. /\ s # "proxy" /\ Runnable(s, snap.disk) => svc[s] = "up"
          /\ s \in {"proxy", "node"} => svc[s] = "up" \/ CrashLooping(s)
      BY <2>1, <2>3 DEF IInv, UpInv
    <3>2. s = "monitor" => Runnable(s, snap.disk)
      BY DEF Runnable
    <3> QED
      BY <2>2, <3>1, <3>2, ServiceNames DEF Excused
  <2>5. DependsOn(s) \cap Changed # {} => Touched(s)
    BY <2>2, ServiceNames DEF DependsOn, Touched, NodeChanged, CredsChanged, ProxyChanged, RenderedFrom
  <2> QED
    BY <2>3, <2>4, <2>5 DEF IInv, ServInv, RestartedInv, Current
<1> QED
  BY <1>1, Invariance, PTL DEF Spec, CommitProves

\* A rollback without a failing operation hands back the files of the snapshot
\* and the services that ran, each started on them, when no service dies of
\* itself (_rollback_config_transaction).
THEOREM RollbackRestoresHolds == ASSUME Deathless PROVE Spec => RollbackRestores
<1>1. IInv /\ [Next]_vars =>
        [ pc = "recovered" /\ pc' = "idle" /\ "unfinished" \notin taint' =>
            /\ disk = snap.disk
            /\ {s \in snap.running : Runnable(s, disk)} \subseteq Running
            /\ Running \subseteq snap.running \cup UNION {Wants[s] : s \in snap.running}
            /\ \A s \in Running : loaded[s] = View(s, disk) ]_vars
  <2> SUFFICES ASSUME IInv, [Next]_vars, pc = "recovered", pc' = "idle", "unfinished" \notin taint'
               PROVE  /\ disk = snap.disk
                      /\ {s \in snap.running : Runnable(s, disk)} \subseteq Running
                      /\ Running \subseteq snap.running \cup UNION {Wants[s] : s \in snap.running}
                      /\ \A s \in Running : loaded[s] = View(s, disk)
    OBVIOUS
  <2>1. "operation" \notin errors
    <3>1. Reraise \/ Killed
      BY DEF Next, HookStep, vars, ConfigChanged, TrySteps, WriteProxyBinary, WriteNodeEnv,
         WriteMonitorEnv, WriteProxyEnv, Write, Skip, ActivateNode, Install, InstallSucceeds, InstallNotReady, InstallFails,
         InstallBreaks, RestartStep, ActivateMonitor, ActivateProxy,
         ProveNode, ProveMonitor, ProveProxy, ProveNodeStayed, ProveStep, Commit, StatusFails, RollbackSteps,
         StopProxy, StopMonitor, StopNode, RestoreFile, Reload, StartNode, StartMonitor, StartProxy, StartAgain, Undo,
         Environment, SetConfig, StartNodeAction, StopNodeAction, RestartNodeAction, ServiceDies, AutoRestart,
         Try, Except
    <3> QED
      BY <3>1 DEF Reraise, Killed
  <2>2. pc \in Restored
    BY DEF Restored
  <2>3. disk = snap.disk
    BY <2>1, <2>2 DEF IInv, FileInv, RestoreInv, FcnInv
  <2>4. snap.running \subseteq Services
    BY TypeParts DEF IInv, SnapType
  <2>5. {s \in snap.running : Runnable(s, disk)} \subseteq Running
    <3>1. \A s \in Services : pc \in StartedBy[s]
      BY ServiceNames DEF StartedBy
    <3> QED
      BY <2>1, <2>2, <2>4, <3>1 DEF IInv, BackInv, Running
  <2>6. Running \subseteq snap.running \cup UNION {Wants[s] : s \in snap.running}
    <3> SUFFICES ASSUME NEW s \in Running, s \notin snap.running PROVE s \in UNION {Wants[t] : t \in snap.running}
      OBVIOUS
    <3>1. s = "node" /\ "proxy" \in snap.running
      BY <2>1, <2>2 DEF IInv, ServInv, AgainInv, Running
    <3> QED
      BY <3>1, ServiceNames
  <2>7. \A s \in Running : loaded[s] = View(s, disk)
    BY <2>1, <2>2 DEF IInv, ServInv, AgainInv, Running, Current
  <2> QED
    BY <2>3, <2>5, <2>6, <2>7
<1> QED
  BY <1>1, Invariance, PTL DEF Spec, RollbackRestores

\* Until something fails, a change of the proxy's own settings leaves a node
\* that is up alone, when no service dies of itself: the proxy's restart, which
\* starts what its unit Wants, does not restart it.
THEOREM ProxyChangeSparesNodeHolds == ASSUME Deathless PROVE Spec => ProxyChangeSparesNode
<1> DEFINE Spared == svc'["node"] = "up" /\ loaded'["node"] = loaded["node"]
<1>1. [Next]_vars =>
        [ ~NodeChanged /\ pc \in Trying /\ svc["node"] = "up" =>
            svc'["node"] = "up" /\ loaded'["node"] = loaded["node"] ]_vars
  <2> SUFFICES ASSUME [Next]_vars, ~NodeChanged, pc \in Trying, svc["node"] = "up" PROVE Spared
    OBVIOUS
  <2>1. CASE svc' = svc /\ loaded' = loaded
    BY <2>1
  <2>2. ASSUME NEW r \in {"monitor", "proxy"}, Restart(r) PROVE Spared
    <3>1. BringUp({r} \cup NotUp(Wants[r]))
      BY <2>2 DEF Restart
    <3>2. "node" \in Services /\ "node" \notin {r} \cup NotUp(Wants[r])
      BY <2>2, ServiceNames, StartSets
    <3> QED
      BY <3>1, <3>2, BroughtUp
  <2>3. ASSUME NEW s \in Services, ServiceDies(s) \/ AutoRestart(s) PROVE Spared
    BY <2>3, NoDeath, AutoKeeps, ServiceNames
  <2>4. CASE ActivateMonitor \/ ActivateProxy
    <3>1. Restart("monitor") \/ Restart("proxy") \/ (svc' = svc /\ loaded' = loaded)
      BY <2>4 DEF ActivateMonitor, ActivateProxy, RestartStep, Skip, host
    <3> QED
      BY <2>1, <2>2, <3>1
  <2>5. CASE ActivateNode
    <3>1. "release" \notin Changed
      BY DEF NodeChanged
    <3> QED
      BY <2>1, <2>5, <3>1 DEF ActivateNode, Skip, host
  <2>6. CASE UNCHANGED vars \/ WriteProxyBinary \/ WriteNodeEnv \/ WriteMonitorEnv \/ WriteProxyEnv
             \/ ProveNode \/ ProveMonitor \/ ProveProxy \/ ProveNodeStayed \/ Commit \/ StatusFails
             \/ SetConfig \/ Killed
    <3>1. svc' = svc /\ loaded' = loaded
      BY <2>6, Zenon DEF vars, WriteProxyBinary, WriteNodeEnv, WriteMonitorEnv, WriteProxyEnv, Write, Skip,
         ProveNode, ProveMonitor, ProveProxy, ProveNodeStayed, ProveStep, Commit, StatusFails, SetConfig, Killed, host
    <3> QED
      BY <2>1, <3>1
  <2>7. ~(ConfigChanged \/ RollbackSteps \/ StartNodeAction \/ StopNodeAction \/ RestartNodeAction)
    BY DEF ConfigChanged, RollbackSteps, StopProxy, StopMonitor, StopNode, RestoreFile, Reload, StartNode, StartMonitor,
       StartProxy, StartAgain, Undo, Skip, Reraise, Try, StartNodeAction, StopNodeAction, RestartNodeAction, Trying
  <2> HIDE DEF Spared
  <2> QED
    BY <2>3, <2>4, <2>5, <2>6, <2>7, Zenon DEF Next, HookStep, TrySteps, Environment
<1> QED
  BY <1>1, PTL DEF Spec, ProxyChangeSparesNode
=============================================================================
