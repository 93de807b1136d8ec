------------------------- MODULE ConfigTransaction -------------------------
(***************************************************************************)
(* The config-changed hook: charm._on_config_changed and                   *)
(* utils.apply_config_transaction.  One hook diffs the model config with   *)
(* what the unit last applied (StoredState), rewrites the managed files    *)
(* that depend on a changed key, restarts the services that were running,  *)
(* proves that they came back, and on any exception puts every managed     *)
(* file and every service back.                                            *)
(*                                                                         *)
(* Around the hook: the operator changes the config at any time and runs   *)
(* the node actions between hooks; Juju runs config-changed again after a  *)
(* failure; systemd restarts a service that dies and starts what a unit    *)
(* Wants; commands fail, and the hook process may be killed.               *)
(*                                                                         *)
(* The ten tracked keys are grouped by what the code tells apart:          *)
(*   creds    rpc-user, rpc-password                                       *)
(*   args     service-args, disable-wallet                                 *)
(*   release  version, binary-url                                          *)
(*   pver     rpc-proxy-version                                            *)
(*   opts     rpc-proxy-filter, -listen, -extend-allowlist                 *)
(* The unit files and the monitor script do not depend on the config and   *)
(* are left out.                                                           *)
(***************************************************************************)
EXTENDS Naturals, Sequences

CONSTANTS
    InitConfigs,      \* configs a unit may have been deployed with
    Configs,          \* configs the operator may set
    NoCreds,          \* value of "creds" when user or password is empty
    NoReleases,       \* values of "release" whose version is empty
    NoProxyVersion,   \* value of "pver" when rpc-proxy-version is empty
    Broken,           \* args and opts with which a service does not stay up
    Absent,           \* "no such file"
    FaultKinds,       \* which faults happen: see Fault
    MaxFaults,        \* bound on the number of faults
    MaxChanges        \* bound on the number of config changes

ASSUME BoundsAssumption == MaxFaults \in Nat /\ MaxChanges \in Nat

Keys == {"creds", "args", "release", "pver", "opts"}
Services == {"node", "monitor", "proxy"}

\* The managed files in the order rollback restores them.
Paths == <<"bitcoind", "cli", "proxybin", "nodeenv", "monenv", "proxyenv">>
Files == {Paths[i] : i \in DOMAIN Paths}

\* The config keys that a file's content is rendered from.
RenderedFrom ==
    [bitcoind |-> {"release"}, cli |-> {"release"}, proxybin |-> {"pver"},
     nodeenv |-> {"creds", "args"}, monenv |-> {"creds"}, proxyenv |-> {"creds", "opts"}]

\* The files a service reads when it starts, and what its unit Wants.
Reads == [node |-> {"bitcoind", "nodeenv"}, monitor |-> {"monenv"},
          proxy |-> {"proxybin", "proxyenv"}]
Wants == [node |-> {}, monitor |-> {}, proxy |-> {"node"}]

VARIABLES
    config,    \* the model's config
    due,       \* a config-changed hook is pending, or failed and to be retried
    changes,   \* config changes so far
    stored,    \* StoredState: the config last applied
    disk,      \* contents of the managed files
    svc,       \* per service: "up", "down", or "waiting" to auto-restart
    loaded,    \* per service: the contents its process started from
    pc,        \* next step of the hook
    cfg,       \* the config the hook sees
    snap,      \* _ConfigTransactionSnapshot
    next,      \* index of the next path to restore
    errors,    \* kinds of error rollback collected
    faults,    \* faults so far
    taint      \* history: "unfinished" once a hook was killed or failed after its
               \* transaction, or a rollback had an operation fail; "race" once
               \* systemd restarted a service while a hook ran

host == <<disk, svc, loaded>>
operator == <<config, due, changes>>
locals == <<cfg, snap, next, errors>>
vars == <<operator, stored, host, pc, locals, faults, taint>>

-----------------------------------------------------------------------------
(* Files and services.                                                     *)

Render(f, c) == [k \in RenderedFrom[f] |-> c[k]]

\* A file whose rewrite was interrupted.
Torn(f) == [k \in RenderedFrom[f] |-> Absent]

\* A release or proxy version that is empty is not installed.
Skipped(f, c) ==
    \/ f \in {"bitcoind", "cli"} /\ c["release"] \in NoReleases
    \/ f = "proxybin" /\ c["pver"] = NoProxyVersion

View(s, d) == [f \in Reads[s] |-> d[f]]
NoView(s) == [f \in Reads[s] |-> Absent]

\* Whether a service started on these files stays up.
Runnable(s, d) ==
    /\ s = "node" => d["bitcoind"] # Absent /\ d["nodeenv"]["args"] \notin Broken
    /\ s = "proxy" => d["proxybin"] # Absent /\ d["proxyenv"]["opts"] \notin Broken

\* systemd starts the services S from the files on disk.
BringUp(S) ==
    /\ svc' = [s \in Services |->
                 IF s \in S THEN IF Runnable(s, disk) THEN "up" ELSE "waiting"
                 ELSE svc[s]]
    /\ loaded' = [s \in Services |->
                    IF s \in S THEN IF Runnable(s, disk) THEN View(s, disk) ELSE NoView(s)
                    ELSE loaded[s]]

NotUp(S) == {s \in S : svc[s] # "up"}

Start(s) == BringUp(NotUp({s} \cup Wants[s]))

Restart(s) == BringUp({s} \cup NotUp(Wants[s]))

Stop(S) ==
    /\ svc' = [s \in Services |-> IF s \in S THEN "down" ELSE svc[s]]
    /\ loaded' = [s \in Services |-> IF s \in S THEN NoView(s) ELSE loaded[s]]

\* wait_for_running_version(c) answers only to credentials that the running
\* node was started with; with none configured it always runs out of attempts.
Ready(c) ==
    /\ svc["node"] = "up"
    /\ c["creds"] # NoCreds
    /\ loaded["node"]["nodeenv"]["creds"] = c["creds"]

\* Something goes wrong: "command" (a command, download or write fails),
\* "status" (the status update after the transaction fails), "kill" (the hook
\* process is killed), "die" (a service process dies).
Fault(kind) ==
    /\ kind \in FaultKinds
    /\ faults < MaxFaults
    /\ faults' = faults + 1

Running == {s \in Services : svc[s] = "up"}

\* A service that does not stay up on its files: systemd starts it again and
\* again, and its unit is active for the short life of each process.
CrashLooping(s) == svc[s] = "waiting" /\ ~Runnable(s, disk)

\* What a round of get_status or service_running may find active: the services
\* that are up and any that a poll happens to catch alive.
SeenRunning == {Running \cup S : S \in SUBSET {s \in Services : CrashLooping(s)}}

-----------------------------------------------------------------------------
(* What a unit looks like after its install and start hooks.               *)

Init ==
    /\ config \in InitConfigs
    /\ stored = config
    /\ disk = [f \in Files |-> IF Skipped(f, config) THEN Absent ELSE Render(f, config)]
    /\ svc = [s \in Services |-> IF Runnable(s, disk) THEN "up"
                                 ELSE IF s = "proxy" /\ disk["proxybin"] = Absent
                                      THEN "down" ELSE "waiting"]
    /\ loaded = [s \in Services |-> IF Runnable(s, disk) THEN View(s, disk) ELSE NoView(s)]
    /\ due = FALSE
    /\ changes = 0
    /\ pc = "idle"
    /\ cfg = config
    /\ snap = [disk |-> disk, running |-> Running]
    /\ next = 1
    /\ errors = {}
    /\ faults = 0
    /\ taint = {}

-----------------------------------------------------------------------------
(* The hook.                                                               *)

Changed == {k \in Keys : cfg[k] # stored[k]}
CredsChanged == "creds" \in Changed
\* Mutant: a change of service-args or disable-wallet is overlooked.
NodeChangedNoArgs == Changed \cap {"creds", "release"} # {}

NodeChanged == Changed \cap {"creds", "args", "release"} # {}
\* Mutant: a credential change does not concern the proxy.
ProxyChangedNoCreds == Changed \cap {"pver", "opts"} # {}

ProxyChanged == Changed \cap {"creds", "pver", "opts"} # {}

\* The beginning of the hook: with nothing changed the transaction returns at
\* once, otherwise it takes the snapshot.
ConfigChanged ==
    /\ pc = "idle"
    /\ due
    /\ due' = FALSE
    /\ cfg' = config
    /\ IF config = stored
       THEN UNCHANGED <<pc, snap>>
       ELSE /\ pc' = "proxybin"
            /\ \E seen \in SeenRunning : snap' = [disk |-> disk, running |-> seen]
    /\ next' = 1
    /\ errors' = {}
    /\ UNCHANGED <<config, changes, stored, host, faults, taint>>

\* A step of the try block, and the exception that leaves it.
Try(label, successor) == pc = label /\ pc' = successor
Except(label) == pc = label /\ pc' = "stopProxy"

Frame == UNCHANGED <<operator, stored, locals, taint>>

\* Rewrite file f, or fail leaving it old, new or torn.
Write(f, label, successor) ==
    /\ \/ /\ Try(label, successor)
          /\ disk' = [disk EXCEPT ![f] = Render(f, cfg)]
          /\ UNCHANGED faults
       \/ /\ Except(label)
          /\ \/ UNCHANGED disk
             \/ \E content \in {Render(f, cfg), Torn(f)} : disk' = [disk EXCEPT ![f] = content]
          /\ Fault("command")
    /\ UNCHANGED <<svc, loaded>>
    /\ Frame

Skip(label, successor) ==
    /\ Try(label, successor)
    /\ UNCHANGED <<host, faults>>
    /\ Frame

\* install_rpc_proxy: the binary is downloaded, then replaced atomically.
WriteProxyBinary ==
    IF "pver" \in Changed /\ ~Skipped("proxybin", cfg)
    THEN /\ \/ /\ Try("proxybin", "nodeenv")
               /\ disk' = [disk EXCEPT !["proxybin"] = Render("proxybin", cfg)]
               /\ UNCHANGED faults
            \/ /\ Except("proxybin")
               /\ \/ UNCHANGED disk
                  \/ disk' = [disk EXCEPT !["proxybin"] = Render("proxybin", cfg)]
               /\ Fault("command")
         /\ UNCHANGED <<svc, loaded>>
         /\ Frame
    ELSE Skip("proxybin", "nodeenv")

WriteNodeEnv ==
    IF NodeChanged THEN Write("nodeenv", "nodeenv", "monenv")
                   ELSE Skip("nodeenv", "monenv")

WriteMonitorEnv ==
    IF CredsChanged THEN Write("monenv", "monenv", "proxyenv")
                    ELSE Skip("monenv", "proxyenv")

WriteProxyEnv ==
    IF ProxyChanged THEN Write("proxyenv", "proxyenv", "node")
                    ELSE Skip("proxyenv", "node")

\* Install the configured release, as AtomicRelease promises: both binaries
\* are replaced and a node that was seen running came back RPC-ready on them ...
Installed ==
    [disk EXCEPT !["bitcoind"] = Render("bitcoind", cfg), !["cli"] = Render("cli", cfg)]

NodeRestartedOn(d) ==
    /\ svc' = [svc EXCEPT !["node"] = IF Runnable("node", d) THEN "up" ELSE "waiting"]
    /\ loaded' = [loaded EXCEPT !["node"] =
                    IF Runnable("node", d) THEN View("node", d) ELSE NoView("node")]

ComesUp == Runnable("node", Installed) /\ cfg["creds"] # NoCreds

InstallSucceeds(wasRunning) ==
    /\ Try("node", "monitor")
    /\ wasRunning => ComesUp
    /\ disk' = Installed
    /\ IF wasRunning THEN NodeRestartedOn(Installed) ELSE UNCHANGED <<svc, loaded>>
    /\ UNCHANGED faults

\* ... or it raised, with the binaries put back and the node restarted on
\* them, either because the node did not become ready ...
InstallNotReady(wasRunning) ==
    /\ Except("node")
    /\ wasRunning /\ ~ComesUp
    /\ NodeRestartedOn(disk)
    /\ UNCHANGED <<disk, faults>>

\* ... or because of a fault before activation, during it, or after it (the
\* final chown) ...
InstallFails(wasRunning) ==
    /\ Except("node")
    /\ Fault("command")
    /\ \/ UNCHANGED host
       \/ wasRunning /\ NodeRestartedOn(disk) /\ UNCHANGED disk
       \/ /\ wasRunning => ComesUp
          /\ disk' = Installed
          /\ IF wasRunning THEN NodeRestartedOn(Installed) ELSE UNCHANGED <<svc, loaded>>

\* ... or because of two, the second one in its own rollback: then each binary
\* may be old, new or missing, and a node that was running may have stayed down.
InstallBreaks(wasRunning) ==
    /\ Except("node")
    /\ "command" \in FaultKinds
    /\ faults + 2 <= MaxFaults
    /\ faults' = faults + 2
    /\ \E d, c \in {disk, Installed, [f \in Files |-> Absent]} :
          disk' = [disk EXCEPT !["bitcoind"] = d["bitcoind"], !["cli"] = c["cli"]]
    /\ (wasRunning /\ Stop({"node"})) \/ UNCHANGED <<svc, loaded>>

Install ==
    \E seen \in SeenRunning :
        LET wasRunning == "node" \in seen IN
        \/ InstallSucceeds(wasRunning) \/ InstallNotReady(wasRunning)
        \/ InstallFails(wasRunning) \/ InstallBreaks(wasRunning)

\* systemctl restart: it fails with or without having had its effect.
RestartStep(s, label, successor) ==
    /\ \/ Try(label, successor) /\ Restart(s) /\ UNCHANGED faults
       \/ Except(label) /\ (Restart(s) \/ UNCHANGED <<svc, loaded>>) /\ Fault("command")
    /\ UNCHANGED disk
    /\ Frame

\* The check after a restart.
ProveStep(label, successor, recovered) ==
    /\ IF recovered THEN Try(label, successor) ELSE Except(label)
    /\ UNCHANGED <<host, faults>>
    /\ Frame

\* Mutant: only a new release restarts the node.
ActivateNodeNoRestart ==
    IF "release" \in Changed /\ ~Skipped("bitcoind", cfg)
    THEN Install /\ Frame
    ELSE Skip("node", "monitor")

\* Mutant: any change restarts a node that was running.
ActivateNodeAlways ==
    IF "release" \in Changed /\ ~Skipped("bitcoind", cfg)
    THEN Install /\ Frame
    ELSE IF "node" \in snap.running
         THEN RestartStep("node", "node", "nodeReady")
         ELSE Skip("node", "monitor")

ActivateNode ==
    IF "release" \in Changed
    THEN IF Skipped("bitcoind", cfg)
         THEN Skip("node", "monitor")
         ELSE Install /\ Frame
    ELSE IF NodeChanged /\ "node" \in snap.running
         THEN RestartStep("node", "node", "nodeReady")
         ELSE Skip("node", "monitor")

\* Mutant: readiness is asked for with the previous credentials.
ProveNodePrevious == ProveStep("nodeReady", "monitor", Ready(stored))

ProveNode == ProveStep("nodeReady", "monitor", Ready(cfg))

\* Mutant: the monitor is not restarted.
ActivateMonitorNever == Skip("monitor", "proxy")

ActivateMonitor ==
    IF CredsChanged /\ "monitor" \in snap.running
    THEN RestartStep("monitor", "monitor", "monitorReady")
    ELSE Skip("monitor", "proxy")

ProveMonitor ==
    \E seen \in SeenRunning : ProveStep("monitorReady", "proxy", "monitor" \in seen)

ActivateProxy ==
    IF ProxyChanged /\ "proxy" \in snap.running
    THEN IF disk["proxybin"] = Absent
         THEN Except("proxy") /\ UNCHANGED <<host, faults>> /\ Frame
         ELSE RestartStep("proxy", "proxy", "proxyReady")
    ELSE Skip("proxy", "final")

ProveProxy ==
    \E seen \in SeenRunning : ProveStep("proxyReady", "final", "proxy" \in seen)

ProveNodeStayed ==
    \E seen \in SeenRunning :
        ProveStep("final", "status", "node" \in snap.running => "node" \in seen)

\* The handler updates StoredState and the unit status; ops writes StoredState
\* when the hook ends without an exception.
Commit ==
    /\ Try("status", "idle")
    /\ stored' = cfg
    /\ UNCHANGED <<operator, host, locals, faults, taint>>

StatusFails ==
    /\ Try("status", "idle")
    /\ Fault("status")
    /\ due' = TRUE
    /\ taint' = taint \cup {"unfinished"}
    /\ UNCHANGED <<config, changes, stored, host, locals>>

-----------------------------------------------------------------------------
(* Rollback: every operation is tried, whatever the others did.            *)

\* An operation of the rollback with effect E, or its failure with the
\* effect or without.
Undo(label, successor, Effect) ==
    /\ Try(label, successor)
    /\ \/ Effect /\ UNCHANGED <<errors, faults>>
       \/ /\ Effect \/ UNCHANGED <<svc, loaded>>
          /\ errors' = errors \cup {"operation"}
          /\ Fault("command")
    /\ UNCHANGED <<disk, operator, stored, cfg, snap, next, taint>>

StopProxy == Undo("stopProxy", "stopMonitor", Stop({"proxy"}))
StopMonitor == Undo("stopMonitor", "stopNode", Stop({"monitor"}))
\* Mutant: rollback leaves the node running.
StopNodeNever == Skip("stopNode", "restore")

StopNode == Undo("stopNode", "restore", Stop({"node"}))

\* Mutant: off by one at the end of the path list.
RestoreFileOffByOne ==
    /\ pc = "restore"
    /\ disk' = [disk EXCEPT ![Paths[next]] = snap.disk[Paths[next]]]
    /\ IF next > Len(Paths)
       THEN pc' = "reload" /\ UNCHANGED next
       ELSE next' = next + 1 /\ UNCHANGED pc
    /\ UNCHANGED <<errors, faults, svc, loaded, operator, stored, cfg, snap, taint>>

\* _restore_file replaces one file atomically.
RestoreFile ==
    /\ pc = "restore"
    /\ \/ /\ disk' = [disk EXCEPT ![Paths[next]] = snap.disk[Paths[next]]]
          /\ UNCHANGED <<errors, faults>>
       \/ /\ errors' = errors \cup {"operation"}
          /\ Fault("command")
          /\ UNCHANGED disk
    /\ IF next = Len(Paths)
       THEN pc' = "reload" /\ UNCHANGED next
       ELSE next' = next + 1 /\ UNCHANGED pc
    /\ UNCHANGED <<svc, loaded, operator, stored, cfg, snap, taint>>

\* systemctl daemon-reload; the unit files are not modelled.
Reload == Undo("reload", "startNode", UNCHANGED <<svc, loaded>>)

\* Start service s if it was running when the snapshot was taken.
StartAgain(s, label, successor) ==
    IF s \in snap.running
    THEN Undo(label, successor, Start(s))
    ELSE Skip(label, successor)

StartNode == StartAgain("node", "startNode", "startMonitor")
StartMonitor == StartAgain("monitor", "startMonitor", "startProxy")
StartProxy == StartAgain("proxy", "startProxy", "recovered")

Unrecovered(seen) ==
    \/ "node" \in snap.running /\ ~Ready(stored)
    \/ (snap.running \cap {"monitor", "proxy"}) \ seen # {}

\* The exception leaves the hook; Juju will run it again.
Reraise ==
    /\ Try("recovered", "idle")
    /\ \E seen \in SeenRunning :
          errors' = IF Unrecovered(seen) THEN errors \cup {"readiness"} ELSE errors
    /\ taint' = IF "operation" \in errors THEN taint \cup {"unfinished"} ELSE taint
    /\ due' = TRUE
    /\ UNCHANGED <<config, changes, stored, host, cfg, snap, next, faults>>

-----------------------------------------------------------------------------
(* Everybody else.                                                         *)

SetConfig ==
    /\ changes < MaxChanges
    /\ changes' = changes + 1
    /\ config' \in Configs \ {config}
    /\ due' = TRUE
    /\ UNCHANGED <<stored, host, pc, locals, faults, taint>>

Killed ==
    /\ pc # "idle"
    /\ pc' = "idle"
    /\ Fault("kill")
    /\ due' = TRUE
    /\ taint' = taint \cup {"unfinished"}
    /\ UNCHANGED <<config, changes, stored, host, locals>>

\* The node actions.  A systemctl that fails ends the action at that point.
ProxyIfInstalled == IF disk["proxybin"] = Absent THEN {} ELSE {"proxy"}

StartNodeAction ==
    /\ pc = "idle"
    /\ \/ BringUp(NotUp({"node", "monitor"} \cup ProxyIfInstalled)) /\ UNCHANGED faults
       \/ \E S \in {{"node"}, {"node", "monitor"}} : BringUp(NotUp(S)) /\ Fault("command")
    /\ UNCHANGED <<disk, operator, stored, pc, locals, taint>>

StopNodeAction ==
    /\ pc = "idle"
    /\ \/ Stop(Services) /\ UNCHANGED faults
       \/ \E S \in {{"monitor"}, {"monitor", "node"}} : Stop(S) /\ Fault("command")
    /\ UNCHANGED <<disk, operator, stored, pc, locals, taint>>

RestartNodeAction ==
    /\ pc = "idle"
    /\ \/ BringUp({"node"} \cup ProxyIfInstalled) /\ UNCHANGED faults
       \/ (Stop({"node"}) \/ BringUp({"node"})) /\ Fault("command")
    /\ UNCHANGED <<disk, operator, stored, pc, locals, taint>>

ServiceDies(s) ==
    /\ svc[s] = "up"
    /\ Fault("die")
    /\ svc' = [svc EXCEPT ![s] = "waiting"]
    /\ loaded' = [loaded EXCEPT ![s] = NoView(s)]
    /\ UNCHANGED <<disk, operator, stored, pc, locals, taint>>

AutoRestart(s) ==
    /\ svc[s] = "waiting"
    /\ Start(s)
    /\ taint' = IF pc = "idle" THEN taint ELSE taint \cup {"race"}
    /\ UNCHANGED <<disk, operator, stored, pc, locals, faults>>

TrySteps ==
    \/ WriteProxyBinary \/ WriteNodeEnv \/ WriteMonitorEnv \/ WriteProxyEnv
    \/ ActivateNode \/ ProveNode \/ ActivateMonitor \/ ProveMonitor
    \/ ActivateProxy \/ ProveProxy \/ ProveNodeStayed \/ Commit \/ StatusFails

RollbackSteps ==
    \/ StopProxy \/ StopMonitor \/ StopNode \/ RestoreFile \/ Reload
    \/ StartNode \/ StartMonitor \/ StartProxy \/ Reraise

HookStep == ConfigChanged \/ TrySteps \/ RollbackSteps

Environment ==
    \/ SetConfig \/ Killed
    \/ StartNodeAction \/ StopNodeAction \/ RestartNodeAction
    \/ \E s \in Services : ServiceDies(s) \/ AutoRestart(s)

Next == HookStep \/ Environment

Spec == Init /\ [][Next]_vars

\* Juju runs a pending hook and retries a failed one; every call of the hook
\* returns; systemd keeps its Restart= promise.
Fairness ==
    /\ WF_vars(HookStep)
    /\ \A s \in Services : WF_vars(AutoRestart(s))

FairSpec == Spec /\ Fairness
-----------------------------------------------------------------------------
(* Properties.                                                             *)

Labels == {"idle", "proxybin", "nodeenv", "monenv", "proxyenv", "node", "nodeReady",
           "monitor", "monitorReady", "proxy", "proxyReady", "final", "status",
           "stopProxy", "stopMonitor", "stopNode", "restore", "reload", "startNode",
           "startMonitor", "startProxy", "recovered"}
Values == {c[k] : c \in Configs \cup InitConfigs, k \in Keys} \cup {Absent}
Contents(f) == [RenderedFrom[f] -> Values] \cup {Absent}

\* Every variable has its type.
TypeOK ==
    /\ config \in Configs \cup InitConfigs
    /\ stored \in Configs \cup InitConfigs
    /\ cfg \in Configs \cup InitConfigs
    /\ due \in BOOLEAN /\ taint \subseteq {"unfinished", "race"}
    /\ changes \in 0..MaxChanges /\ faults \in 0..MaxFaults
    /\ DOMAIN disk = Files /\ \A f \in Files : disk[f] \in Contents(f)
    /\ svc \in [Services -> {"up", "down", "waiting"}]
    /\ DOMAIN loaded = Services
    /\ \A s \in Services : DOMAIN loaded[s] = Reads[s] /\ \A f \in Reads[s] : loaded[s][f] \in Contents(f)
    /\ pc \in Labels
    /\ DOMAIN snap.disk = Files /\ \A f \in Files : snap.disk[f] \in Contents(f)
    /\ snap.running \in SUBSET Services
    /\ next \in DOMAIN Paths
    /\ errors \in SUBSET {"operation", "readiness"}

\* Between hooks the managed files are exactly the generation that the unit
\* believes it applied: a hook that failed put all of them back, whatever
\* step failed (utils.py: "restore every managed file on failure").
HostMatchesStored ==
    pc = "idle" /\ "unfinished" \notin taint =>
        \A f \in Files : Skipped(f, stored) \/ disk[f] = Render(f, stored)

\* Between hooks no service still runs on the files of an earlier generation:
\* the node, the monitor and the proxy agree on the RPC credentials.  Services
\* may die at any time; the one exception is a service that was not running at
\* the snapshot and that systemd restarts before its files are written, which
\* no step restarts.
ServicesCurrent ==
    pc = "idle" /\ taint = {} =>
        \A s \in Running : loaded[s] = View(s, disk)

DependsOn(s) == UNION {RenderedFrom[f] : f \in Reads[s]}

\* A service that keeps exiting on the new files and that a poll still found
\* active.  The node is excused only if it could not run before either: after a
\* restart it has to answer an RPC call, which is more than a poll.
Excused(s) ==
    /\ CrashLooping(s)
    /\ s = "node" => ~Runnable("node", snap.disk)

\* StoredState moves to a new generation only when every service that ran
\* before is up, and those that read a changed file run on the new files
\* ("prove each prior service recovered"); one active poll is all the proof
\* there is of the proxy, so it may be one that keeps exiting.
CommitProves ==
    [][ stored' # stored =>
          \A s \in snap.running \ {t \in Services : Excused(t)} :
              /\ svc[s] = "up"
              /\ DependsOn(s) \cap Changed # {} => loaded[s] = View(s, disk) ]_vars

\* Whatever a killed hook or a failed rollback left behind, a hook that commits
\* leaves every file that depends on a changed key as the new config has it.
CommitWrites ==
    [][ stored' # stored =>
          \A f \in Files : RenderedFrom[f] \cap Changed # {} =>
              Skipped(f, cfg) \/ disk[f] = Render(f, cfg) ]_vars

\* A rollback without a failing operation hands back the files of the snapshot
\* and exactly the services that ran (and can run on those files), each started
\* on them; only the node may run in addition, because the proxy's unit Wants it.
RollbackRestores ==
    [][ pc = "recovered" /\ pc' = "idle" /\ "unfinished" \notin taint' =>
          /\ disk = snap.disk
          /\ {s \in snap.running : Runnable(s, disk)} \subseteq Running
          /\ Running \subseteq snap.running \cup UNION {Wants[s] : s \in snap.running}
          /\ \A s \in Running : loaded[s] = View(s, disk) ]_vars

\* The steps of the try block.
Trying == {"proxybin", "nodeenv", "monenv", "proxyenv", "node", "nodeReady", "monitor",
           "monitorReady", "proxy", "proxyReady", "final", "status"}

\* Until something fails, a change of the proxy's own settings does not
\* disturb a node that is up.
ProxyChangeSparesNode ==
    [][ ~NodeChanged /\ pc \in Trying /\ svc["node"] = "up" =>
          svc'["node"] = "up" /\ loaded'["node"] = loaded["node"] ]_vars

\* When the operator and the faults leave the unit alone, it ends up having
\* applied the config it was given.
Converges == <>[](stored = config)
=============================================================================
