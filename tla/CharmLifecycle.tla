--------------------------- MODULE CharmLifecycle ---------------------------
(***************************************************************************)
(* The charm's event handlers (charm.py) as Juju runs them: one at a time, *)
(* each a sequence of host commands that may fail and end it, most of them *)
(* closing with _update_status.  StoredState, and with it the rolling      *)
(* event log, is saved only when a handler ends without an exception; the  *)
(* unit status is set at once.  Meanwhile systemd runs the services.       *)
(*                                                                         *)
(* The config-changed transaction is one command here: ConfigTransaction   *)
(* shows that it applies everything or puts everything back.               *)
(***************************************************************************)
EXTENDS Naturals, Sequences

CONSTANTS
    LogMax,     \* _EVENT_LOG_MAX
    MaxRuns,    \* bound on hooks and actions asked for, update-status aside
    MaxFaults   \* bound on failing commands, crashes and other disturbances

ASSUME LogMaxAssumption == LogMax \in Nat \ {0}
ASSUME RunsAssumption == MaxRuns \in Nat /\ MaxFaults \in Nat

Services == {"node", "monitor", "proxy"}
\* bitcoin-rpc-proxy.service Wants=bitcoind.service
Wants == [node |-> {}, monitor |-> {}, proxy |-> {"node"}]

Hooks == {"install", "config-changed", "start", "stop", "upgrade-charm"}
\* The four actions that only report are one.
Actions == {"restart-node", "start-node", "stop-node", "report"}

VARIABLES
    hooks,      \* hooks that Juju has still to run, in order
    handler,    \* the event being handled, or "none"
    todo,       \* its remaining commands
    seen,       \* services its status check has found running
    ran,        \* history: every handler run so far, and whether it succeeded
    log,        \* StoredState.event_log
    status,     \* unit status, with the services it says are up
    want,       \* binaries whose version is configured
    bin,        \* binaries on disk
    svc,        \* per service: "up", "down" or "waiting" to auto-restart
    rpc,        \* the node's RPC answers
    collector,  \* metadata can be collected and uploaded
    faults,     \* disturbances so far
    steady,     \* history: no disturbance since the status check began
    raced,      \* history: systemd restarted the proxy during the handler
    stopped     \* history: stopped by the operator, and no start asked for since

host == <<bin, svc, rpc>>
juju == <<hooks, ran, want>>
history == <<steady, raced, stopped>>
vars == <<juju, handler, todo, seen, log, status, host, collector, faults, history>>

-----------------------------------------------------------------------------
(* Handlers.                                                               *)

UpdateStatus == <<"binaries", "see node", "see monitor", "see proxy", "readiness", "metadata">>

\* Mutant: the proxy is not part of the node.
HandlerNoProxy(e) ==
    CASE e = "install" -> <<"install node", "install proxy">>
      [] e = "config-changed" -> <<"apply">> \o UpdateStatus
      [] e = "start" -> <<"start node", "start monitor", "start proxy">> \o UpdateStatus
      [] e \in {"stop", "stop-node"} -> <<"stop node", "stop monitor">> \o UpdateStatus
      [] OTHER -> UpdateStatus

\* Mutant: update-status is not handled.
HandlerNoUpdateStatus(e) ==
    CASE e = "install" -> <<"install node", "install proxy">>
      [] e = "start" -> <<"start node", "start monitor", "start proxy">> \o UpdateStatus
      [] e \in {"stop", "stop-node"} ->
           <<"stop monitor", "stop node", "stop proxy">> \o UpdateStatus
      [] OTHER -> <<>>

Handler(e) ==
    CASE e = "install" -> <<"install node", "install proxy">>
      [] e = "config-changed" -> <<"apply">> \o UpdateStatus
      [] e = "start" -> <<"start node", "start monitor", "start proxy">> \o UpdateStatus
      [] e = "stop" -> <<"stop node", "stop monitor", "stop proxy">> \o UpdateStatus
      [] e \in {"upgrade-charm", "update-status"} -> UpdateStatus
      [] e = "restart-node" ->
           <<"maintenance", "stop node", "start node", "restart proxy">> \o UpdateStatus
      [] e = "start-node" ->
           <<"maintenance", "start node", "start monitor", "start proxy">> \o UpdateStatus
      [] e = "stop-node" ->
           <<"maintenance", "stop monitor", "stop node", "stop proxy">> \o UpdateStatus
      [] e = "report" -> <<>>

Init ==
    /\ hooks = <<"install", "config-changed", "start">>
    /\ handler = "none"
    /\ todo = <<>>
    /\ seen = {}
    /\ ran = <<>>
    /\ log = <<>>
    /\ status = <<"unknown", {}>>
    /\ want \in SUBSET {"node", "proxy"}
    /\ bin = {}
    /\ svc = [s \in Services |-> "down"]
    /\ rpc = FALSE
    /\ collector = TRUE
    /\ faults = 0
    /\ steady = FALSE /\ raced = FALSE /\ stopped = FALSE

Installed == \E i \in DOMAIN ran : ran[i] = <<"install", TRUE>>
Removed == \E i \in DOMAIN ran : ran[i] = <<"stop", TRUE>>

\* What Juju may run next: the first pending hook, an action, update-status.
Due(e) ==
    /\ ~Removed
    /\ \/ e \in Hooks /\ hooks # <<>> /\ e = Head(hooks)
       \/ e \in Actions /\ Installed
       \/ e = "update-status" /\ hooks = <<>>

\* Bound on what the operator asks for; a hook that fails is run again.
Room == Len(ran) + Len(hooks) + (IF handler \in Actions THEN 1 ELSE 0) < MaxRuns

\* Events by which somebody asks for running services.
Starting == {"start", "start-node", "restart-node"}

Dispatch(e) ==
    /\ handler = "none"
    /\ Due(e)
    /\ e \in Actions => Room
    /\ handler' = e
    /\ todo' = Handler(e)
    /\ seen' = {}
    /\ raced' = FALSE
    /\ stopped' = (stopped /\ e \notin Starting)
    /\ UNCHANGED <<juju, log, status, host, collector, faults, steady>>

\* log[-_EVENT_LOG_MAX:]
Latest(s) == SubSeq(s, IF Len(s) > LogMax THEN Len(s) - LogMax + 1 ELSE 1, Len(s))

\* The handler returns and ops saves StoredState: with the entry that
\* _record_event appended, except by update-status.
Finish ==
    /\ handler # "none"
    /\ todo = <<>>
    /\ handler' = "none"
    /\ log' = IF handler = "update-status" THEN log ELSE Latest(Append(log, handler))
    /\ ran' = IF handler = "update-status" THEN ran ELSE Append(ran, <<handler, TRUE>>)
    /\ hooks' = IF handler \in Hooks THEN Tail(hooks) ELSE hooks
    /\ stopped' = (stopped \/ (handler \in {"stop", "stop-node"} /\ ~raced))
    /\ UNCHANGED <<todo, seen, want, status, host, collector, faults, steady, raced>>

\* An exception ends the handler; a hook stays pending, an action does not.
Raise ==
    /\ handler' = "none"
    /\ todo' = <<>>
    /\ ran' = IF handler = "update-status" THEN ran ELSE Append(ran, <<handler, FALSE>>)
    /\ UNCHANGED <<hooks, want, seen, log, status>>

-----------------------------------------------------------------------------
(* Commands.                                                               *)

\* systemd starts the services S; without its binary a service keeps failing.
Runnable(s) == s = "monitor" \/ s \in bin
BringUp(S) ==
    /\ svc' = [s \in Services |-> IF s \in S THEN IF Runnable(s) THEN "up" ELSE "waiting"
                                  ELSE svc[s]]
    /\ rpc' = (rpc /\ "node" \notin S)
    /\ UNCHANGED bin
NotUp(S) == {s \in S : svc[s] # "up"}

StartService(s) == BringUp(NotUp({s} \cup Wants[s]))
RestartService(s) == BringUp({s} \cup NotUp(Wants[s]))

StopService(s) ==
    /\ svc' = [svc EXCEPT ![s] = "down"]
    /\ rpc' = (rpc /\ s # "node")
    /\ UNCHANGED bin

Install(b) == bin' = bin \cup (want \cap {b}) /\ UNCHANGED <<svc, rpc>>

\* Mutant: the transaction starts the node whether or not it ran before.
AppliedStartsNode ==
    /\ bin' = bin \cup want
    /\ svc' = [svc EXCEPT !["node"] = IF "node" \in bin' THEN "up" ELSE "waiting"]
    /\ UNCHANGED rpc

\* A config transaction.  Services that ran are restarted and proven ready, so
\* they are as before, but restarting the proxy starts a stopped node as well.
Applied ==
    /\ bin' = bin \cup want
    /\ \/ UNCHANGED svc
       \/ svc["proxy"] = "up" /\ svc["node"] # "up"
          /\ svc' = [svc EXCEPT !["node"] = IF "node" \in bin' THEN "up" ELSE "waiting"]
    /\ UNCHANGED rpc

\* Effect of a command on the host.
Command(c) ==
    \/ c = "install node" /\ Install("node")
    \/ c = "install proxy" /\ Install("proxy")
    \/ c = "apply" /\ Applied
    \/ c = "start node" /\ StartService("node")
    \/ c = "start monitor" /\ StartService("monitor")
    \/ c = "start proxy" /\ IF "proxy" \in bin THEN StartService("proxy") ELSE UNCHANGED host
    \/ c = "restart proxy" /\ IF "proxy" \in bin THEN RestartService("proxy") ELSE UNCHANGED host
    \/ c = "stop node" /\ StopService("node")
    \/ c = "stop monitor" /\ StopService("monitor")
    \/ c = "stop proxy" /\ StopService("proxy")

Proceed == todo' = Tail(todo)

Execute ==
    /\ todo # <<>>
    /\ Command(Head(todo))
    /\ Proceed
    /\ UNCHANGED <<juju, handler, seen, log, status, collector, faults, history>>

Disturb == faults < MaxFaults /\ faults' = faults + 1 /\ steady' = FALSE

\* A rolled-back transaction stopped everything and started again what was up,
\* with what that Wants; the node may still be warming up.
RolledBack ==
    /\ svc' = [s \in Services |->
                 IF svc[s] # "up" /\ svc["proxy"] = "up" /\ s \in Wants["proxy"]
                 THEN IF Runnable(s) THEN "up" ELSE "waiting"
                 ELSE IF svc[s] = "waiting" THEN "down" ELSE svc[s]]
    /\ rpc' \in {rpc, FALSE}
    /\ UNCHANGED bin

\* A command fails, with its effect or without.
CommandFails ==
    /\ todo # <<>>
    /\ Raise
    /\ Disturb
    /\ IF Head(todo) = "apply" THEN RolledBack ELSE Command(Head(todo)) \/ UNCHANGED host
    /\ UNCHANGED <<collector, raced, stopped>>

SetStatus(kind, up) == status' = <<kind, up>> /\ todo' = <<>>

Maintenance ==
    /\ todo # <<>> /\ Head(todo) = "maintenance"
    /\ status' = <<"maintenance", {}>>
    /\ Proceed
    /\ UNCHANGED <<juju, handler, seen, log, host, collector, faults, history>>

-----------------------------------------------------------------------------
(* _update_status.                                                         *)

CheckBinaries ==
    /\ todo # <<>> /\ Head(todo) = "binaries"
    /\ steady' = TRUE
    /\ IF "node" \notin bin THEN SetStatus("no bitcoind", {})
       ELSE IF "proxy" \notin bin THEN SetStatus("no proxy", {})
       ELSE Proceed /\ UNCHANGED status
    /\ UNCHANGED <<juju, handler, seen, log, host, collector, faults, raced, stopped>>

\* service_running of one service after the other.
See(s, command) ==
    /\ todo # <<>> /\ Head(todo) = command
    /\ seen' = IF svc[s] = "up" THEN seen \cup {s} ELSE seen
    /\ IF s = "proxy" /\ seen' # Services
       THEN SetStatus("waiting", seen')
       ELSE Proceed /\ UNCHANGED status
    /\ UNCHANGED <<juju, handler, log, host, collector, faults, history>>

SeeServices == See("node", "see node") \/ See("monitor", "see monitor") \/ See("proxy", "see proxy")

\* wait_for_running_version
CheckReadiness ==
    /\ todo # <<>> /\ Head(todo) = "readiness"
    /\ IF rpc THEN Proceed /\ UNCHANGED status ELSE SetStatus("rpc not ready", {})
    /\ UNCHANGED <<juju, handler, seen, log, host, collector, faults, history>>

\* Mutant: what the metadata collector reports is ignored.
CheckMetadataIgnored ==
    /\ todo # <<>> /\ Head(todo) = "metadata"
    /\ SetStatus("active", {})
    /\ UNCHANGED <<juju, handler, seen, log, host, collector, faults, history>>

\* collect_upload_metadata asks the node again.
CheckMetadata ==
    /\ todo # <<>> /\ Head(todo) = "metadata"
    /\ SetStatus(IF collector /\ rpc THEN "active" ELSE "metadata failed", {})
    /\ UNCHANGED <<juju, handler, seen, log, host, collector, faults, history>>

HandlerStep ==
    \/ Finish \/ Execute \/ Maintenance
    \/ CheckBinaries \/ SeeServices \/ CheckReadiness \/ CheckMetadata

-----------------------------------------------------------------------------
(* Operator, systemd and the rest of the world.                            *)

\* The operator sets or clears a version, upgrades the charm, removes the unit.
Operate ==
    /\ Room
    /\ ~Removed
    /\ \/ /\ want' \in SUBSET {"node", "proxy"} \ {want}
          /\ hooks' = Append(hooks, "config-changed")
       \/ \E e \in {"upgrade-charm", "stop"} : hooks' = Append(hooks, e) /\ UNCHANGED want
    /\ \A i \in DOMAIN hooks : hooks[i] # "stop"
    /\ UNCHANGED <<ran, handler, todo, seen, log, status, host, collector, faults, history>>

ServiceDies(s) ==
    /\ svc[s] = "up"
    /\ Disturb
    /\ svc' = [svc EXCEPT ![s] = "waiting"]
    /\ rpc' = (rpc /\ s # "node")
    /\ UNCHANGED <<juju, handler, todo, seen, log, status, bin, collector, raced, stopped>>

AutoRestart(s) ==
    /\ svc[s] = "waiting"
    /\ Runnable(s)
    /\ StartService(s)
    /\ steady' = FALSE
    /\ raced' = (raced \/ (s = "proxy" /\ handler # "none"))
    /\ UNCHANGED <<juju, handler, todo, seen, log, status, collector, faults, stopped>>

RpcAnswers ==
    /\ svc["node"] = "up" /\ ~rpc
    /\ rpc' = TRUE
    /\ steady' = FALSE
    /\ UNCHANGED <<juju, handler, todo, seen, log, status, bin, svc, collector, faults, raced, stopped>>

CollectorChanges ==
    /\ collector' = ~collector
    /\ Disturb
    /\ UNCHANGED <<juju, handler, todo, seen, log, status, host, raced, stopped>>

Next ==
    \/ HandlerStep \/ CommandFails \/ Operate \/ RpcAnswers \/ CollectorChanges
    \/ \E e \in Hooks \cup Actions \cup {"update-status"} : Dispatch(e)
    \/ \E s \in Services : ServiceDies(s) \/ AutoRestart(s)

Spec == Init /\ [][Next]_vars

\* Handlers proceed; Juju runs pending hooks, retries failed ones and fires
\* update-status for ever; systemd restarts services; the node warms up.
Fairness ==
    /\ WF_vars(HandlerStep) /\ WF_vars(RpcAnswers)
    /\ \A e \in Hooks : WF_vars(Dispatch(e))
    /\ WF_vars(Dispatch("update-status"))
    /\ \A s \in Services : WF_vars(AutoRestart(s))

FairSpec == Spec /\ Fairness

-----------------------------------------------------------------------------
(* Properties.                                                             *)

Running == {s \in Services : svc[s] = "up"}

\* The status that describes the host.
Truth ==
    IF "node" \notin bin THEN <<"no bitcoind", {}>>
    ELSE IF "proxy" \notin bin THEN <<"no proxy", {}>>
    ELSE IF Running # Services THEN <<"waiting", Running>>
    ELSE IF ~rpc THEN <<"rpc not ready", {}>>
    ELSE IF ~collector THEN <<"metadata failed", {}>>
    ELSE <<"active", {}>>

Checks == {UpdateStatus[i] : i \in DOMAIN UpdateStatus}

\* A status check during which nothing happened to the host says exactly what
\* the host is like: the first thing that is missing, or active.
StatusTruthful ==
    [][ todo # <<>> /\ Head(todo) \in Checks /\ todo' = <<>> /\ steady' => status' = Truth ]_vars

\* A stop-node action or stop hook that succeeds leaves nothing running, also
\* when services crash or are waiting to be restarted; except when systemd
\* restarts the proxy meanwhile, which starts a node that was stopped already.
StopStops == handler \in {"stop-node", "stop"} /\ todo = <<>> /\ ~raced => Running = {}

\* What the operator has stopped stays stopped until somebody asks for a start:
\* no config change, upgrade, failed or retried hook, rolled-back transaction,
\* Wants= or systemd's automatic restart brings a service up again.
StaysStopped == stopped => Running = {}

\* When the world calms down, the unit status ends up describing the host: a
\* failed action does not leave the unit in maintenance.
StatusSettles == <>[](Removed \/ status = Truth)
=============================================================================
