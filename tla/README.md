# TLA+ specification of bitcoin-rpc-operator

The repository holds a Juju machine charm (Python) that runs a Bitcoin Core
node, a Prometheus exporter and an RPC proxy as systemd services, and the proxy
itself (Go), and the workflows that publish the charm. This directory models the
parts whose correctness depends on order, failure or concurrency, model-checks
them with TLC, and proves with TLAPS every safety property of the passing runs for
every value of the constants.

## The system

| Component | State | Operations | What makes it hard | What makes it correct |
|---|---|---|---|---|
| Release installer, `src/bitcoin.py` | the two binaries, the node service, a stage directory | `install_release`: fetch, verify, stage, stop, swap, start, verify, roll back | two files replaced one after the other; every step and the rollback itself may fail; the hook may be killed; systemd restarts the node by itself | both binaries or neither; a node that ran runs again; nothing is interrupted before validation |
| Config transaction, `apply_config_transaction` in `src/utils.py`, `_on_config_changed` in `src/charm.py` | ten managed files, three services, StoredState | snapshot, write, activate, prove, roll back; commit | StoredState is saved by ops only if the hook succeeds; Juju retries; config changes again meanwhile; services crash and restart | files always form the generation the unit believes it applied; services run on it |
| Charm handlers, `src/charm.py` | StoredState (event log), unit status | hooks, actions, `_update_status` | a handler may raise at any command; status is put together while services change | truthful status that does not stay stale; stop stops, and what was stopped stays stopped |
| Proxy request path, `internal/handler/rpc.go`, `internal/upstream/client.go` | counters, requests in flight | `ServeHTTP` | concurrent requests, batches, timeouts, lost answers, clients that leave | only envelopes whose calls are all allowed, as the proxy reads them, reach bitcoind; every request is answered and counted |
| Health poller, `internal/upstream/poller.go`, `internal/handler/health.go` | atomic pointer, gauge | `Run`, `poll`, `store`; `/health` reads | polls longer than the interval, two stores, cancellation | bounded staleness, agreement of the two readers, termination |
| Proxy lifecycle, `internal/app/app.go`, `internal/server/server.go` | two servers, error channel, contexts | `Run` | bind failures, signals and shutdown in any order, one shared deadline | ends, leaves nothing running, reports every error |
| Monitor exporter, `templates/bitcoind-monitor.py` | gauges, error counter, `last_refresh`, a cached result | `refresh_app`, `refresh_metrics`, `getblockstats` | a refresh is a dozen calls that may fail or be retried half way; a rate limit on wall-clock time; a cache that keeps failures; exceptions inside a WSGI server | gauges that are stale or mixed can be recognised, and catch up |
| Arguments and metadata, `harden_service_args` in `src/utils.py`, `src/bitcoin_metadata.py` | environment file, the node's command line, a local and an uploaded document | `update_service_args`, `collect_upload_metadata` | arbitrary operator options around the pinned ones; the node dies or changes between the calls of a collection | RPC only where proxy, monitor and collector dial; a document describes the node it was collected from |
| Release pipeline, `.github/workflows/charm-release.yml`, `charm-integration.yml`, `release.yml`, `.github/scripts` | tags, releases with assets, integration runs and artifacts, Charmhub revisions and channels | the jobs and their steps | jobs overlap, steps fail half way, runs are started again, operators mistype inputs | a channel serves only tested artifacts of the tagged commit; provenance tells the truth |
| systemd units, `templates/*.service` | service states | `Restart=`, `Wants=` | acts between any two steps of the charm | (environment of the charm's modules) |

The charm calls the installer from the install hook and from the config
transaction; both use systemd through `systemctl`. The transaction writes the
proxy's environment file and restarts it; the proxy's unit `Wants` bitcoind.
Inside the proxy, `App.Run` owns the servers and the poller; the request
handlers and the poller share the upstream client.

The charm writes the node's arguments, asks the node over the RPC port they pin,
and publishes what it learnt; the monitor asks the same port on behalf of
Prometheus.

### Not modelled

* Proxy flag and environment parsing, logging and middleware, the Prometheus
  relation: they keep no state and have no protocol.
* Redaction of metadata: string processing over arbitrary text.
* In `service-args`, unbalanced quotes and double quotes (a double quote ends the
  quoted value of the environment file), and quoted values of which a word has
  the name of an option that hardening drops (the value is cut in two).
* How bitcoind's JSON parser reads a call that repeats a member or spells its
  name in another case: `ProxyRequest` lets it read any method.
* The mock bitcoind, packaging and CI workflows: not part of the running system.
* The build and prerelease path of `release.yml`, and the proxy's own release
  assets: `CharmRelease` needs only the tag and the unified release.

## Modules

`ReleaseInstall` follows `install_release` call by call. `bin` is what
`BINARY_PATH` and `CLI_PATH` hold, `backup` and `kept` are the `.previous` files
and the keys of the `backups` dict, `cur` the destination the loops are at,
`wasRunning` and `errors` the locals of `_activate` and `_rollback`. The rounds
of `_swap_binaries` are two actions each (`SwapOut`, `SwapIn`), since a failure
or a kill between the two moves is the interesting one. Every call has a
failing alternative, so faults need no budget. `result` is `"ok"`, `"failed"`
(the original exception left), `"broken"` (a recovery error left) or
`"killed"`. A release stands for its version as `_version_parts` normalises it.

`AtomicRelease` is its abstract specification: a call replaces both binaries by
the requested release or changes nothing; only a recovery failure or a kill may
leave anything else. `ReleaseInstall!Atomic` is the refinement mapping.

`ConfigTransaction` is the `config-changed` hook. The ten tracked keys are
grouped by what the code tells apart (creds, args, release, pver, opts). A file
holds the values it was rendered from, so that "old", "new", "mixed" and "torn"
can be told apart; a service remembers what it read when it started. The steps
are the writes of `_write_config_generation` in order, the branches and checks
of `_activate_config_generation`, the commit, and each operation of
`_rollback_config_transaction`. Installing a release is one step that does what
`AtomicRelease` promises (with the broken outcome when two faults coincide).
Unit files and the monitor script are among the managed paths but do not depend
on config, and are left out; `daemon-reload` changes nothing that is tracked, but
the one of the rollback (`Reload`) is a step that may fail and is then among the
collected errors. A service that exits on the files it finds is restarted by
systemd over and over (`CrashLooping`), and each time its `Type=simple` unit is
active for a moment. `get_status` and `service_running` go by one such poll, so
what the code finds running is any set between the services that are up and
those plus the crash-looping ones (`SeenRunning`): in the snapshot, in the
installer, in the checks of the activation and in those of the rollback. `taint`
is a history variable: `"unfinished"` once a hook was killed or failed after its
transaction, or an operation of a rollback failed; `"race"` once systemd
restarted a service while a hook ran.

`CharmLifecycle` runs the handlers as sequences of commands. A command may
fail, with or without its effect, which ends the handler; `Finish` models ops
saving StoredState, `Raise` that it is not saved. The config transaction is one
command. `_update_status` is six steps, so that services change between its
checks. `raced` is the history of systemd restarting the proxy while a handler
runs, `stopped` that a stop succeeded without such a restart and no handler
that starts services was run since.

`ProxyRequest` is the life of concurrent requests: arrival with every kind of
body, parsing outcome, allowlist decision, forwarding, delivery to bitcoind,
response or silence, timeout before the headers or while the body is read,
client disconnect, reply, counters. A refused request counts its calls one by
one, each a step of its own; `labels` is the set of the calls (positions in the
body) that it still has to count. The proxy forwards the bytes of the body, not
what `rpc.Parse` made of them, and `encoding/json` matches the names of members
in any case and keeps the last of several. A call is therefore `exact` or not:
of a body that gives each member once and under its exact name every parser
reads the same method, of any other call bitcoind may read any method
(`Readings`).

`HealthPoller` has discrete time: `pollInterval` and the client timeout are
`Interval` and `Timeout` units, and the ticker's channel keeps one tick.

`ProxyLifecycle` is `App.Run` with both `Server.Start` goroutines, the channel,
the signal, the shared shutdown deadline and the poller.

`MonitorExporter` is the exporter process: a scrape is accepted, refreshes the
gauges unless the last refresh is too recent, and is answered. The RPC calls of
`refresh_metrics` are the values of `pc`, grouped where nothing tells them apart;
`blocks`, `complete` and `latest` are what the early, the late and the
latest-block gauges show. A call returns, is retried, or raises an exception of
one of the clauses of `refresh_app`. `age` and `elapsed` are differences of
wall-clock times, so setting the clock back makes them smaller.

`NodeMetadata` is `harden_service_args` on command lines with repeated and
negated options, the node that systemd starts from the environment file of the
moment, bitcoind's own reading of its settings (external: the last value of the
command line wins, a negation clears a list), and `collect_upload_metadata` as a
sequence of steps. The text of the arguments is cut up three times: by `split()`
when the charm hardens it, by systemd, which removes quotes, and by shlex after
the charm has joined the arguments of the process with spaces. A word is what
`split()` finds, and its `how` says what the other two make of it: a `plain` word
is the same option each time; a `quoted` one is an option to bitcoind which
`_opt_name` does not recognise; one `inside` a longer quoted argument is an option
to the charm, both when it hardens and when it collects, and none to bitcoind. A
line is a function from positions to words (a dropped word leaves its position
empty, and only the order of positions is ever read); settings of `bitcoin.conf`
(`ConfFiles`, how `conf`) are at positions up to 0, so that the command line comes
later. `of` and `same` remember which node a collection began with and whether
it is still the same process. A configuration has service arguments,
`disable-wallet`, credentials or none, and a valid, invalid or absent upload
secret.

`CharmRelease` is the publication of the charm across three workflows. Commits
of main are numbers, an artifact is the run and the attempt that built it and
stands for its digest. Each step of `charm-release.yml` is an action, each
verification script a guard (that of the commit, `VerifySource`, belongs to the
step that starts the job, since a commit of main stays on main); `Fail` ends a job
at any step, and starting it again is a new job with the same inputs. The checks of the version
(`CheckVersion`) and the push of the tag (`PushTag`) are different jobs of
`release.yml`, between which another run may push. `gh release upload --clobber`
deletes and then uploads each asset, the two assets in any order (`Delete`,
`Attach`). The provenance's `channel` is the one the job is about to move; it is
written before that and may come untrue, so `ProvenanceTruthful` does not speak
of it. `torn` is the history of releases whose two
assets were not attached together. A run off main may pass without testing
anything, since the workflow file on a branch may be changed; only runs on main
count as tested.

`MC*` modules only name model values and sets of configs and bodies; the theorems
about a module `M` are in `M_proofs`, those about the two modules of goroutines
of the proxy process, `HealthPoller` and `ProxyLifecycle`, in
`ProxyProcess_proofs`, which extends both.

## Runs

Passing:

* `release_install`: two releases, any archive contents, any failing step, a
  kill anywhere, node crashes. Every archive the checks distinguish (member
  missing, of another version, digest listed or not) is among the inputs; a
  third release would play the same role as the second.
* `config_transaction`: deployments with and without a release; a full
  rotation, a proxy option, node arguments that do not start, proxy options with
  which the proxy keeps exiting. Up to two command
  faults (the second one falls into a rollback) and two config changes, one that is
  committed or rolled back and one that meets what it left behind.
* `config_faults`: the same hook on units that run, with commands failing, hooks
  killed, status updates failing and services dying, two faults in all, and the
  fairness needed for `Converges`.
* `charm_lifecycle`: five handler runs plus any number of update-status, one
  disturbance (a failing command, a crash of any service, a change of the
  collector), a log of two entries so that it rolls over. What was stopped is
  followed through config changes, upgrades and systemd's restarts.
* `proxy_requests`: two requests at a time; bodies that are too large, cut off
  or malformed, single calls and batches with allowed, extended, refused and
  missing methods, with and without ids, exact or readable in another way.
* `health_poller`: a timeout longer than the interval, as in the program.
* `proxy_lifecycle`: up to two requests in flight on each server, all orders.
* `monitor_exporter`: scrapes in any rhythm, new blocks at any point, up to
  `MaxFaults` failing or retried calls, signals, kills and clock changes.
* `node_metadata`: service arguments that repeat, negate or contradict the
  pinned ones, in quotes or not, or name options inside a quoted value; a
  `bitcoin.conf` without and with options of its own; two configuration changes with or without a restart, two faults
  (a death of the node, a failing command).
* `charm_release`: two commits of which the second keeps VERSION, two
  integration runs with one re-run, two publications that may overlap, with any
  combination of commit, run and digest.

Each of these ends in a violation, and shows that something written in the
repository does not hold of the code (see `findings` in `PROJECT.json`):

* `config_cleared_version`: clearing `version` together with another node key
  commits without restarting or proving the node.
* `monitor_crash`: an exception that is meant to end the monitor's process is
  caught by the WSGI server, which answers 500 and goes on.

### Other differences between text and code

Met while modelling; the models follow the code, and no run is spent on them.
The first two are why the histories `taint` and `raced` appear in properties.

* `src/charm.py:144`, "all host-facing config changes as one rollback-safe
  generation": a service that has crashed and waits for `RestartSec` when
  `_capture_config_transaction` (`utils.py:201`) reads the running set is not
  restarted by the hook; if systemd starts it between the snapshot and the
  write of its file, it stays on the previous generation. `ServicesCurrent`
  excepts the taint `"race"`.
* `charmcraft.yaml:169`, stop-node "stops the Bitcoin client service, the
  monitor and the rpc-proxy": bitcoind is stopped before the proxy
  (`charm.py:354`); a crashed proxy that systemd restarts in between pulls
  bitcoind up again through `Wants=`. `StopStops` excepts `raced`.
* `bitcoin-rpc-proxy/README.md:141`, 504 for an upstream timeout: a timeout
  while the body is read (`client.go:110`) is answered 502.
* `docs/release.md:48`, "creates a GitHub provenance release": the provenance is
  attached to the unified release.
* `docs/metadata.md:19`, "effective non-secret flags": if bitcoind is not found
  when its command line is read (`bitcoin_metadata.py:355`), the fallback is the
  environment file as one quoted word, which yields no flags, and the ports are
  the defaults of the network rather than those in effect.
* `bitcoin_metadata.py:416`: a refused document is reported as invalid
  credentials whenever a secret is configured, whatever was refused.
* `collect_upload_metadata` returns its errors as text, but `systemctl show`
  failing (`utils.py:671`) raises `CalledProcessError`, which it does not catch.
* `utils.py:312`, "prove each prior service recovered": of the proxy and the
  monitor the proof is one active poll, which a unit that keeps exiting passes in
  a lucky moment. `CommitProves` excuses such a service (`Excused`); the node,
  which must also answer an RPC call after a restart, only if it could not run
  before either.
* `utils.py:543`, "strips any additive -rpcbind/-rpcallowip": one in quotes
  (`'-rpcbind=...'`) is not recognised by `_opt_name` and reaches bitcoind, since
  systemd removes the quotes of `$BITCOIND_CLI_ARGS`. `ListensWhereDialled` makes
  no claim on the lists then; `-rpcport` is safe, because the pinned one is last.
* `utils.py:616`: the arguments of the process are joined with spaces and split
  again (`bitcoin_metadata.py:280`), so that an option inside an argument, as in
  `-blocknotify='cmd -port=1 %s'`, is reported as one of the node's.
  `DescribesNode` excepts a port that is named there.
* `README.md:172` and `188`: options in `bitcoin.conf` are neither hardened nor
  collected, and neither property claims anything of what it sets. (Line 188
  says that they override `service-args`; for options that take one value
  bitcoind lets the command line win.)
* `bitcoin-rpc-proxy/internal/rpc/rpc.go:57`: the filter decides on its own
  reading of a body that it forwards as it came. `OnlyAllowedReachUpstream` claims
  what bitcoind reads of exact calls only.
* `README.md:164`, "An operator-stopped service remains stopped after
  replacement": a change that also concerns the proxy restarts it, and its unit
  `Wants` bitcoind. With everything stopped it holds (`StaysStopped`).
* `README.md:260`, a log of "every lifecycle hook and action it runs": an entry
  is lost with the rest of StoredState when its handler raises.
* `bitcoin-rpc-proxy/README.md:109`, "starting" until a "successful poll":
  `/health` says degraded after a first poll that failed.
* `internal/app/app.go:100`, "shutdown guarantees both have returned": it is the
  receive that follows which waits for the Start goroutines.
* `src/constants.py:82`, credentials for "the health probe only": `Forward` also
  adds them to client requests without `Authorization`. `ProxyRequest` leaves
  the header out, since nothing the proxy decides depends on it.

### Fairness

* `ReleaseInstall`, `ConfigTransaction`, `CharmLifecycle`: the running handler
  makes progress, because HTTP requests and RPC polls carry timeouts and
  `systemctl` is bounded by systemd's job timeout; Juju runs pending hooks,
  retries failed ones and keeps firing update-status; systemd keeps its
  `Restart=` promise. Faults and operator actions are never fair.
* `HealthPoller`, `ProxyLifecycle`, `ProxyRequest`: goroutines are scheduled and
  timers fire. bitcoind is not assumed to answer, nor clients to finish sending.
  That a reply gets written assumes that the client takes it or its connection
  breaks, since the server sets no `WriteTimeout`.
* `MonitorExporter`: Prometheus keeps scraping, each RPC call returns or fails
  within its timeout, time passes, and systemd (`Restart=always`) or the charm
  starts the process again.
* `NodeMetadata`: update-status keeps firing, a collection ends because its
  calls carry timeouts, systemd starts the node again. That a configuration is
  ever applied is not assumed.
* `CharmRelease` has safety properties only: nothing makes an operator publish.

### Bounds

All bounds are constants: `MaxFaults` and `MaxChanges` (`ConfigTransaction`),
`MaxRuns`, `MaxFaults` and `LogMax` (`CharmLifecycle`), `Interval` and `Timeout`
(`HealthPoller`), `RateLimit`, `MaxBack`, `MaxHeight`, `MaxScrapes` and
`MaxFaults` (`MonitorExporter`), `MaxChanges` and `MaxFaults` (`NodeMetadata`),
`MaxRuns`, `MaxReruns` and `MaxReleases` (`CharmRelease`), the requests and bodies
of `MCProxyRequest`, the contents of `bitcoin.conf` (`ConfFiles`) in
`MCNodeMetadata`. The chain of `MonitorExporter` only grows: the exporter
treats a reorganised block as any new hash. Two faults are
needed for a failure inside a rollback; no step of the code reacts differently
to a third. Deadlock is checked except where the system may really stop: in
`CharmLifecycle` once the unit was removed, in `ProxyRequest` once all requests
of the instance are answered, in `CharmRelease` once the runs are used up.

## Proofs

Eight modules hold theorems; each proves an inductive invariant `IInv`
(`Invariance`; `PollerInv` for the poller) and from it the properties of the module's runs. A theorem holds
for every value of the constants that satisfies the module's `ASSUME`s, so for any
number of configs, requests, jobs, faults or runs; TLC evaluates the same
`ASSUME`s on the instances of the runs. The invariants were checked with TLC on
the runs' instances before they were proved.

The invariants of the runs are all proved, and so are the action properties and
the refinement of `AtomicRelease`; what is left to TLC is liveness.

None of the properties below is inductive as the run states it: each speaks of a moment, the end of a call, an idle unit, a reply,
and what decides it lies several steps back. The invariants say what each step
of the code has established by then.

### Release installer (`ReleaseInstall_proofs`)

Assumes only that `Absent` is not a release. `TypeCorrect`, `BothOrNeitherHolds`,
`PreviousKeptHolds` (invariants), `ValidatedHolds`, `StoppedHolds`,
`ServiceRecoveredHolds` (action properties) and `Refinement` (`Spec => AtomicSpec`).

* `ArchiveInv`: past validation, both members of the archive are the requested
  release;
* `FilesInv`: for each program counter, the contents of the two destinations and
  the backups in terms of `entry.bin`, `archive` and `cur`, and that `kept` is
  the set of destinations already visited;
* `ResultInv`: a call in progress has no result yet, and no error was collected
  before the swap;
* `ProcInv`: the service is up exactly if it has a process;
* `ServiceInv`: for each step, whether the node is down, what a process that is
  up was started from, and that `wasRunning` is false for a node that was down
  when the call began.

### Config transaction (`ConfigTransaction_proofs`)

Assumes that the bounds are numbers; configs, initial configs and the kinds of
faults are arbitrary. Every property of the two passing runs but `Converges`:

* `TypeOKHolds`, `HostMatchesStoredHolds`, `CommitWritesHolds`: without further
  hypotheses. `FileInv` follows the files: in the try block those before the
  current write match `cfg` and the others `stored`, the one being written may be
  torn; the snapshot matches `stored`; in the rollback the paths before `next`
  match the snapshot unless an operation failed.
* `ServicesCurrentHolds`: under `NeverCleared`, that no config the operator sets
  has an empty version. The code gives no such guarantee otherwise: with the
  version cleared it restarts no node, whatever else changed, which is what the
  run `config_cleared_version` shows. `ServInv` says which services may be behind
  the files at each step of the activation, in the rollback and between hooks;
  a service that systemd restarted meanwhile is the taint `"race"`.
* `CommitProvesHolds` (under `NeverCleared`), `RollbackRestoresHolds`,
  `ProxyChangeSparesNodeHolds`: under `Deathless`, that services do not die of
  themselves, as in the run that checks them. A service that crashes just after
  its readiness was proven is down at the commit whatever the code does. `UpInv`
  and `BackInv` say which services are up again at each step, or keep exiting and
  were seen active: the node only if it kept exiting before the transaction, since
  a restarted node has answered an RPC call (`NotLooping`).

### Charm handlers (`CharmLifecycle_proofs`)

For any size of the log and any number of runs and disturbances.

* `StopStopsHolds`, `StatusTruthfulHolds`: what a handler has left to do is the
  end of its list of commands (`TodoInv`), so the command at its head says how far
  it is; `StopInv` says which services a stopping handler has stopped for good,
  `SeenInv` and `CheckInv` what the status check knows if nothing happened to the
  host since it began.
* `StaysStoppedHolds`: while the operator's stop is in force, the handlers that
  run hold no starting command (`HarmlessHandlers`), so that every service is down
  for good rather than waiting to be restarted (`StoppedInv`); a proxy that is
  waiting would be brought up by systemd and pull the node with it.

### RPC proxy (`ProxyRequest_proofs`, `ProxyProcess_proofs`)

* `OnlyAllowedReachUpstreamHolds`, `ReplyFitsHolds`, `AnsweredAreCountedHolds`:
  for any finite set of concurrent requests, any allowlist, and bodies of any of
  the kinds whose calls form a sequence of any length. `WireInv` ties what is on
  the wire, of which the goroutine may have despaired, to the body that policy
  let through, and to what bitcoind may read in it; `CountInv` compares the counter with the requests that have passed
  the step that counts them, and finite cardinalities bound it by the answered
  ones and those in flight.
* `RefusalsCountedHolds`: under the same assumptions. The property speaks of the
  moment when nothing is in flight; the counters are in between at every other
  one. `LoopInv` says that the calls a request has left to count are among those
  policy refused, all of them when its loop begins and none once it replies;
  `RefusedInv` that each counter is the number of
  refused calls of its method, over all requests, that are counted already: a
  step of one request moves one call of one method over, which is where the
  cardinalities of the other methods and requests must be seen not to change.
  `BodiesAssumption` adds that a body which is neither a call nor a batch has no
  calls, as `rpc.Parse` returns none with an error.
* `ReadersAgreeHolds`, `FreshHolds`: for any interval and timeout. `StaleInv`
  splits the time for which a report may be wrong over the places of the
  goroutine: the ticker's phase, one interval, the time since the request.
  `PollerEndsOnce`: the goroutine ends only after its context was cancelled, and
  for good, which is what `ProxyLifecycle` takes for granted of its `poller`.
* `ErrorsReportedHolds`, `NothingLeftRunningHolds`: for any number of requests.
  `ResultInv` accounts for every result: consumed plus queued are the Start calls
  that returned, and an error is in the channel or held by Run.

### Monitor exporter (`MonitorExporter_proofs`)

`LagExplainedHolds`, `TornIsCountedHolds`: for any rate limit and chain.
`ChainInv` and `CacheInv` follow a block through the refresh and the cache;
`AgeInv` says that gauges which are torn and not counted are too old to be served
without a refresh, unless the clock was set back.

### Arguments and metadata (`NodeMetadata_proofs`)

`ListensWhereDialledHolds`, `DescribesNodeHolds`: for service arguments of any
length and content, quoted or not, any contents of `bitcoin.conf`, any number of
configuration changes, deaths and failing commands. Half of the proof is about
the operators: `HardenIs` and `RenderIs` say what a rendered line holds at each
position, `StartedIs` what the node then goes by, `HardenedListens` what bitcoind
makes of it, and `FlagsTellPorts` that the collector, which takes the last
positive flag, finds the port that bitcoind takes, which reads the last
occurrence. The invariant then needs only that the node runs some rendered line
(`NodeInv`), that answer and flags of a collection are of the node it began with
for as long as that node has run (`CollectInv`), and the property itself
(`DocInv`). What the properties except is listed among the differences above.
`ConfigsAssumption` leaves out arguments whose last `-port` is a negation or 0
(bitcoind refuses to start on port 0, and the collector, which skips negations,
would report another port) and words of a quoted value that have the name of an
option which hardening drops.

### Release pipeline (`CharmRelease_proofs`)

`PublishedWasTestedHolds`, `ProvenanceTruthfulHolds`, `AttachedAgreeHolds`: for any
nonempty history of main, any channels and any overlapping jobs. What a check of
a job established can be extended but not taken back: tags and final releases
stay, a run keeps its commit, artifacts, test results and revisions are only
added. `JobInv` says what a job at each step has established, `RevisionInv` and
`ProvenanceInv` carry it to what is published, `PartialInv` and `SettledInv` follow
the two assets of a release.

### Only model-checked

Liveness: `CallEnds`, `Converges`, `StatusSettles`, `Stops`, `Terminates`,
`EveryRequestAnswered`, `CatchesUp` and `Settles`. The prover handles neither
fairness nor `ENABLED`. Induction over data is out of its reach as well; it is
not needed, because loops over sequences are modelled by positions, so that what
a loop has done so far is a set.

## Plan

1. Done: all modules and runs above; the proofs of every safety property that a
   passing run checks.
2. Could be modelled further: the config transaction composed with the installer
   step by step rather than through its abstract specification; the proxy's
   release assets.
