--------------------------- MODULE ReleaseInstall ---------------------------
(***************************************************************************)
(* bitcoin.install_release: fetch, verify, stage and activate one Bitcoin  *)
(* Core release, putting the previous one back when activation fails.      *)
(*                                                                         *)
(* The module follows the function step by step.  Every call that can      *)
(* raise has a failing alternative, so no fault budget is needed: a call   *)
(* takes finitely many steps.  Around it move the service manager (the     *)
(* unit is Restart=always: a process that dies is started again), the node *)
(* process (it may die at any time), the operator (start/stop between      *)
(* calls) and whoever kills the hook process.                              *)
(*                                                                         *)
(* A release stands for its version as _version_parts normalises it.       *)
(***************************************************************************)
CONSTANTS Releases,     \* release versions that can be installed
          Absent        \* "no file", "no process", "no answer"

ASSUME AbsentAssumption == Absent \notin Releases

Bins == {"bitcoind", "cli"}
Contents == Releases \cup {Absent}
PerBin == [Bins -> Contents]
NoFiles == [b \in Bins |-> Absent]

VARIABLES
    bin,          \* contents of BINARY_PATH and CLI_PATH
    svc,          \* systemd's view: "up", "down", or "waiting" to auto-restart
    proc,         \* release the running bitcoind was started from
    pc,           \* next step of the call
    req,          \* the `version` argument
    archive,      \* the downloaded tarball: its two members and whether its
                  \* digest is the one SHA256SUMS lists
    backup,       \* the .previous files in the stage directory
    kept,         \* keys of the `backups` dict
    cur,          \* the destination the swap or the restore is working on
    wasRunning,   \* local of _activate
    errors,       \* _rollback collected an error
    result,       \* how the last call ended
    entry         \* history: bin, svc and proc when the call began

host == <<bin, svc, proc>>
locals == <<req, archive, backup, kept, cur, wasRunning, errors>>
vars == <<host, pc, locals, result, entry>>

FirstBin == "bitcoind"
LastBin == "cli"

Archives == [members : PerBin, listed : BOOLEAN]
NoArchive == [members |-> NoFiles, listed |-> FALSE]

Steps == {"fetch", "checksum", "extract", "validate", "probe", "stop",
          "recover", "swapOut", "swapIn", "start", "verify", "stopNew",
          "restore", "startOld", "return", "raise"}
Results == {"none", "ok", "failed", "broken", "killed"}

\* Every variable has its type.
TypeOK ==
    /\ bin \in PerBin
    /\ svc \in {"up", "down", "waiting"}
    /\ proc \in Contents
    /\ pc \in Steps \cup {"idle"}
    /\ req \in Contents
    /\ archive \in Archives
    /\ backup \in PerBin
    /\ kept \in SUBSET Bins
    /\ cur \in Bins
    /\ wasRunning \in BOOLEAN
    /\ errors \in BOOLEAN
    /\ result \in Results
    /\ entry \in [bin : PerBin, svc : {"up", "down", "waiting"}, proc : Contents]

\* A host between two calls: whatever is on disk, and a service that is
\* stopped, runs the installed bitcoind, or waits for one to appear.
Init ==
    /\ bin \in PerBin
    /\ \/ svc = "down" /\ proc = Absent
       \/ svc = "up" /\ proc = bin["bitcoind"] /\ proc # Absent
       \/ svc = "waiting" /\ proc = Absent
    /\ pc = "idle"
    /\ req = Absent
    /\ archive = NoArchive
    /\ backup = NoFiles
    /\ kept = {}
    /\ cur = FirstBin
    /\ wasRunning = FALSE
    /\ errors = FALSE
    /\ result = "none"
    /\ entry = [bin |-> bin, svc |-> svc, proc |-> proc]

-----------------------------------------------------------------------------
(* systemd, as the charm uses it: `systemctl` is run with check=True.      *)

\* `systemctl start` of a Type=simple unit succeeds once it has forked: with
\* no executable the unit goes straight into the auto-restart delay.
Started ==
    IF svc = "up"
    THEN UNCHANGED <<svc, proc>>
    ELSE /\ svc' = IF bin["bitcoind"] = Absent THEN "waiting" ELSE "up"
         /\ proc' = bin["bitcoind"]

Stopped == svc' = "down" /\ proc' = Absent

\* The process dies by itself; Restart=always makes the unit wait.
ProcessDies ==
    /\ svc = "up"
    /\ svc' = "waiting"
    /\ proc' = Absent
    /\ UNCHANGED <<bin, pc, locals, result, entry>>

\* RestartSec elapses.
AutoRestart ==
    /\ svc = "waiting"
    /\ bin["bitcoind"] # Absent
    /\ Started
    /\ UNCHANGED <<bin, pc, locals, result, entry>>

-----------------------------------------------------------------------------
(* The call.                                                               *)

Goto(label) == pc' = label

\* An exception that leaves install_release.  The stage directory, and with
\* it every .previous file, is removed on the way out.
Raise(how) ==
    /\ pc' = "idle"
    /\ result' = how
    /\ backup' = NoFiles
    /\ UNCHANGED <<req, archive, kept, cur, wasRunning, errors, entry>>

\* install_release(version, ...) with a version: without one it returns at once
\* and changes nothing.
Call ==
    /\ pc = "idle"
    /\ req' \in Releases
    /\ entry' = [bin |-> bin, svc |-> svc, proc |-> proc]
    /\ archive' = NoArchive
    /\ backup' = NoFiles
    /\ kept' = {}
    /\ cur' = FirstBin
    /\ wasRunning' = FALSE
    /\ errors' = FALSE
    /\ result' = "none"
    /\ Goto("fetch")
    /\ UNCHANGED host

\* Both downloads.  The publisher decides what the tarball holds, so its
\* members may be missing or of another release than its name says.
Fetch ==
    /\ pc = "fetch"
    /\ \/ /\ archive' \in Archives
          /\ Goto("checksum")
          /\ UNCHANGED <<req, backup, kept, cur, wasRunning, errors,
                         result, entry>>
       \/ Raise("failed")
    /\ UNCHANGED host

\* Mutant: a digest that does not match makes the call try another release.
ChecksumFallsBack ==
    /\ pc = "checksum"
    /\ IF archive.listed
       THEN Goto("extract") /\ UNCHANGED <<locals, result, entry>>
       ELSE /\ Goto("fetch")
            /\ req' \in Releases
            /\ UNCHANGED <<archive, backup, kept, cur, wasRunning, errors, result, entry>>
    /\ UNCHANGED host

Checksum ==
    /\ pc = "checksum"
    /\ IF archive.listed
       THEN Goto("extract") /\ UNCHANGED <<locals, result, entry>>
       ELSE Raise("failed")
    /\ UNCHANGED host

\* Both members must be regular files of the archive.
Extract ==
    /\ pc = "extract"
    /\ \/ /\ \A b \in Bins : archive.members[b] # Absent
          /\ Goto("validate")
          /\ UNCHANGED <<locals, result, entry>>
       \/ Raise("failed")
    /\ UNCHANGED host

\* Mutant: only the daemon is asked for its version.
ValidateDaemonOnly ==
    /\ pc = "validate"
    /\ \/ /\ archive.members["bitcoind"] = req
          /\ Goto("probe")
          /\ UNCHANGED <<locals, result, entry>>
       \/ Raise("failed")
    /\ UNCHANGED host

\* Each staged binary is asked for its --version.
Validate ==
    /\ pc = "validate"
    /\ \/ /\ \A b \in Bins : archive.members[b] = req
          /\ Goto("probe")
          /\ UNCHANGED <<locals, result, entry>>
       \/ Raise("failed")
    /\ UNCHANGED host

Probe ==
    /\ pc = "probe"
    /\ wasRunning' = (svc = "up")
    /\ Goto(IF svc = "up" THEN "stop" ELSE "swapOut")
    /\ UNCHANGED <<host, req, archive, backup, kept, cur, errors, result,
                   entry>>

\* A systemctl that fails may or may not have stopped the unit.
StopForActivation ==
    /\ pc = "stop"
    /\ \/ Stopped /\ Goto("swapOut")
       \/ (Stopped \/ UNCHANGED <<svc, proc>>) /\ Goto("recover")
    /\ UNCHANGED <<bin, locals, result, entry>>

RecoverAfterStop ==
    /\ pc = "recover"
    /\ \/ Started /\ Raise("failed")
       \/ (Started \/ UNCHANGED <<svc, proc>>) /\ Raise("broken")
    /\ UNCHANGED bin

\* Mutant: the destination is not entered into `backups`.
SwapOutUnrecorded ==
    /\ pc = "swapOut"
    /\ backup' = [backup EXCEPT ![cur] = bin[cur]]
    /\ bin' = [bin EXCEPT ![cur] = Absent]
    /\ Goto("swapIn")
    /\ UNCHANGED <<svc, proc, req, archive, kept, cur, wasRunning, errors, result, entry>>

\* Mutant: the old file is unlinked instead of moved aside.
SwapOutUnlink ==
    /\ pc = "swapOut"
    /\ bin' = [bin EXCEPT ![cur] = Absent]
    /\ kept' = kept \cup {cur}
    /\ Goto("swapIn")
    /\ UNCHANGED <<svc, proc, req, archive, backup, cur, wasRunning, errors, result, entry>>

\* The first half of one round of _swap_binaries: the old file moves into the
\* stage directory and the backups dict remembers the destination.
SwapOut ==
    /\ pc = "swapOut"
    /\ \/ /\ backup' = [backup EXCEPT ![cur] = bin[cur]]
          /\ bin' = [bin EXCEPT ![cur] = Absent]
          /\ kept' = kept \cup {cur}
          /\ Goto("swapIn")
          /\ UNCHANGED cur
       \/ /\ bin[cur] # Absent
          /\ Goto("restore")
          /\ cur' = FirstBin
          /\ UNCHANGED <<bin, backup, kept>>
    /\ UNCHANGED <<svc, proc, req, archive, wasRunning, errors,
                   result, entry>>

\* Mutant: the node is started whether or not it was running before.
SwapInAlwaysStart ==
    /\ pc = "swapIn"
    /\ bin' = [bin EXCEPT ![cur] = archive.members[cur]]
    /\ IF cur = LastBin
       THEN Goto("start") /\ UNCHANGED cur
       ELSE Goto("swapOut") /\ cur' = LastBin
    /\ UNCHANGED <<svc, proc, req, archive, backup, kept, wasRunning, errors, result, entry>>

\* The second half: the staged file takes the destination's place.
SwapIn ==
    /\ pc = "swapIn"
    /\ \/ /\ bin' = [bin EXCEPT ![cur] = archive.members[cur]]
          /\ IF cur = LastBin
             THEN Goto(IF wasRunning THEN "start" ELSE "return") /\ UNCHANGED cur
             ELSE Goto("swapOut") /\ cur' = LastBin
       \/ /\ Goto("restore")
          /\ cur' = FirstBin
          /\ UNCHANGED bin
    /\ UNCHANGED <<svc, proc, req, archive, backup, kept, wasRunning, errors,
                   result, entry>>

StartNew ==
    /\ pc = "start"
    /\ \/ Started /\ Goto("verify")
       \/ (Started \/ UNCHANGED <<svc, proc>>) /\ Goto("stopNew")
    /\ UNCHANGED <<bin, locals, result, entry>>

\* Mutant: the timeout of the RPC poll escapes the handler that rolls back.
VerifyTimeoutEscapes ==
    /\ pc = "verify"
    /\ \/ proc = req /\ Goto("return") /\ UNCHANGED <<locals, result, entry>>
       \/ Raise("timeout")
    /\ UNCHANGED host

\* Mutant: the RPC poll has no deadline.
VerifyForever ==
    /\ pc = "verify"
    /\ proc = req
    /\ Goto("return")
    /\ UNCHANGED <<host, locals, result, entry>>

\* The RPC poll answers with the version of the process that runs, or never.
VerifyRunningVersion ==
    /\ pc = "verify"
    /\ \E answer \in {proc, Absent} :
          Goto(IF answer = req THEN "return" ELSE "stopNew")
    /\ UNCHANGED <<host, locals, result, entry>>

(* _rollback: each operation's exception is collected, the next one runs.  *)

StopReplacement ==
    /\ pc = "stopNew"
    /\ \/ Stopped /\ UNCHANGED errors
       \/ (Stopped \/ UNCHANGED <<svc, proc>>) /\ errors' = TRUE
    /\ cur' = FirstBin
    /\ Goto("restore")
    /\ UNCHANGED <<bin, req, archive, backup, kept, wasRunning, result,
                   entry>>

\* Mutant: rollback does not start the previous version.
AfterRestoreNoStart == "raise"

AfterRestore == IF wasRunning THEN "startOld" ELSE "raise"

RestoreDone ==
    IF cur = LastBin
    THEN Goto(AfterRestore) /\ UNCHANGED cur
    ELSE Goto("restore") /\ cur' = LastBin

\* One round of _restore, which visits the keys of `backups` only: unlink the
\* destination, move the backup there if there is one.  An exception in
\* either call abandons the rounds that are left.
RestoreRound ==
    /\ pc = "restore"
    /\ IF cur \notin kept
       THEN RestoreDone /\ UNCHANGED <<bin, backup, errors>>
       ELSE \/ /\ bin' = [bin EXCEPT ![cur] = backup[cur]]
               /\ backup' = [backup EXCEPT ![cur] = Absent]
               /\ RestoreDone
               /\ UNCHANGED errors
            \/ /\ \/ UNCHANGED bin
                  \/ backup[cur] # Absent /\ bin' = [bin EXCEPT ![cur] = Absent]
               /\ errors' = TRUE
               /\ Goto(AfterRestore)
               /\ UNCHANGED <<cur, backup>>
    /\ UNCHANGED <<svc, proc, req, archive, kept, wasRunning, result,
                   entry>>

StartPrevious ==
    /\ pc = "startOld"
    /\ \/ Started /\ UNCHANGED errors
       \/ (Started \/ UNCHANGED <<svc, proc>>) /\ errors' = TRUE
    /\ Goto("raise")
    /\ UNCHANGED <<bin, req, archive, backup, kept, cur, wasRunning,
                   result, entry>>

Reraise ==
    /\ pc = "raise"
    /\ Raise(IF errors THEN "broken" ELSE "failed")
    /\ UNCHANGED host

Return ==
    /\ pc = "return"
    /\ Raise("ok")
    /\ UNCHANGED host

-----------------------------------------------------------------------------
\* The hook process is killed.  What it had staged or backed up stays in a
\* directory no later call looks at.
Killed ==
    /\ pc # "idle"
    /\ Raise("killed")
    /\ UNCHANGED host

\* Between calls other handlers start and stop the node.
Operator ==
    /\ pc = "idle"
    /\ Started \/ Stopped
    /\ UNCHANGED <<bin, pc, locals, result, entry>>

Step ==
    \/ Fetch \/ Checksum \/ Extract \/ Validate
    \/ Probe \/ StopForActivation \/ RecoverAfterStop
    \/ SwapOut \/ SwapIn \/ StartNew \/ VerifyRunningVersion
    \/ StopReplacement \/ RestoreRound \/ StartPrevious
    \/ Reraise \/ Return

Next == Call \/ Step \/ Killed \/ Operator \/ ProcessDies \/ AutoRestart

Spec == Init /\ [][Next]_vars

\* Every call the function makes returns or raises: the HTTP requests and the
\* RPC poll carry timeouts, and systemctl is bounded by systemd's job timeout.
Fairness == WF_vars(Step) /\ WF_vars(AutoRestart)

FairSpec == Spec /\ Fairness
-----------------------------------------------------------------------------
(* Properties.                                                             *)

\* A call that returned installed the requested release under both paths; a
\* call that raised without a recovery error left both paths as it found them
\* (install_release: "restores both previous binaries").
BothOrNeither ==
    /\ result = "ok" => bin = [b \in Bins |-> req]
    /\ result = "failed" => bin = entry.bin

\* A node that was running when activation probed it is not left stopped by a
\* call that returned or that recovered, and if it is up it runs what
\* BINARY_PATH holds: the new release after success, the old one otherwise
\* (unless it ran something else already when the call began).
ServiceRecovered ==
    [][ /\ pc # "idle" /\ pc' = "idle"
        /\ result' \in {"ok", "failed"}
        /\ wasRunning
        /\ entry.proc \in {Absent, entry.bin["bitcoind"]}
        => svc' # "down" /\ (svc' = "up" => proc' = bin'["bitcoind"]) ]_vars

\* While a call is in progress the previous release is still on disk, at its
\* destination or as the .previous file the rollback would move back.
PreviousKept ==
    pc # "idle" => \A b \in Bins : entry.bin[b] \in {Absent, bin[b], backup[b]}

Accepted == archive.listed /\ \A b \in Bins : archive.members[b] = req

\* Every path of the stage directory that could be activated was checked: a
\* destination changes, or the node is stopped, only after the archive's
\* digest and the version of both members were accepted
\* ("Downloads and validation finish before service interruption").
ValidatedBeforeInterruption ==
    [][ pc # "idle" /\ (bin' # bin \/ (svc # "down" /\ svc' = "down")) => Accepted ]_vars

\* "A stopped service remains stopped": no call brings up a node that was
\* stopped when the call began.
StoppedStaysStopped ==
    [][ pc # "idle" /\ entry.svc = "down" => svc' = "down" ]_vars

\* A call in progress ends, whatever fails on the way.
CallEnds == pc # "idle" ~> pc = "idle"

\* The refinement mapping: a call in progress has not changed anything yet.
Atomic == INSTANCE AtomicRelease
    WITH installed <- IF pc = "idle" THEN bin ELSE entry.bin,
         busy <- pc # "idle"

\* install_release implements AtomicRelease: each call is atomic for whoever
\* looks at the two binaries between calls.
AtomicSpec == Atomic!Spec
=============================================================================
