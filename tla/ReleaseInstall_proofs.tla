----------------------- MODULE ReleaseInstall_proofs -----------------------
(***************************************************************************)
(* Proofs about ReleaseInstall, for every set of releases.                 *)
(*                                                                         *)
(* The outcome of a call is decided many steps before it ends, so the      *)
(* invariant says, for each step, where the four copies (destination and   *)
(* backup of each binary) stand, and what systemd was last told.           *)
(***************************************************************************)
EXTENDS ReleaseInstall, TLAPS

Before(b) == IF b = LastBin THEN {FirstBin} ELSE {}

BeforeSwap == {"fetch", "checksum", "extract", "validate", "probe", "stop", "recover"}
AfterSwap == {"start", "verify", "stopNew", "return"}

\* The archive has passed every check once a step can touch the host.
ArchiveInv ==
    /\ pc \in {"extract", "validate"} => archive.listed
    /\ pc \in Steps \ {"fetch", "checksum", "extract", "validate"} => Accepted

\* Not yet taken out: the previous file is in place and has no backup.
Untouched(b) == bin[b] = entry.bin[b] /\ backup[b] = Absent

\* Taken out: the previous file, if there was one, is the backup.
Saved(b) == backup[b] = entry.bin[b]

FilesInv ==
    /\ pc \in BeforeSwap => kept = {}
    /\ pc = "swapOut" => kept = Before(cur)
    /\ pc = "swapIn" => kept = Before(cur) \cup {cur} /\ bin[cur] = Absent
    /\ pc \in AfterSwap => kept = Bins
    /\ pc \in BeforeSwap \cup AfterSwap \cup {"swapOut", "swapIn"} =>
          \A b \in Bins : IF b \in kept THEN Saved(b) ELSE Untouched(b)
    /\ pc \in AfterSwap => \A b \in Bins : bin[b] = req
    /\ pc \in {"swapOut", "swapIn"} => \A b \in Before(cur) : bin[b] = req
    /\ pc = "restore" =>
          /\ \A b \in Before(cur) : bin[b] = entry.bin[b]
          /\ \A b \in Bins \ Before(cur) : IF b \in kept THEN Saved(b) ELSE Untouched(b)
    /\ pc \in {"startOld", "raise"} /\ ~errors => bin = entry.bin
    /\ pc \in BeforeSwap \cup {"swapOut"} /\ cur = FirstBin => bin = entry.bin
    /\ pc \in BeforeSwap => cur = FirstBin

ResultInv ==
    /\ pc # "idle" => result = "none"
    /\ pc \in BeforeSwap => ~errors

ProcInv == svc = "up" <=> proc # Absent

RunsInstalled == svc = "up" => proc = bin["bitcoind"]

EntrySound == entry.proc \in {Absent, entry.bin["bitcoind"]}

\* What systemd was last told, on the path that stopped a running node.
ServiceInv ==
    /\ pc \in {"stop", "recover", "start", "verify", "stopNew", "startOld"} => wasRunning
    /\ pc \in {"fetch", "checksum", "extract", "validate", "probe"} => ~wasRunning
    /\ pc \in BeforeSwap /\ EntrySound => RunsInstalled
    /\ pc \in {"swapOut", "swapIn", "start"} /\ wasRunning => svc = "down"
    /\ pc \in {"verify", "return"} /\ wasRunning => svc # "down" /\ RunsInstalled
    /\ pc \in {"restore", "startOld"} /\ wasRunning /\ ~errors => svc = "down"
    /\ pc = "raise" /\ wasRunning /\ ~errors => svc # "down" /\ RunsInstalled
    /\ pc # "idle" /\ entry.svc = "down" => svc = "down" /\ ~wasRunning

IInv ==
    /\ TypeOK
    /\ ArchiveInv
    /\ FilesInv
    /\ ResultInv
    /\ ProcInv
    /\ ServiceInv
    /\ BothOrNeither
    /\ PreviousKept

-----------------------------------------------------------------------------
\* Every step keeps each variable in its type.
LEMMA TypeStep == TypeOK /\ [Next]_vars => TypeOK'
<1> SUFFICES ASSUME TypeOK, [Next]_vars PROVE TypeOK'
  OBVIOUS
<1> USE AbsentAssumption DEF TypeOK, host, locals, Bins, Contents, PerBin, NoFiles, FirstBin, LastBin, Archives, NoArchive, Steps, Results
<1>1. CASE Fetch BY <1>1 DEF Fetch, Raise, Goto
<1>2. CASE Checksum BY <1>2 DEF Checksum, Raise, Goto
<1>3. CASE Extract BY <1>3 DEF Extract, Raise, Goto
<1>4. CASE Validate BY <1>4 DEF Validate, Raise, Goto
<1>5. CASE Probe BY <1>5 DEF Probe, Goto
<1>6. CASE StopForActivation BY <1>6 DEF StopForActivation, Stopped, Goto
<1>7. CASE RecoverAfterStop BY <1>7 DEF RecoverAfterStop, Started, Raise
<1>8. CASE SwapOut
  <2>1. bin' \in PerBin /\ backup' \in PerBin
    BY <1>8 DEF SwapOut
  <2>2. kept' \in SUBSET Bins /\ cur' \in Bins
    BY <1>8 DEF SwapOut
  <2> QED
    BY <1>8, <2>1, <2>2 DEF SwapOut, Goto
<1>9. CASE SwapIn BY <1>9 DEF SwapIn, Goto
<1>10. CASE StartNew BY <1>10 DEF StartNew, Started, Goto
<1>11. CASE VerifyRunningVersion BY <1>11 DEF VerifyRunningVersion, Goto
<1>12. CASE StopReplacement BY <1>12 DEF StopReplacement, Stopped, Goto
<1>13. CASE RestoreRound
  <2>1. bin' \in PerBin /\ backup' \in PerBin
    BY <1>13 DEF RestoreRound
  <2>2. cur' \in Bins /\ pc' \in Steps
    BY <1>13 DEF RestoreRound, RestoreDone, AfterRestore, Goto
  <2>3. errors' \in BOOLEAN
    BY <1>13 DEF RestoreRound
  <2> QED
    BY <1>13, <2>1, <2>2, <2>3 DEF RestoreRound
<1>14. CASE StartPrevious
  <2>1. svc' \in {"up", "down", "waiting"} /\ proc' \in Contents
    BY <1>14 DEF StartPrevious, Started
  <2>2. errors' \in BOOLEAN
    BY <1>14 DEF StartPrevious
  <2> QED
    BY <1>14, <2>1, <2>2 DEF StartPrevious, Goto
<1>15. CASE Reraise BY <1>15 DEF Reraise, Raise
<1>16. CASE Return BY <1>16 DEF Return, Raise
<1>17. CASE Call BY <1>17 DEF Call, Goto
<1>18. CASE Killed BY <1>18 DEF Killed, Raise
<1>19. CASE Operator BY <1>19 DEF Operator, Started, Stopped
<1>20. CASE ProcessDies BY <1>20 DEF ProcessDies
<1>21. CASE AutoRestart BY <1>21 DEF AutoRestart, Started
<1>22. CASE UNCHANGED vars BY <1>22 DEF vars
<1> QED
  BY <1>1, <1>2, <1>3, <1>4, <1>5, <1>6, <1>7, <1>8, <1>9, <1>10, <1>11, <1>12, <1>13, <1>14, <1>15, <1>16, <1>17, <1>18, <1>19, <1>20, <1>21, <1>22 DEF Next, Step

\* No step reaches the host with an archive that was not accepted.
LEMMA ArchiveStep == IInv /\ [Next]_vars => ArchiveInv'
<1> SUFFICES ASSUME IInv, [Next]_vars PROVE ArchiveInv'
  OBVIOUS
<1> USE AbsentAssumption DEF IInv, TypeOK, host, locals, Bins, Contents, PerBin, NoFiles, FirstBin, LastBin, Archives, NoArchive, Steps, ArchiveInv, Accepted
<1>1. CASE Fetch BY <1>1 DEF Fetch, Raise, Goto
<1>2. CASE Checksum BY <1>2 DEF Checksum, Raise, Goto
<1>3. CASE Extract BY <1>3 DEF Extract, Raise, Goto
<1>4. CASE Validate BY <1>4 DEF Validate, Raise, Goto
<1>5. CASE Probe BY <1>5 DEF Probe, Goto
<1>6. CASE StopForActivation BY <1>6 DEF StopForActivation, Stopped, Goto
<1>7. CASE RecoverAfterStop BY <1>7 DEF RecoverAfterStop, Started, Raise
<1>8. CASE SwapOut BY <1>8 DEF SwapOut, Goto
<1>9. CASE SwapIn BY <1>9 DEF SwapIn, Goto
<1>10. CASE StartNew BY <1>10 DEF StartNew, Started, Goto
<1>11. CASE VerifyRunningVersion BY <1>11 DEF VerifyRunningVersion, Goto
<1>12. CASE StopReplacement BY <1>12 DEF StopReplacement, Stopped, Goto
<1>13. CASE RestoreRound BY <1>13 DEF RestoreRound, RestoreDone, AfterRestore, Goto
<1>14. CASE StartPrevious BY <1>14 DEF StartPrevious, Started, Goto
<1>15. CASE Reraise BY <1>15 DEF Reraise, Raise
<1>16. CASE Return BY <1>16 DEF Return, Raise
<1>17. CASE Call BY <1>17 DEF Call, Goto
<1>18. CASE Killed BY <1>18 DEF Killed, Raise
<1>19. CASE Operator BY <1>19 DEF Operator, Started, Stopped
<1>20. CASE ProcessDies BY <1>20 DEF ProcessDies
<1>21. CASE AutoRestart BY <1>21 DEF AutoRestart, Started
<1>22. CASE UNCHANGED vars BY <1>22 DEF vars
<1> QED
  BY <1>1, <1>2, <1>3, <1>4, <1>5, <1>6, <1>7, <1>8, <1>9, <1>10, <1>11, <1>12, <1>13, <1>14, <1>15, <1>16, <1>17, <1>18, <1>19, <1>20, <1>21, <1>22 DEF Next, Step

\* Each step moves the four copies as FilesInv says.
LEMMA FilesStep == IInv /\ TypeOK' /\ [Next]_vars => FilesInv'
<1> SUFFICES ASSUME IInv /\ TypeOK', [Next]_vars PROVE FilesInv'
  OBVIOUS
<1> USE AbsentAssumption DEF IInv, TypeOK, host, locals, Bins, Contents, PerBin, NoFiles, FirstBin, LastBin, Archives, NoArchive, Steps, ArchiveInv, Accepted, FilesInv, Before, BeforeSwap, AfterSwap, Untouched, Saved, ResultInv
<1>1. CASE Fetch BY <1>1 DEF Fetch, Raise, Goto
<1>2. CASE Checksum BY <1>2 DEF Checksum, Raise, Goto
<1>3. CASE Extract BY <1>3 DEF Extract, Raise, Goto
<1>4. CASE Validate BY <1>4 DEF Validate, Raise, Goto
<1>5. CASE Probe BY <1>5 DEF Probe, Goto
<1>6. CASE StopForActivation BY <1>6 DEF StopForActivation, Stopped, Goto
<1>7. CASE RecoverAfterStop BY <1>7 DEF RecoverAfterStop, Started, Raise
<1>8. CASE SwapOut
  <2>1. CASE pc' = "swapIn"
    <3>1. cur' = cur /\ kept' = Before(cur) \cup {cur} /\ entry' = entry /\ req' = req
      BY <1>8, <2>1 DEF SwapOut, Goto
    <3>2. bin'[cur] = Absent /\ backup'[cur] = bin[cur]
      BY <1>8, <2>1 DEF SwapOut, Goto
    <3>3. \A b \in Bins \ {cur} : bin'[b] = bin[b] /\ backup'[b] = backup[b]
      BY <1>8, <2>1 DEF SwapOut, Goto
    <3> QED
      BY <1>8, <2>1, <3>1, <3>2, <3>3 DEF SwapOut
  <2>2. CASE pc' = "restore"
    BY <1>8, <2>2 DEF SwapOut, Goto
  <2> QED
    BY <1>8, <2>1, <2>2 DEF SwapOut, Goto
<1>9. CASE SwapIn BY <1>9 DEF SwapIn, Goto
<1>10. CASE StartNew BY <1>10 DEF StartNew, Started, Goto
<1>11. CASE VerifyRunningVersion BY <1>11 DEF VerifyRunningVersion, Goto
<1>12. CASE StopReplacement BY <1>12 DEF StopReplacement, Stopped, Goto
<1>13. CASE RestoreRound BY <1>13 DEF RestoreRound, RestoreDone, AfterRestore, Goto
<1>14. CASE StartPrevious BY <1>14 DEF StartPrevious, Started, Goto
<1>15. CASE Reraise BY <1>15 DEF Reraise, Raise
<1>16. CASE Return BY <1>16 DEF Return, Raise
<1>17. CASE Call BY <1>17 DEF Call, Goto
<1>18. CASE Killed BY <1>18 DEF Killed, Raise
<1>19. CASE Operator BY <1>19 DEF Operator, Started, Stopped
<1>20. CASE ProcessDies BY <1>20 DEF ProcessDies
<1>21. CASE AutoRestart BY <1>21 DEF AutoRestart, Started
<1>22. CASE UNCHANGED vars BY <1>22 DEF vars
<1> QED
  BY <1>1, <1>2, <1>3, <1>4, <1>5, <1>6, <1>7, <1>8, <1>9, <1>10, <1>11, <1>12, <1>13, <1>14, <1>15, <1>16, <1>17, <1>18, <1>19, <1>20, <1>21, <1>22 DEF Next, Step

\* A call in progress has no result yet.
LEMMA ResultStep == IInv /\ TypeOK' /\ [Next]_vars => ResultInv'
<1> SUFFICES ASSUME IInv /\ TypeOK', [Next]_vars PROVE ResultInv'
  OBVIOUS
<1> USE AbsentAssumption DEF IInv, TypeOK, host, locals, Bins, Contents, PerBin, NoFiles, FirstBin, LastBin, ResultInv, BeforeSwap, Steps
<1>1. CASE Fetch BY <1>1 DEF Fetch, Raise, Goto
<1>2. CASE Checksum BY <1>2 DEF Checksum, Raise, Goto
<1>3. CASE Extract BY <1>3 DEF Extract, Raise, Goto
<1>4. CASE Validate BY <1>4 DEF Validate, Raise, Goto
<1>5. CASE Probe BY <1>5 DEF Probe, Goto
<1>6. CASE StopForActivation BY <1>6 DEF StopForActivation, Stopped, Goto
<1>7. CASE RecoverAfterStop BY <1>7 DEF RecoverAfterStop, Started, Raise
<1>8. CASE SwapOut BY <1>8 DEF SwapOut, Goto
<1>9. CASE SwapIn BY <1>9 DEF SwapIn, Goto
<1>10. CASE StartNew BY <1>10 DEF StartNew, Started, Goto
<1>11. CASE VerifyRunningVersion BY <1>11 DEF VerifyRunningVersion, Goto
<1>12. CASE StopReplacement BY <1>12 DEF StopReplacement, Stopped, Goto
<1>13. CASE RestoreRound BY <1>13 DEF RestoreRound, RestoreDone, AfterRestore, Goto
<1>14. CASE StartPrevious BY <1>14 DEF StartPrevious, Started, Goto
<1>15. CASE Reraise BY <1>15 DEF Reraise, Raise
<1>16. CASE Return BY <1>16 DEF Return, Raise
<1>17. CASE Call BY <1>17 DEF Call, Goto
<1>18. CASE Killed BY <1>18 DEF Killed, Raise
<1>19. CASE Operator BY <1>19 DEF Operator, Started, Stopped
<1>20. CASE ProcessDies BY <1>20 DEF ProcessDies
<1>21. CASE AutoRestart BY <1>21 DEF AutoRestart, Started
<1>22. CASE UNCHANGED vars BY <1>22 DEF vars
<1> QED
  BY <1>1, <1>2, <1>3, <1>4, <1>5, <1>6, <1>7, <1>8, <1>9, <1>10, <1>11, <1>12, <1>13, <1>14, <1>15, <1>16, <1>17, <1>18, <1>19, <1>20, <1>21, <1>22 DEF Next, Step

\* Each step leaves the service as ServiceInv says.
LEMMA ServiceStep == IInv /\ TypeOK' /\ [Next]_vars => (ProcInv /\ ServiceInv)'
<1> SUFFICES ASSUME IInv /\ TypeOK', [Next]_vars PROVE (ProcInv /\ ServiceInv)'
  OBVIOUS
<1> USE AbsentAssumption DEF IInv, TypeOK, host, locals, Bins, Contents, PerBin, NoFiles, FirstBin, LastBin, ProcInv, ServiceInv, RunsInstalled, EntrySound, FilesInv, BeforeSwap, AfterSwap, Before, ArchiveInv, Accepted, Steps, Archives
<1>1. CASE Fetch BY <1>1 DEF Fetch, Raise, Goto
<1>2. CASE Checksum BY <1>2 DEF Checksum, Raise, Goto
<1>3. CASE Extract BY <1>3 DEF Extract, Raise, Goto
<1>4. CASE Validate BY <1>4 DEF Validate, Raise, Goto
<1>5. CASE Probe BY <1>5 DEF Probe, Goto
<1>6. CASE StopForActivation BY <1>6 DEF StopForActivation, Stopped, Goto
<1>7. CASE RecoverAfterStop BY <1>7 DEF RecoverAfterStop, Started, Raise
<1>8. CASE SwapOut BY <1>8 DEF SwapOut, Goto
<1>9. CASE SwapIn BY <1>9 DEF SwapIn, Goto
<1>10. CASE StartNew BY <1>10 DEF StartNew, Started, Goto
<1>11. CASE VerifyRunningVersion BY <1>11 DEF VerifyRunningVersion, Goto
<1>12. CASE StopReplacement BY <1>12 DEF StopReplacement, Stopped, Goto
<1>13. CASE RestoreRound BY <1>13 DEF RestoreRound, RestoreDone, AfterRestore, Goto
<1>14. CASE StartPrevious BY <1>14 DEF StartPrevious, Started, Goto
<1>15. CASE Reraise BY <1>15 DEF Reraise, Raise
<1>16. CASE Return BY <1>16 DEF Return, Raise
<1>17. CASE Call BY <1>17 DEF Call, Goto
<1>18. CASE Killed BY <1>18 DEF Killed, Raise
<1>19. CASE Operator BY <1>19 DEF Operator, Started, Stopped
<1>20. CASE ProcessDies BY <1>20 DEF ProcessDies
<1>21. CASE AutoRestart BY <1>21 DEF AutoRestart, Started
<1>22. CASE UNCHANGED vars BY <1>22 DEF vars
<1> QED
  BY <1>1, <1>2, <1>3, <1>4, <1>5, <1>6, <1>7, <1>8, <1>9, <1>10, <1>11, <1>12, <1>13, <1>14, <1>15, <1>16, <1>17, <1>18, <1>19, <1>20, <1>21, <1>22 DEF Next, Step

\* Each step keeps the previous release and, when it ends a call, its promise.
LEMMA OutcomeStep == IInv /\ TypeOK' /\ [Next]_vars => BothOrNeither' /\ PreviousKept'
<1> SUFFICES ASSUME IInv /\ TypeOK', [Next]_vars PROVE BothOrNeither' /\ PreviousKept'
  OBVIOUS
<1> USE AbsentAssumption DEF IInv, TypeOK, host, locals, Bins, Contents, PerBin, NoFiles, FirstBin, LastBin, BothOrNeither, PreviousKept, FilesInv, BeforeSwap, AfterSwap, Before, Untouched, Saved, ResultInv, Steps, Results
<1>1. CASE Fetch BY <1>1 DEF Fetch, Raise, Goto
<1>2. CASE Checksum BY <1>2 DEF Checksum, Raise, Goto
<1>3. CASE Extract BY <1>3 DEF Extract, Raise, Goto
<1>4. CASE Validate BY <1>4 DEF Validate, Raise, Goto
<1>5. CASE Probe BY <1>5 DEF Probe, Goto
<1>6. CASE StopForActivation BY <1>6 DEF StopForActivation, Stopped, Goto
<1>7. CASE RecoverAfterStop BY <1>7 DEF RecoverAfterStop, Started, Raise
<1>8. CASE SwapOut BY <1>8 DEF SwapOut, Goto
<1>9. CASE SwapIn BY <1>9 DEF SwapIn, Goto
<1>10. CASE StartNew BY <1>10 DEF StartNew, Started, Goto
<1>11. CASE VerifyRunningVersion BY <1>11 DEF VerifyRunningVersion, Goto
<1>12. CASE StopReplacement BY <1>12 DEF StopReplacement, Stopped, Goto
<1>13. CASE RestoreRound BY <1>13 DEF RestoreRound, RestoreDone, AfterRestore, Goto
<1>14. CASE StartPrevious BY <1>14 DEF StartPrevious, Started, Goto
<1>15. CASE Reraise BY <1>15 DEF Reraise, Raise
<1>16. CASE Return BY <1>16 DEF Return, Raise
<1>17. CASE Call BY <1>17 DEF Call, Goto
<1>18. CASE Killed BY <1>18 DEF Killed, Raise
<1>19. CASE Operator BY <1>19 DEF Operator, Started, Stopped
<1>20. CASE ProcessDies BY <1>20 DEF ProcessDies
<1>21. CASE AutoRestart BY <1>21 DEF AutoRestart, Started
<1>22. CASE UNCHANGED vars BY <1>22 DEF vars
<1> QED
  BY <1>1, <1>2, <1>3, <1>4, <1>5, <1>6, <1>7, <1>8, <1>9, <1>10, <1>11, <1>12, <1>13, <1>14, <1>15, <1>16, <1>17, <1>18, <1>19, <1>20, <1>21, <1>22 DEF Next, Step

-----------------------------------------------------------------------------
\* The invariant holds when the charm has not called install_release yet.
LEMMA InitIInv == Init => IInv
<1> SUFFICES ASSUME Init PROVE IInv
  OBVIOUS
<1> USE AbsentAssumption DEF Init, Bins, Contents, PerBin, NoFiles, FirstBin, Archives,
        NoArchive, Steps, Results
<1>1. TypeOK
  BY DEF TypeOK
<1>2. ArchiveInv /\ ResultInv /\ BothOrNeither /\ PreviousKept
  BY DEF ArchiveInv, ResultInv, BothOrNeither, PreviousKept, BeforeSwap
<1>3. FilesInv /\ ProcInv /\ ServiceInv
  BY DEF FilesInv, ProcInv, ServiceInv, BeforeSwap, AfterSwap
<1> QED
  BY <1>1, <1>2, <1>3 DEF IInv

\* IInv is inductive, and so holds throughout.
THEOREM Invariance == Spec => []IInv
<1>1. IInv /\ [Next]_vars => IInv'
  <2> SUFFICES ASSUME IInv, [Next]_vars PROVE IInv'
    OBVIOUS
  <2>1. TypeOK'
    BY TypeStep DEF IInv
  <2> QED
    BY <2>1, ArchiveStep, FilesStep, ResultStep, ServiceStep, OutcomeStep DEF IInv
<1> QED
  BY InitIInv, <1>1, PTL DEF Spec

\* Every variable of the installer keeps its type.
THEOREM TypeCorrect == Spec => []TypeOK
<1>1. IInv => TypeOK
  BY DEF IInv
<1> QED
  BY <1>1, Invariance, PTL

\* install_release replaces both binaries or neither: after a return both
\* paths hold the requested release, after an exception with no recovery error
\* both hold what they held before the call.
THEOREM BothOrNeitherHolds == Spec => []BothOrNeither
<1>1. IInv => BothOrNeither
  BY DEF IInv
<1> QED
  BY <1>1, Invariance, PTL

\* At every step of a call the previous binaries are still on disk, in place
\* or as backups.
THEOREM PreviousKeptHolds == Spec => []PreviousKept
<1>1. IInv => PreviousKept
  BY DEF IInv
<1> QED
  BY <1>1, Invariance, PTL

\* No call touches a binary or stops the node before the download was verified
\* and both staged binaries reported the requested version.
THEOREM ValidatedHolds == Spec => ValidatedBeforeInterruption
<1> DEFINE A == pc # "idle" /\ (bin' # bin \/ (svc # "down" /\ svc' = "down")) => Accepted
<1>1. IInv /\ [Next]_vars => [A]_vars
  <2> SUFFICES ASSUME IInv, Next, pc # "idle",
                      bin' # bin \/ (svc # "down" /\ svc' = "down")
               PROVE Accepted
    OBVIOUS
  <2>1. pc \in Steps \ {"fetch", "checksum", "extract", "validate"}
    BY DEF IInv, TypeOK, Steps, Next, Step, host, locals, Fetch, Checksum, Extract,
           Validate, Call, Killed, Operator, ProcessDies, AutoRestart, Started, Probe,
           StopForActivation, RecoverAfterStop, SwapOut, SwapIn, StartNew,
           VerifyRunningVersion, StopReplacement, RestoreRound, StartPrevious,
           Reraise, Return
  <2> QED
    BY <2>1 DEF IInv, ArchiveInv
<1> QED
  BY Invariance, <1>1, PTL DEF Spec, ValidatedBeforeInterruption

\* A call never starts a node that was stopped when the call began.
THEOREM StoppedHolds == Spec => StoppedStaysStopped
<1> DEFINE A == pc # "idle" /\ entry.svc = "down" => svc' = "down"
<1>1. IInv /\ [Next]_vars => [A]_vars
  <2> SUFFICES ASSUME IInv, Next, pc # "idle", entry.svc = "down"
               PROVE svc' = "down"
    OBVIOUS
  <2>1. svc = "down" /\ ~wasRunning
    BY DEF IInv, ServiceInv
  <2>2. pc \notin {"stop", "recover", "start", "verify", "stopNew", "startOld"}
    BY <2>1 DEF IInv, ServiceInv
  <2> QED
    BY <2>1, <2>2 DEF Next, Step, host, locals, Fetch, Checksum, Extract, Validate, Call,
       Killed, Operator, ProcessDies, AutoRestart, Probe, StopForActivation,
       RecoverAfterStop, SwapOut, SwapIn, StartNew, VerifyRunningVersion,
       StopReplacement, RestoreRound, StartPrevious, Reraise, Return
<1> QED
  BY Invariance, <1>1, PTL DEF Spec, StoppedStaysStopped

\* A node that was running when activation began is handed back running (or
\* about to be restarted by systemd) on what is installed, unless the recovery
\* itself reported an error or the hook was killed.
THEOREM ServiceRecoveredHolds == Spec => ServiceRecovered
<1> DEFINE A == /\ pc # "idle" /\ pc' = "idle"
                /\ result' \in {"ok", "failed"}
                /\ wasRunning
                /\ entry.proc \in {Absent, entry.bin["bitcoind"]}
                => svc' # "down" /\ (svc' = "up" => proc' = bin'["bitcoind"])
<1>1. IInv /\ [Next]_vars => [A]_vars
  <2> SUFFICES ASSUME IInv, Next, pc # "idle", pc' = "idle",
                      result' \in {"ok", "failed"}, wasRunning, EntrySound
               PROVE svc' # "down" /\ (svc' = "up" => proc' = bin'["bitcoind"])
    BY DEF EntrySound
  <2>1. \/ RecoverAfterStop \/ Reraise \/ Return
        \/ Fetch \/ Checksum \/ Extract \/ Validate
    BY DEF Next, Step, Call, Killed, Raise, Operator, ProcessDies, AutoRestart, Probe,
           StopForActivation, SwapOut, SwapIn, StartNew, VerifyRunningVersion,
           StopReplacement, RestoreRound, RestoreDone, AfterRestore, StartPrevious, Goto
  <2>2. CASE RecoverAfterStop
    BY <2>2 DEF RecoverAfterStop, Started, Raise, IInv, ServiceInv, RunsInstalled,
                BeforeSwap, TypeOK
  <2>3. CASE Reraise
    BY <2>3 DEF Reraise, Raise, IInv, ServiceInv, RunsInstalled, host
  <2>4. CASE Return
    BY <2>4 DEF Return, Raise, IInv, ServiceInv, RunsInstalled, host
  <2>5. CASE Fetch \/ Checksum \/ Extract \/ Validate
    <3>1. ~wasRunning
      BY <2>5 DEF Fetch, Checksum, Extract, Validate, IInv, ServiceInv, TypeOK
    <3> QED
      BY <3>1
  <2> QED
    BY <2>1, <2>2, <2>3, <2>4, <2>5
<1> QED
  BY Invariance, <1>1, PTL DEF Spec, ServiceRecovered

\* install_release implements AtomicRelease: seen between calls, the two
\* binaries change together to the requested release or not at all.
THEOREM Refinement == Spec => AtomicSpec
<1> USE DEF Atomic!Bins, Atomic!Contents, Bins, Contents, PerBin
<1>1. Init => Atomic!Init
  BY DEF Init, Atomic!Init
<1>2. IInv /\ IInv' /\ [Next]_vars => [Atomic!Next]_(Atomic!vars)
  <2> SUFFICES ASSUME IInv, IInv', [Next]_vars PROVE [Atomic!Next]_(Atomic!vars)
    OBVIOUS
  <2>1. CASE Call
    BY <2>1 DEF Call, Goto, host, Atomic!Next, Atomic!Begin
  <2>2. CASE pc # "idle" /\ pc' = "idle"
    <3>1. result' \in {"ok", "failed", "broken", "killed"} /\ req' = req /\ entry' = entry
      BY <2>2 DEF Next, Step, Fetch, Checksum, Extract, Validate, Probe, StopForActivation,
         RecoverAfterStop, SwapOut, SwapIn, StartNew, VerifyRunningVersion,
         StopReplacement, RestoreRound, RestoreDone, AfterRestore, StartPrevious, Reraise,
         Return, Call, Killed, Operator, ProcessDies, AutoRestart, Raise, Goto, vars
    <3>2. CASE result' = "ok"
      BY <2>2, <3>1, <3>2 DEF IInv, BothOrNeither, Atomic!Next, Atomic!Commit
    <3>3. CASE result' = "failed"
      BY <2>2, <3>1, <3>3 DEF IInv, BothOrNeither, Atomic!Next, Atomic!Abort
    <3>4. CASE result' \in {"broken", "killed"}
      BY <2>2, <3>1, <3>4 DEF IInv, TypeOK, Atomic!Next, Atomic!Damage
    <3> QED
      BY <3>1, <3>2, <3>3, <3>4
  <2>3. CASE pc # "idle" /\ pc' # "idle"
    <3>1. ~Call /\ ~Operator /\ ~Killed /\ ~Reraise /\ ~Return /\ ~RecoverAfterStop
      BY <2>3 DEF Call, Operator, Killed, Reraise, Return, RecoverAfterStop, Raise
    <3>2. req' = req /\ entry' = entry /\ result' = result
      BY <2>3, <3>1 DEF Next, Step, Fetch, Checksum, Extract, Validate, Probe,
         StopForActivation, SwapOut, SwapIn, StartNew, VerifyRunningVersion,
         StopReplacement, RestoreRound, StartPrevious, ProcessDies, AutoRestart, Raise,
         vars, locals
    <3> QED
      BY <2>3, <3>2 DEF Atomic!vars
  <2>4. CASE pc = "idle" /\ ~Call
    BY <2>4 DEF Next, Step, Fetch, Checksum, Extract, Validate, Probe, StopForActivation,
       RecoverAfterStop, SwapOut, SwapIn, StartNew, VerifyRunningVersion, StopReplacement,
       RestoreRound, StartPrevious, Reraise, Return, Killed, Operator, ProcessDies,
       AutoRestart, vars, host, locals, Atomic!vars
  <2> QED
    BY <2>1, <2>2, <2>3, <2>4
<1> QED
  BY <1>1, <1>2, Invariance, PTL DEF Spec, AtomicSpec, Atomic!Spec

=============================================================================
