------------------------ MODULE CharmRelease_proofs ------------------------
(***************************************************************************)
(* Proofs about CharmRelease, for any history of main, any number of       *)
(* channels, overlapping jobs and runs.                                    *)
(*                                                                         *)
(* What a channel serves was checked in five steps of one job, between     *)
(* which everything else may move.  The argument is that everything a      *)
(* check established can only be extended, never taken back: tags and      *)
(* final releases stay, a run keeps its commit, artifacts, test results    *)
(* and revisions are only added.  JobInv says what a job at each step has  *)
(* established.                                                            *)
(***************************************************************************)
EXTENDS CharmRelease, TLAPS

RunSteps == {"test", "upload", "diagnostics", "success", "failure"}
RunRecords == [head_branch : {"main", "branch"}, head_sha : Nat, attempt : Nat, step : RunSteps]
Artifacts == Nat \X Nat
Inputs == [sha : Nat, run : Nat, digest : Artifacts, channel : Channels]
JobSteps == {"idle", "unified", "run", "download", "digest", "upload", "attach", "release", "verify"}
JobRecords == [inputs : Inputs \cup {<<>>}, pc : JobSteps, file : Artifacts, revision : Nat,
               old : SUBSET Assets, todo : SUBSET Assets, alone : BOOLEAN]
Provenances == [digest : Artifacts, revision : Nat, channel : Channels \cup {"none"}, run : Nat, sha : Nat]
AssetRecords == [charm : Artifacts, provenance : Provenances]

GithubType ==
    /\ main \in Commits /\ cleared \in SUBSET Commits
    /\ tag \in [Versions -> Nat]
    /\ release \in [Versions -> {"none", "draft", "final"}]
    /\ runs \in Seq(RunRecords)
    /\ artifacts \in SUBSET Artifacts /\ tested \in SUBSET Artifacts
    /\ assets \in [Versions -> AssetRecords]
    /\ torn \in SUBSET Versions
    /\ reruns \in Nat /\ releases \in Nat

CharmhubType ==
    /\ revisions \in Seq(Artifacts)
    /\ channel \in [Channels -> Nat]

TypeInv == GithubType /\ CharmhubType /\ job \in [Jobs -> JobRecords]

\* Only a run on main whose matrix passed uploads, and what a run of main
\* uploaded was tested.
RunsInv ==
    /\ \A r \in DOMAIN runs : runs[r].head_branch = "main" =>
         /\ runs[r].head_sha \in 1..main
         /\ runs[r].step = "upload" => Built(r) \in tested
    /\ \A a \in artifacts :
         /\ a[1] \in DOMAIN runs
         /\ runs[a[1]].head_branch = "main" => a \in tested

\* What the steps of a job that are behind it have established.
Established(x) ==
    LET in == x.inputs
    IN  /\ x.pc # "idle" => in \in Inputs /\ in.run \in DOMAIN runs /\ in.sha \in 1..main
        /\ x.pc \notin {"idle", "unified"} =>
             tag[Version[in.sha]] = in.sha /\ release[Version[in.sha]] = "final"
        /\ x.pc \notin {"idle", "unified", "run"} =>
             runs[in.run].head_branch = "main" /\ runs[in.run].head_sha = in.sha
        /\ x.pc \in {"digest", "upload", "attach", "release", "verify"} =>
             x.file \in artifacts /\ x.file[1] = in.run
        /\ x.pc \in {"upload", "attach", "release", "verify"} => x.file = in.digest
        /\ x.pc \in {"attach", "release", "verify"} =>
             x.revision \in DOMAIN revisions /\ revisions[x.revision] = x.file

JobInv == \A j \in Jobs : Established(job[j])

\* An artifact that may be published.
Publishable(a) ==
    /\ a \in tested /\ a[1] \in DOMAIN runs
    /\ Source(a) \in 1..main
    /\ tag[Version[Source(a)]] = Source(a) /\ release[Version[Source(a)]] = "final"

RevisionInv ==
    /\ \A n \in DOMAIN revisions : Publishable(revisions[n])
    /\ \A ch \in Channels : channel[ch] # 0 => channel[ch] \in DOMAIN revisions

\* Provenance p on the release of v.
Truthful(p, v) ==
    /\ p.revision \in DOMAIN revisions /\ revisions[p.revision] = p.digest
    /\ p.digest[1] \in DOMAIN runs /\ p.run = p.digest[1]
    /\ p.sha = Source(p.digest) /\ p.sha = tag[v] /\ p.sha # 0

ProvenanceInv ==
    \A v \in Versions : assets[v].provenance # NoProvenance => Truthful(assets[v].provenance, v)

\* Job k has begun to replace the assets of the release of v.
Partial(k, v) == At(k, "attach") /\ job[k].old # Assets /\ ReleaseTag(k) = v
Settled(v) == v \notin torn /\ \A k \in Jobs : ~Partial(k, v)
\* A channel serves v, or a job that attached to v is about to release it.
Due(v) ==
    \/ \E k \in Jobs : job[k].pc \in {"release", "verify"} /\ ReleaseTag(k) = v
    \/ \E ch \in Channels : channel[ch] # 0 /\ Version[Source(revisions[channel[ch]])] = v

\* What a job attached stays in place until it attaches the rest, unless
\* another job came in between.
ProvenanceOf(x) ==
    [digest |-> x.inputs.digest, revision |-> x.revision, channel |-> x.inputs.channel,
     run |-> x.inputs.run, sha |-> x.inputs.sha]
InPlace(x) == x.pc = "attach" =>
    /\ x.old \subseteq x.todo /\ x.todo # {}
    /\ x.alone /\ "charm" \notin x.todo => assets[Version[x.inputs.sha]].charm = x.file
    /\ x.alone /\ "provenance" \notin x.todo => assets[Version[x.inputs.sha]].provenance = ProvenanceOf(x)

PartialInv == \A k \in Jobs : InPlace(job[k])

SettledInv ==
    \A v \in Versions : Settled(v) =>
        /\ assets[v].charm = assets[v].provenance.digest
        /\ Due(v) => assets[v].provenance # NoProvenance

IInv == TypeInv /\ RunsInv /\ JobInv /\ RevisionInv /\ ProvenanceInv /\ PartialInv /\ SettledInv

-----------------------------------------------------------------------------
\* The VERSION of a commit is one of Versions.
LEMMA VersionType == \A c \in Commits : Version[c] \in Versions
BY VersionAssumption DEF Versions, Commits

\* Replacing one element of a sequence.
LEMMA ReplaceElement ==
  ASSUME NEW S, NEW s \in Seq(S), NEW i \in DOMAIN s, NEW e \in S
  PROVE  [s EXCEPT ![i] = e] \in Seq(S) /\ DOMAIN [s EXCEPT ![i] = e] = DOMAIN s
OBVIOUS

\* The commits are a prefix of the natural numbers that starts with 1.
LEMMA CommitsAreNumbers == Commits = 1..Len(Version) /\ Len(Version) \in Nat \ {0}
BY VersionAssumption DEF Commits

\* A step of an integration run replaces its record by another one.
LEMMA RunStep ==
  ASSUME TypeInv, NEW r \in DOMAIN runs, Integrate(r)
  PROVE  \E e \in RunRecords :
            /\ runs' = [runs EXCEPT ![r] = e]
            /\ e.head_branch = runs[r].head_branch /\ e.head_sha = runs[r].head_sha
            /\ e.step = "upload" => e.attempt = runs[r].attempt /\ runs[r].step = "test"
<1>1. runs[r] \in RunRecords
  BY DEF TypeInv, GithubType
<1> USE DEF RunRecords, RunSteps
<1>2. ASSUME NEW step \in RunSteps, step = "upload" => runs[r].step = "test", Goto(r, step)
      PROVE  \E e \in RunRecords :
                /\ runs' = [runs EXCEPT ![r] = e]
                /\ e.head_branch = runs[r].head_branch /\ e.head_sha = runs[r].head_sha
                /\ e.step = "upload" => e.attempt = runs[r].attempt /\ runs[r].step = "test"
  <2> DEFINE e == [runs[r] EXCEPT !.step = step]
  <2>1. e \in RunRecords
    BY <1>1
  <2>2. runs' = [runs EXCEPT ![r] = e]
    BY <1>2 DEF Goto
  <2> QED
    BY <1>1, <1>2, <2>1, <2>2
<1>3. CASE RerunIntegration(r)
  <2> DEFINE d == [runs[r] EXCEPT !.step = "test"]
             e == [d EXCEPT !.attempt = d.attempt + 1]
  <2>1. d \in RunRecords /\ d.step = "test" /\ d.head_branch = runs[r].head_branch /\ d.head_sha = runs[r].head_sha
    BY <1>1
  <2>2. runs' = [runs EXCEPT ![r] = e]
    BY <1>3 DEF RerunIntegration
  <2> HIDE DEF d
  <2>3. e \in RunRecords /\ e.step = d.step /\ e.head_branch = d.head_branch /\ e.head_sha = d.head_sha
    BY <2>1
  <2> HIDE DEF e
  <2> QED
    BY <2>1, <2>2, <2>3
<1> QED
  BY <1>2, <1>3 DEF Integrate, IntegrationTest, UploadArtifact, IntegrationEnds

\* The steps that change neither a job nor Charmhub keep the types.
LEMMA GithubTypeStep ==
  ASSUME TypeInv,
         \/ Push \/ (\E c \in Commits : CheckVersion(c) \/ PushTag(c)) \/ (\E v \in Versions : PublishRelease(v))
         \/ (\E branch \in {"main", "branch"} : DispatchIntegration(branch))
         \/ (\E r \in DOMAIN runs : Integrate(r))
  PROVE  TypeInv'
<1> USE DEF TypeInv, GithubType, CharmhubType, charmhub, github, integration, count
<1>1. CASE Push
  BY <1>1, CommitsAreNumbers DEF Push
<1>2. ASSUME NEW c \in Commits, CheckVersion(c) \/ PushTag(c) PROVE TypeInv'
  <2>1. tag' \in [Versions -> Nat]
    BY <1>2, CommitsAreNumbers, VersionType DEF CheckVersion, PushTag
  <2>2. cleared' \in SUBSET Commits
    BY <1>2 DEF CheckVersion, PushTag
  <2>3. UNCHANGED <<main, release, integration, charmhub, assets, job, torn, count>>
    BY <1>2, Zenon DEF CheckVersion, PushTag
  <2> QED
    BY <2>1, <2>2, <2>3
<1>3. ASSUME NEW v \in Versions, PublishRelease(v) PROVE TypeInv'
  BY <1>3 DEF PublishRelease
<1>4. ASSUME NEW branch \in {"main", "branch"}, DispatchIntegration(branch) PROVE TypeInv'
  <2> DEFINE e == [head_branch |-> branch, head_sha |-> IF branch = "main" THEN main ELSE 0,
                   attempt |-> 1, step |-> "test"]
  <2>1. e \in RunRecords
    BY CommitsAreNumbers DEF RunRecords, RunSteps
  <2>2. runs' = Append(runs, e)
    BY <1>4 DEF DispatchIntegration
  <2>3. runs' \in Seq(RunRecords)
    BY <2>1, <2>2
  <2> QED
    BY <1>4, <2>3 DEF DispatchIntegration
<1>5. ASSUME NEW r \in DOMAIN runs, Integrate(r) PROVE TypeInv'
  <2>1. runs' \in Seq(RunRecords)
    <3> HIDE DEF TypeInv
    <3>1. PICK e \in RunRecords : runs' = [runs EXCEPT ![r] = e]
      BY <1>5, RunStep
    <3> QED
      BY <3>1, ReplaceElement DEF TypeInv
  <2>2. Built(r) \in Artifacts
    <3>1. runs[r] \in RunRecords /\ r \in Nat
      OBVIOUS
    <3> QED
      BY <3>1 DEF Built, Artifacts, RunRecords
  <2>3. artifacts' \in SUBSET Artifacts /\ tested' \in SUBSET Artifacts /\ reruns' \in Nat
    <3>1. artifacts' \in {artifacts, artifacts \cup {Built(r)}} /\ tested' \in {tested, tested \cup {Built(r)}}
      BY <1>5, Zenon DEF Integrate, IntegrationTest, UploadArtifact, RerunIntegration, IntegrationEnds
    <3>2. reruns' \in {reruns, reruns + 1}
      BY <1>5, Zenon DEF Integrate, IntegrationTest, UploadArtifact, RerunIntegration, IntegrationEnds
    <3> QED
      BY <2>2, <3>1, <3>2
  <2>4. UNCHANGED <<main, cleared, tag, release, revisions, channel, assets, job, torn, releases>>
    BY <1>5, Zenon DEF Integrate, IntegrationTest, UploadArtifact, RerunIntegration, IntegrationEnds
  <2> QED
    BY <2>1, <2>3, <2>4
<1> QED
  BY <1>1, <1>2, <1>3, <1>4, <1>5

-----------------------------------------------------------------------------
(* A job moves on.                                                         *)

\* Going on to the next step keeps the rest of the job.
LEMMA PcUpdate ==
  ASSUME NEW x \in JobRecords, NEW pc \in JobSteps
  PROVE  LET y == [x EXCEPT !.pc = pc]
         IN  /\ y \in JobRecords /\ y.pc = pc
             /\ y.inputs = x.inputs /\ y.file = x.file /\ y.revision = x.revision
             /\ y.old = x.old /\ y.todo = x.todo /\ y.alone = x.alone
BY DEF JobRecords

\* A job record after another job has interfered with it.
LEMMA AloneUpdate ==
  ASSUME NEW x \in JobRecords
  PROVE  LET y == [x EXCEPT !.alone = FALSE]
         IN  /\ y \in JobRecords /\ ~y.alone
             /\ y.inputs = x.inputs /\ y.file = x.file /\ y.revision = x.revision
             /\ y.old = x.old /\ y.todo = x.todo /\ y.pc = x.pc
BY DEF JobRecords

\* A job record after the artifact was downloaded.
LEMMA FileUpdate ==
  ASSUME NEW x \in JobRecords, NEW a \in Artifacts
  PROVE  LET y == [x EXCEPT !.pc = "digest", !.file = a]
         IN  /\ y \in JobRecords /\ y.pc = "digest" /\ y.file = a
             /\ y.inputs = x.inputs /\ y.revision = x.revision
             /\ y.old = x.old /\ y.todo = x.todo /\ y.alone = x.alone
BY DEF JobRecords, JobSteps

\* A job record after the charm was uploaded.
LEMMA RevisionUpdate ==
  ASSUME NEW x \in JobRecords, NEW n \in Nat
  PROVE  LET y == [x EXCEPT !.pc = "attach", !.revision = n, !.old = Assets, !.todo = Assets]
         IN  /\ y \in JobRecords /\ y.pc = "attach" /\ y.revision = n /\ y.old = Assets /\ y.todo = Assets
             /\ y.inputs = x.inputs /\ y.file = x.file /\ y.alone = x.alone
BY DEF JobRecords, JobSteps

\* The record of a job that is idle or has just been started.
LEMMA NewJob ==
  /\ Idle \in JobRecords /\ Idle.pc = "idle"
  /\ \A inputs \in Inputs :
       /\ Started(inputs) \in JobRecords /\ Started(inputs).pc = "unified"
       /\ Started(inputs).inputs = inputs
BY DEF JobRecords, Idle, Started, JobSteps, Artifacts, None

\* The actions of a job that replace its own record only.
Alone(j) ==
    \/ DispatchRelease(j) \/ Fail(j) \/ VerifyUnifiedRelease(j)
    \/ VerifyIntegrationRun(j) \/ Download(j) \/ VerifyDigest(j) \/ Upload(j) \/ UploadLost(j)
    \/ ReleaseRevision(j) \/ VerifyPublishedRevision(j)

\* Such an action replaces the job's record by a well-typed one.
LEMMA AloneStep ==
  ASSUME TypeInv, NEW j \in Jobs, Alone(j)
  PROVE  \E x \in JobRecords : job' = [job EXCEPT ![j] = x]
<1>1. job \in [Jobs -> JobRecords] /\ job[j] \in JobRecords
  BY DEF TypeInv
<1>2. ASSUME NEW pc \in JobSteps, job' = [job EXCEPT ![j].pc = pc]
      PROVE  \E x \in JobRecords : job' = [job EXCEPT ![j] = x]
  <2>1. [job[j] EXCEPT !.pc = pc] \in JobRecords
    BY <1>1, PcUpdate
  <2> QED
    BY <1>2, <2>1
<1>3. CASE job' = [job EXCEPT ![j] = Idle]
  BY <1>3, NewJob
<1>4. CASE DispatchRelease(j)
  <2>1. PICK sha \in 0..main, run \in DOMAIN runs, digest \in artifacts, ch \in Channels :
           job' = [job EXCEPT ![j] = Started([sha |-> sha, run |-> run, digest |-> digest, channel |-> ch])]
    BY <1>4 DEF DispatchRelease
  <2>2. sha \in Nat /\ run \in Nat /\ digest \in Artifacts
    BY CommitsAreNumbers DEF TypeInv, GithubType
  <2>3. [sha |-> sha, run |-> run, digest |-> digest, channel |-> ch] \in Inputs
    BY <2>2 DEF Inputs
  <2> QED
    BY <2>1, <2>3, NewJob
<1>5. CASE Download(j)
  <2>1. PICK a \in artifacts : job' = [job EXCEPT ![j].pc = "digest", ![j].file = a]
    BY <1>5 DEF Download
  <2>2. a \in Artifacts
    BY DEF TypeInv, GithubType
  <2>3. [job[j] EXCEPT !.pc = "digest", !.file = a] \in JobRecords
    BY <1>1, <2>2, FileUpdate
  <2>4. job' = [job EXCEPT ![j] = [job[j] EXCEPT !.pc = "digest", !.file = a]]
    BY <1>1, <2>1
  <2> QED
    BY <2>3, <2>4
<1>6. CASE Upload(j)
  <2>1. Len(revisions') \in Nat
    BY <1>6, <1>1 DEF Upload, TypeInv, CharmhubType, JobRecords
  <2>2. [job[j] EXCEPT !.pc = "attach", !.revision = Len(revisions'), !.old = Assets, !.todo = Assets] \in JobRecords
    BY <1>1, <2>1, RevisionUpdate
  <2> QED
    BY <1>6, <2>2 DEF Upload
<1> QED
  BY <1>2, <1>3, <1>4, <1>5, <1>6
     DEF Alone, Fail, VerifyUnifiedRelease, VerifyIntegrationRun, VerifyDigest, Verified,
         UploadLost, ReleaseRevision, VerifyPublishedRevision, JobSteps

\* A job changes nothing on GitHub but assets.
LEMMA ReleaseFrame ==
  ASSUME NEW j \in Jobs, Release(j)
  PROVE  UNCHANGED <<main, cleared, tag, release, runs, artifacts, tested>>
BY Zenon DEF Release, DispatchRelease, Fail, VerifyUnifiedRelease, VerifyIntegrationRun,
   Download, VerifyDigest, Verified, Upload, UploadLost, Attach, Delete, ReleaseRevision,
   VerifyPublishedRevision, github, integration

\* What a job whose commit was checked attaches, and to which release.
LEMMA AttachType ==
  ASSUME TypeInv, JobInv, NEW j \in Jobs, job[j].pc # "idle"
  PROVE  /\ Sha(j) \in Commits /\ ReleaseTag(j) \in Versions
         /\ job[j] \in JobRecords /\ job[j].file \in Artifacts /\ job[j].inputs \in Inputs
         /\ Provenance(j) \in Provenances
<1>1. job[j] \in JobRecords
  BY DEF TypeInv
<1>2. job[j].inputs \in Inputs /\ job[j].inputs.sha \in 1..main
  BY DEF JobInv, Established
<1>3. main \in 1..Len(Version)
  BY CommitsAreNumbers DEF TypeInv, GithubType
<1>4. Sha(j) \in Commits /\ ReleaseTag(j) \in Versions
  BY <1>2, <1>3, CommitsAreNumbers, VersionType DEF Sha, ReleaseTag
<1>5. job[j].file \in Artifacts /\ job[j].revision \in Nat
  BY <1>1 DEF JobRecords
<1>6. Provenance(j) \in Provenances
  BY <1>2, <1>5 DEF Provenance, Provenances, Inputs, Digest, Sha
<1> QED
  BY <1>1, <1>2, <1>4, <1>5, <1>6

\* y is x, or x that another job disturbed.
SameBut(x, y) ==
    /\ y.pc = x.pc /\ y.inputs = x.inputs /\ y.file = x.file /\ y.revision = x.revision
    /\ y.old = x.old /\ y.todo = x.todo
    /\ y.alone => x.alone

\* Attaching replaces one job's record and disturbs the jobs that are halfway.
LEMMA JobsUpdate ==
  ASSUME TypeInv, NEW j \in Jobs, NEW x \in JobRecords, Touch(j, x)
  PROVE  /\ job' \in [Jobs -> JobRecords] /\ job'[j] = x
         /\ \A k \in Jobs \ {j} : SameBut(job[k], job'[k]) /\ (k \in Halfway(j) => ~job'[k].alone)
<1> USE DEF Touch
<1>1. job \in [Jobs -> JobRecords]
  BY DEF TypeInv
<1>2. ASSUME NEW k \in Jobs, k # j
      PROVE  /\ job'[k] \in JobRecords /\ SameBut(job[k], job'[k])
             /\ k \in Halfway(j) => ~job'[k].alone
  <2>1. CASE k \in Halfway(j)
    <3>1. job'[k] = [job[k] EXCEPT !.alone = FALSE]
      BY <1>2, <2>1
    <3>2. job[k] \in JobRecords
      BY <1>1, <1>2
    <3> DEFINE y == [job[k] EXCEPT !.alone = FALSE]
    <3>3. /\ y \in JobRecords /\ ~y.alone /\ y.pc = job[k].pc /\ y.old = job[k].old /\ y.todo = job[k].todo
          /\ y.inputs = job[k].inputs /\ y.file = job[k].file /\ y.revision = job[k].revision
      BY <3>2, AloneUpdate
    <3> HIDE DEF y
    <3>4. job'[k] = y
      BY <3>1 DEF y
    <3> QED
      BY <3>3, <3>4, Zenon DEF SameBut
  <2>2. CASE k \notin Halfway(j)
    BY <1>1, <1>2, <2>2 DEF SameBut
  <2> QED
    BY <2>1, <2>2
<1>3. job'[j] = x
  OBVIOUS
<1>4. job' \in [Jobs -> JobRecords]
  BY <1>2, <1>3
<1> QED
  BY <1>2, <1>3, <1>4

\* Attaching replaces one asset of one release.
LEMMA AssetUpdate ==
  ASSUME assets \in [Versions -> AssetRecords], NEW v \in Versions, NEW asset \in Assets, NEW content,
         asset = "charm" => content \in Artifacts, asset = "provenance" => content \in Provenances,
         assets' = [assets EXCEPT ![v][asset] = content]
  PROVE  /\ assets' \in [Versions -> AssetRecords]
         /\ \A w \in Versions : w # v => assets'[w] = assets[w]
         /\ asset = "charm" => assets'[v].charm = content /\ assets'[v].provenance = assets[v].provenance
         /\ asset = "provenance" => assets'[v].provenance = content /\ assets'[v].charm = assets[v].charm
<1>1. CASE asset = "charm"
  BY <1>1 DEF AssetRecords
<1>2. CASE asset = "provenance"
  BY <1>2 DEF AssetRecords
<1> QED
  BY <1>1, <1>2 DEF Assets

\* What attaching an asset changes.
LEMMA AttachStep ==
  ASSUME TypeInv, JobInv, NEW j \in Jobs, NEW asset \in Assets, Attach(j, asset)
  PROVE  /\ job' \in [Jobs -> JobRecords]
         /\ assets' \in [Versions -> AssetRecords]
         /\ job'[j].pc = IF job[j].todo = {asset} THEN "release" ELSE "attach"
         /\ job'[j].old = job[j].old /\ job'[j].todo = job[j].todo \ {asset}
         /\ job'[j].alone = (job[j].alone /\ Halfway(j) = {})
         /\ job'[j].inputs = job[j].inputs /\ job'[j].file = job[j].file /\ job'[j].revision = job[j].revision
         /\ \A k \in Jobs \ {j} : SameBut(job[k], job'[k]) /\ (k \in Halfway(j) => ~job'[k].alone)
         /\ \A w \in Versions : w # ReleaseTag(j) => assets'[w] = assets[w]
         /\ asset = "charm" => /\ assets'[ReleaseTag(j)].charm = job[j].file
                               /\ assets'[ReleaseTag(j)].provenance = assets[ReleaseTag(j)].provenance
         /\ asset = "provenance" => /\ assets'[ReleaseTag(j)].provenance = Provenance(j)
                                    /\ assets'[ReleaseTag(j)].charm = assets[ReleaseTag(j)].charm
<1>1. job[j].pc = "attach"
  BY DEF Attach, At
<1>2. ReleaseTag(j) \in Versions /\ job[j] \in JobRecords /\ job[j].file \in Artifacts /\ Provenance(j) \in Provenances
  BY <1>1, AttachType
<1> DEFINE alone == job[j].alone /\ Halfway(j) = {}
           pc == IF job[j].todo = {asset} THEN "release" ELSE job[j].pc
           x == [job[j] EXCEPT !.todo = @ \ {asset}, !.alone = alone, !.pc = pc]
<1>3. /\ x \in JobRecords /\ x.old = job[j].old /\ x.todo = job[j].todo \ {asset} /\ x.alone = alone /\ x.pc = pc
      /\ x.inputs = job[j].inputs /\ x.file = job[j].file /\ x.revision = job[j].revision
  <2>1. alone \in BOOLEAN /\ pc \in JobSteps
    BY <1>2 DEF JobRecords, JobSteps
  <2> HIDE DEF alone, pc
  <2> QED
    BY <1>2, <2>1 DEF JobRecords
<1>4. Touch(j, x)
  BY Zenon DEF Attach
<1>5. assets' = [assets EXCEPT ![ReleaseTag(j)][asset] = Content(j, asset)]
  BY DEF Attach
<1>6. /\ job' \in [Jobs -> JobRecords] /\ job'[j] = x
      /\ \A k \in Jobs \ {j} : SameBut(job[k], job'[k]) /\ (k \in Halfway(j) => ~job'[k].alone)
  <2> HIDE DEF x
  <2> QED
    BY <1>3, <1>4, JobsUpdate
<1>7. /\ assets' \in [Versions -> AssetRecords]
      /\ \A w \in Versions : w # ReleaseTag(j) => assets'[w] = assets[w]
      /\ asset = "charm" => /\ assets'[ReleaseTag(j)].charm = Content(j, asset)
                            /\ assets'[ReleaseTag(j)].provenance = assets[ReleaseTag(j)].provenance
      /\ asset = "provenance" => /\ assets'[ReleaseTag(j)].provenance = Content(j, asset)
                                 /\ assets'[ReleaseTag(j)].charm = assets[ReleaseTag(j)].charm
  <2>1. /\ asset = "charm" => Content(j, asset) \in Artifacts
        /\ asset = "provenance" => Content(j, asset) \in Provenances
    BY <1>2 DEF Content
  <2>2. assets \in [Versions -> AssetRecords]
    BY DEF TypeInv, GithubType
  <2> QED
    BY <1>2, <1>5, <2>1, <2>2, AssetUpdate
<1>8. /\ asset = "charm" => Content(j, asset) = job[j].file
      /\ asset = "provenance" => Content(j, asset) = Provenance(j)
  BY DEF Content
<1>9. pc = IF job[j].todo = {asset} THEN "release" ELSE "attach"
  BY <1>1
<1> HIDE DEF x, pc
<1> QED
  BY <1>3, <1>6, <1>7, <1>8, <1>9

\* What deleting an asset changes.
LEMMA DeleteStep ==
  ASSUME TypeInv, JobInv, NEW j \in Jobs, NEW asset \in Assets, Delete(j, asset)
  PROVE  /\ job' \in [Jobs -> JobRecords]
         /\ assets' \in [Versions -> AssetRecords]
         /\ job'[j].pc = "attach"
         /\ job'[j].old = job[j].old \ {asset} /\ job'[j].todo = job[j].todo
         /\ job'[j].alone = (job[j].alone /\ Halfway(j) = {})
         /\ job'[j].inputs = job[j].inputs /\ job'[j].file = job[j].file /\ job'[j].revision = job[j].revision
         /\ \A k \in Jobs \ {j} : SameBut(job[k], job'[k]) /\ (k \in Halfway(j) => ~job'[k].alone)
         /\ \A w \in Versions : w # ReleaseTag(j) => assets'[w] = assets[w]
         /\ asset = "charm" => assets'[ReleaseTag(j)].provenance = assets[ReleaseTag(j)].provenance
         /\ asset = "provenance" => /\ assets'[ReleaseTag(j)].provenance = NoProvenance
                                    /\ assets'[ReleaseTag(j)].charm = assets[ReleaseTag(j)].charm
<1>1. job[j].pc = "attach"
  BY DEF Delete, At
<1>2. ReleaseTag(j) \in Versions /\ job[j] \in JobRecords
  BY <1>1, AttachType
<1> DEFINE alone == job[j].alone /\ Halfway(j) = {}
           x == [job[j] EXCEPT !.old = @ \ {asset}, !.alone = alone]
<1>3. /\ x \in JobRecords /\ x.old = job[j].old \ {asset} /\ x.todo = job[j].todo /\ x.alone = alone
      /\ x.pc = job[j].pc /\ x.inputs = job[j].inputs /\ x.file = job[j].file /\ x.revision = job[j].revision
  <2>1. alone \in BOOLEAN
    BY <1>2 DEF JobRecords
  <2> HIDE DEF alone
  <2> QED
    BY <1>2, <2>1 DEF JobRecords
<1>4. Touch(j, x)
  BY Zenon DEF Delete
<1>5. assets' = [assets EXCEPT ![ReleaseTag(j)][asset] = Nothing(asset)]
  BY DEF Delete
<1>6. /\ job' \in [Jobs -> JobRecords] /\ job'[j] = x
      /\ \A k \in Jobs \ {j} : SameBut(job[k], job'[k]) /\ (k \in Halfway(j) => ~job'[k].alone)
  <2> HIDE DEF x
  <2> QED
    BY <1>3, <1>4, JobsUpdate
<1>7. /\ asset = "charm" => Nothing(asset) \in Artifacts
      /\ asset = "provenance" => Nothing(asset) \in Provenances /\ Nothing(asset) = NoProvenance
  BY DEF Nothing, None, NoProvenance, Artifacts, Provenances
<1>8. assets \in [Versions -> AssetRecords]
  BY DEF TypeInv, GithubType
<1>9. /\ assets' \in [Versions -> AssetRecords]
      /\ \A w \in Versions : w # ReleaseTag(j) => assets'[w] = assets[w]
      /\ asset = "charm" => /\ assets'[ReleaseTag(j)].charm = Nothing(asset)
                            /\ assets'[ReleaseTag(j)].provenance = assets[ReleaseTag(j)].provenance
      /\ asset = "provenance" => /\ assets'[ReleaseTag(j)].provenance = Nothing(asset)
                                 /\ assets'[ReleaseTag(j)].charm = assets[ReleaseTag(j)].charm
  BY <1>2, <1>5, <1>7, <1>8, AssetUpdate
<1> HIDE DEF x
<1> QED
  BY <1>1, <1>3, <1>6, <1>7, <1>9

\* Releasing to a channel preserves the types.
LEMMA ReleaseTypeStep ==
  ASSUME TypeInv, JobInv, NEW j \in Jobs, Release(j)
  PROVE  TypeInv'
<1>1. UNCHANGED <<main, cleared, tag, release, runs, artifacts, tested>>
  BY ReleaseFrame
<1>2. reruns' \in Nat /\ releases' \in Nat
  <2>1. reruns' = reruns /\ releases' \in {releases, releases + 1}
    BY Zenon DEF Release, DispatchRelease, Fail, VerifyUnifiedRelease, VerifyIntegrationRun,
       Download, VerifyDigest, Verified, Upload, UploadLost, Attach, Delete, ReleaseRevision,
       VerifyPublishedRevision, count
  <2> QED
    BY <2>1 DEF TypeInv, GithubType
<1>3. CASE Alone(j)
  <2>1. job' \in [Jobs -> JobRecords]
    BY <1>3, AloneStep DEF TypeInv
  <2>2. assets' = assets /\ torn' \in {torn, torn \cup {ReleaseTag(j)}}
        /\ (torn' # torn => job[j].pc = "attach")
    BY <1>3, Zenon DEF Alone, DispatchRelease, Fail, VerifyUnifiedRelease, VerifyIntegrationRun,
       Download, VerifyDigest, Verified, Upload, UploadLost, ReleaseRevision, VerifyPublishedRevision, At
  <2>3. torn' \in SUBSET Versions
    BY <2>2, AttachType DEF TypeInv, GithubType
  <2>4. revisions' \in Seq(Artifacts)
    <3>1. revisions' = revisions \/ revisions' = Append(revisions, job[j].file)
      BY <1>3, Zenon DEF Alone, DispatchRelease, Fail, VerifyUnifiedRelease, VerifyIntegrationRun,
         Download, VerifyDigest, Verified, Upload, UploadLost, ReleaseRevision, VerifyPublishedRevision, charmhub
    <3>2. job[j].file \in Artifacts
      BY DEF TypeInv, JobRecords
    <3> QED
      BY <3>1, <3>2 DEF TypeInv, CharmhubType
  <2>5. channel' \in [Channels -> Nat]
    <3>1. channel' = channel \/ channel' = [channel EXCEPT ![job[j].inputs.channel] = job[j].revision]
      BY <1>3, Zenon DEF Alone, DispatchRelease, Fail, VerifyUnifiedRelease, VerifyIntegrationRun,
         Download, VerifyDigest, Verified, Upload, UploadLost, ReleaseRevision, VerifyPublishedRevision, charmhub
    <3>2. job[j].revision \in Nat
      BY DEF TypeInv, JobRecords
    <3> QED
      BY <3>1, <3>2 DEF TypeInv, CharmhubType
  <2> QED
    BY <1>1, <1>2, <2>1, <2>2, <2>3, <2>4, <2>5 DEF TypeInv, GithubType, CharmhubType
<1>4. ASSUME NEW asset \in Assets, Delete(j, asset) \/ Attach(j, asset)
      PROVE  TypeInv'
  <2>1. job' \in [Jobs -> JobRecords] /\ assets' \in [Versions -> AssetRecords]
    BY <1>4, AttachStep, DeleteStep
  <2>2. job[j].pc = "attach" /\ UNCHANGED <<revisions, channel>>
    BY <1>4 DEF Attach, Delete, At, charmhub
  <2>4. torn' = torn \/ torn' = torn \ {ReleaseTag(j)} \/ torn' = torn \cup {ReleaseTag(j)}
    BY <1>4, Zenon DEF Attach, Delete
  <2>3. torn' \in SUBSET Versions
    BY <2>2, <2>4, AttachType DEF TypeInv, GithubType
  <2> QED
    BY <1>1, <1>2, <2>1, <2>2, <2>3 DEF TypeInv, GithubType, CharmhubType
<1> QED
  BY <1>3, <1>4 DEF Release, Alone

\* Every step preserves the types.
LEMMA TypeStep ==
  ASSUME TypeInv, JobInv, [Next]_vars
  PROVE  TypeInv'
<1>1. CASE UNCHANGED vars
  BY <1>1 DEF vars, github, integration, charmhub, count, TypeInv, GithubType, CharmhubType
<1> QED
  BY <1>1, GithubTypeStep, ReleaseTypeStep, Zenon DEF Next

-----------------------------------------------------------------------------
(* What was established stays.                                             *)

Extends ==
    /\ main <= main'
    /\ \A v \in Versions : /\ tag[v] # 0 => tag'[v] = tag[v]
                           /\ release[v] = "final" => release'[v] = "final"
    /\ DOMAIN runs \subseteq DOMAIN runs'
    /\ \A r \in DOMAIN runs : /\ runs'[r].head_branch = runs[r].head_branch
                              /\ runs'[r].head_sha = runs[r].head_sha
    /\ artifacts \subseteq artifacts' /\ tested \subseteq tested'
    /\ DOMAIN revisions \subseteq DOMAIN revisions'
    /\ \A n \in DOMAIN revisions : revisions'[n] = revisions[n]

\* Tags, final releases, the commits of runs, artifacts, test results and
\* revisions are only added to.
LEMMA NextExtends ==
  ASSUME TypeInv, [Next]_vars
  PROVE  Extends
<1>1. CASE UNCHANGED <<main, tag, release, runs, artifacts, tested, revisions>>
  BY <1>1, CommitsAreNumbers DEF Extends, TypeInv, GithubType
<1>2. CASE Push
  BY <1>2, CommitsAreNumbers DEF Push, Extends, TypeInv, GithubType, integration, charmhub
<1>9. ASSUME NEW c \in Commits, CheckVersion(c) PROVE Extends
  BY <1>1, <1>9 DEF CheckVersion, integration, charmhub
<1>3. ASSUME NEW c \in Commits, PushTag(c) PROVE Extends
  <2>1. Version[c] \in Versions /\ Version[c] \in Nat
    BY VersionAssumption, VersionType DEF Commits
  <2>2. tag[Version[c]] = 0
    BY <1>3, <2>1 DEF PushTag
  <2>3. tag' = [tag EXCEPT ![Version[c]] = c] /\ UNCHANGED <<main, release, runs, artifacts, tested, revisions>>
    BY <1>3 DEF PushTag, integration, charmhub
  <2> QED
    BY <2>1, <2>2, <2>3, CommitsAreNumbers DEF Extends, TypeInv, GithubType
<1>4. ASSUME NEW v \in Versions, PublishRelease(v) PROVE Extends
  <2>1. \A w \in Versions : release[w] = "final" => release'[w] = "final"
    BY <1>4 DEF PublishRelease, TypeInv, GithubType
  <2>2. UNCHANGED <<main, tag, runs, artifacts, tested, revisions>>
    BY <1>4, Zenon DEF PublishRelease, integration, charmhub
  <2> QED
    BY <2>1, <2>2, CommitsAreNumbers DEF Extends, TypeInv, GithubType
<1>5. ASSUME NEW branch \in {"main", "branch"}, DispatchIntegration(branch) PROVE Extends
  <2>1. UNCHANGED <<main, tag, release, artifacts, tested, revisions>>
    BY <1>5 DEF DispatchIntegration, github, charmhub
  <2>2. PICK e : runs' = Append(runs, e)
    BY <1>5 DEF DispatchIntegration
  <2>3. DOMAIN runs \subseteq DOMAIN runs' /\ \A r \in DOMAIN runs : runs'[r] = runs[r]
    BY <2>2 DEF TypeInv, GithubType
  <2> QED
    BY <2>1, <2>3, CommitsAreNumbers DEF Extends, TypeInv, GithubType
<1>6. ASSUME NEW r \in DOMAIN runs, Integrate(r) PROVE Extends
  <2>1. PICK e \in RunRecords :
           runs' = [runs EXCEPT ![r] = e] /\ e.head_branch = runs[r].head_branch /\ e.head_sha = runs[r].head_sha
    BY <1>6, RunStep
  <2>2. UNCHANGED <<main, tag, release, revisions>>
    BY <1>6, Zenon DEF Integrate, IntegrationTest, UploadArtifact, RerunIntegration, IntegrationEnds, github, charmhub
  <2>3. artifacts' \in {artifacts, artifacts \cup {Built(r)}} /\ tested' \in {tested, tested \cup {Built(r)}}
    BY <1>6, Zenon DEF Integrate, IntegrationTest, UploadArtifact, RerunIntegration, IntegrationEnds
  <2> QED
    BY <2>1, <2>2, <2>3, CommitsAreNumbers DEF Extends, TypeInv, GithubType
<1>7. ASSUME NEW j \in Jobs, Release(j) PROVE Extends
  <2>1. UNCHANGED <<main, tag, release, runs, artifacts, tested>>
    BY <1>7, ReleaseFrame
  <2>2. revisions' = revisions \/ revisions' = Append(revisions, job[j].file)
    BY <1>7, Zenon DEF Release, DispatchRelease, Fail, VerifyUnifiedRelease, VerifyIntegrationRun,
       Download, VerifyDigest, Verified, Upload, UploadLost, Attach, Delete, ReleaseRevision,
       VerifyPublishedRevision, charmhub
  <2>3. DOMAIN revisions \subseteq DOMAIN revisions' /\ \A n \in DOMAIN revisions : revisions'[n] = revisions[n]
    BY <2>2 DEF TypeInv, CharmhubType
  <2> QED
    BY <2>1, <2>3, CommitsAreNumbers DEF Extends, TypeInv, GithubType
<1>8. CASE UNCHANGED vars
  BY <1>8, <1>1 DEF vars, github, integration, charmhub
<1> QED
  BY <1>2, <1>3, <1>4, <1>5, <1>6, <1>7, <1>8, <1>9, Zenon DEF Next

\* Integration runs stay what they were when they ended.
LEMMA RunsStep ==
  ASSUME TypeInv, TypeInv', RunsInv, [Next]_vars
  PROVE  RunsInv'
<1>1. Extends
  BY NextExtends
<1>2. main \in Nat /\ main' \in Nat /\ main \in 1..main
  BY CommitsAreNumbers DEF TypeInv, GithubType
<1>3. CASE UNCHANGED <<runs, artifacts, tested>>
  BY <1>1, <1>2, <1>3 DEF RunsInv, Built, Extends, TypeInv, GithubType, RunRecords
<1>4. ASSUME NEW branch \in {"main", "branch"}, DispatchIntegration(branch) PROVE RunsInv'
  <2> DEFINE e == [head_branch |-> branch, head_sha |-> IF branch = "main" THEN main ELSE 0,
                   attempt |-> 1, step |-> "test"]
  <2>1. runs' = Append(runs, e) /\ UNCHANGED <<main, artifacts, tested>>
    BY <1>4 DEF DispatchIntegration, github
  <2>2. e.step = "test" /\ (e.head_branch = "main" => e.head_sha = main)
    OBVIOUS
  <2> HIDE DEF e
  <2>3. DOMAIN runs' = DOMAIN runs \cup {Len(runs) + 1} /\ runs'[Len(runs) + 1] = e
        /\ \A r \in DOMAIN runs : runs'[r] = runs[r]
    BY <2>1 DEF TypeInv, GithubType
  <2> QED
    BY <1>2, <2>1, <2>2, <2>3 DEF RunsInv, Built
<1>5. ASSUME NEW r \in DOMAIN runs, Integrate(r) PROVE RunsInv'
  <2>1. PICK e \in RunRecords :
           /\ runs' = [runs EXCEPT ![r] = e]
           /\ e.head_branch = runs[r].head_branch /\ e.head_sha = runs[r].head_sha
           /\ e.step = "upload" => e.attempt = runs[r].attempt /\ runs[r].step = "test"
    BY <1>5, RunStep
  <2>2. main' = main /\ (\A q \in DOMAIN runs : q # r => runs'[q] = runs[q]) /\ runs'[r] = e /\ DOMAIN runs' = DOMAIN runs
    <3>1. main' = main
      BY <1>5, Zenon DEF Integrate, IntegrationTest, UploadArtifact, RerunIntegration, IntegrationEnds, github
    <3> QED
      BY <2>1, <3>1 DEF TypeInv, GithubType
  <2>3. tested \subseteq tested'
    BY <1>1 DEF Extends
  <2>4. e.head_branch = "main" /\ e.step = "upload" => <<r, e.attempt>> \in tested'
    <3> SUFFICES ASSUME e.head_branch = "main", e.step = "upload" PROVE <<r, e.attempt>> \in tested'
      OBVIOUS
    <3>1. IntegrationTest(r)
      <4>1. runs[r].step = "test" /\ runs'[r].step = "upload"
        BY <2>1, <2>2
      <4>2. runs[r] \in RunRecords
        BY DEF TypeInv, GithubType
      <4>3. ~UploadArtifact(r) /\ ~RerunIntegration(r)
        BY <4>1 DEF UploadArtifact, RerunIntegration
      <4>4. ASSUME NEW conclusion \in {"success", "failure"}, IntegrationEnds(r, conclusion) PROVE FALSE
        <5>1. runs'[r] = [runs[r] EXCEPT !.step = conclusion]
          BY <4>4 DEF IntegrationEnds, Goto, TypeInv, GithubType
        <5>2. runs'[r].step = conclusion
          BY <4>2, <5>1 DEF RunRecords
        <5> QED
          BY <4>1, <5>2
      <4> QED
        BY <1>5, <4>3, <4>4 DEF Integrate
    <3> QED
      BY <2>1, <3>1 DEF IntegrationTest, Built
  <2>5. \A a \in artifacts' : a \in artifacts \/ (a = <<r, runs[r].attempt>> /\ runs[r].step = "upload")
    <3>1. artifacts' = artifacts \/ (artifacts' = artifacts \cup {<<r, runs[r].attempt>>} /\ runs[r].step = "upload")
      BY <1>5, Zenon DEF Integrate, IntegrationTest, UploadArtifact, RerunIntegration, IntegrationEnds, Built
    <3> QED
      BY <3>1
  <2>6. \A q \in DOMAIN runs' : runs'[q].head_branch = "main" =>
          /\ runs'[q].head_sha \in 1..main'
          /\ runs'[q].step = "upload" => <<q, runs'[q].attempt>> \in tested'
    BY <2>1, <2>2, <2>3, <2>4 DEF RunsInv, Built
  <2>7. \A a \in artifacts' :
          /\ a[1] \in DOMAIN runs'
          /\ runs'[a[1]].head_branch = "main" => a \in tested'
    <3> SUFFICES ASSUME NEW a \in artifacts'
                 PROVE  a[1] \in DOMAIN runs' /\ (runs'[a[1]].head_branch = "main" => a \in tested')
      OBVIOUS
    <3>1. CASE a \in artifacts
      BY <2>1, <2>2, <2>3, <3>1 DEF RunsInv
    <3>2. CASE a = <<r, runs[r].attempt>> /\ runs[r].step = "upload"
      BY <2>1, <2>2, <2>3, <3>2 DEF RunsInv, Built
    <3> QED
      BY <2>5, <3>1, <3>2
  <2> QED
    BY <2>6, <2>7 DEF RunsInv, Built
<1>6. CASE UNCHANGED vars
  BY <1>3, <1>6 DEF vars, integration
<1>7. ASSUME NEW j \in Jobs, Release(j) PROVE RunsInv'
  BY <1>3, <1>7, ReleaseFrame
<1>8. CASE Push \/ (\E c \in Commits : CheckVersion(c) \/ PushTag(c)) \/ (\E v \in Versions : PublishRelease(v))
  BY <1>3, <1>8, Zenon DEF Push, CheckVersion, PushTag, PublishRelease, integration
<1> QED
  BY <1>4, <1>5, <1>6, <1>7, <1>8, Zenon DEF Next

\* Once a job has established something it stays established.
LEMMA StaysEstablished ==
  ASSUME TypeInv, TypeInv', Extends, NEW x \in JobRecords, Established(x)
  PROVE  Established(x)'
<1>1. main \in Nat /\ main' \in Nat /\ main <= main' /\ main \in 1..Len(Version)
  BY CommitsAreNumbers DEF TypeInv, GithubType, Extends
<1>2. x.pc # "idle" => x.inputs.sha \in 1..main /\ Version[x.inputs.sha] \in Versions /\ x.inputs.sha # 0
  BY <1>1, VersionType, CommitsAreNumbers DEF Established
<1> QED
  BY <1>1, <1>2 DEF Established, Extends

\* What a job has established does not depend on whether it is alone.
LEMMA SameEstablished ==
  ASSUME NEW x, NEW y, SameBut(x, y), Established(x)'
  PROVE  Established(y)'
BY DEF SameBut, Established

\* A job's own step establishes what its next step relies on.
LEMMA OwnStep ==
  ASSUME TypeInv, TypeInv', JobInv, Extends, NEW j \in Jobs, Alone(j),
         NEW y \in JobRecords, job'[j] = y
  PROVE  Established(y)'
<1>1. job \in [Jobs -> JobRecords] /\ job[j] \in JobRecords
  BY DEF TypeInv
<1>2. PICK x \in JobRecords : x = job[j]
  BY <1>1
<1>3. Established(x) /\ Established(x)'
  BY <1>2, StaysEstablished DEF JobInv
<1>4. UNCHANGED <<main, tag, release, runs, artifacts, tested>>
  BY ReleaseFrame DEF Alone, Release
<1>5. ASSUME NEW pc \in JobSteps, job' = [job EXCEPT ![j].pc = pc]
      PROVE  /\ y.pc = pc /\ y.inputs = x.inputs /\ y.file = x.file /\ y.revision = x.revision
  <2>1. y = [x EXCEPT !.pc = pc]
    BY <1>1, <1>2, <1>5
  <2> QED
    BY <2>1, PcUpdate
<1>6. CASE job' = [job EXCEPT ![j] = Idle]
  BY <1>1, <1>6, NewJob DEF Established
<1>7. CASE DispatchRelease(j)
  <2>1. PICK sha \in 0..main, run \in DOMAIN runs, digest \in artifacts, ch \in Channels :
           /\ sha \in 1..main
           /\ job' = [job EXCEPT ![j] = Started([sha |-> sha, run |-> run, digest |-> digest, channel |-> ch])]
    BY <1>7 DEF DispatchRelease, VerifySource
  <2> DEFINE in == [sha |-> sha, run |-> run, digest |-> digest, channel |-> ch]
  <2>2. sha \in Nat /\ run \in Nat /\ digest \in Artifacts
    BY CommitsAreNumbers DEF TypeInv, GithubType
  <2>3. in \in Inputs /\ in.run = run /\ in.sha = sha
    BY <2>2 DEF Inputs
  <2>4. y = Started(in)
    BY <1>1, <2>1
  <2> HIDE DEF in
  <2>5. y.pc = "unified" /\ y.inputs = in
    BY <2>3, <2>4, NewJob
  <2> QED
    BY <1>4, <2>1, <2>3, <2>5 DEF Established
<1>9. CASE VerifyUnifiedRelease(j)
  <2>1. y.pc = "run" /\ y.inputs = x.inputs /\ x.pc = "unified"
    BY <1>2, <1>5, <1>9 DEF VerifyUnifiedRelease, Verified, At, JobSteps
  <2>2. tag[Version[x.inputs.sha]] = x.inputs.sha /\ release[Version[x.inputs.sha]] = "final"
    BY <1>2, <1>9 DEF VerifyUnifiedRelease, ReleaseTag, Sha
  <2> QED
    BY <1>3, <1>4, <2>1, <2>2 DEF Established
<1>10. CASE VerifyIntegrationRun(j)
  <2>1. y.pc = "download" /\ y.inputs = x.inputs /\ x.pc = "run"
    BY <1>2, <1>5, <1>10 DEF VerifyIntegrationRun, Verified, At, JobSteps
  <2>2. runs[x.inputs.run].head_branch = "main" /\ runs[x.inputs.run].head_sha = x.inputs.sha
    BY <1>2, <1>10 DEF VerifyIntegrationRun, Sha
  <2> QED
    BY <1>3, <1>4, <2>1, <2>2 DEF Established
<1>11. CASE Download(j)
  <2>1. PICK a \in artifacts : a[1] = x.inputs.run /\ job' = [job EXCEPT ![j].pc = "digest", ![j].file = a]
    BY <1>2, <1>11 DEF Download
  <2>2. a \in Artifacts
    BY DEF TypeInv, GithubType
  <2>3. y = [x EXCEPT !.pc = "digest", !.file = a]
    BY <1>1, <1>2, <2>1
  <2>4. y.pc = "digest" /\ y.inputs = x.inputs /\ y.file = a
    BY <2>3 DEF JobRecords
  <2>5. x.pc = "download"
    BY <1>2, <1>11 DEF Download, At
  <2> QED
    BY <1>3, <1>4, <2>1, <2>4, <2>5 DEF Established
<1>12. CASE VerifyDigest(j)
  <2>1. y.pc = "upload" /\ y.inputs = x.inputs /\ y.file = x.file /\ x.pc = "digest" /\ x.file = x.inputs.digest
    BY <1>2, <1>5, <1>12 DEF VerifyDigest, Verified, At, JobSteps, Digest
  <2> QED
    BY <1>3, <1>4, <2>1 DEF Established
<1>13. CASE Upload(j)
  <2>1. revisions' = Append(revisions, x.file) /\ x.pc = "upload"
    BY <1>2, <1>13 DEF Upload, At
  <2>2. x.file \in Artifacts
    BY DEF JobRecords
  <2>3. Len(revisions') \in Nat /\ Len(revisions') \in DOMAIN revisions' /\ revisions'[Len(revisions')] = x.file
    BY <2>1, <2>2 DEF TypeInv, CharmhubType
  <2>4. y = [x EXCEPT !.pc = "attach", !.revision = Len(revisions'), !.old = Assets, !.todo = Assets]
    BY <1>1, <1>2, <1>13 DEF Upload
  <2>5. y.pc = "attach" /\ y.revision = Len(revisions') /\ y.inputs = x.inputs /\ y.file = x.file
    BY <2>4 DEF JobRecords
  <2> QED
    BY <1>3, <1>4, <2>1, <2>3, <2>5 DEF Established
<1>14. CASE ReleaseRevision(j)
  <2>1. y.pc = "verify" /\ y.inputs = x.inputs /\ y.file = x.file /\ y.revision = x.revision /\ x.pc = "release"
    BY <1>2, <1>5, <1>14 DEF ReleaseRevision, At, JobSteps
  <2> QED
    BY <1>3, <1>4, <2>1 DEF Established
<1> QED
  BY <1>6, <1>7, <1>9, <1>10, <1>11, <1>12, <1>13, <1>14
     DEF Alone, Fail, UploadLost, VerifyPublishedRevision

\* Every step of a job adds what its verification establishes.
LEMMA JobStep ==
  ASSUME TypeInv, TypeInv', JobInv, [Next]_vars
  PROVE  JobInv'
<1>1. Extends
  BY NextExtends
<1>2. ASSUME NEW k \in Jobs PROVE \E x \in JobRecords : x = job[k] /\ Established(x) /\ Established(x)'
  <2>1. PICK x \in JobRecords : x = job[k]
    BY DEF TypeInv
  <2>2. Established(x)
    BY <2>1 DEF JobInv
  <2> QED
    BY <1>1, <2>1, <2>2, StaysEstablished
<1>3. ASSUME NEW k \in Jobs, job'[k] = job[k] \/ SameBut(job[k], job'[k]) PROVE Established(job[k])'
  <2>1. PICK x \in JobRecords : x = job[k] /\ Established(x)'
    BY <1>2
  <2>2. PICK y \in JobRecords : y = job'[k]
    BY DEF TypeInv
  <2>3. SameBut(x, y)
    BY <1>3, <2>1, <2>2 DEF SameBut
  <2>4. Established(y)'
    BY <2>1, <2>3, SameEstablished
  <2> QED
    BY <2>2, <2>4
<1>4. ASSUME NEW j \in Jobs, Alone(j) PROVE JobInv'
  <2>1. PICK y \in JobRecords : job' = [job EXCEPT ![j] = y]
    BY <1>4, AloneStep
  <2>2. job'[j] = y /\ \A k \in Jobs \ {j} : job'[k] = job[k]
    BY <2>1 DEF TypeInv
  <2>3. Established(y)'
    BY <1>1, <1>4, <2>2, OwnStep
  <2> QED
    BY <1>3, <2>2, <2>3 DEF JobInv
<1>5. ASSUME NEW j \in Jobs, NEW asset \in Assets, Delete(j, asset) \/ Attach(j, asset) PROVE JobInv'
  <2>1. \A k \in Jobs \ {j} : SameBut(job[k], job'[k])
    BY <1>5, AttachStep, DeleteStep, Zenon
  <2>2. PICK x \in JobRecords : x = job[j] /\ Established(x) /\ Established(x)'
    BY <1>2
  <2>3. PICK y \in JobRecords : y = job'[j]
    BY DEF TypeInv
  <2>4. /\ y.pc \in {"attach", "release"}
        /\ y.inputs = x.inputs /\ y.file = x.file /\ y.revision = x.revision
    BY <1>5, <2>2, <2>3, AttachStep, DeleteStep, Zenon
  <2>6. x.pc = "attach"
    BY <1>5, <2>2 DEF Attach, Delete, At
  <2>5. Established(y)'
    BY <2>2, <2>4, <2>6 DEF Established
  <2> QED
    BY <1>3, <2>1, <2>3, <2>5 DEF JobInv
<1>7. CASE UNCHANGED job
  BY <1>3, <1>7 DEF JobInv
<1>8. CASE UNCHANGED vars
  BY <1>7, <1>8 DEF vars
<1>9. CASE \/ Push \/ (\E c \in Commits : CheckVersion(c) \/ PushTag(c)) \/ (\E v \in Versions : PublishRelease(v))
           \/ (\E branch \in {"main", "branch"} : DispatchIntegration(branch))
           \/ (\E r \in DOMAIN runs : Integrate(r))
  BY <1>7, <1>9, Zenon DEF Push, CheckVersion, PushTag, PublishRelease, DispatchIntegration, Integrate, IntegrationTest,
     UploadArtifact, RerunIntegration, IntegrationEnds
<1>10. ASSUME NEW j \in Jobs, Release(j) PROVE JobInv'
  BY <1>4, <1>5, <1>10, Zenon DEF Release, Alone
<1> QED
  BY <1>8, <1>9, <1>10, Zenon DEF Next

-----------------------------------------------------------------------------
(* Revisions, channels and provenance.                                     *)

\* A job that verified the digest holds a publishable artifact of its commit.
LEMMA FilePublishable ==
  ASSUME TypeInv, RunsInv, NEW x, Established(x), x.pc \in {"upload", "attach", "release", "verify"}
  PROVE  /\ Publishable(x.file) /\ Source(x.file) = x.inputs.sha /\ x.file[1] = x.inputs.run
         /\ x.file = x.inputs.digest
<1>1. /\ x.inputs.sha \in 1..main /\ x.inputs.run \in DOMAIN runs
      /\ tag[Version[x.inputs.sha]] = x.inputs.sha /\ release[Version[x.inputs.sha]] = "final"
      /\ runs[x.inputs.run].head_branch = "main" /\ runs[x.inputs.run].head_sha = x.inputs.sha
      /\ x.file \in artifacts /\ x.file[1] = x.inputs.run /\ x.file = x.inputs.digest
  BY DEF Established
<1>2. x.file \in tested
  BY <1>1 DEF RunsInv
<1> QED
  BY <1>1, <1>2 DEF Publishable, Source

\* An artifact that may be published stays so.
LEMMA StaysPublishable ==
  ASSUME TypeInv, TypeInv', Extends, NEW a, Publishable(a)
  PROVE  Publishable(a)' /\ Source(a)' = Source(a)
<1>1. main \in Nat /\ main' \in Nat /\ main <= main' /\ main \in 1..Len(Version)
  BY CommitsAreNumbers DEF TypeInv, GithubType, Extends
<1>2. Source(a)' = Source(a) /\ a[1] \in DOMAIN runs'
  BY DEF Publishable, Source, Extends
<1>3. Source(a) \in 1..main /\ Version[Source(a)] \in Versions /\ Source(a) # 0
  BY <1>1, VersionType, CommitsAreNumbers DEF Publishable
<1> QED
  BY <1>1, <1>2, <1>3 DEF Publishable, Extends

\* Every revision holds an artifact that may be published.
LEMMA RevisionStep ==
  ASSUME TypeInv, TypeInv', RunsInv, JobInv, RevisionInv, [Next]_vars
  PROVE  RevisionInv'
<1>1. Extends
  BY NextExtends
<1>2. ASSUME NEW n \in DOMAIN revisions PROVE Publishable(revisions[n])'
  <2>1. PICK a : a = revisions[n]
    OBVIOUS
  <2>2. Publishable(a)'
    BY <1>1, <2>1, StaysPublishable DEF RevisionInv
  <2>3. revisions'[n] = a
    BY <1>1, <2>1 DEF Extends
  <2> QED
    BY <2>2, <2>3
<1>3. CASE UNCHANGED <<revisions, channel>>
  BY <1>2, <1>3 DEF RevisionInv
<1>4. ASSUME NEW j \in Jobs, Upload(j) \/ UploadLost(j) PROVE RevisionInv'
  <2>1. revisions' = Append(revisions, job[j].file) /\ channel' = channel /\ job[j].pc = "upload"
    BY <1>4 DEF Upload, UploadLost, At
  <2>2. PICK x \in JobRecords : x = job[j] /\ Established(x)
    BY DEF TypeInv, JobInv
  <2>3. Publishable(x.file)
    BY <2>1, <2>2, FilePublishable
  <2>4. PICK a : a = x.file
    OBVIOUS
  <2>5. Publishable(a)'
    BY <1>1, <2>3, <2>4, StaysPublishable
  <2>6. a \in Artifacts
    BY <2>2, <2>4 DEF JobRecords
  <2>7. DOMAIN revisions' = DOMAIN revisions \cup {Len(revisions) + 1} /\ revisions'[Len(revisions) + 1] = a
    BY <2>1, <2>2, <2>4, <2>6 DEF TypeInv, CharmhubType
  <2> QED
    BY <1>2, <2>1, <2>5, <2>7 DEF RevisionInv
<1>5. ASSUME NEW j \in Jobs, ReleaseRevision(j) PROVE RevisionInv'
  <2>1. /\ revisions' = revisions /\ job[j].pc = "release"
        /\ channel' = channel \/ channel' = [channel EXCEPT ![job[j].inputs.channel] = job[j].revision]
    BY <1>5 DEF ReleaseRevision, At
  <2>2. job[j].revision \in DOMAIN revisions
    BY <2>1 DEF JobInv, Established
  <2>3. \A ch \in Channels : channel'[ch] # 0 => channel'[ch] \in DOMAIN revisions
    BY <2>1, <2>2 DEF RevisionInv, TypeInv, CharmhubType
  <2> QED
    BY <1>2, <2>1, <2>3 DEF RevisionInv
<1>6. CASE UNCHANGED vars
  BY <1>3, <1>6 DEF vars, charmhub
<1>7. CASE \/ Push \/ (\E c \in Commits : CheckVersion(c) \/ PushTag(c)) \/ (\E v \in Versions : PublishRelease(v))
           \/ (\E branch \in {"main", "branch"} : DispatchIntegration(branch))
           \/ (\E r \in DOMAIN runs : Integrate(r))
  BY <1>3, <1>7, Zenon DEF Push, CheckVersion, PushTag, PublishRelease, DispatchIntegration, Integrate, IntegrationTest,
     UploadArtifact, RerunIntegration, IntegrationEnds, charmhub
<1>8. ASSUME NEW j \in Jobs, Release(j) PROVE RevisionInv'
  BY <1>3, <1>4, <1>5, <1>8, Zenon DEF Release, DispatchRelease, Fail, VerifyUnifiedRelease,
     VerifyIntegrationRun, Download, VerifyDigest, Verified, Attach, Delete, VerifyPublishedRevision, charmhub
<1> QED
  BY <1>6, <1>7, <1>8, Zenon DEF Next

\* Attached provenance names the source of its artifact.
LEMMA ProvenanceStep ==
  ASSUME TypeInv, TypeInv', RunsInv, JobInv, ProvenanceInv, [Next]_vars
  PROVE  ProvenanceInv'
<1>1. Extends
  BY NextExtends
<1>2. ASSUME NEW v \in Versions, NEW p, Truthful(p, v) PROVE Truthful(p, v)'
  BY <1>1, <1>2 DEF Truthful, Source, Extends
<1>3. ASSUME NEW v \in Versions,
             assets'[v].provenance = assets[v].provenance \/ assets'[v].provenance = NoProvenance,
             assets'[v].provenance # NoProvenance
      PROVE  Truthful(assets[v].provenance, v)'
  <2>1. PICK p : p = assets[v].provenance
    OBVIOUS
  <2>2. Truthful(p, v)
    BY <1>3, <2>1 DEF ProvenanceInv
  <2>3. Truthful(p, v)' /\ assets'[v].provenance = p
    BY <1>2, <1>3, <2>1, <2>2
  <2> QED
    BY <2>3
<1>4. CASE UNCHANGED assets
  BY <1>3, <1>4 DEF ProvenanceInv
<1>5. ASSUME NEW j \in Jobs, NEW asset \in Assets, Attach(j, asset) PROVE ProvenanceInv'
  <2>1. \A w \in Versions : w # ReleaseTag(j) => assets'[w] = assets[w]
    BY <1>5, AttachStep
  <2>2. assets'[ReleaseTag(j)].provenance = assets[ReleaseTag(j)].provenance
        \/ assets'[ReleaseTag(j)].provenance = Provenance(j)
    BY <1>5, AttachStep, Zenon DEF Assets
  <2>3. PICK x \in JobRecords : x = job[j] /\ Established(x)
    BY DEF TypeInv, JobInv
  <2>4. x.pc = "attach"
    BY <1>5, <2>3 DEF Attach, At
  <2>5. /\ Publishable(x.file) /\ Source(x.file) = x.inputs.sha /\ x.file[1] = x.inputs.run
        /\ x.file = x.inputs.digest
    BY <2>3, <2>4, FilePublishable
  <2>6. PICK p : p = Provenance(j)
    OBVIOUS
  <2>7. /\ p.digest = x.file /\ p.revision = x.revision /\ p.run = x.inputs.run /\ p.sha = x.inputs.sha
    BY <2>3, <2>5, <2>6 DEF Provenance, Digest, Sha
  <2>8. PICK v \in Versions : v = ReleaseTag(j)
    BY <2>3, <2>4, AttachType
  <2>9. Truthful(p, v)
    BY <2>3, <2>4, <2>5, <2>7, <2>8 DEF Truthful, Established, Publishable, ReleaseTag, Sha
  <2>10. Truthful(p, v)'
    BY <1>2, <2>9
  <2>11. ASSUME NEW w \in Versions, assets'[w].provenance # NoProvenance
         PROVE  Truthful(assets[w].provenance, w)'
    <3>1. CASE assets'[w].provenance = assets[w].provenance
      BY <1>3, <2>11, <3>1
    <3>2. CASE w = v /\ assets'[w].provenance = p
      BY <2>10, <3>2
    <3> QED
      BY <2>1, <2>2, <2>6, <2>8, <3>1, <3>2
  <2> QED
    BY <2>11 DEF ProvenanceInv
<1>6. ASSUME NEW j \in Jobs, NEW asset \in Assets, Delete(j, asset) PROVE ProvenanceInv'
  <2>1. /\ \A w \in Versions : w # ReleaseTag(j) => assets'[w] = assets[w]
        /\ assets'[ReleaseTag(j)].provenance \in {assets[ReleaseTag(j)].provenance, NoProvenance}
    BY <1>6, DeleteStep, Zenon DEF Assets
  <2> QED
    BY <1>3, <2>1 DEF ProvenanceInv
<1>7. CASE UNCHANGED vars
  BY <1>4, <1>7 DEF vars
<1>8. CASE \/ Push \/ (\E c \in Commits : CheckVersion(c) \/ PushTag(c)) \/ (\E v \in Versions : PublishRelease(v))
           \/ (\E branch \in {"main", "branch"} : DispatchIntegration(branch))
           \/ (\E r \in DOMAIN runs : Integrate(r))
  BY <1>4, <1>8, Zenon DEF Push, CheckVersion, PushTag, PublishRelease, DispatchIntegration, Integrate, IntegrationTest,
     UploadArtifact, RerunIntegration, IntegrationEnds
<1>9. ASSUME NEW j \in Jobs, Release(j) PROVE ProvenanceInv'
  BY <1>4, <1>5, <1>6, <1>9, Zenon DEF Release, DispatchRelease, Fail, VerifyUnifiedRelease,
     VerifyIntegrationRun, Download, VerifyDigest, Verified, Upload, UploadLost, ReleaseRevision,
     VerifyPublishedRevision
<1> QED
  BY <1>7, <1>8, <1>9, Zenon DEF Next

-----------------------------------------------------------------------------
(* The two assets of a release.                                            *)

\* A job starts attaching with both assets to do.
LEMMA StartsAttaching ==
  ASSUME TypeInv, NEW j \in Jobs, Alone(j), job'[j].pc = "attach"
  PROVE  job'[j].old = Assets /\ job'[j].todo = Assets
<1>1. job \in [Jobs -> JobRecords] /\ job[j] \in JobRecords
  BY DEF TypeInv
<1>2. ASSUME NEW pc \in JobSteps \ {"attach"}, job' = [job EXCEPT ![j].pc = pc] PROVE FALSE
  <2>1. job'[j] = [job[j] EXCEPT !.pc = pc]
    BY <1>1, <1>2
  <2>2. job'[j].pc = pc
    BY <1>1, <2>1 DEF JobRecords
  <2> QED
    BY <2>2
<1>3. CASE job' = [job EXCEPT ![j] = Idle]
  BY <1>1, <1>3, NewJob
<1>4. CASE DispatchRelease(j)
  <2>1. PICK inputs : job' = [job EXCEPT ![j] = Started(inputs)]
    BY <1>4 DEF DispatchRelease
  <2> QED
    BY <1>1, <2>1 DEF Started
<1>5. CASE Download(j)
  <2>1. PICK a \in artifacts : job' = [job EXCEPT ![j].pc = "digest", ![j].file = a]
    BY <1>5 DEF Download
  <2>2. job'[j] = [job[j] EXCEPT !.pc = "digest", !.file = a]
    BY <1>1, <2>1
  <2> QED
    BY <1>1, <2>2 DEF JobRecords
<1>6. CASE Upload(j)
  <2>1. job'[j] = [job[j] EXCEPT !.pc = "attach", !.revision = Len(revisions'), !.old = Assets, !.todo = Assets]
    BY <1>1, <1>6 DEF Upload
  <2> QED
    BY <1>1, <2>1 DEF JobRecords
<1> QED
  BY <1>2, <1>3, <1>4, <1>5, <1>6
     DEF Alone, Fail, VerifyUnifiedRelease, VerifyIntegrationRun, VerifyDigest, Verified,
         UploadLost, ReleaseRevision, VerifyPublishedRevision, JobSteps

\* What an undisturbed job has attached stays in place.
LEMMA PartialStep ==
  ASSUME TypeInv, TypeInv', JobInv, PartialInv, [Next]_vars
  PROVE  PartialInv'
<1>1. CASE UNCHANGED <<job, assets>>
  BY <1>1 DEF PartialInv, InPlace
<1>2. ASSUME NEW j \in Jobs, Alone(j) PROVE PartialInv'
  <2>1. PICK y \in JobRecords : job' = [job EXCEPT ![j] = y]
    BY <1>2, AloneStep
  <2>2. job'[j] = y /\ \A k \in Jobs \ {j} : job'[k] = job[k]
    BY <2>1 DEF TypeInv
  <2>3. assets' = assets
    BY <1>2, Zenon DEF Alone, DispatchRelease, Fail, VerifyUnifiedRelease, VerifyIntegrationRun,
       Download, VerifyDigest, Verified, Upload, UploadLost, ReleaseRevision, VerifyPublishedRevision
  <2>4. y.pc = "attach" => y.old = Assets /\ y.todo = Assets
    BY <1>2, <2>2, StartsAttaching
  <2>5. InPlace(y)'
    BY <2>4 DEF InPlace, Assets
  <2>6. \A k \in Jobs \ {j} : InPlace(job[k])'
    BY <2>2, <2>3 DEF PartialInv, InPlace
  <2> QED
    BY <2>2, <2>5, <2>6 DEF PartialInv
<1>3. ASSUME NEW j \in Jobs, NEW asset \in Assets, Delete(j, asset) \/ Attach(j, asset),
             NEW k \in Jobs, k # j
      PROVE  InPlace(job[k])'
  <2>1. /\ SameBut(job[k], job'[k]) /\ (k \in Halfway(j) => ~job'[k].alone)
        /\ \A w \in Versions : w # ReleaseTag(j) => assets'[w] = assets[w]
    BY <1>3, AttachStep, DeleteStep, Zenon
  <2> SUFFICES ASSUME job'[k].pc = "attach" PROVE InPlace(job[k])'
    BY DEF InPlace
  <2>2. job[k].pc = "attach" /\ InPlace(job[k])
    BY <2>1 DEF SameBut, PartialInv
  <2>3. ReleaseTag(k) \in Versions
    BY <2>2, AttachType
  <2>4. CASE ReleaseTag(k) # ReleaseTag(j)
    <3>1. assets'[ReleaseTag(k)] = assets[ReleaseTag(k)]
      BY <2>1, <2>3, <2>4
    <3> QED
      BY <2>1, <2>2, <3>1, Zenon DEF SameBut, InPlace, ReleaseTag, Sha, ProvenanceOf
  <2>5. CASE job[k].old = Assets
    <3>1. job[k].todo = Assets
      BY <2>2, <2>5 DEF InPlace, TypeInv, JobRecords
    <3> QED
      BY <2>1, <2>2, <2>5, <3>1 DEF SameBut, InPlace, Assets
  <2>6. CASE ReleaseTag(k) = ReleaseTag(j) /\ job[k].old # Assets
    <3>1. k \in Halfway(j)
      BY <1>3, <2>2, <2>6 DEF Halfway, At
    <3> QED
      BY <2>1, <2>2, <3>1, Zenon DEF SameBut, InPlace
  <2> QED
    BY <2>4, <2>5, <2>6
<1>4. ASSUME NEW j \in Jobs, NEW asset \in Assets, Attach(j, asset) PROVE InPlace(job[j])'
  <2>1. /\ job'[j].pc = IF job[j].todo = {asset} THEN "release" ELSE "attach"
        /\ job'[j].old = job[j].old /\ job'[j].todo = job[j].todo \ {asset}
        /\ job'[j].inputs = job[j].inputs /\ job'[j].file = job[j].file /\ job'[j].revision = job[j].revision
        /\ asset = "charm" => assets'[ReleaseTag(j)].charm = job[j].file
        /\ asset = "provenance" => assets'[ReleaseTag(j)].provenance = Provenance(j)
    BY <1>4, AttachStep, Zenon
  <2> SUFFICES ASSUME job'[j].pc = "attach" PROVE InPlace(job[j])'
    BY DEF InPlace
  <2>2. asset \in job[j].todo /\ asset \notin job[j].old /\ job[j].todo \subseteq Assets
    BY <1>4 DEF Attach, TypeInv, JobRecords
  <2>7. job[j].old \subseteq job[j].todo
    BY <1>4 DEF PartialInv, InPlace, Attach, At
  <2>3. job'[j].todo = Assets \ {asset} /\ job'[j].old \subseteq job'[j].todo
    BY <2>1, <2>2, <2>7 DEF Assets
  <2>4. Provenance(j) = ProvenanceOf(job'[j]) /\ ReleaseTag(j) = Version[job'[j].inputs.sha]
    BY <2>1, Zenon DEF Provenance, ProvenanceOf, Digest, Sha, ReleaseTag
  <2>5. CASE asset = "charm"
    BY <2>1, <2>3, <2>4, <2>5 DEF InPlace, Assets
  <2>6. CASE asset = "provenance"
    BY <2>1, <2>3, <2>4, <2>6 DEF InPlace, Assets
  <2> QED
    BY <2>5, <2>6 DEF Assets
<1>5. ASSUME NEW j \in Jobs, NEW asset \in Assets, Delete(j, asset) PROVE InPlace(job[j])'
  <2>1. PICK x, y : x = job[j] /\ y = job'[j]
    OBVIOUS
  <2>2. /\ y.old = x.old \ {asset} /\ y.todo = x.todo /\ y.inputs = x.inputs /\ y.file = x.file
        /\ y.revision = x.revision /\ (y.alone => x.alone)
        /\ asset = "charm" => assets'[ReleaseTag(j)].provenance = assets[ReleaseTag(j)].provenance
        /\ asset = "provenance" => assets'[ReleaseTag(j)].charm = assets[ReleaseTag(j)].charm
    BY <1>5, <2>1, DeleteStep, Zenon
  <2>3. asset \in x.old /\ x.pc = "attach" /\ InPlace(x) /\ ReleaseTag(j) = Version[x.inputs.sha]
    BY <1>5, <2>1 DEF Delete, At, PartialInv, ReleaseTag, Sha
  <2>4. y.old \subseteq y.todo /\ y.todo # {} /\ asset \in y.todo
    BY <2>2, <2>3 DEF InPlace
  <2>5. /\ "charm" \notin y.todo => asset = "provenance"
        /\ "provenance" \notin y.todo => asset = "charm"
    BY <2>4 DEF Assets
  <2>6. y.alone /\ "charm" \notin y.todo => assets'[Version[y.inputs.sha]].charm = y.file
    BY <2>2, <2>3, <2>5, Zenon DEF InPlace
  <2>7. y.alone /\ "provenance" \notin y.todo => assets'[Version[y.inputs.sha]].provenance = ProvenanceOf(y)
    BY <2>2, <2>3, <2>5, Zenon DEF InPlace, ProvenanceOf
  <2> QED
    BY <2>1, <2>4, <2>6, <2>7, Zenon DEF InPlace
<1>6. ASSUME NEW j \in Jobs, Release(j) PROVE PartialInv'
  BY <1>2, <1>3, <1>4, <1>5, <1>6, Zenon DEF Release, Alone, PartialInv
<1>7. CASE UNCHANGED vars
  BY <1>1, <1>7 DEF vars
<1>8. CASE \/ Push \/ (\E c \in Commits : CheckVersion(c) \/ PushTag(c)) \/ (\E v \in Versions : PublishRelease(v))
           \/ (\E branch \in {"main", "branch"} : DispatchIntegration(branch))
           \/ (\E r \in DOMAIN runs : Integrate(r))
  BY <1>1, <1>8, Zenon DEF Push, CheckVersion, PushTag, PublishRelease, DispatchIntegration, Integrate, IntegrationTest,
     UploadArtifact, RerunIntegration, IntegrationEnds
<1> QED
  BY <1>6, <1>7, <1>8, Zenon DEF Next

\* A step that leaves the assets of v alone, and neither settles v nor makes it
\* due.
LEMMA SettledStays ==
  ASSUME NEW v \in Versions, SettledInv, Settled(v)', Settled(v)' => Settled(v),
         assets'[v] = assets[v], Due(v)' => Due(v)
  PROVE  /\ assets'[v].charm = assets'[v].provenance.digest
         /\ Due(v)' => assets'[v].provenance # NoProvenance
BY DEF SettledInv

\* The part of Due that is about channels.
Served(v) == \E ch \in Channels : channel[ch] # 0 /\ Version[Source(revisions[channel[ch]])] = v
\* Nothing but a release to a channel makes a version served.
LEMMA ServedStays ==
  ASSUME TypeInv, TypeInv', RevisionInv, [Next]_vars, UNCHANGED channel, NEW v, Served(v)'
  PROVE  Served(v)
<1>1. Extends
  BY NextExtends
<1>2. PICK ch \in Channels : channel[ch] # 0 /\ Version[Source(revisions[channel[ch]])'] = v
  BY DEF Served
<1>3. PICK a : a = revisions[channel[ch]]
  OBVIOUS
<1>4. Publishable(a) /\ revisions'[channel[ch]] = a
  BY <1>1, <1>2, <1>3 DEF RevisionInv, Extends
<1>5. Source(a)' = Source(a)
  BY <1>1, <1>4, StaysPublishable
<1>6. Source(revisions[channel[ch]])' = Source(revisions[channel[ch]])
  BY <1>3, <1>4, <1>5
<1> QED
  BY <1>2, <1>6 DEF Served

\* The steps of a job outside "Attach": no release becomes settled or due.
LEMMA AloneSettled ==
  ASSUME TypeInv, TypeInv', RunsInv, JobInv, RevisionInv, [Next]_vars, NEW j \in Jobs, Alone(j),
         NEW v \in Versions, Settled(v)'
  PROVE  Settled(v) /\ (Due(v)' => Due(v))
<1>1. PICK y \in JobRecords : job' = [job EXCEPT ![j] = y]
  BY AloneStep
<1>2. job'[j] = y /\ \A k \in Jobs \ {j} : job'[k] = job[k]
  BY <1>1 DEF TypeInv
<1>3. torn \subseteq torn' /\ (Partial(j, v) => v \in torn')
  <2>1. CASE Fail(j)
    BY <2>1 DEF Fail, Partial
  <2>2. CASE ~Fail(j)
    <3>1. torn' = torn /\ job[j].pc # "attach"
      BY <2>2, Zenon DEF Alone, DispatchRelease, VerifyUnifiedRelease, VerifyIntegrationRun,
         Download, VerifyDigest, Verified, Upload, UploadLost, ReleaseRevision, VerifyPublishedRevision, At
    <3> QED
      BY <3>1 DEF Partial, At
  <2> QED
    BY <2>1, <2>2
<1>4. Settled(v)
  <2>1. v \notin torn /\ ~Partial(j, v)
    BY <1>3 DEF Settled
  <2>2. ASSUME NEW k \in Jobs \ {j} PROVE ~Partial(k, v)
    BY <1>2 DEF Settled, Partial, At, ReleaseTag, Sha
  <2> QED
    BY <2>1, <2>2 DEF Settled
<1>5. CASE ReleaseRevision(j)
  <2>1. PICK x \in JobRecords : x = job[j] /\ Established(x)
    BY DEF TypeInv, JobInv
  <2>2. x.pc = "release" /\ y = [x EXCEPT !.pc = "verify"] /\ UNCHANGED <<revisions, runs>>
        /\ (channel' = channel \/ channel' = [channel EXCEPT ![x.inputs.channel] = x.revision])
    BY <1>2, <1>5, <2>1 DEF ReleaseRevision, At, integration, TypeInv
  <2>3. y.inputs = x.inputs
    BY <2>2 DEF JobRecords
  <2>4. x.revision \in DOMAIN revisions /\ revisions[x.revision] = x.file /\ Source(x.file) = x.inputs.sha
    BY <2>1, <2>2, FilePublishable DEF Established
  <2>5. Version[x.inputs.sha] = v => Due(v)
    BY <2>1, <2>2 DEF Due, ReleaseTag, Sha
  <2>6. ASSUME NEW k \in Jobs, job'[k].pc \in {"release", "verify"}, ReleaseTag(k)' = v PROVE Due(v)
    BY <1>2, <2>1, <2>3, <2>5, <2>6 DEF Due, ReleaseTag, Sha
  <2>7. ASSUME NEW ch \in Channels, channel'[ch] # 0, Version[Source(revisions[channel[ch]])'] = v PROVE Due(v)
    <3>1. CASE channel'[ch] = channel[ch]
      BY <2>2, <2>7, <3>1 DEF Due, Source
    <3>2. CASE channel'[ch] = x.revision
      BY <2>2, <2>4, <2>5, <2>7, <3>2 DEF Source
    <3> QED
      BY <2>2, <3>1, <3>2 DEF TypeInv, CharmhubType
  <2> QED
    BY <1>4, <2>6, <2>7 DEF Due
<1>6. CASE ~ReleaseRevision(j)
  <2>1. channel' = channel
    BY <1>6, Zenon DEF Alone, DispatchRelease, Fail, VerifyUnifiedRelease, VerifyIntegrationRun,
       Download, VerifyDigest, Verified, Upload, UploadLost, VerifyPublishedRevision, charmhub
  <2>2. job'[j].pc \notin {"release", "verify"}
    <3>1. job \in [Jobs -> JobRecords] /\ job[j] \in JobRecords
      BY DEF TypeInv
    <3>2. ASSUME NEW pc \in JobSteps \ {"release", "verify"}, job' = [job EXCEPT ![j].pc = pc]
          PROVE  job'[j].pc \notin {"release", "verify"}
      <4>1. job'[j] = [job[j] EXCEPT !.pc = pc]
        BY <3>1, <3>2
      <4> QED
        BY <3>1, <4>1 DEF JobRecords
    <3>3. CASE job' = [job EXCEPT ![j] = Idle]
      BY <3>1, <3>3, NewJob
    <3>4. CASE DispatchRelease(j)
      <4>1. PICK inputs : job' = [job EXCEPT ![j] = Started(inputs)]
        BY <3>4 DEF DispatchRelease
      <4> QED
        BY <3>1, <4>1 DEF Started
    <3>5. CASE Download(j)
      <4>1. PICK a \in artifacts : job' = [job EXCEPT ![j].pc = "digest", ![j].file = a]
        BY <3>5 DEF Download
      <4>2. job'[j] = [job[j] EXCEPT !.pc = "digest", !.file = a]
        BY <3>1, <4>1
      <4> QED
        BY <3>1, <4>2 DEF JobRecords
    <3>6. CASE Upload(j)
      <4>1. job'[j] = [job[j] EXCEPT !.pc = "attach", !.revision = Len(revisions'), !.old = Assets, !.todo = Assets]
        BY <3>1, <3>6 DEF Upload
      <4> QED
        BY <3>1, <4>1 DEF JobRecords
    <3> QED
      BY <1>6, <3>2, <3>3, <3>4, <3>5, <3>6
         DEF Alone, Fail, VerifyUnifiedRelease, VerifyIntegrationRun, VerifyDigest, Verified,
             UploadLost, VerifyPublishedRevision, JobSteps
  <2>3. ASSUME NEW k \in Jobs, job'[k].pc \in {"release", "verify"}, ReleaseTag(k)' = v PROVE Due(v)
    BY <1>2, <2>2, <2>3 DEF Due, ReleaseTag, Sha
  <2>4. Served(v)' => Served(v)
    BY <2>1, ServedStays
  <2> QED
    BY <1>4, <2>3, <2>4 DEF Due, Served
<1> QED
  BY <1>5, <1>6

\* Attaching to one release settles or makes due no other.
LEMMA AttachSettled ==
  ASSUME TypeInv, TypeInv', JobInv, RevisionInv, [Next]_vars, NEW j \in Jobs, NEW asset \in Assets,
         Delete(j, asset) \/ Attach(j, asset),
         NEW v \in Versions, v # ReleaseTag(j), Settled(v)'
  PROVE  Settled(v) /\ (Due(v)' => Due(v)) /\ assets'[v] = assets[v]
<1>1. assets'[v] = assets[v] /\ \A k \in Jobs \ {j} : SameBut(job[k], job'[k])
  BY AttachStep, DeleteStep, Zenon
<1>2. ReleaseTag(j)' = ReleaseTag(j)
  BY AttachStep, DeleteStep, Zenon DEF ReleaseTag, Sha
<1>3. torn' = torn \/ torn' = torn \ {ReleaseTag(j)} \/ torn' = torn \cup {ReleaseTag(j)}
  BY Zenon DEF Attach, Delete
<1>4. v \notin torn /\ ~Partial(j, v)
  BY <1>3 DEF Settled, Partial
<1>5. ASSUME NEW k \in Jobs \ {j} PROVE ~Partial(k, v)
  BY <1>1 DEF Settled, Partial, At, ReleaseTag, Sha, SameBut
<1>6. Settled(v)
  BY <1>4, <1>5 DEF Settled
<1>7. channel' = channel
  BY DEF Attach, Delete, charmhub
<1>8. Served(v)' => Served(v)
  BY <1>7, ServedStays
<1>9. ASSUME NEW k \in Jobs, job'[k].pc \in {"release", "verify"}, ReleaseTag(k)' = v PROVE Due(v)
  <2>1. k # j
    BY <1>2, <1>9
  <2> QED
    BY <1>1, <1>9, <2>1 DEF Due, ReleaseTag, Sha, SameBut
<1> QED
  BY <1>1, <1>6, <1>8, <1>9 DEF Due, Served

\* The job that attaches the second asset with nobody in between leaves two
\* assets of its own.
LEMMA LastAttach ==
  ASSUME TypeInv, TypeInv', JobInv, PartialInv, NEW j \in Jobs, NEW asset \in Assets,
         Attach(j, asset), NEW v \in Versions, v = ReleaseTag(j), Settled(v)'
  PROVE  assets'[v].charm = assets'[v].provenance.digest /\ assets'[v].provenance # NoProvenance
<1>1. /\ job'[j].pc = IF job[j].todo = {asset} THEN "release" ELSE "attach"
      /\ job'[j].old = job[j].old /\ job'[j].todo = job[j].todo \ {asset}
      /\ job'[j].inputs = job[j].inputs
  BY AttachStep, Zenon
<1>2. PICK x \in JobRecords : x = job[j] /\ Established(x) /\ InPlace(x)
  BY DEF TypeInv, JobInv, PartialInv
<1>3. x.pc = "attach" /\ x.file = x.inputs.digest /\ asset \in Assets
  BY <1>2 DEF Attach, At, Established
<1>4. v = ReleaseTag(j)
  OBVIOUS
<1>5. Settled(v)' /\ v = Version[x.inputs.sha]
  BY <1>2, <1>4 DEF ReleaseTag, Sha
<1>6. x.todo = {asset}
  <2> SUFFICES ASSUME x.todo # {asset} PROVE FALSE
    OBVIOUS
  <2>1. job'[j].pc = "attach" /\ job'[j].old # Assets
    BY <1>1, <1>2 DEF Attach
  <2>2. ReleaseTag(j)' = v
    BY <1>1, <1>4 DEF ReleaseTag, Sha
  <2>3. Partial(j, v)'
    BY <2>1, <2>2 DEF Partial, At
  <2> QED
    BY <1>5, <2>3 DEF Settled
<1>7. x.alone
  BY <1>2, <1>4, <1>5, <1>6, Zenon DEF Attach, Settled
<1>8. Provenance(j) = ProvenanceOf(x)
  BY <1>2 DEF Provenance, ProvenanceOf, Digest, Sha
<1>9. assets'[v].charm = x.file /\ assets'[v].provenance = ProvenanceOf(x)
  <2>1. CASE asset = "charm"
    <3>1. assets'[v].charm = x.file /\ assets'[v].provenance = assets[v].provenance
      BY <1>2, <1>4, <2>1, AttachStep, Zenon
    <3>2. "provenance" \notin x.todo
      BY <1>6, <2>1
    <3> QED
      BY <1>2, <1>3, <1>5, <1>7, <3>1, <3>2, Zenon DEF InPlace
  <2>2. CASE asset = "provenance"
    <3>1. assets'[v].charm = assets[v].charm /\ assets'[v].provenance = Provenance(j)
      BY <1>2, <1>4, <2>2, AttachStep, Zenon
    <3>2. "charm" \notin x.todo
      BY <1>6, <2>2
    <3> QED
      BY <1>2, <1>3, <1>5, <1>7, <1>8, <3>1, <3>2, Zenon DEF InPlace
  <2> QED
    BY <2>1, <2>2 DEF Assets
<1>10. x.revision \in DOMAIN revisions
  BY <1>2, <1>3 DEF Established
<1>11. x.revision # 0
  BY <1>10 DEF TypeInv, CharmhubType
<1>12. ProvenanceOf(x).digest = x.inputs.digest /\ ProvenanceOf(x) # NoProvenance
  BY <1>11 DEF ProvenanceOf, NoProvenance
<1> QED
  BY <1>3, <1>4, <1>9, <1>12

\* Assets that were attached together stay in agreement.
LEMMA SettledStep ==
  ASSUME TypeInv, TypeInv', RunsInv, JobInv, RevisionInv, PartialInv, SettledInv, [Next]_vars
  PROVE  SettledInv'
<1> DEFINE Agree(v) == /\ assets'[v].charm = assets'[v].provenance.digest
                       /\ Due(v)' => assets'[v].provenance # NoProvenance
<1> SUFFICES ASSUME NEW v \in Versions, Settled(v)' PROVE Agree(v)
  BY DEF SettledInv
<1>1. CASE UNCHANGED <<job, assets, torn, channel>>
  <2>1. Settled(v)
    BY <1>1 DEF Settled, Partial, At, ReleaseTag, Sha
  <2>2. Served(v)' => Served(v)
    BY <1>1, ServedStays
  <2>3. Due(v)' => Due(v)
    BY <1>1, <2>2 DEF Due, Served, ReleaseTag, Sha
  <2> QED
    BY <1>1, <2>1, <2>3, SettledStays
<1>2. ASSUME NEW j \in Jobs, Alone(j) PROVE Agree(v)
  <2>1. assets' = assets
    BY <1>2, Zenon DEF Alone, DispatchRelease, Fail, VerifyUnifiedRelease, VerifyIntegrationRun,
       Download, VerifyDigest, Verified, Upload, UploadLost, ReleaseRevision, VerifyPublishedRevision
  <2>2. Settled(v) /\ (Due(v)' => Due(v))
    BY <1>2, AloneSettled
  <2> QED
    BY <2>1, <2>2, SettledStays
<1>3. ASSUME NEW j \in Jobs, NEW asset \in Assets, Delete(j, asset) \/ Attach(j, asset) PROVE Agree(v)
  <2>1. CASE v # ReleaseTag(j)
    <3>1. Settled(v) /\ (Due(v)' => Due(v)) /\ assets'[v] = assets[v]
      BY <1>3, <2>1, AttachSettled
    <3> QED
      BY <3>1, SettledStays
  <2>2. CASE v = ReleaseTag(j) /\ Attach(j, asset)
    BY <2>2, LastAttach
  <2>3. CASE v = ReleaseTag(j) /\ Delete(j, asset)
    <3>1. job'[j].pc = "attach" /\ job'[j].old = job[j].old \ {asset} /\ job'[j].inputs = job[j].inputs
      BY <2>3, DeleteStep, Zenon
    <3>2. job'[j].old # Assets /\ ReleaseTag(j)' = v
      BY <2>3, <3>1 DEF ReleaseTag, Sha
    <3>3. Partial(j, v)'
      BY <3>1, <3>2 DEF Partial, At
    <3> QED
      BY <3>3 DEF Settled
  <2> QED
    BY <1>3, <2>1, <2>2, <2>3
<1>4. ASSUME NEW j \in Jobs, Release(j) PROVE Agree(v)
  BY <1>2, <1>3, <1>4, Zenon DEF Release, Alone
<1>5. CASE UNCHANGED vars
  BY <1>1, <1>5 DEF vars, charmhub
<1>6. CASE \/ Push \/ (\E c \in Commits : CheckVersion(c) \/ PushTag(c)) \/ (\E w \in Versions : PublishRelease(w))
           \/ (\E branch \in {"main", "branch"} : DispatchIntegration(branch))
           \/ (\E r \in DOMAIN runs : Integrate(r))
  <2>1. UNCHANGED <<job, assets, torn, channel>>
    BY <1>6, Zenon DEF Push, CheckVersion, PushTag, PublishRelease, DispatchIntegration, Integrate, IntegrationTest,
       UploadArtifact, RerunIntegration, IntegrationEnds, charmhub
  <2> QED
    BY <1>1, <2>1
<1> HIDE DEF Agree
<1> QED
  BY <1>4, <1>5, <1>6, Zenon DEF Next

-----------------------------------------------------------------------------
(* The theorems.                                                           *)

\* The invariant holds initially.
LEMMA InitInv == Init => IInv
<1> SUFFICES ASSUME Init PROVE IInv
  OBVIOUS
<1>1. job = [j \in Jobs |-> Idle] /\ Idle \in JobRecords /\ Idle.pc = "idle"
  BY NewJob DEF Init
<1>2. TypeInv
  <2>1. NoProvenance \in Provenances /\ None \in Artifacts
    BY DEF NoProvenance, None, Provenances, Artifacts
  <2>2. assets \in [Versions -> AssetRecords]
    BY <2>1 DEF Init, AssetRecords
  <2>3. job \in [Jobs -> JobRecords]
    BY <1>1
  <2>4. main \in Commits
    BY CommitsAreNumbers DEF Init
  <2> QED
    BY <2>2, <2>3, <2>4 DEF Init, TypeInv, GithubType, CharmhubType
<1>3. RunsInv /\ RevisionInv
  BY DEF Init, RunsInv, RevisionInv
<1>4. JobInv /\ PartialInv
  BY <1>1 DEF JobInv, PartialInv, Established, InPlace
<1>5. \A v \in Versions : assets[v].charm = None /\ assets[v].provenance = NoProvenance
  BY DEF Init
<1>6. (\A v \in Versions : ~Due(v)) /\ ProvenanceInv
  BY <1>1, <1>5 DEF Init, Due, ProvenanceInv
<1>7. SettledInv
  BY <1>5, <1>6 DEF SettledInv, NoProvenance
<1> QED
  BY <1>2, <1>3, <1>4, <1>6, <1>7 DEF IInv

\* The inductive invariant: types, what every job has established, and how
\* the assets of a release stand.
THEOREM Invariance == Spec => []IInv
<1>1. IInv /\ [Next]_vars => IInv'
  <2> SUFFICES ASSUME IInv, [Next]_vars PROVE IInv'
    OBVIOUS
  <2> USE DEF IInv
  <2>1. TypeInv'
    BY TypeStep
  <2>2. RunsInv' /\ JobInv'
    BY <2>1, RunsStep, JobStep
  <2>3. RevisionInv' /\ ProvenanceInv'
    BY <2>1, RevisionStep, ProvenanceStep
  <2>4. PartialInv' /\ SettledInv'
    BY <2>1, PartialStep, SettledStep
  <2> QED
    BY <2>1, <2>2, <2>3, <2>4
<1> QED
  BY InitInv, <1>1, PTL DEF Spec

\* Whatever an operator types and however jobs overlap, fail or are run again,
\* a channel only serves a revision that verify_integration_run.py and
\* verify_unified_release.py would pass: tested on main, of the commit that
\* the final release of its VERSION names.
THEOREM PublishedWasTestedHolds == Spec => []PublishedWasTested
<1>1. IInv => PublishedWasTested
  BY DEF IInv, RevisionInv, Publishable, PublishedWasTested
<1> QED
  BY <1>1, Invariance, PTL

\* The provenance that write_charm_provenance.py attached names the revision
\* that holds its digest, the run that built it and the commit of the tag.
THEOREM ProvenanceTruthfulHolds == Spec => []ProvenanceTruthful
<1>1. IInv => ProvenanceTruthful
  BY DEF IInv, ProvenanceInv, Truthful, ProvenanceTruthful
<1> QED
  BY <1>1, Invariance, PTL

\* The two assets that "gh release upload --clobber" replaced one by one agree
\* once no job is replacing them, unless a job failed there or two attached
\* at once.
THEOREM AttachedAgreeHolds == Spec => []AttachedAgree
<1>1. IInv => AttachedAgree
  <2> SUFFICES ASSUME IInv, NEW v \in Versions, v \notin torn,
                      \A j \in Jobs : At(j, "attach") /\ ReleaseTag(j) = v => job[j].old = Assets
               PROVE  /\ assets[v].charm = assets[v].provenance.digest
                      /\ (\E ch \in Channels : channel[ch] # 0 /\ Version[Source(revisions[channel[ch]])] = v) =>
                           assets[v].provenance # NoProvenance
    BY DEF AttachedAgree
  <2>1. Settled(v)
    BY DEF Settled, Partial
  <2> QED
    BY <2>1 DEF IInv, SettledInv, Due
<1> QED
  BY <1>1, Invariance, PTL
=============================================================================
