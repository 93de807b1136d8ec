---------------------------- MODULE CharmRelease ----------------------------
(***************************************************************************)
(* The publication of the charm: charm-integration.yml builds and tests an *)
(* artifact of a commit of main, release.yml tags a commit and publishes   *)
(* the unified GitHub release, and charm-release.yml uploads a tested      *)
(* artifact to Charmhub, attaches it with its provenance to the unified    *)
(* release and moves a channel to the new revision.  Runs of one workflow  *)
(* may overlap (no workflow has a concurrency group), every step may fail, *)
(* and a run may be started again with the same inputs.                    *)
(*                                                                         *)
(* Commits of main are 1, 2, ...; commit 0 stands for a branch that is not *)
(* on main, whose copy of the integration workflow need not test anything. *)
(* An artifact is the pair of the run and the attempt that built it, and   *)
(* also stands for its SHA-256.                                            *)
(***************************************************************************)
EXTENDS Naturals, Sequences

CONSTANTS
    Version,     \* Version[c]: the VERSION file of commit c of main
    Documented,  \* commits with CHANGELOG.md sections for their VERSION
    Channels,    \* Charmhub channels
    Jobs,        \* runs of charm-release.yml that may overlap
    MaxRuns,     \* bound on integration runs
    MaxReruns,   \* bound on integration runs that are started again
    MaxReleases  \* bound on runs of charm-release.yml

Commits == DOMAIN Version
Versions == {Version[c] : c \in Commits}

ASSUME VersionAssumption == Version \in Seq(Nat \ {0}) /\ Version # <<>> /\ Documented \subseteq Commits
ASSUME BoundsAssumption == MaxRuns \in Nat /\ MaxReruns \in Nat /\ MaxReleases \in Nat

VARIABLES
    main,      \* the newest commit of main
    cleared,   \* commits for which a run of release.yml has passed its checks
    tag,       \* tag[v]: the commit that tag v<v> names, 0 if there is no tag
    release,   \* release[v]: "none", "draft" or "final"
    runs,      \* integration runs
    artifacts, \* artifacts that GitHub stores
    tested,    \* history: artifacts that passed the integration matrix
    revisions, \* Charmhub: revisions[n] is the artifact of revision n
    channel,   \* Charmhub: the revision a channel serves, 0 if none
    assets,    \* assets[v]: what is attached to the unified release
    job,       \* release jobs
    torn,      \* history: releases whose two assets were not attached together
    reruns,    \* integration runs started again so far
    releases   \* runs of charm-release.yml so far

github == <<main, cleared, tag, release>>
integration == <<runs, artifacts, tested>>
charmhub == <<revisions, channel>>
count == <<reruns, releases>>
vars == <<github, integration, charmhub, assets, job, torn, count>>

None == <<0, 0>>
NoProvenance == [digest |-> None, revision |-> 0, channel |-> "none", run |-> 0, sha |-> 0]
Assets == {"charm", "provenance"}

\* The job at its first step, and no job at all.
Started(inputs) ==
    [inputs |-> inputs, pc |-> "unified", file |-> None, revision |-> 0,
     old |-> {}, todo |-> {}, alone |-> TRUE]
Idle == [Started(<<>>) EXCEPT !.pc = "idle"]

Init ==
    /\ main = 1 /\ cleared = {}
    /\ tag = [v \in Versions |-> 0]
    /\ release = [v \in Versions |-> "none"]
    /\ runs = <<>> /\ artifacts = {} /\ tested = {}
    /\ revisions = <<>> /\ channel = [ch \in Channels |-> 0]
    /\ assets = [v \in Versions |-> [charm |-> None, provenance |-> NoProvenance]]
    /\ job = [j \in Jobs |-> Idle]
    /\ torn = {} /\ reruns = 0 /\ releases = 0

-----------------------------------------------------------------------------
(* The repository and release.yml.                                         *)

Push ==
    /\ main < Len(Version)
    /\ main' = main + 1
    /\ UNCHANGED <<cleared, tag, release, integration, charmhub, assets, job, torn, count>>

\* version-bump-check and changelog-check of a final release pass; the run may
\* have checked out a commit that is not the newest one any more.
CheckVersion(c) ==
    /\ c <= main
    /\ c \in Documented
    /\ \A v \in Versions : tag[v] # 0 => v < Version[c]
    /\ cleared' = cleared \cup {c}
    /\ UNCHANGED <<main, tag, release, integration, charmhub, assets, job, torn, count>>

\* Later, in another job, the tag is pushed unless it exists: other runs for
\* the same VERSION fail.  A higher version may have been tagged meanwhile.
PushTag(c) ==
    /\ c \in cleared
    /\ tag[Version[c]] = 0
    /\ tag' = [tag EXCEPT ![Version[c]] = c]
    /\ cleared' = {d \in cleared : Version[d] # Version[c]}
    /\ UNCHANGED <<main, release, integration, charmhub, assets, job, torn, count>>

\* action-gh-release: the release is created, perhaps as a draft first.
PublishRelease(v) ==
    /\ tag[v] # 0
    /\ \E state \in {"draft", "final"} :
          /\ release[v] # "final" /\ release[v] # state
          /\ release' = [release EXCEPT ![v] = state]
    /\ UNCHANGED <<main, cleared, tag, integration, charmhub, assets, job, torn, count>>

-----------------------------------------------------------------------------
(* charm-integration.yml.                                                  *)

\* workflow_dispatch: on main the job runs only for the commit main is at.
DispatchIntegration(branch) ==
    /\ Len(runs) < MaxRuns
    /\ runs' = Append(runs, [head_branch |-> branch, head_sha |-> IF branch = "main" THEN main ELSE 0,
                             attempt |-> 1, step |-> "test"])
    /\ UNCHANGED <<artifacts, tested, github, charmhub, assets, job, torn, count>>

Built(r) == <<r, runs[r].attempt>>
Goto(r, step) == runs' = [runs EXCEPT ![r].step = step]

\* The required integration matrix passes.
IntegrationTest(r) ==
    /\ runs[r].step = "test"
    /\ Goto(r, "upload")
    /\ tested' = IF runs[r].head_branch = "main" THEN tested \cup {Built(r)} ELSE tested
    /\ UNCHANGED <<artifacts, github, charmhub, assets, job, torn, count>>

UploadArtifact(r) ==
    /\ runs[r].step = "upload"
    /\ Goto(r, "diagnostics")
    /\ artifacts' = artifacts \cup {Built(r)}
    /\ UNCHANGED <<tested, github, charmhub, assets, job, torn, count>>

\* The run succeeds after its last step, or fails, is cancelled or times out.
IntegrationEnds(r, conclusion) ==
    /\ runs[r].step \notin {"success", "failure"}
    /\ conclusion = "success" => runs[r].step = "diagnostics"
    /\ Goto(r, conclusion)
    /\ UNCHANGED <<artifacts, tested, github, charmhub, assets, job, torn, count>>

\* Re-run all jobs: the same run id with a new attempt.
RerunIntegration(r) ==
    /\ runs[r].step \in {"success", "failure"}
    /\ reruns < MaxReruns
    /\ reruns' = reruns + 1
    /\ runs' = [runs EXCEPT ![r].step = "test", ![r].attempt = @ + 1]
    /\ UNCHANGED <<artifacts, tested, github, charmhub, assets, job, torn, releases>>

Integrate(r) ==
    \/ IntegrationTest(r) \/ UploadArtifact(r) \/ RerunIntegration(r)
    \/ \E conclusion \in {"success", "failure"} : IntegrationEnds(r, conclusion)

-----------------------------------------------------------------------------
(* charm-release.yml.                                                      *)

\* The commit is on main, and stays there.
VerifySource(sha) == sha \in 1..main

\* The operator's inputs: any commit, any run, the digest of any artifact.  A
\* job that is run again is one with the same inputs.  One whose commit is not
\* on main ends at its first step, without having changed anything.
DispatchRelease(j) ==
    /\ job[j].pc = "idle"
    /\ releases < MaxReleases
    /\ releases' = releases + 1
    /\ \E sha \in 0..main, run \in DOMAIN runs, digest \in artifacts, ch \in Channels :
          /\ VerifySource(sha)
          /\ job' = [job EXCEPT ![j] =
                       Started([sha |-> sha, run |-> run, digest |-> digest, channel |-> ch])]
    /\ UNCHANGED <<github, integration, charmhub, assets, torn, reruns>>

Sha(j) == job[j].inputs.sha
Digest(j) == job[j].inputs.digest
ReleaseTag(j) == Version[Sha(j)]

At(j, pc) == job[j].pc = pc

\* A verification step: the job goes on to pc.
Verified(j, pc) ==
    /\ job' = [job EXCEPT ![j].pc = pc]
    /\ UNCHANGED <<github, integration, charmhub, assets, torn, count>>

\* Mutant: any tag for VERSION will do.
VerifyUnifiedReleaseAnyTag(j) ==
    /\ At(j, "unified")
    /\ tag[ReleaseTag(j)] # 0
    /\ release[ReleaseTag(j)] = "final"
    /\ Sha(j) \in Documented
    /\ Verified(j, "run")

\* verify_unified_release.py: the tag for VERSION names this very commit, its
\* release is neither a draft nor missing, and both verticals are documented;
\* then the source tests run again.
VerifyUnifiedRelease(j) ==
    /\ At(j, "unified")
    /\ tag[ReleaseTag(j)] = Sha(j)
    /\ release[ReleaseTag(j)] = "final"
    /\ Sha(j) \in Documented
    /\ Verified(j, "run")

\* verify_integration_run.py: the run, in its latest attempt.
VerifyIntegrationRun(j) ==
    /\ At(j, "run")
    /\ LET run == runs[job[j].inputs.run]
       IN  run.step = "success" /\ run.head_branch = "main" /\ run.head_sha = Sha(j)
    /\ Verified(j, "download")

\* download-artifact: an artifact of that run, of whichever attempt.
Download(j) ==
    /\ At(j, "download")
    /\ \E a \in artifacts :
          /\ a[1] = job[j].inputs.run
          /\ job' = [job EXCEPT ![j].pc = "digest", ![j].file = a]
    /\ UNCHANGED <<github, integration, charmhub, assets, torn, count>>

VerifyDigest(j) == At(j, "digest") /\ job[j].file = Digest(j) /\ Verified(j, "upload")

\* Mutant: only the provenance is attached.
UploadNoCharm(j) ==
    /\ At(j, "upload")
    /\ revisions' = Append(revisions, job[j].file)
    /\ job' = [job EXCEPT ![j] =
                 [@ EXCEPT !.pc = "attach", !.revision = Len(revisions'), !.old = Assets,
                           !.todo = {"provenance"}]]
    /\ UNCHANGED <<channel, github, integration, assets, torn, count>>

\* charmcraft upload; its answer may be lost after the revision was made.
Upload(j) ==
    /\ At(j, "upload")
    /\ revisions' = Append(revisions, job[j].file)
    /\ job' = [job EXCEPT ![j] =
                 [@ EXCEPT !.pc = "attach", !.revision = Len(revisions'), !.old = Assets, !.todo = Assets]]
    /\ UNCHANGED <<channel, github, integration, assets, torn, count>>

UploadLost(j) ==
    /\ At(j, "upload")
    /\ revisions' = Append(revisions, job[j].file)
    /\ job' = [job EXCEPT ![j] = Idle]
    /\ UNCHANGED <<channel, github, integration, assets, torn, count>>

\* Mutant: the provenance names the commit that main is at.
ProvenanceHead(j) ==
    [digest |-> Digest(j), revision |-> job[j].revision, channel |-> job[j].inputs.channel,
     run |-> job[j].inputs.run, sha |-> main]

\* write_charm_provenance.py.  It names the channel before the channel moves.
Provenance(j) ==
    [digest |-> Digest(j), revision |-> job[j].revision, channel |-> job[j].inputs.channel,
     run |-> job[j].inputs.run, sha |-> Sha(j)]

Content(j, asset) == IF asset = "charm" THEN job[j].file ELSE Provenance(j)

\* The other jobs that have begun to replace the assets of the release.
Halfway(j) == {k \in Jobs \ {j} :
                  At(k, "attach") /\ job[k].old # Assets /\ ReleaseTag(k) = ReleaseTag(j)}

\* Job j becomes x; the jobs that are halfway are not alone any more.
Touch(j, x) ==
    job' = [k \in Jobs |->
              IF k = j THEN x
              ELSE IF k \in Halfway(j) THEN [job[k] EXCEPT !.alone = FALSE] ELSE job[k]]

Nothing(asset) == IF asset = "charm" THEN None ELSE NoProvenance

\* gh release upload --clobber first deletes an asset of that name.  The digest
\* was compared once more before.
Delete(j, asset) ==
    /\ At(j, "attach")
    /\ asset \in job[j].old
    /\ job[j].file = Digest(j)
    /\ assets' = [assets EXCEPT ![ReleaseTag(j)][asset] = Nothing(asset)]
    /\ LET alone == job[j].alone /\ Halfway(j) = {}
       IN  Touch(j, [job[j] EXCEPT !.old = @ \ {asset}, !.alone = alone])
    /\ UNCHANGED <<github, integration, charmhub, torn, count>>

\* Then it uploads the new one, which GitHub refuses if another job has put
\* one there; the two assets are replaced side by side.
Attach(j, asset) ==
    /\ At(j, "attach")
    /\ asset \in job[j].todo \ job[j].old
    /\ assets[ReleaseTag(j)][asset] = Nothing(asset)
    /\ assets' = [assets EXCEPT ![ReleaseTag(j)][asset] = Content(j, asset)]
    /\ LET last == job[j].todo = {asset}
           alone == job[j].alone /\ Halfway(j) = {}
       IN  /\ Touch(j, [job[j] EXCEPT !.todo = @ \ {asset}, !.alone = alone,
                                      !.pc = IF last THEN "release" ELSE @])
           /\ torn' = IF ~last THEN torn
                      ELSE IF alone THEN torn \ {ReleaseTag(j)} ELSE torn \cup {ReleaseTag(j)}
    /\ UNCHANGED <<github, integration, charmhub, count>>

\* charmcraft release returns, with or without having moved the channel.
ReleaseRevision(j) ==
    /\ At(j, "release")
    /\ channel' \in {channel, [channel EXCEPT ![job[j].inputs.channel] = job[j].revision]}
    /\ job' = [job EXCEPT ![j].pc = "verify"]
    /\ UNCHANGED <<revisions, github, integration, assets, torn, count>>

\* verify_charmhub_release.py: the channel serves exactly this revision.
VerifyPublishedRevision(j) ==
    /\ At(j, "verify")
    /\ channel[job[j].inputs.channel] = job[j].revision
    /\ job' = [job EXCEPT ![j] = Idle]
    /\ UNCHANGED <<github, integration, charmhub, assets, torn, count>>

\* A check that does not pass, a command that fails, or a cancelled job.
Fail(j) ==
    /\ job[j].pc # "idle"
    /\ job' = [job EXCEPT ![j] = Idle]
    /\ torn' = IF At(j, "attach") /\ job[j].old # Assets THEN torn \cup {ReleaseTag(j)} ELSE torn
    /\ UNCHANGED <<github, integration, charmhub, assets, count>>

Release(j) ==
    \/ DispatchRelease(j) \/ Fail(j)
    \/ VerifyUnifiedRelease(j) \/ VerifyIntegrationRun(j) \/ Download(j) \/ VerifyDigest(j) \/ Upload(j) \/ UploadLost(j)
    \/ \E asset \in Assets : Delete(j, asset) \/ Attach(j, asset)
    \/ ReleaseRevision(j) \/ VerifyPublishedRevision(j)

Next ==
    \/ Push
    \/ \E c \in Commits : CheckVersion(c) \/ PushTag(c)
    \/ \E v \in Versions : PublishRelease(v)
    \/ \E branch \in {"main", "branch"} : DispatchIntegration(branch)
    \/ \E r \in DOMAIN runs : Integrate(r)
    \/ \E j \in Jobs : Release(j)

Spec == Init /\ [][Next]_vars

-----------------------------------------------------------------------------
(* Properties.                                                             *)

Source(a) == runs[a[1]].head_sha

\* Whatever an operator types, jobs overlap or fail on: a channel only ever
\* serves an artifact that passed the integration matrix in the run that built
\* it on main, from the commit that the final unified release of its VERSION
\* names ("publishes the exact integration-tested charm artifact").
PublishedWasTested ==
    \A ch \in Channels : channel[ch] # 0 =>
        LET a == revisions[channel[ch]]
            v == Version[Source(a)]
        IN  a \in tested /\ tag[v] = Source(a) /\ release[v] = "final"

\* The provenance attached to a release tells the truth about Charmhub and
\* about GitHub: its revision holds the artifact with its digest, which its
\* run built from its commit, the one that the release's tag names.
ProvenanceTruthful ==
    \A v \in Versions : assets[v].provenance # NoProvenance =>
        LET p == assets[v].provenance
        IN  /\ revisions[p.revision] = p.digest
            /\ p.run = p.digest[1]
            /\ p.sha = Source(p.digest) /\ p.sha = tag[v]

\* Once every job that was attaching to a release has finished with it, the
\* attached charm is the one that the attached provenance describes, and
\* a charm that a channel serves has provenance attached; except after a job
\* that failed before both were replaced or two that attached at the same time,
\* and then only until a job attaches both undisturbed.
AttachedAgree ==
    \A v \in Versions :
        v \notin torn /\ (\A j \in Jobs : At(j, "attach") /\ ReleaseTag(j) = v => job[j].old = Assets) =>
          /\ assets[v].charm = assets[v].provenance.digest
          /\ (\E ch \in Channels : channel[ch] # 0 /\ Version[Source(revisions[channel[ch]])] = v) =>
               assets[v].provenance # NoProvenance
=============================================================================
