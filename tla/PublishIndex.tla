---------------------------- MODULE PublishIndex ----------------------------
(***************************************************************************)
(* The publish workflow (.github/workflows/publish.yml).  A push to main   *)
(* that touches the manifests queues a run; the runs of one concurrency    *)
(* group are serialised, and a newer queued run replaces the older one.  A *)
(* run signs an index built from the commit it was queued for, replaces    *)
(* the assets of the `index` release one by one, and then commits          *)
(* packages.json on top of whatever main is by then, in at most            *)
(* MaxAttempts fetch-and-push rounds.                                      *)
(*                                                                         *)
(* A tree of manifests is abstracted to its generation, the number of      *)
(* manifest-touching merges it contains; packages.json to the generation   *)
(* it was generated from.                                                  *)
(***************************************************************************)
EXTENDS Naturals

CONSTANTS
    Asset,       \* names of the released files
    MaxMerges,   \* bound: merges to main
    MaxManual,   \* bound: dispatches and re-runs asked for by a maintainer
    MaxAttempts, \* rounds of the packages.json loop; 3 in the workflow
    NoBuild,     \* absence of a build: an asset between delete and upload
    NoRun        \* absence of a queued run

Build == [man : Nat, epoch : Nat]
Request == [man : Nat, dist : Build \cup {NoBuild}]

ASSUME PublishAssumption ==
    /\ Asset # {}
    /\ MaxMerges \in Nat /\ MaxManual \in Nat /\ MaxAttempts \in Nat \ {0}
    /\ NoBuild \notin Build /\ NoRun \notin Request

VARIABLES
    (* the repository and the release *)
    main,    \* tip of main: merges in its history, manifests, packages.json
    release, \* the assets of the `index` release
    (* the concurrency group *)
    pending, \* the one queued run, or NoRun
    last,    \* conclusion of the run that finished last
    failed,  \* requests whose run failed; Actions keeps them re-runnable
    (* the running run *)
    phase, run, todo, base, attempt,
    (* counters *)
    epoch,   \* epoch of the index signed last
    manual,  \* dispatches and re-runs so far
    outdated \* history: re-runs of manifests main had outgrown

repoVars == <<main, release>>
groupVars == <<pending, last, failed>>
jobVars == <<phase, run, todo, base, attempt>>
manualVars == <<manual, outdated>>
pubVars == <<repoVars, groupVars, jobVars, epoch, manualVars>>

Tip == [merges : Nat, man : Nat, pkg : Nat]

Build0 == [man |-> 0, epoch |-> 0]
Idle == phase = "idle"

Init ==
    /\ main = [merges |-> 0, man |-> 0, pkg |-> 0]
    /\ release = [a \in Asset |-> Build0]
    /\ pending = NoRun /\ last = "success" /\ failed = {}
    /\ phase = "idle" /\ run = [man |-> 0, dist |-> NoBuild]
    /\ todo = {} /\ base = main /\ attempt = 0
    /\ epoch = 0 /\ manual = 0 /\ outdated = 0

-----------------------------------------------------------------------------
(* Events that queue a run.  Queueing replaces the run already waiting. *)

\* Mutant: the run that waits first is kept.
QueueKeepsOldest(man, dist) ==
    pending' = IF pending = NoRun THEN [man |-> man, dist |-> dist] ELSE pending

Queue(man, dist) == pending' = [man |-> man, dist |-> dist]

(* A merge that touches manifests/** : the paths filter matches. *)
MergeManifests ==
    /\ main.merges < MaxMerges
    /\ main' = [merges |-> main.merges + 1, man |-> main.man + 1, pkg |-> main.pkg]
    /\ Queue(main.man + 1, NoBuild)
    /\ UNCHANGED <<release, last, failed, jobVars, epoch, manualVars>>

(* A merge of the workflow file alone is queued too, of anything else not. *)
MergeOther(matches) ==
    /\ main.merges < MaxMerges
    /\ main' = [main EXCEPT !.merges = @ + 1]
    /\ IF matches THEN Queue(main.man, NoBuild) ELSE UNCHANGED pending
    /\ UNCHANGED <<release, last, failed, jobVars, epoch, manualVars>>

(* workflow_dispatch runs the tip of main. *)
Dispatch ==
    /\ manual < MaxManual
    /\ manual' = manual + 1
    /\ Queue(main.man, NoBuild)
    /\ UNCHANGED <<repoVars, last, failed, jobVars, epoch, outdated>>

(* Re-running keeps the run's original commit.  "Failed jobs" also keeps    *)
(* the artifact of a sign job that had succeeded; "all jobs" signs again.  *)
Rerun(r, all) ==
    /\ manual < MaxManual
    /\ manual' = manual + 1
    /\ outdated' = IF r.man = main.man THEN outdated ELSE outdated + 1
    /\ failed' = failed \ {r}
    /\ Queue(r.man, IF all THEN NoBuild ELSE r.dist)
    /\ UNCHANGED <<repoVars, last, jobVars, epoch>>

-----------------------------------------------------------------------------
(* The run. *)

Start ==
    /\ Idle /\ pending # NoRun
    /\ run' = pending
    /\ pending' = NoRun
    /\ phase' = IF pending.dist = NoBuild THEN "sign" ELSE "upload"
    /\ todo' = Asset
    /\ UNCHANGED <<repoVars, last, failed, base, attempt, epoch, manualVars>>

(* The sign job passed its preflight and signed the commit's manifests. *)
Sign ==
    /\ phase = "sign"
    /\ epoch' = epoch + 1
    /\ run' = [run EXCEPT !.dist = [man |-> run.man, epoch |-> epoch + 1]]
    /\ phase' = "upload"
    /\ UNCHANGED <<repoVars, groupVars, todo, base, attempt, manualVars>>

(* The release action replaces assets concurrently; an asset that exists    *)
(* is deleted first, so a reader can find it missing.                       *)
DeleteAsset(a) ==
    /\ phase = "upload" /\ a \in todo /\ release[a] # NoBuild
    /\ release' = [release EXCEPT ![a] = NoBuild]
    /\ UNCHANGED <<main, groupVars, jobVars, epoch, manualVars>>

\* Mutant: the publish job builds from its own checkout of main.
UploadRebuilt(a) ==
    /\ phase = "upload" /\ a \in todo /\ release[a] = NoBuild
    /\ release' = [release EXCEPT ![a] = [man |-> main.man, epoch |-> run.dist.epoch]]
    /\ todo' = todo \ {a}
    /\ UNCHANGED <<main, groupVars, phase, run, base, attempt, epoch, manualVars>>

UploadAsset(a) ==
    /\ phase = "upload" /\ a \in todo /\ release[a] = NoBuild
    /\ release' = [release EXCEPT ![a] = run.dist]
    /\ todo' = todo \ {a}
    /\ UNCHANGED <<main, groupVars, phase, run, base, attempt, epoch, manualVars>>

\* Mutant: the release step does not wait for its uploads.
UploadedEarly ==
    /\ phase = "upload"
    /\ phase' = "fetch" /\ attempt' = 1
    /\ UNCHANGED <<repoVars, groupVars, run, todo, base, epoch, manualVars>>

Uploaded ==
    /\ phase = "upload" /\ todo = {}
    /\ phase' = "fetch" /\ attempt' = 1
    /\ UNCHANGED <<repoVars, groupVars, run, todo, base, epoch, manualVars>>

Conclude(conclusion) ==
    /\ phase' = "idle" /\ last' = conclusion
    /\ failed' = IF conclusion = "failure" THEN failed \cup {run} ELSE failed

(* git fetch, git reset --hard, cp: an unchanged packages.json ends the run. *)
Fetch ==
    /\ phase = "fetch"
    /\ base' = main
    /\ IF main.pkg = run.dist.man
         THEN Conclude("success")
         ELSE phase' = "push" /\ UNCHANGED <<last, failed>>
    /\ UNCHANGED <<repoVars, pending, run, todo, attempt, epoch, manualVars>>

\* Mutant: one round too many.
RetryOnceMore ==
    IF attempt <= MaxAttempts
      THEN phase' = "fetch" /\ attempt' = attempt + 1 /\ UNCHANGED <<last, failed>>
      ELSE Conclude("failure") /\ UNCHANGED attempt

\* Mutant: the loop ends without the final exit 1.
RetryEndsGreen ==
    IF attempt < MaxAttempts
      THEN phase' = "fetch" /\ attempt' = attempt + 1 /\ UNCHANGED <<last, failed>>
      ELSE Conclude("success") /\ UNCHANGED attempt

(* The next round of the loop, or its end. *)
Retry ==
    IF attempt < MaxAttempts
      THEN phase' = "fetch" /\ attempt' = attempt + 1 /\ UNCHANGED <<last, failed>>
      ELSE Conclude("failure") /\ UNCHANGED attempt

\* Mutant: the push is forced.
PushForced(answered) ==
    /\ phase = "push"
    /\ main' = [base EXCEPT !.pkg = run.dist.man]
    /\ IF answered THEN Conclude("success") /\ UNCHANGED attempt ELSE Retry
    /\ UNCHANGED <<release, pending, run, todo, base, epoch, manualVars>>

(* git push is a compare-and-swap of main's tip; the answer may be lost. *)
PushLands(answered) ==
    /\ phase = "push" /\ main = base
    /\ main' = [base EXCEPT !.pkg = run.dist.man]
    /\ IF answered THEN Conclude("success") /\ UNCHANGED attempt ELSE Retry
    /\ UNCHANGED <<release, pending, run, todo, base, epoch, manualVars>>

(* main moved under the job, or the push never reached the server. *)
PushFails ==
    /\ phase = "push"
    /\ Retry
    /\ UNCHANGED <<repoVars, pending, run, todo, base, epoch, manualVars>>

(* A failing step, a lost runner or a cancelled run, in any phase. *)
Fail ==
    /\ ~Idle
    /\ Conclude("failure")
    /\ UNCHANGED <<repoVars, pending, run, todo, base, attempt, epoch, manualVars>>

Step ==
    \/ Start \/ Sign \/ Uploaded \/ Fetch \/ PushFails \/ Fail
    \/ \E a \in Asset : DeleteAsset(a) \/ UploadAsset(a)
    \/ \E answered \in BOOLEAN : PushLands(answered)

Next ==
    \/ Step
    \/ MergeManifests \/ Dispatch
    \/ \E matches \in BOOLEAN : MergeOther(matches)
    \/ \E r \in failed, all \in BOOLEAN : Rerun(r, all)

(* A queued run is started and a running one ends: every job has a timeout. *)
Fairness == WF_pubVars(Step)

Spec == Init /\ [][Next]_pubVars /\ Fairness

-----------------------------------------------------------------------------
TypeOK ==
    /\ main \in Tip /\ base \in Tip
    /\ release \in [Asset -> Build \cup {NoBuild}]
    /\ pending \in Request \cup {NoRun}
    /\ last \in {"success", "failure"} /\ failed \subseteq Request
    /\ phase \in {"idle", "sign", "upload", "fetch", "push"}
    /\ run \in Request /\ todo \subseteq Asset
    /\ phase \in {"upload", "fetch", "push"} => run.dist \in Build
    /\ attempt \in 0..MaxAttempts /\ epoch \in Nat /\ manual \in Nat /\ outdated \in Nat

Quiet == Idle /\ pending = NoRun

(* When nothing runs or waits and the last run was green, the release is    *)
(* one complete build of main's manifests and the website's packages.json   *)
(* is generated from them too, although merges raced the run, queued runs   *)
(* were replaced, pushes were rejected and failed runs of main's manifests  *)
(* were re-run (publish.yml, concurrency and the packages.json loop).  Only *)
(* a re-run of older manifests is excepted: see StaleIsTransient.           *)
GreenMeansPublished ==
    Quiet /\ last = "success" /\ outdated = 0 =>
        /\ main.pkg = main.man
        /\ \A a \in Asset : release[a] # NoBuild /\ release[a].man = main.man
        /\ \A a, b \in Asset : release[a] = release[b]

(* Between a green run and the next one the release is one complete build,  *)
(* and the website lists exactly that build's manifests, whatever runs      *)
(* broke off before and even if older runs were re-run.                     *)
GreenIsWhole ==
    Idle /\ last = "success" =>
        \A a, b \in Asset : /\ release[a] # NoBuild /\ release[a] = release[b]
                            /\ release[a].man = main.pkg

(* The website never lists manifests the released index lacks: every asset  *)
(* present is built from main's packages.json generation or a later one     *)
(* (the release step precedes the commit step), until older manifests are   *)
(* re-run.                                                                  *)
WebsiteNotAhead ==
    outdated = 0 => \A a \in Asset : release[a] # NoBuild => main.pkg <= release[a].man

(* Why the two hold.  The newest queued or running run is for main's        *)
(* manifests, no run is for later ones, and an artifact is its own run's.   *)
RunsFollowMain ==
    /\ pending # NoRun => pending.man = main.man
    /\ ~Idle => run.man <= main.man
    /\ ~Idle /\ pending = NoRun => run.man = main.man
    /\ \A r \in (failed \cup {run, pending}) \ {NoRun} :
            r.dist # NoBuild => r.dist.man = r.man

(* An asset present is no older than the website's list and no newer than   *)
(* the run; those uploaded by the run are its own build.                    *)
ReleaseFollowsRun ==
    /\ main.pkg <= main.man
    /\ ~Idle => main.pkg <= run.man
    /\ \A a \in Asset : release[a] # NoBuild =>
          /\ main.pkg <= release[a].man /\ release[a].man <= main.man
          /\ ~Idle => release[a].man <= run.man
    /\ phase = "sign" => todo = Asset
    /\ phase = "upload" => \A a \in Asset \ todo : release[a] = run.dist
    /\ phase \in {"fetch", "push"} => \A a \in Asset : release[a] = run.dist

PublishInv == (outdated = 0 => RunsFollowMain /\ ReleaseFollowsRun) /\ GreenMeansPublished

(* Committing packages.json never drops a merge from main: the push is      *)
(* refused unless main is still the tip the run rebuilt on.                 *)
MainKeepsMerges ==
    [][main'.merges >= main.merges /\ main'.man >= main.man]_pubVars

(* A stale packages.json is stale only until the run queued behind it ends, *)
(* unless a red run says so (comment of the packages.json step).            *)
StaleIsTransient ==
    main.pkg # main.man => ~Quiet \/ last = "failure"

(* Every merge of manifests is eventually on the website, or a run that     *)
(* contained it has failed, although its own run may have been replaced in  *)
(* the queue, unless older manifests are re-run.                            *)
MergesArePublished ==
    \A g \in 1..MaxMerges :
        (main.man >= g) ~> \/ main.pkg >= g \/ \E r \in failed : r.man >= g
                           \/ outdated > 0
=============================================================================
