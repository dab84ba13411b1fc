--------------------------- MODULE SkillArchives ---------------------------
(***************************************************************************)
(* tools/publish-skill-assets.py: uploading a generated plan of skill      *)
(* archives to releases of this repository, release by release, while      *)
(* uploads break off, runs are repeated, and maintainers touch the same    *)
(* releases.  An archive is abstracted to its digest.                      *)
(***************************************************************************)
EXTENDS Naturals, Sequences, FiniteSets

CONSTANTS
    Tag, Name, Digest,
    Plans,     \* release plans: sequences of [tag, assets], assets a sequence
    Disks,     \* what can lie beside a plan: the digest of each regular file
    Limit,     \* assets a release can hold; 1000 on GitHub
    MaxBreaks, \* bound: runs that break off
    MaxManual, \* bound: manual changes to releases
    NoFile,    \* no regular file of that name on the runner
    NoAsset,   \* the release has no asset of that name
    Partial    \* an upload that broke off: the name is taken, no digest

Entry == [path : Name, sha256 : Digest]
Asset == Digest \cup {NoAsset, Partial}
Release == [state : {"absent", "draft", "public"}, assets : [Name -> Asset]]

ASSUME ArchivesAssumption ==
    /\ IsFiniteSet(Name)
    /\ Limit \in Nat \ {0} /\ MaxBreaks \in Nat /\ MaxManual \in Nat
    /\ Plans \subseteq Seq([tag : Tag, assets : Seq(Entry)])
    /\ Disks \subseteq [Name -> Digest \cup {NoFile}]
    /\ NoFile \notin Digest /\ NoAsset \notin Digest /\ Partial \notin Digest
    /\ NoAsset # Partial

VARIABLES
    remote,  \* the releases
    plan,    \* release-plan.json
    disk,    \* digests of the files beside it
    phase, at, pending, \* the run: release looked at, uploads to do
    breaks, manual

jobVars == <<phase, at, pending>>
vars == <<remote, plan, disk, jobVars, breaks, manual>>

Held(r) == {n \in Name : remote[r].assets[n] # NoAsset}
Paths(release) == {release.assets[k].path : k \in DOMAIN release.assets}

\* Mutant: the files are not hashed.
PlanWellFormed ==
    /\ \A i, j \in DOMAIN plan : plan[i].tag = plan[j].tag => i = j
    /\ \A i \in DOMAIN plan :
          LET assets == plan[i].assets IN
          /\ Len(assets) \in 1..Limit
          /\ \A k, l \in DOMAIN assets : assets[k].path = assets[l].path => k = l

(* The checks of the complete local plan. *)
PlanValid ==
    /\ \A i, j \in DOMAIN plan : plan[i].tag = plan[j].tag => i = j
    /\ \A i \in DOMAIN plan :
          LET assets == plan[i].assets IN
          /\ Len(assets) \in 1..Limit
          /\ \A k, l \in DOMAIN assets : assets[k].path = assets[l].path => k = l
          /\ \A k \in DOMAIN assets : disk[assets[k].path] = assets[k].sha256

\* Mutant: an asset of the entry's name is taken for the entry.
NoConflict(release) == FALSE

(* An asset of an entry's name with another digest, or with none. *)
Conflict(release) ==
    \E k \in DOMAIN release.assets :
        remote[release.tag].assets[release.assets[k].path]
            \notin {NoAsset, release.assets[k].sha256}

\* Mutant: the limit is left to GitHub.
TooManyUnchecked(release) == FALSE

TooMany(release) == Cardinality(Held(release.tag) \cup Paths(release)) > Limit

-----------------------------------------------------------------------------
(* What complete earlier runs and maintainers have left. *)
EarlierReleases == {r \in Release :
    /\ \A n \in Name : r.assets[n] # Partial
    /\ r.state # "public" => \A n \in Name : r.assets[n] = NoAsset}

Init ==
    /\ remote \in [Tag -> EarlierReleases]
    /\ \A t \in Tag : Cardinality(Held(t)) <= Limit
    /\ plan \in Plans /\ disk \in Disks
    /\ phase = "idle" /\ at = 1 /\ pending = {}
    /\ breaks = 0 /\ manual = 0

(* A run, or a repeated one: nothing remote is touched unless all is valid. *)
Begin ==
    /\ phase = "idle"
    /\ at' = 1
    /\ phase' = IF PlanValid THEN "inspect" ELSE "refused"
    /\ UNCHANGED <<remote, plan, disk, pending, breaks, manual>>

\* Mutant: assets already there are uploaded again.
InspectAll ==
    /\ phase = "inspect" /\ at <= Len(plan)
    /\ LET release == plan[at]
           state == remote[release.tag].state IN
       IF state = "draft" \/ Conflict(release) \/ TooMany(release)
         THEN phase' = "idle" /\ UNCHANGED pending
         ELSE /\ phase' = IF state = "absent" THEN "create" ELSE "upload"
              /\ pending' = Paths(release)
    /\ UNCHANGED <<remote, plan, disk, at, breaks, manual>>

(* Read the release once and plan its uploads from what it held then. *)
Inspect ==
    /\ phase = "inspect" /\ at <= Len(plan)
    /\ LET release == plan[at]
           state == remote[release.tag].state IN
       IF state = "draft" \/ Conflict(release) \/ TooMany(release)
         THEN phase' = "idle" /\ UNCHANGED pending
         ELSE /\ phase' = IF state = "absent" THEN "create" ELSE "upload"
              /\ pending' = Paths(release) \ Held(release.tag)
    /\ UNCHANGED <<remote, plan, disk, at, breaks, manual>>

(* gh release create refuses a tag that has got a release meanwhile. *)
Create ==
    /\ phase = "create"
    /\ LET t == plan[at].tag IN
       IF remote[t].state = "absent"
         THEN remote' = [remote EXCEPT ![t].state = "public"] /\ phase' = "upload"
         ELSE phase' = "idle" /\ UNCHANGED remote
    /\ UNCHANGED <<plan, disk, at, pending, breaks, manual>>

\* Mutant: gh release upload --clobber.
UploadClobbers(n) ==
    /\ phase = "upload" /\ n \in pending
    /\ remote' = [remote EXCEPT ![plan[at].tag].assets[n] = disk[n]]
    /\ pending' = pending \ {n}
    /\ UNCHANGED <<plan, disk, phase, at, breaks, manual>>

(* gh release upload without --clobber: a name taken meanwhile is an error, *)
(* and so is a release GitHub lets hold no more.                            *)
Upload(n) ==
    /\ phase = "upload" /\ n \in pending
    /\ LET t == plan[at].tag IN
       IF remote[t].assets[n] = NoAsset /\ Cardinality(Held(t)) < Limit
         THEN /\ remote' = [remote EXCEPT ![t].assets[n] = disk[n]]
              /\ pending' = pending \ {n} /\ UNCHANGED phase
         ELSE phase' = "idle" /\ UNCHANGED <<remote, pending>>
    /\ UNCHANGED <<plan, disk, at, breaks, manual>>

(* The upload breaks off and leaves the name taken. *)
UploadBreaks(n) ==
    /\ phase = "upload" /\ n \in pending /\ breaks < MaxBreaks
    /\ remote[plan[at].tag].assets[n] = NoAsset
    /\ Cardinality(Held(plan[at].tag)) < Limit
    /\ remote' = [remote EXCEPT ![plan[at].tag].assets[n] = Partial]
    /\ phase' = "idle" /\ breaks' = breaks + 1
    /\ UNCHANGED <<plan, disk, at, pending, manual>>

NextRelease ==
    /\ phase = "upload" /\ pending = {}
    /\ at' = at + 1 /\ phase' = "inspect"
    /\ UNCHANGED <<remote, plan, disk, pending, breaks, manual>>

Succeed ==
    /\ phase = "inspect" /\ at > Len(plan)
    /\ phase' = "done"
    /\ UNCHANGED <<remote, plan, disk, at, pending, breaks, manual>>

(* A failing gh call or a lost runner, before or between the calls. *)
Break ==
    /\ phase \in {"inspect", "create", "upload"} /\ breaks < MaxBreaks
    /\ phase' = "idle" /\ breaks' = breaks + 1
    /\ UNCHANGED <<remote, plan, disk, at, pending, manual>>

(* Maintainers upload an archive by hand, publish a draft, or delete what   *)
(* a broken upload left.                                                    *)
ManualUpload(t, n, d) ==
    /\ manual < MaxManual /\ manual' = manual + 1
    /\ remote[t].state = "public" /\ remote[t].assets[n] = NoAsset
    /\ Cardinality(Held(t)) < Limit
    /\ remote' = [remote EXCEPT ![t].assets[n] = d]
    /\ UNCHANGED <<plan, disk, jobVars, breaks>>

PublishDraft(t) ==
    /\ manual < MaxManual /\ manual' = manual + 1
    /\ remote[t].state = "draft"
    /\ remote' = [remote EXCEPT ![t].state = "public"]
    /\ UNCHANGED <<plan, disk, jobVars, breaks>>

DeletePartial(t, n) ==
    /\ remote[t].assets[n] = Partial
    /\ remote' = [remote EXCEPT ![t].assets[n] = NoAsset]
    /\ UNCHANGED <<plan, disk, jobVars, breaks, manual>>

(* The steps of a run that has been started. *)
RunStep ==
    \/ Inspect \/ Create \/ NextRelease \/ Succeed
    \/ \E n \in Name : Upload(n)

Cleanup == \E t \in Tag, n \in Name : DeletePartial(t, n)

Next ==
    \/ Begin \/ RunStep \/ Break \/ Cleanup
    \/ \E n \in Name : UploadBreaks(n)
    \/ \E t \in Tag : PublishDraft(t)
    \/ \E t \in Tag, n \in Name, d \in Digest : ManualUpload(t, n, d)

Safety == Init /\ [][Next]_vars

(* A run once started takes its steps; nobody has to repeat one that       *)
(* failed, or to delete what a broken upload left.                          *)
Spec == Safety /\ WF_vars(RunStep)

-----------------------------------------------------------------------------
TypeOK ==
    /\ remote \in [Tag -> Release]
    /\ plan \in Plans /\ disk \in Disks
    /\ phase \in {"idle", "inspect", "create", "upload", "done", "refused"}
    /\ at \in 1..Len(plan) + 1 /\ (phase \in {"create", "upload"} => at <= Len(plan))
    /\ pending \subseteq Name
    /\ breaks \in Nat /\ manual \in Nat

(* A finished run has left every archive of its plan on a public release,   *)
(* with the digest the plan and so the manifests of the review PR state,    *)
(* whatever earlier runs left behind (skill-sync uploads before the PR).    *)
DoneMeansDownloadable ==
    phase = "done" =>
        \A i \in DOMAIN plan : \A k \in DOMAIN plan[i].assets :
            LET r == remote[plan[i].tag] IN
            r.state = "public" /\ r.assets[plan[i].assets[k].path] = plan[i].assets[k].sha256

(* An archive once uploaded is never replaced, removed or made private:     *)
(* published manifests refer to it.                                         *)
ArchivesArePermanent ==
    [][\A t \in Tag : /\ remote[t].state = "public" => remote'[t].state = "public"
                      /\ \A n \in Name : remote[t].assets[n] \in Digest =>
                            remote'[t].assets[n] = remote[t].assets[n]]_vars

(* What is uploaded to a release fits from the first call on, so that a run *)
(* is not left half done at GitHub's limit, unless maintainers upload too.  *)
UploadsFit ==
    phase \in {"create", "upload"} /\ manual = 0 =>
        Cardinality(Held(plan[at].tag) \cup pending) <= Limit

(* What people must put right before any run of the plan can succeed: the   *)
(* plan, a draft, a full release, or an asset in the way of an entry; what  *)
(* a broken upload left is one, as it has no digest.                        *)
Blocked ==
    \/ ~PlanValid
    \/ \E i \in DOMAIN plan :
          LET r == remote[plan[i].tag] IN
          \/ r.state = "draft"
          \/ Cardinality(Held(plan[i].tag) \cup Paths(plan[i])) > Limit
          \/ \E k \in DOMAIN plan[i].assets :
                r.assets[plan[i].assets[k].path]
                    \in (Digest \cup {Partial}) \ {plan[i].assets[k].sha256}

(* As long as failed runs are repeated, one completes the plan, or the plan *)
(* is blocked for good ("Retries skip matching remote digests").  A run     *)
(* that broke off between two uploads is completed; one that broke off      *)
(* within an upload fails every repeat until someone deletes what it left.  *)
RetriesComplete ==
    []<>(phase # "idle") => <>(phase = "done") \/ <>[]Blocked
=============================================================================
