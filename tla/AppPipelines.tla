---------------------------- MODULE AppPipelines ----------------------------
(***************************************************************************)
(* How app manifests reach main: scoop-sync.yml and bump.yml each work on  *)
(* a checkout of their own, write Windows manifests, enrich the changed    *)
(* allowlisted packages with Unix sources and open a pull request.  The    *)
(* two run at once, several requests stay open, and main moves meanwhile.  *)
(* A Unix block is the version its payload belongs to; a Windows source is *)
(* a serial number.                                                        *)
(***************************************************************************)
EXTENDS UnixSources

CONSTANTS MaxWrites, MaxOpen \* bounds: manifests written, requests open

ASSUME AppAssumption == MaxWrites \in Nat /\ MaxOpen \in Nat

Job == {"scoop", "bump"}
Allowlisted == {p \in Package : Keys[p] # {}}

VARIABLES
    main,       \* the manifests on main
    jobs,       \* per workflow: its phase, its checkout, its work tree
    prs,        \* the open pull requests
    writes,     \* serial number of the last Windows source
    mismatched  \* Windows sources that the vendor's own checksum contradicts

vars == <<main, jobs, prs, writes, mismatched>>

Blocks(v, keys) == [k \in Platform |-> IF k \in keys THEN v ELSE NoSource]
Empty == [p \in Package |-> [v \in Version |-> NoManifest]]
Idle == [phase |-> "idle", base |-> Empty, tree |-> Empty]

(* Every package has a first version, some of them with blocks of platforms   *)
(* the allowlist does not name: enriched by hand, or under a wider allowlist. *)
Init ==
    /\ \E wider \in SUBSET Package : main = [p \in Package |-> [v \in Version |->
            IF v # 1 THEN NoManifest
            ELSE [win |-> 0, unix |-> Blocks(1, IF p \in wider THEN Platform ELSE Keys[p])]]]
    /\ jobs = [j \in Job |-> Idle]
    /\ prs = {} /\ writes = 0 /\ mismatched = {}

-----------------------------------------------------------------------------
(* One workflow; its concurrency group admits one run. *)

Checkout(j) ==
    /\ jobs[j] = Idle
    /\ jobs' = [jobs EXCEPT ![j] = [phase |-> "windows", base |-> main, tree |-> main]]
    /\ UNCHANGED <<main, prs, writes, mismatched>>

WriteWindows(j, p, v, unix) ==
    /\ writes < MaxWrites /\ writes' = writes + 1
    /\ jobs' = [jobs EXCEPT ![j].tree[p][v] = [win |-> writes + 1, unix |-> unix]]

\* Mutant: a refresh drops the version's Unix blocks.
OwnUnixDropped(manifest) == None

(* The Unix blocks of the manifest a conversion is written over. *)
OwnUnix(manifest) == IF manifest = NoManifest THEN None ELSE manifest.unix

(* scoop-import writes what the buckets have, newer or older than the        *)
(* registry; over a manifest of that version it keeps the Unix blocks.       *)
ScoopWrite(p, v) ==
    /\ jobs["scoop"].phase = "windows"
    /\ WriteWindows("scoop", p, v, OwnUnix(jobs["scoop"].tree[p][v]))
    /\ UNCHANGED <<main, prs, mismatched>>

(* voli-index-tool bump adds one newer version, and "may omit or carry       *)
(* forward old Unix blocks"; the vendor may publish a checksum of its own.   *)
BumpWrite(p, v, carries, mismatch) ==
    LET job == jobs["bump"] IN
    /\ job.phase = "windows" /\ job.tree[p] = job.base[p]
    /\ v > Latest(job.tree, p)
    /\ WriteWindows("bump", p, v, IF carries THEN job.tree[p][Latest(job.tree, p)].unix
                                             ELSE None)
    /\ mismatched' = IF mismatch THEN mismatched \cup {writes + 1} ELSE mismatched
    /\ UNCHANGED <<main, prs>>

\* Mutant: only files that HEAD already has count as changed.
ChangedTracked(j) ==
    {p \in Allowlisted : \E v \in Version :
        jobs[j].base[p][v] # NoManifest /\ jobs[j].tree[p][v] # jobs[j].base[p][v]}

(* Tracked changes and untracked files. *)
ChangedPackages(j) == {p \in Allowlisted : jobs[j].tree[p] # jobs[j].base[p]}

(* brew-import --registry-version: the release of the latest version. *)
Enriched(tree, p) ==
    [tree[p] EXCEPT ![Latest(tree, p)] = MergeUnix(@, Blocks(Latest(tree, p), Keys[p]))]

\* Mutant: a block of another platform is kept.
EnrichRetaining(j) ==
    LET tree == jobs[j].tree IN
    /\ jobs[j].phase = "windows"
    /\ jobs' = [jobs EXCEPT
            ![j].phase = IF j = "bump" THEN "report" ELSE "propose",
            ![j].tree = [p \in Package |-> IF p \in ChangedPackages(j) THEN Enriched(tree, p)
                                                                      ELSE tree[p]]]
    /\ UNCHANGED <<main, prs, writes, mismatched>>

(* Once the Windows tools are done. A block of another platform fails the  *)
(* job, as Break does.                                                     *)
Enrich(j) ==
    LET tree == jobs[j].tree IN
    /\ jobs[j].phase = "windows"
    /\ \A p \in ChangedPackages(j) : ~Retains(tree[p][Latest(tree, p)], p)
    /\ jobs' = [jobs EXCEPT
            ![j].phase = IF j = "bump" THEN "report" ELSE "propose",
            ![j].tree = [p \in Package |-> IF p \in ChangedPackages(j) THEN Enriched(tree, p)
                                                                      ELSE tree[p]]]
    /\ UNCHANGED <<main, prs, writes, mismatched>>

(* bump_pr_report: `git diff base...` compares commits, and the job has not  *)
(* committed anything; a file the base lacks is passed over.                 *)
Committed(job) == job.base
Compared(job) ==
    {f \in Package \X Version :
        /\ Committed(job)[f[1]][f[2]] # job.base[f[1]][f[2]]
        /\ job.base[f[1]][f[2]] # NoManifest}

Report ==
    LET job == jobs["bump"] IN
    /\ job.phase = "report"
    /\ jobs' = [jobs EXCEPT !["bump"] =
            IF \E f \in Compared(job) : job.tree[f[1]][f[2]].win \in mismatched
              THEN Idle ELSE [job EXCEPT !.phase = "propose"]]
    /\ UNCHANGED <<main, prs, writes, mismatched>>

\* Mutant: a request is opened without a change.
ProposeAlways(j) ==
    LET job == jobs[j] IN
    /\ job.phase = "propose" /\ Cardinality(prs) < MaxOpen
    /\ prs' = prs \cup {[by |-> j, base |-> job.base, tree |-> job.tree]}
    /\ jobs' = [jobs EXCEPT ![j] = Idle]
    /\ UNCHANGED <<main, writes, mismatched>>

Propose(j) ==
    LET job == jobs[j] IN
    /\ job.phase = "propose" /\ Cardinality(prs) < MaxOpen
    /\ prs' = IF job.tree = job.base THEN prs
              ELSE prs \cup {[by |-> j, base |-> job.base, tree |-> job.tree]}
    /\ jobs' = [jobs EXCEPT ![j] = Idle]
    /\ UNCHANGED <<main, writes, mismatched>>

(* A step fails: an error of a write, an importer, a release without all     *)
(* allowlisted assets, a validation. The checkout is thrown away.            *)
Break(j) ==
    /\ jobs[j] # Idle
    /\ jobs' = [jobs EXCEPT ![j] = Idle]
    /\ UNCHANGED <<main, prs, writes, mismatched>>

-----------------------------------------------------------------------------
(* Reviewers and git. *)

Clash(base, ours, theirs) == ours # base /\ theirs # base /\ ours # theirs
Pick(base, ours, theirs) == IF theirs = base THEN ours ELSE theirs

Mergeable(base, ours, theirs) ==
    IF NoManifest \in {base, ours, theirs} THEN ~Clash(base, ours, theirs)
    ELSE /\ ~Clash(base.win, ours.win, theirs.win)
         /\ \A k \in Platform : ~Clash(base.unix[k], ours.unix[k], theirs.unix[k])

Merged(base, ours, theirs) ==
    IF NoManifest \in {base, ours, theirs} THEN Pick(base, ours, theirs)
    ELSE [win |-> Pick(base.win, ours.win, theirs.win),
          unix |-> [k \in Platform |-> Pick(base.unix[k], ours.unix[k], theirs.unix[k])]]

MergePR(pr) ==
    /\ \A p \in Package, v \in Version : Mergeable(pr.base[p][v], main[p][v], pr.tree[p][v])
    /\ main' = [p \in Package |-> [v \in Version |->
                    Merged(pr.base[p][v], main[p][v], pr.tree[p][v])]]
    /\ prs' = prs \ {pr}
    /\ UNCHANGED <<jobs, writes, mismatched>>

ClosePR(pr) ==
    /\ prs' = prs \ {pr}
    /\ UNCHANGED <<main, jobs, writes, mismatched>>

Next ==
    \/ \E j \in Job : Checkout(j) \/ Enrich(j) \/ Propose(j) \/ Break(j)
    \/ \E p \in Package, v \in Version : ScoopWrite(p, v)
    \/ \E p \in Package, v \in Version, carries \in BOOLEAN, mismatch \in BOOLEAN :
            BumpWrite(p, v, carries, mismatch)
    \/ Report
    \/ \E pr \in prs : MergePR(pr) \/ ClosePR(pr)

Spec == Init /\ [][Next]_vars

-----------------------------------------------------------------------------
(* Among the types: only the bump reports, and no request is empty.         *)
TypeOK ==
    /\ main \in Tree
    /\ \A j \in Job : /\ jobs[j].base \in Tree /\ jobs[j].tree \in Tree
                      /\ jobs[j].phase \in {"idle", "windows", "report", "propose"}
    /\ jobs["scoop"].phase # "report"
    /\ \A pr \in prs : /\ pr.by \in Job /\ pr.base \in Tree /\ pr.tree \in Tree
                        /\ pr.tree # pr.base
    /\ writes \in 0..MaxWrites /\ mismatched \subseteq 1..MaxWrites

(* The latest version of an allowlisted package has a block for each of its *)
(* platforms and every block is a payload of that very version, whichever   *)
(* requests were open together and in whatever order they were merged       *)
(* (enrich "at its exact registry version").                                *)
LatestIsComplete ==
    \A p \in Allowlisted : \A k \in Keys[p] :
        main[p][Latest(main, p)].unix[k] = Latest(main, p)

(* No version of an allowlisted package, the latest or not, offers the      *)
(* payload of another one (scoop-import: "Never copy them from another      *)
(* version").                                                               *)
BlocksMatchVersion ==
    \A p \in Allowlisted : \A v \in Versions(main, p), k \in Platform :
        main[p][v].unix[k] \in {v, NoSource}

(* A merge never takes a version away, nor a Unix block from a version      *)
(* (scoop-sync.yml: "existing old versions are NEVER deleted").             *)
NothingIsLost ==
    [][\A p \in Package : \A v \in Versions(main, p) :
         /\ main'[p][v] # NoManifest
         /\ \A k \in Platform : main[p][v].unix[k] # NoSource => main'[p][v].unix[k] # NoSource]_vars

(* "A vendor checksum MISMATCH fails here -- the PR is not opened at all"   *)
(* (bump.yml).                                                              *)
MismatchBlocksPR ==
    \A pr \in prs : pr.by = "bump" =>
        \A p \in Package : \A v \in Versions(pr.tree, p) :
            pr.tree[p][v] # pr.base[p][v] => pr.tree[p][v].win \notin mismatched
=============================================================================
