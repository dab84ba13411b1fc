------------------------- MODULE AppPipelinesProofs -------------------------
(***************************************************************************)
(* What the app workflows promise of the manifests on main, for any        *)
(* packages, platforms and allowlists, and for any number of requests that *)
(* are open together and merged in any order.                              *)
(***************************************************************************)
EXTENDS AppPipelines, LeastNumbers, TLAPS

Phase == {"idle", "windows", "report", "propose"}

Typed ==
    /\ main \in Tree
    /\ jobs \in [Job -> [phase : Phase, base : Tree, tree : Tree]]
    /\ jobs["scoop"].phase # "report"
    /\ \A pr \in prs : /\ pr \in [by : Job, base : Tree, tree : Tree]
                       /\ pr.tree # pr.base
    /\ writes \in 0..MaxWrites /\ mismatched \subseteq 1..MaxWrites

(* The blocks of a manifest are payloads of that version; the latest has    *)
(* all of them.                                                             *)
Matches(manifest, v) == \A k \in Platform : manifest.unix[k] \in {v, NoSource}
BlocksMatch(tree, p) == \A v \in Versions(tree, p) : Matches(tree[p][v], v)
Complete(tree, p) ==
    \A k \in Keys[p] : tree[p][Latest(tree, p)].unix[k] = Latest(tree, p)

(* Nothing of a base is missing in what was made of it. *)
Keeps(base, tree) ==
    \A p \in Package : \A v \in Versions(base, p) :
        /\ tree[p][v] # NoManifest
        /\ \A k \in Platform : base[p][v].unix[k] # NoSource => tree[p][v].unix[k] # NoSource

(* A tree that is main, or was. *)
Whole(tree) ==
    /\ \A p \in Package : Versions(tree, p) # {}
    /\ \A p \in Allowlisted : BlocksMatch(tree, p) /\ Complete(tree, p)
Earlier(base) ==
    /\ Whole(base)
    /\ \A p \in Package : Versions(base, p) \subseteq Versions(main, p)

(* A work tree the importer has been over, like that of a request.          *)
FullyEnriched(base, tree) ==
    \A p \in Allowlisted : BlocksMatch(tree, p) /\ (tree[p] # base[p] => Complete(tree, p))

(* Before, a bump may have carried blocks into the version it added. *)
Carried(j, base, tree) ==
    \A p \in Allowlisted : \A v \in Versions(tree, p) :
        \/ Matches(tree[p][v], v)
        \/ j = "bump" /\ tree[p] # base[p] /\ v = Latest(tree, p)

JobSound(j) ==
    LET job == jobs[j] IN
    job.phase # "idle" =>
        /\ Earlier(job.base) /\ Keeps(job.base, job.tree)
        /\ IF job.phase = "windows" THEN Carried(j, job.base, job.tree)
                                    ELSE FullyEnriched(job.base, job.tree)

RequestSound(pr) ==
    Earlier(pr.base) /\ Keeps(pr.base, pr.tree) /\ FullyEnriched(pr.base, pr.tree)

IInv ==
    /\ Typed /\ Whole(main)
    /\ \A j \in Job : JobSound(j)
    /\ \A pr \in prs : RequestSound(pr)

-----------------------------------------------------------------------------
(* Versions and manifests. *)

LEMMA LatestIsGreatest ==
    ASSUME NEW tree, NEW p, Versions(tree, p) # {}
    PROVE  /\ Latest(tree, p) \in Versions(tree, p) /\ Latest(tree, p) \in Version
           /\ \A v \in Versions(tree, p) : v <= Latest(tree, p)
           /\ \A m \in Versions(tree, p) :
                (\A v \in Versions(tree, p) : v <= m) => Latest(tree, p) = m
<1>1. Versions(tree, p) \in SUBSET (1..MaxVersion)
  BY DEF Versions, Version
<1> QED
  BY <1>1, SourcesAssumption, MaxIsGreatest DEF Latest, Version

LEMMA ManifestTyped ==
    ASSUME NEW tree \in Tree, NEW p \in Package, NEW v \in Versions(tree, p)
    PROVE  v \in Version /\ v \in Nat /\ tree[p][v] \in Manifest
           /\ tree[p][v].unix \in [Platform -> Source]
BY SourcesAssumption DEF Tree, Versions, Version, Manifest

(* Trees that agree on a package agree on all that is said of it. *)
LEMMA SamePackage ==
    ASSUME NEW t1, NEW t2, NEW p, t1[p] = t2[p]
    PROVE  /\ Versions(t1, p) = Versions(t2, p)
           /\ Latest(t1, p) = Latest(t2, p)
           /\ BlocksMatch(t1, p) <=> BlocksMatch(t2, p)
           /\ Complete(t1, p) <=> Complete(t2, p)
<1>1. Versions(t1, p) = Versions(t2, p)
  BY DEF Versions
<1>2. Latest(t1, p) = Latest(t2, p)
  BY <1>1 DEF Latest
<1> QED
  BY <1>1, <1>2 DEF BlocksMatch, Complete

LEMMA InitInv == Init => IInv
<1> SUFFICES ASSUME Init PROVE IInv
  OBVIOUS
<1>1. PICK wider \in SUBSET Package : main = [p \in Package |-> [v \in Version |->
            IF v # 1 THEN NoManifest
            ELSE [win |-> 0, unix |-> Blocks(1, IF p \in wider THEN Platform ELSE Keys[p])]]]
  BY DEF Init
<1>2. 1 \in Version
  BY SourcesAssumption DEF Version
<1>3. \A p \in Package : \A v \in Version : v # 1 => main[p][v] = NoManifest
  BY <1>1
<1>4. ASSUME NEW p \in Package
      PROVE  /\ main[p][1] \in Manifest /\ main[p][1] # NoManifest
             /\ \A k \in Platform : main[p][1].unix[k] \in {1, NoSource}
             /\ \A k \in Keys[p] : main[p][1].unix[k] = 1
  <2> DEFINE keys == IF p \in wider THEN Platform ELSE Keys[p]
  <2>1. main[p][1] = [win |-> 0, unix |-> Blocks(1, keys)]
    BY <1>1, <1>2
  <2>2. Blocks(1, keys) \in [Platform -> Source]
        /\ \A k \in Platform : Blocks(1, keys)[k] = IF k \in keys THEN 1 ELSE NoSource
    BY DEF Blocks, Source
  <2>3. Keys[p] \subseteq keys /\ Keys[p] \subseteq Platform
    BY SourcesAssumption
  <2> HIDE DEF keys
  <2>4. main[p][1] \in Manifest
    BY <2>1, <2>2 DEF Manifest, Source
  <2> QED
    BY <2>1, <2>2, <2>3, <2>4, SourcesAssumption
<1>5. \A p \in Package : Versions(main, p) = {1}
  BY <1>2, <1>3, <1>4 DEF Versions
<1>6. \A p \in Package : Latest(main, p) = 1
  BY <1>5, LatestIsGreatest
<1>7. Whole(main)
  BY <1>4, <1>5, <1>6 DEF Whole, BlocksMatch, Matches, Complete, Allowlisted
<1>8. main \in Tree
  BY <1>1, <1>3, <1>4 DEF Tree
<1>9. jobs \in [Job -> [phase : Phase, base : Tree, tree : Tree]]
  BY DEF Init, Idle, Empty, Tree, Phase
<1>10. Typed
  BY <1>8, <1>9, AppAssumption DEF Init, Typed, Idle, Job
<1>11. \A j \in Job : JobSound(j)
  BY DEF Init, JobSound, Idle
<1> QED
  BY <1>7, <1>10, <1>11 DEF IInv, Init

-----------------------------------------------------------------------------
(* The steps of a workflow. *)

(* A step of one workflow that leaves main and the requests alone. *)
LEMMA OneJob ==
    ASSUME IInv, NEW j \in Job, UNCHANGED <<main, prs>>,
           jobs' \in [Job -> [phase : Phase, base : Tree, tree : Tree]],
           \A i \in Job \ {j} : jobs'[i] = jobs[i],
           j = "scoop" => jobs'[j].phase # "report",
           JobSound(j)', writes' \in 0..MaxWrites, mismatched' \subseteq 1..MaxWrites
    PROVE  IInv'
<1>1. Typed'
  BY DEF IInv, Typed, Job
<1>2. \A i \in Job \ {j} : JobSound(i)'
  BY DEF IInv, JobSound, Earlier
<1>3. \A pr \in prs' : RequestSound(pr)'
  BY DEF IInv, RequestSound, Earlier
<1> QED
  BY <1>1, <1>2, <1>3 DEF IInv

(* A workflow that is done throws its checkout away. *)
LEMMA IdleJob ==
    ASSUME IInv, NEW j \in Job, jobs' = [jobs EXCEPT ![j] = Idle]
    PROVE  /\ jobs' \in [Job -> [phase : Phase, base : Tree, tree : Tree]]
           /\ \A i \in Job \ {j} : jobs'[i] = jobs[i]
           /\ jobs'[j].phase = "idle" /\ JobSound(j)'
<1>1. Idle \in [phase : Phase, base : Tree, tree : Tree]
  BY DEF Idle, Empty, Tree, Phase
<1>2. jobs'[j] = Idle
  BY DEF IInv, Typed
<1> QED
  BY <1>1, <1>2 DEF IInv, Typed, JobSound, Idle

LEMMA CheckoutStep == ASSUME IInv, NEW j \in Job, Checkout(j) PROVE IInv'
<1>1. jobs'[j] = [phase |-> "windows", base |-> main, tree |-> main]
  BY DEF Checkout, IInv, Typed
<1>2. jobs' \in [Job -> [phase : Phase, base : Tree, tree : Tree]]
  BY DEF Checkout, IInv, Typed, Phase
<1>3. JobSound(j)'
  <2>1. Earlier(main)' /\ Keeps(main, main)' /\ Carried(j, main, main)'
    BY DEF Checkout, IInv, Whole, Earlier, Keeps, Carried, BlocksMatch, Versions
  <2> QED
    BY <1>1, <2>1 DEF JobSound, Checkout, Earlier, Keeps, Carried
<1> QED
  BY <1>1, <1>2, <1>3, OneJob DEF Checkout, IInv, Typed

(* One manifest of the work tree is written. *)
LEMMA WriteEffect ==
    ASSUME IInv, NEW j \in Job, NEW p \in Package, NEW v \in Version,
           NEW unix \in [Platform -> Source], jobs[j].phase = "windows",
           WriteWindows(j, p, v, unix)
    PROVE  LET m == [win |-> writes + 1, unix |-> unix] IN
           /\ m \in Manifest /\ m # NoManifest
           /\ jobs' \in [Job -> [phase : Phase, base : Tree, tree : Tree]]
           /\ \A i \in Job \ {j} : jobs'[i] = jobs[i]
           /\ jobs'[j].phase = "windows" /\ jobs'[j].base = jobs[j].base
           /\ \A q \in Package \ {p} : jobs'[j].tree[q] = jobs[j].tree[q]
           /\ \A w \in Version : jobs'[j].tree[p][w] = IF w = v THEN m ELSE jobs[j].tree[p][w]
           /\ Versions(jobs'[j].tree, p) = Versions(jobs[j].tree, p) \cup {v}
           /\ writes' \in 0..MaxWrites /\ writes + 1 \in 1..MaxWrites
<1> DEFINE m == [win |-> writes + 1, unix |-> unix]
<1>1. writes' \in 0..MaxWrites /\ writes + 1 \in 1..MaxWrites
  BY AppAssumption DEF IInv, Typed, WriteWindows
<1>2. m \in Manifest /\ m # NoManifest
  BY <1>1, SourcesAssumption DEF Manifest, Source
<1> HIDE DEF m
<1>3. jobs' = [jobs EXCEPT ![j].tree[p][v] = m]
  BY DEF WriteWindows, m
<1>4. jobs \in [Job -> [phase : Phase, base : Tree, tree : Tree]]
  BY DEF IInv, Typed
<1>5. jobs[j].tree \in Tree /\ [jobs[j].tree EXCEPT ![p][v] = m] \in Tree
  BY <1>2, <1>4 DEF Tree
<1>6. jobs'[j] = [jobs[j] EXCEPT !.tree[p][v] = m] /\ \A i \in Job \ {j} : jobs'[i] = jobs[i]
  BY <1>3, <1>4
<1>7. /\ jobs'[j].phase = "windows" /\ jobs'[j].base = jobs[j].base
      /\ jobs'[j].tree = [jobs[j].tree EXCEPT ![p][v] = m]
  BY <1>4, <1>6
<1>8. jobs' \in [Job -> [phase : Phase, base : Tree, tree : Tree]]
  BY <1>3, <1>4, <1>5, <1>6
<1>9. /\ \A q \in Package \ {p} : jobs'[j].tree[q] = jobs[j].tree[q]
      /\ \A w \in Version : jobs'[j].tree[p][w] = IF w = v THEN m ELSE jobs[j].tree[p][w]
  BY <1>5, <1>7 DEF Tree
<1>10. Versions(jobs'[j].tree, p) = Versions(jobs[j].tree, p) \cup {v}
  BY <1>2, <1>9 DEF Versions
<1> QED
  BY <1>1, <1>2, <1>6, <1>7, <1>8, <1>9, <1>10 DEF m

(* What scoop-import writes has the blocks that version had. *)
LEMMA ScoopStep ==
    ASSUME IInv, NEW p \in Package, NEW v \in Version, ScoopWrite(p, v)
    PROVE  IInv'
<1> DEFINE job == jobs["scoop"]
           unix == OwnUnix(job.tree[p][v])
           m == [win |-> writes + 1, unix |-> unix]
<1>1. "scoop" \in Job /\ job.phase = "windows" /\ job.tree \in Tree /\ job.base \in Tree
  BY DEF ScoopWrite, Job, IInv, Typed
<1>2. unix \in [Platform -> Source]
  BY <1>1 DEF OwnUnix, None, Source, Tree, Manifest
<1>3. WriteWindows("scoop", p, v, unix) /\ UNCHANGED <<main, prs, mismatched>>
  BY DEF ScoopWrite
<1>4. JobSound("scoop") /\ Earlier(job.base) /\ Keeps(job.base, job.tree)
      /\ Carried("scoop", job.base, job.tree)
  BY <1>1 DEF IInv, JobSound
<1> HIDE DEF unix
<1>5. /\ m # NoManifest
      /\ jobs' \in [Job -> [phase : Phase, base : Tree, tree : Tree]]
      /\ \A i \in Job \ {"scoop"} : jobs'[i] = jobs[i]
      /\ jobs'["scoop"].phase = "windows" /\ jobs'["scoop"].base = job.base
      /\ \A q \in Package \ {p} : jobs'["scoop"].tree[q] = job.tree[q]
      /\ \A w \in Version : jobs'["scoop"].tree[p][w] = IF w = v THEN m ELSE job.tree[p][w]
      /\ writes' \in 0..MaxWrites
  BY <1>1, <1>2, <1>3, WriteEffect
<1> DEFINE tree == jobs'["scoop"].tree
<1>6. Keeps(job.base, tree)
  <2> SUFFICES ASSUME NEW q \in Package, NEW w \in Versions(job.base, q)
               PROVE  /\ tree[q][w] # NoManifest
                      /\ \A k \in Platform : job.base[q][w].unix[k] # NoSource =>
                                                    tree[q][w].unix[k] # NoSource
    BY DEF Keeps
  <2>1. w \in Version
    BY DEF Versions
  <2>2. CASE q = p /\ w = v
    <3>1. unix = job.tree[p][v].unix /\ tree[q][w] = m
      BY <1>4, <1>5, <2>1, <2>2 DEF Keeps, OwnUnix, unix
    <3> QED
      BY <1>4, <1>5, <2>2, <3>1 DEF Keeps
  <2>3. CASE ~(q = p /\ w = v)
    <3>1. tree[q][w] = job.tree[q][w]
      BY <1>5, <2>1, <2>3
    <3> QED
      BY <1>4, <3>1 DEF Keeps
  <2> QED
    BY <2>2, <2>3
<1>7. Carried("scoop", job.base, tree)
  <2> SUFFICES ASSUME NEW q \in Allowlisted, NEW w \in Versions(tree, q)
               PROVE  Matches(tree[q][w], w)
    BY DEF Carried
  <2>1. w \in Version /\ q \in Package /\ tree[q][w] # NoManifest
    BY DEF Versions, Allowlisted
  <2>2. \A u \in Versions(job.tree, q) : Matches(job.tree[q][u], u)
    BY <1>4 DEF Carried
  <2>3. CASE q = p /\ w = v
    <3>1. tree[q][w].unix = unix
      BY <1>5, <2>1, <2>3
    <3>2. CASE job.tree[p][v] = NoManifest
      BY <3>1, <3>2 DEF unix, OwnUnix, None, Matches
    <3>3. CASE job.tree[p][v] # NoManifest
      <4>1. v \in Versions(job.tree, p)
        BY <3>3 DEF Versions
      <4> QED
        BY <2>2, <2>3, <3>1, <3>3, <4>1 DEF unix, OwnUnix, Matches
    <3> QED
      BY <3>2, <3>3
  <2>4. CASE ~(q = p /\ w = v)
    <3>1. tree[q][w] = job.tree[q][w]
      BY <1>5, <2>1, <2>4
    <3>2. w \in Versions(job.tree, q)
      BY <2>1, <3>1 DEF Versions
    <3> QED
      BY <2>2, <3>1, <3>2
  <2> QED
    BY <2>3, <2>4
<1>8. JobSound("scoop")'
  <2>1. Earlier(job.base)'
    BY <1>3, <1>4, <1>5 DEF Earlier, Whole
  <2> QED
    BY <1>5, <1>6, <1>7, <2>1 DEF JobSound
<1> QED
  BY <1>1, <1>3, <1>5, <1>8, OneJob DEF IInv, Typed

(* What a bump adds is the latest version, and all it has written of that   *)
(* package; only there can blocks be of another version.                    *)
LEMMA BumpStep ==
    ASSUME IInv, NEW p \in Package, NEW v \in Version, NEW carries \in BOOLEAN,
           NEW mismatch \in BOOLEAN, BumpWrite(p, v, carries, mismatch)
    PROVE  IInv'
<1> DEFINE job == jobs["bump"]
           last == Latest(job.tree, p)
           unix == IF carries THEN job.tree[p][last].unix ELSE None
           m == [win |-> writes + 1, unix |-> unix]
           tree == jobs'["bump"].tree
<1>1. /\ "bump" \in Job /\ job.phase = "windows" /\ job.tree \in Tree /\ job.base \in Tree
      /\ job.tree[p] = job.base[p] /\ v > last
  BY DEF BumpWrite, Job, IInv, Typed
<1>2. Earlier(job.base) /\ Keeps(job.base, job.tree) /\ Carried("bump", job.base, job.tree)
  BY <1>1 DEF IInv, JobSound
<1>3. Versions(job.tree, p) = Versions(job.base, p) /\ Versions(job.tree, p) # {}
  BY <1>1, <1>2 DEF Versions, Earlier, Whole
<1>4. last \in Versions(job.tree, p) /\ \A w \in Versions(job.tree, p) : w <= last
  BY <1>3, LatestIsGreatest
<1>5. unix \in [Platform -> Source]
  BY <1>1, <1>4, ManifestTyped DEF None, Source
<1>6. WriteWindows("bump", p, v, unix) /\ UNCHANGED <<main, prs>>
  BY DEF BumpWrite
<1> HIDE DEF unix
<1>7. /\ m \in Manifest /\ m # NoManifest
      /\ jobs' \in [Job -> [phase : Phase, base : Tree, tree : Tree]]
      /\ \A i \in Job \ {"bump"} : jobs'[i] = jobs[i]
      /\ jobs'["bump"].phase = "windows" /\ jobs'["bump"].base = job.base
      /\ \A q \in Package \ {p} : tree[q] = job.tree[q]
      /\ \A w \in Version : tree[p][w] = IF w = v THEN m ELSE job.tree[p][w]
      /\ Versions(tree, p) = Versions(job.tree, p) \cup {v}
      /\ writes' \in 0..MaxWrites /\ writes + 1 \in 1..MaxWrites
  BY <1>1, <1>5, <1>6, WriteEffect
<1>8. v \notin Versions(job.tree, p) /\ last \in Nat /\ v \in Nat
  BY <1>1, <1>4, SourcesAssumption DEF Versions, Version
<1>9. Latest(tree, p) = v
  <2>1. \A w \in Versions(tree, p) : w <= v
    BY <1>1, <1>4, <1>7, <1>8 DEF Versions, Version
  <2> QED
    BY <1>7, <2>1, LatestIsGreatest
<1>10. tree[p] # job.base[p]
  <2>1. job.base[p][v] = NoManifest
    BY <1>1, <1>8 DEF Versions
  <2> QED
    BY <1>7, <2>1
<1>11. \A q \in Package : \A w \in Version :
            ~(q = p /\ w = v) => tree[q][w] = job.tree[q][w]
  BY <1>7
<1>12. Keeps(job.base, tree)
  <2>1. v \notin Versions(job.base, p)
    BY <1>3, <1>8
  <2> QED
    BY <1>2, <1>11, <2>1 DEF Keeps, Versions
<1>13. Carried("bump", job.base, tree)
  <2> SUFFICES ASSUME NEW q \in Allowlisted, NEW w \in Versions(tree, q)
               PROVE  \/ Matches(tree[q][w], w)
                      \/ tree[q] # job.base[q] /\ w = Latest(tree, q)
    BY DEF Carried
  <2>1. q \in Package /\ w \in Version
    BY DEF Allowlisted, Versions
  <2>2. CASE q # p
    <3>1. tree[q] = job.tree[q]
      BY <1>7, <2>1, <2>2
    <3> QED
      BY <1>2, <3>1, SamePackage DEF Carried, BlocksMatch
  <2>3. CASE q = p /\ w = v
    BY <1>9, <1>10, <2>3
  <2>4. CASE q = p /\ w # v
    <3>1. tree[q][w] = job.tree[q][w] /\ w \in Versions(job.tree, q)
      BY <1>7, <2>1, <2>4
    <3> QED
      BY <1>1, <1>2, <2>4, <3>1 DEF Carried
  <2> QED
    BY <2>2, <2>3, <2>4
<1>14. JobSound("bump")'
  <2>1. Earlier(jobs["bump"].base)'
    BY <1>2, <1>6, <1>7 DEF Earlier, Whole
  <2> QED
    BY <1>7, <1>12, <1>13, <2>1 DEF JobSound
<1>15. mismatched' \subseteq 1..MaxWrites
  BY <1>7 DEF BumpWrite, IInv, Typed
<1> QED
  BY <1>1, <1>6, <1>7, <1>14, <1>15, OneJob

(* The blocks of all allowlisted platforms are put into the latest version, *)
(* everything else stays.                                                   *)
LEMMA EnrichedPackage ==
    ASSUME NEW tree \in Tree, NEW p \in Package, Versions(tree, p) # {}
    PROVE  LET last == Latest(tree, p) IN
           /\ last \in Version /\ last \in Versions(tree, p)
           /\ Enriched(tree, p) \in [Version -> Manifest \cup {NoManifest}]
           /\ Enriched(tree, p)[last] # NoManifest
           /\ \A v \in Version : v # last => Enriched(tree, p)[v] = tree[p][v]
           /\ \A k \in Platform : Enriched(tree, p)[last].unix[k] =
                    IF k \in Keys[p] THEN last ELSE tree[p][last].unix[k]
<1> DEFINE last == Latest(tree, p)
           merged == MergeUnix(tree[p][last], Blocks(last, Keys[p]))
<1>1. last \in Version /\ last \in Versions(tree, p) /\ last \in Nat
  BY LatestIsGreatest, SourcesAssumption DEF Version
<1>2. tree[p] \in [Version -> Manifest \cup {NoManifest}]
  BY DEF Tree
<1>3. tree[p][last] \in Manifest
  BY <1>1, ManifestTyped
<1> HIDE DEF last
<1>4. \A k \in Platform : merged.unix[k] = IF k \in Keys[p] THEN last ELSE tree[p][last].unix[k]
  BY <1>1, SourcesAssumption DEF MergeUnix, Blocks
<1>5. merged \in Manifest
  <2>1. merged.win = tree[p][last].win /\ merged.win \in Source
    BY <1>3 DEF MergeUnix, Manifest
  <2>2. merged.unix \in [Platform -> Source]
    BY <1>1, <1>3, SourcesAssumption DEF MergeUnix, Blocks, Manifest, Source
  <2> QED
    BY <2>1, <2>2 DEF Manifest, MergeUnix
<1>6. merged # NoManifest
  BY <1>5, SourcesAssumption
<1> HIDE DEF merged
<1>7. Enriched(tree, p) = [tree[p] EXCEPT ![last] = merged]
  BY DEF Enriched, merged, last
<1>8. /\ Enriched(tree, p) \in [Version -> Manifest \cup {NoManifest}]
      /\ Enriched(tree, p)[last] = merged
      /\ \A v \in Version : v # last => Enriched(tree, p)[v] = tree[p][v]
  BY <1>1, <1>2, <1>5, <1>7
<1> QED
  BY <1>1, <1>4, <1>6, <1>8 DEF last

(* The importer completes the latest version of every changed package, also *)
(* of one a bump carried older blocks into.                                 *)
LEMMA EnrichStep == ASSUME IInv, NEW j \in Job, Enrich(j) PROVE IInv'
<1> DEFINE job == jobs[j]
           changed == ChangedPackages(j)
           after == [p \in Package |-> IF p \in changed THEN Enriched(job.tree, p)
                                                        ELSE job.tree[p]]
           phase == IF j = "bump" THEN "report" ELSE "propose"
<1>1. /\ job.phase = "windows" /\ job \in [phase : Phase, base : Tree, tree : Tree]
      /\ job.tree \in Tree /\ job.base \in Tree /\ UNCHANGED <<main, prs, writes, mismatched>>
  BY DEF Enrich, IInv, Typed
<1>2. Earlier(job.base) /\ Keeps(job.base, job.tree) /\ Carried(j, job.base, job.tree)
  BY <1>1 DEF IInv, JobSound
<1>3. \A p \in Package : Versions(job.tree, p) # {}
  <2> SUFFICES ASSUME NEW p \in Package PROVE Versions(job.tree, p) # {}
    OBVIOUS
  <2>1. PICK v \in Versions(job.base, p) : TRUE
    BY <1>2 DEF Earlier, Whole
  <2> QED
    BY <1>2, <2>1 DEF Keeps, Versions
<1>4. \A p \in changed : p \in Allowlisted /\ p \in Package /\ job.tree[p] # job.base[p]
  BY DEF ChangedPackages, Allowlisted
<1>5. \A p \in Allowlisted : p \notin changed => job.tree[p] = job.base[p]
  BY DEF ChangedPackages
<1>6. \A p \in changed : \A k \in Platform \ Keys[p] :
            job.tree[p][Latest(job.tree, p)].unix[k] = NoSource
  <2> SUFFICES ASSUME NEW p \in changed, NEW k \in Platform \ Keys[p]
               PROVE  job.tree[p][Latest(job.tree, p)].unix[k] = NoSource
    OBVIOUS
  <2>1. ~Retains(job.tree[p][Latest(job.tree, p)], p)
    BY DEF Enrich
  <2>2. job.tree[p][Latest(job.tree, p)] # NoManifest
    BY <1>3, <1>4, LatestIsGreatest DEF Versions
  <2> QED
    BY <2>1, <2>2 DEF Retains
<1> HIDE DEF changed
<1>7. /\ after \in Tree
      /\ \A p \in Package \ changed : after[p] = job.tree[p]
      /\ \A p \in changed : after[p] = Enriched(job.tree, p)
  BY <1>1, <1>3, <1>4, EnrichedPackage DEF Tree
<1>8. /\ jobs' = [jobs EXCEPT ![j].phase = phase, ![j].tree = after]
  BY DEF Enrich, changed
<1> HIDE DEF after
<1>9. /\ jobs'[j].phase = phase /\ jobs'[j].base = job.base /\ jobs'[j].tree = after
      /\ \A i \in Job \ {j} : jobs'[i] = jobs[i]
      /\ jobs' \in [Job -> [phase : Phase, base : Tree, tree : Tree]]
  BY <1>1, <1>7, <1>8 DEF IInv, Typed, Phase
<1>10. \A p \in changed :
            /\ Versions(after, p) = Versions(job.tree, p)
            /\ Latest(after, p) = Latest(job.tree, p)
  <2> SUFFICES ASSUME NEW p \in changed
               PROVE  Versions(after, p) = Versions(job.tree, p)
    BY DEF Latest
  <2>1. p \in Package /\ after[p] = Enriched(job.tree, p)
    BY <1>4, <1>7
  <2>2. \A v \in Version : after[p][v] # NoManifest <=> job.tree[p][v] # NoManifest
    BY <1>1, <1>3, <2>1, EnrichedPackage DEF Versions
  <2> QED
    BY <2>2 DEF Versions
<1>11. Keeps(job.base, after)
  <2> SUFFICES ASSUME NEW p \in Package, NEW v \in Versions(job.base, p)
               PROVE  /\ after[p][v] # NoManifest
                      /\ \A k \in Platform : job.base[p][v].unix[k] # NoSource =>
                                                    after[p][v].unix[k] # NoSource
    BY DEF Keeps
  <2>1. v \in Version /\ v \in Versions(job.tree, p)
    BY <1>2 DEF Keeps, Versions
  <2>2. CASE p \notin changed
    BY <1>2, <1>7, <2>2 DEF Keeps
  <2>3. CASE p \in changed
    <3>1. /\ after[p] = Enriched(job.tree, p)
          /\ after[p][v] # NoManifest
      BY <1>7, <1>10, <2>1, <2>3 DEF Versions
    <3>2. CASE v # Latest(job.tree, p)
      BY <1>1, <1>2, <1>3, <2>1, <3>1, <3>2, EnrichedPackage DEF Keeps
    <3>3. CASE v = Latest(job.tree, p)
      <4>1. v # NoSource
        BY <2>1, SourcesAssumption DEF Version
      <4>2. \A k \in Platform : after[p][v].unix[k] =
                IF k \in Keys[p] THEN v ELSE job.tree[p][v].unix[k]
        BY <1>1, <1>3, <3>1, <3>3, EnrichedPackage
      <4> QED
        BY <1>2, <3>1, <4>1, <4>2 DEF Keeps
    <3> QED
      BY <3>2, <3>3
  <2> QED
    BY <2>2, <2>3
<1>12. FullyEnriched(job.base, after)
  <2> SUFFICES ASSUME NEW p \in Allowlisted
               PROVE  BlocksMatch(after, p) /\ (after[p] # job.base[p] => Complete(after, p))
    BY DEF FullyEnriched
  <2>1. p \in Package
    BY DEF Allowlisted
  <2>2. CASE p \notin changed
    <3>1. after[p] = job.base[p]
      BY <1>5, <1>7, <2>1, <2>2
    <3> QED
      BY <1>2, <3>1, SamePackage DEF Earlier, Whole
  <2>3. CASE p \in changed
    <3> DEFINE last == Latest(job.tree, p)
    <3>1. /\ after[p] = Enriched(job.tree, p) /\ last \in Version
          /\ \A v \in Version : v # last => after[p][v] = job.tree[p][v]
          /\ \A k \in Platform : after[p][last].unix[k] =
                IF k \in Keys[p] THEN last ELSE job.tree[p][last].unix[k]
      BY <1>1, <1>3, <1>7, <2>1, <2>3, EnrichedPackage
    <3>2. \A v \in Versions(job.tree, p) : v # last => Matches(job.tree[p][v], v)
      BY <1>2 DEF Carried
    <3>3. Versions(after, p) = Versions(job.tree, p) /\ Latest(after, p) = last
      BY <1>10, <2>3
    <3> HIDE DEF last
    <3>4. \A k \in Platform : after[p][last].unix[k] = IF k \in Keys[p] THEN last ELSE NoSource
      BY <1>6, <2>3, <3>1 DEF last
    <3>5. BlocksMatch(after, p)
      <4> SUFFICES ASSUME NEW v \in Versions(after, p) PROVE Matches(after[p][v], v)
        BY DEF BlocksMatch
      <4>1. v \in Version
        BY DEF Versions
      <4>2. CASE v = last
        BY <3>4, <4>2 DEF Matches
      <4>3. CASE v # last
        BY <3>1, <3>2, <3>3, <4>1, <4>3
      <4> QED
        BY <4>2, <4>3
    <3>6. Complete(after, p)
      BY <2>1, <3>3, <3>4, SourcesAssumption DEF Complete
    <3> QED
      BY <3>5, <3>6
  <2> QED
    BY <2>2, <2>3
<1>13. JobSound(j)'
  <2>1. Earlier(job.base)'
    BY <1>1, <1>2, <1>9 DEF Earlier, Whole
  <2> QED
    BY <1>9, <1>11, <1>12, <2>1 DEF JobSound
<1>14. j = "scoop" => jobs'[j].phase # "report"
  BY <1>9
<1> QED
  BY <1>1, <1>9, <1>13, <1>14, OneJob DEF IInv, Typed

LEMMA ReportStep == ASSUME IInv, Report PROVE IInv'
<1> DEFINE job == jobs["bump"]
<1>1. "bump" \in Job /\ job.phase = "report" /\ UNCHANGED <<main, prs, writes, mismatched>>
  BY DEF Report, Job
<1>2. CASE jobs' = [jobs EXCEPT !["bump"] = Idle]
  BY <1>1, <1>2, IdleJob, OneJob DEF IInv, Typed
<1>3. CASE jobs' = [jobs EXCEPT !["bump"] = [job EXCEPT !.phase = "propose"]]
  <2>1. /\ jobs' \in [Job -> [phase : Phase, base : Tree, tree : Tree]]
        /\ \A i \in Job \ {"bump"} : jobs'[i] = jobs[i]
        /\ jobs'["bump"].phase = "propose"
        /\ jobs'["bump"].base = job.base /\ jobs'["bump"].tree = job.tree
    BY <1>1, <1>3 DEF IInv, Typed, Phase
  <2>2. JobSound("bump")'
    <3>1. Earlier(job.base) /\ Keeps(job.base, job.tree) /\ FullyEnriched(job.base, job.tree)
      BY <1>1 DEF IInv, JobSound
    <3>2. Earlier(job.base)'
      BY <1>1, <2>1, <3>1 DEF Earlier
    <3> QED
      BY <2>1, <3>1, <3>2 DEF JobSound
  <2> QED
    BY <1>1, <2>1, <2>2, OneJob DEF IInv, Typed
<1> QED
  BY <1>2, <1>3 DEF Report

LEMMA BreakStep == ASSUME IInv, NEW j \in Job, Break(j) PROVE IInv'
<1>1. jobs' = [jobs EXCEPT ![j] = Idle] /\ UNCHANGED <<main, prs, writes, mismatched>>
  BY DEF Break
<1> QED
  BY <1>1, IdleJob, OneJob DEF IInv, Typed

(* The work tree becomes a request, and the checkout is thrown away.        *)
LEMMA ProposeStep == ASSUME IInv, NEW j \in Job, Propose(j) PROVE IInv'
<1> DEFINE job == jobs[j]
           pr == [by |-> j, base |-> job.base, tree |-> job.tree]
<1>1. /\ job.phase = "propose" /\ jobs' = [jobs EXCEPT ![j] = Idle]
      /\ prs' = IF job.tree = job.base THEN prs ELSE prs \cup {pr}
      /\ UNCHANGED <<main, writes, mismatched>>
  BY DEF Propose
<1>2. RequestSound(pr) /\ pr \in [by : Job, base : Tree, tree : Tree]
  BY <1>1 DEF IInv, Typed, JobSound, RequestSound
<1>3. /\ jobs' \in [Job -> [phase : Phase, base : Tree, tree : Tree]]
      /\ \A i \in Job \ {j} : jobs'[i] = jobs[i]
      /\ jobs'[j].phase = "idle" /\ JobSound(j)'
  BY <1>1, IdleJob
<1>4. \A q \in prs' : q \in prs \/ (q = pr /\ q.tree # q.base)
  BY <1>1
<1>5. Typed'
  BY <1>1, <1>2, <1>3, <1>4 DEF IInv, Typed, Job
<1>6. \A i \in Job : JobSound(i)'
  BY <1>1, <1>3 DEF IInv, JobSound, Earlier
<1>7. \A q \in prs' : RequestSound(q)'
  <2>1. \A q \in prs' : RequestSound(q)
    BY <1>2, <1>4 DEF IInv
  <2> QED
    BY <1>1, <2>1 DEF RequestSound, Earlier
<1> QED
  BY <1>1, <1>5, <1>6, <1>7 DEF IInv

-----------------------------------------------------------------------------
(* What git makes of a request and a main that has moved since. *)

(* A merged manifest is one if either side has one; its blocks are main's   *)
(* or the request's, main's where the request changed nothing.              *)
LEMMA MergedManifest ==
    ASSUME NEW base \in Manifest \cup {NoManifest}, NEW ours \in Manifest \cup {NoManifest},
           NEW theirs \in Manifest \cup {NoManifest}, Mergeable(base, ours, theirs),
           base # NoManifest => ours # NoManifest /\ theirs # NoManifest
    PROVE  LET merged == Merged(base, ours, theirs) IN
           /\ merged \in Manifest \cup {NoManifest}
           /\ merged # NoManifest <=> (ours # NoManifest \/ theirs # NoManifest)
           /\ base = NoManifest => merged \in {ours, theirs}
           /\ base = NoManifest /\ theirs # NoManifest => merged = theirs
           /\ base = NoManifest /\ ours # NoManifest => merged = ours
           /\ base # NoManifest => \A k \in Platform :
                    merged.unix[k] = Pick(base.unix[k], ours.unix[k], theirs.unix[k])
<1> DEFINE merged == Merged(base, ours, theirs)
<1>1. CASE base = NoManifest
  BY <1>1 DEF Merged, Mergeable, Pick, Clash
<1>2. CASE base # NoManifest
  <2>1. /\ base \in Manifest /\ ours \in Manifest /\ theirs \in Manifest
        /\ NoManifest \notin {base, ours, theirs}
    BY <1>2
  <2> DEFINE win == Pick(base.win, ours.win, theirs.win)
             unix == [k \in Platform |-> Pick(base.unix[k], ours.unix[k], theirs.unix[k])]
  <2>2. merged = [win |-> win, unix |-> unix]
    BY <2>1 DEF Merged
  <2>3. win \in Source
    BY <2>1 DEF Pick, Manifest
  <2>4. /\ unix \in [Platform -> Source]
        /\ \A k \in Platform : unix[k] = Pick(base.unix[k], ours.unix[k], theirs.unix[k])
    BY <2>1 DEF Pick, Manifest
  <2> HIDE DEF win, unix
  <2>5. merged \in Manifest /\ merged.unix = unix
    BY <2>2, <2>3, <2>4 DEF Manifest
  <2> QED
    BY <1>2, <2>1, <2>4, <2>5, SourcesAssumption
<1> QED
  BY <1>1, <1>2

(* The effect of a merge on main. *)
LEMMA MergeEffect ==
    ASSUME IInv, NEW pr \in prs, MergePR(pr)
    PROVE  /\ main' \in Tree
           /\ \A p \in Package : Versions(main', p) = Versions(main, p) \cup Versions(pr.tree, p)
           /\ \A p \in Package, v \in Version : pr.base[p][v] = NoManifest =>
                /\ main'[p][v] \in {main[p][v], pr.tree[p][v]}
                /\ pr.tree[p][v] # NoManifest => main'[p][v] = pr.tree[p][v]
                /\ main[p][v] # NoManifest => main'[p][v] = main[p][v]
           /\ \A p \in Package, v \in Version : pr.base[p][v] # NoManifest =>
                /\ main[p][v] # NoManifest /\ pr.tree[p][v] # NoManifest
                /\ \A k \in Platform : main'[p][v].unix[k] =
                        Pick(pr.base[p][v].unix[k], main[p][v].unix[k], pr.tree[p][v].unix[k])
<1>1. main \in Tree /\ pr.base \in Tree /\ pr.tree \in Tree
  BY DEF IInv, Typed
<1>2. RequestSound(pr)
  BY DEF IInv
<1>3. ASSUME NEW p \in Package, NEW v \in Version
      PROVE  /\ main[p][v] \in Manifest \cup {NoManifest}
             /\ pr.base[p][v] \in Manifest \cup {NoManifest}
             /\ pr.tree[p][v] \in Manifest \cup {NoManifest}
             /\ pr.base[p][v] # NoManifest =>
                    main[p][v] # NoManifest /\ pr.tree[p][v] # NoManifest
             /\ Mergeable(pr.base[p][v], main[p][v], pr.tree[p][v])
  BY <1>1, <1>2 DEF Tree, RequestSound, Earlier, Keeps, Versions, MergePR
<1>4. \A p \in Package, v \in Version :
            main'[p][v] = Merged(pr.base[p][v], main[p][v], pr.tree[p][v])
  BY DEF MergePR
<1>5. ASSUME NEW p \in Package, NEW v \in Version
      PROVE  /\ main'[p][v] \in Manifest \cup {NoManifest}
             /\ main'[p][v] # NoManifest <=>
                    (main[p][v] # NoManifest \/ pr.tree[p][v] # NoManifest)
             /\ pr.base[p][v] = NoManifest =>
                  /\ main'[p][v] \in {main[p][v], pr.tree[p][v]}
                  /\ pr.tree[p][v] # NoManifest => main'[p][v] = pr.tree[p][v]
                  /\ main[p][v] # NoManifest => main'[p][v] = main[p][v]
             /\ pr.base[p][v] # NoManifest => \A k \in Platform :
                    main'[p][v].unix[k] =
                        Pick(pr.base[p][v].unix[k], main[p][v].unix[k], pr.tree[p][v].unix[k])
  <2> DEFINE base == pr.base[p][v]
             ours == main[p][v]
             theirs == pr.tree[p][v]
  <2>1. /\ base \in Manifest \cup {NoManifest} /\ ours \in Manifest \cup {NoManifest}
        /\ theirs \in Manifest \cup {NoManifest} /\ Mergeable(base, ours, theirs)
        /\ base # NoManifest => ours # NoManifest /\ theirs # NoManifest
    BY <1>3
  <2>2. main'[p][v] = Merged(base, ours, theirs)
    BY <1>4
  <2> HIDE DEF base, ours, theirs
  <2>3. LET merged == Merged(base, ours, theirs) IN
        /\ merged \in Manifest \cup {NoManifest}
        /\ merged # NoManifest <=> (ours # NoManifest \/ theirs # NoManifest)
        /\ base = NoManifest => merged \in {ours, theirs}
        /\ base = NoManifest /\ theirs # NoManifest => merged = theirs
        /\ base = NoManifest /\ ours # NoManifest => merged = ours
        /\ base # NoManifest => \A k \in Platform :
                merged.unix[k] = Pick(base.unix[k], ours.unix[k], theirs.unix[k])
    BY <2>1, MergedManifest
  <2> QED
    BY <2>2, <2>3 DEF base, ours, theirs
<1>6. main' \in Tree
  BY <1>5 DEF MergePR, Tree
<1>7. \A p \in Package : Versions(main', p) = Versions(main, p) \cup Versions(pr.tree, p)
  BY <1>5 DEF Versions
<1> QED
  BY <1>3, <1>5, <1>6, <1>7

(* Whichever of the two has the latest version, it is complete there, and   *)
(* stays so: a request adds versions with all their blocks, and where it    *)
(* edits main's latest it keeps them.                                       *)
LEMMA MergeComplete ==
    ASSUME IInv, NEW pr \in prs, MergePR(pr), NEW p \in Allowlisted
    PROVE  Complete(main', p)
<1> DEFINE ours == Latest(main, p)
           theirs == Latest(pr.tree, p)
<1>1. /\ p \in Package /\ Keys[p] \subseteq Platform
      /\ main \in Tree /\ pr.base \in Tree /\ pr.tree \in Tree
  BY SourcesAssumption DEF Allowlisted, IInv, Typed
<1>2. /\ Whole(main) /\ Earlier(pr.base) /\ Keeps(pr.base, pr.tree)
      /\ FullyEnriched(pr.base, pr.tree)
  BY DEF IInv, RequestSound
<1>3. Versions(main, p) # {} /\ Versions(pr.base, p) # {} /\ Versions(pr.tree, p) # {}
  <2>1. PICK v \in Versions(pr.base, p) : TRUE
    BY <1>1, <1>2 DEF Earlier, Whole
  <2>2. v \in Versions(pr.tree, p)
    BY <1>1, <1>2 DEF Keeps, Versions
  <2> QED
    BY <1>1, <1>2, <2>1, <2>2 DEF Whole
<1>4. /\ ours \in Versions(main, p) /\ \A v \in Versions(main, p) : v <= ours
      /\ theirs \in Versions(pr.tree, p) /\ \A v \in Versions(pr.tree, p) : v <= theirs
      /\ ours \in Version /\ theirs \in Version /\ Version \subseteq Nat
  BY <1>3, LatestIsGreatest DEF Version
<1>5. Versions(main', p) = Versions(main, p) \cup Versions(pr.tree, p)
  BY <1>1, MergeEffect
<1>6. Versions(pr.base, p) \subseteq Versions(main, p)
  BY <1>1, <1>2 DEF Earlier
<1> HIDE DEF ours, theirs
<1>7. CASE theirs > ours
  <2>1. theirs \notin Versions(main, p) /\ theirs \notin Versions(pr.base, p)
    BY <1>4, <1>6, <1>7
  <2>2. \A v \in Versions(main', p) : v <= theirs
    BY <1>4, <1>5, <1>7 DEF Versions
  <2>3. Latest(main', p) = theirs
    BY <1>4, <1>5, <2>2, LatestIsGreatest
  <2>4. pr.base[p][theirs] = NoManifest /\ pr.tree[p][theirs] # NoManifest
    BY <1>4, <2>1 DEF Versions
  <2>5. main'[p][theirs] = pr.tree[p][theirs]
    BY <1>1, <1>4, <2>4, MergeEffect
  <2>6. Complete(pr.tree, p)
    BY <1>2, <2>4 DEF FullyEnriched
  <2> QED
    BY <2>3, <2>5, <2>6 DEF Complete, theirs
<1>8. CASE ~(theirs > ours)
  <2>1. \A v \in Versions(main', p) : v <= ours
    BY <1>4, <1>5, <1>8 DEF Versions
  <2>2. Latest(main', p) = ours
    BY <1>4, <1>5, <2>1, LatestIsGreatest
  <2> SUFFICES ASSUME NEW k \in Keys[p] PROVE main'[p][ours].unix[k] = ours
    BY <2>2 DEF Complete
  <2>3. main[p][ours].unix[k] = ours /\ main[p][ours] # NoManifest /\ ours # NoSource
    BY <1>2, <1>4, SourcesAssumption DEF Whole, Complete, Versions, ours
  <2>4. CASE pr.base[p][ours] = NoManifest
    <3>1. main'[p][ours] = main[p][ours]
      BY <1>1, <1>4, <2>3, <2>4, MergeEffect
    <3> QED
      BY <2>3, <3>1
  <2>5. CASE pr.base[p][ours] # NoManifest
    <3>1. ours \in Versions(pr.base, p)
      BY <1>4, <2>5 DEF Versions
    <3>2. Latest(pr.base, p) = ours
      BY <1>3, <1>4, <1>6, <3>1, LatestIsGreatest
    <3>3. pr.base[p][ours].unix[k] = ours
      BY <1>2, <3>2 DEF Earlier, Whole, Complete
    <3>4. pr.tree[p][ours].unix[k] # NoSource /\ ours \in Versions(pr.tree, p)
      BY <1>1, <1>2, <2>3, <3>1, <3>3 DEF Keeps, Versions
    <3>5. pr.tree[p][ours].unix[k] = ours
      BY <1>1, <1>2, <3>4 DEF FullyEnriched, BlocksMatch, Matches
    <3>6. main'[p][ours].unix[k] \in {main[p][ours].unix[k], pr.tree[p][ours].unix[k]}
      BY <1>1, <1>4, <2>5, MergeEffect DEF Pick
    <3> QED
      BY <2>3, <3>5, <3>6
  <2> QED
    BY <2>4, <2>5
<1> QED
  BY <1>7, <1>8

LEMMA MergeStep == ASSUME IInv, NEW pr \in prs, MergePR(pr) PROVE IInv'
<1>1. /\ Whole(main) /\ FullyEnriched(pr.base, pr.tree)
      /\ prs' \subseteq prs /\ UNCHANGED <<jobs, writes, mismatched>>
  BY DEF IInv, RequestSound, MergePR
<1>2. main' \in Tree /\ \A p \in Package : Versions(main, p) \subseteq Versions(main', p)
  BY MergeEffect
<1>3. ASSUME NEW p \in Allowlisted PROVE BlocksMatch(main', p)
  <2> SUFFICES ASSUME NEW v \in Versions(main', p), NEW k \in Platform
               PROVE  main'[p][v].unix[k] \in {v, NoSource}
    BY DEF BlocksMatch, Matches
  <2>1. p \in Package /\ v \in Version /\ main'[p][v] # NoManifest
    BY DEF Allowlisted, Versions
  <2>2. /\ main[p][v] # NoManifest => main[p][v].unix[k] \in {v, NoSource}
        /\ pr.tree[p][v] # NoManifest => pr.tree[p][v].unix[k] \in {v, NoSource}
    BY <1>1, <2>1 DEF Whole, FullyEnriched, BlocksMatch, Matches, Versions
  <2>3. CASE pr.base[p][v] = NoManifest
    BY <2>1, <2>2, <2>3, MergeEffect
  <2>4. CASE pr.base[p][v] # NoManifest
    <3>1. main'[p][v].unix[k] \in {main[p][v].unix[k], pr.tree[p][v].unix[k]}
      BY <2>1, <2>4, MergeEffect DEF Pick
    <3>2. main[p][v] # NoManifest /\ pr.tree[p][v] # NoManifest
      BY <2>1, <2>4, MergeEffect
    <3> QED
      BY <2>2, <3>1, <3>2
  <2> QED
    BY <2>3, <2>4
<1>4. Whole(main')
  <2>1. \A p \in Package : Versions(main', p) # {}
    BY <1>1, <1>2 DEF Whole
  <2> QED
    BY <1>3, <2>1, MergeComplete DEF Whole
<1>5. \A base : Earlier(base) => Earlier(base)'
  BY <1>2 DEF Earlier, Whole
<1>6. \A j \in Job : JobSound(j)'
  BY <1>1, <1>5 DEF IInv, JobSound
<1>7. \A q \in prs' : RequestSound(q)'
  BY <1>1, <1>5 DEF IInv, RequestSound
<1>8. Typed'
  BY <1>1, <1>2 DEF IInv, Typed
<1> QED
  BY <1>4, <1>6, <1>7, <1>8 DEF IInv, Whole

(* What the request's base lacks git leaves as it is on main, what the base *)
(* has the request keeps.                                                   *)
LEMMA MergeKeeps ==
    ASSUME IInv, NEW pr \in prs, MergePR(pr), NEW p \in Package, NEW v \in Versions(main, p)
    PROVE  /\ main'[p][v] # NoManifest
           /\ \A k \in Platform : main[p][v].unix[k] # NoSource => main'[p][v].unix[k] # NoSource
<1>1. v \in Version /\ main[p][v] # NoManifest
  BY DEF Versions
<1>2. main'[p][v] # NoManifest
  <2>1. v \in Versions(main', p)
    BY MergeEffect
  <2> QED
    BY <2>1 DEF Versions
<1>3. CASE pr.base[p][v] = NoManifest
  <2>1. main'[p][v] = main[p][v]
    BY <1>1, <1>3, MergeEffect
  <2> QED
    BY <1>2, <2>1
<1>4. CASE pr.base[p][v] # NoManifest
  <2> SUFFICES ASSUME NEW k \in Platform, main[p][v].unix[k] # NoSource
               PROVE  main'[p][v].unix[k] # NoSource
    BY <1>2
  <2>1. main'[p][v].unix[k] =
            Pick(pr.base[p][v].unix[k], main[p][v].unix[k], pr.tree[p][v].unix[k])
    BY <1>1, <1>4, MergeEffect
  <2>2. pr.base[p][v].unix[k] # NoSource => pr.tree[p][v].unix[k] # NoSource
    BY <1>1, <1>4 DEF IInv, RequestSound, Keeps, Versions
  <2> QED
    BY <2>1, <2>2 DEF Pick
<1> QED
  BY <1>3, <1>4

LEMMA CloseStep == ASSUME IInv, NEW pr \in prs, ClosePR(pr) PROVE IInv'
<1>1. prs' \subseteq prs /\ UNCHANGED <<main, jobs, writes, mismatched>>
  BY DEF ClosePR
<1>2. Typed'
  BY <1>1 DEF IInv, Typed
<1>3. Whole(main') /\ (\A j \in Job : JobSound(j)') /\ \A q \in prs' : RequestSound(q)'
  BY <1>1 DEF IInv, JobSound, RequestSound, Earlier
<1> QED
  BY <1>1, <1>2, <1>3 DEF IInv

-----------------------------------------------------------------------------
LEMMA NextInv == IInv /\ [Next]_vars => IInv'
<1> SUFFICES ASSUME IInv, [Next]_vars PROVE IInv'
  OBVIOUS
<1>1. ASSUME NEW j \in Job, Checkout(j) PROVE IInv'
  BY <1>1, CheckoutStep
<1>2. ASSUME NEW j \in Job, Enrich(j) PROVE IInv'
  BY <1>2, EnrichStep
<1>3. ASSUME NEW j \in Job, Propose(j) PROVE IInv'
  BY <1>3, ProposeStep
<1>4. ASSUME NEW j \in Job, Break(j) PROVE IInv'
  BY <1>4, BreakStep
<1>5. ASSUME NEW p \in Package, NEW v \in Version, ScoopWrite(p, v) PROVE IInv'
  BY <1>5, ScoopStep
<1>6. ASSUME NEW p \in Package, NEW v \in Version, NEW carries \in BOOLEAN,
             NEW mismatch \in BOOLEAN, BumpWrite(p, v, carries, mismatch)
      PROVE  IInv'
  BY <1>6, BumpStep
<1>7. CASE Report
  BY <1>7, ReportStep
<1>8. ASSUME NEW pr \in prs, MergePR(pr) PROVE IInv'
  BY <1>8, MergeStep
<1>9. ASSUME NEW pr \in prs, ClosePR(pr) PROVE IInv'
  BY <1>9, CloseStep
<1>10. CASE UNCHANGED vars
  BY <1>10 DEF vars, IInv, Typed, JobSound, RequestSound, Earlier
<1> QED
  BY <1>1, <1>2, <1>3, <1>4, <1>5, <1>6, <1>7, <1>8, <1>9, <1>10 DEF Next

LEMMA Invariance == Spec => []IInv
BY InitInv, NextInv, PTL DEF Spec

(* The types, among them that no request is empty and that a Scoop job does *)
(* not report (scoop-sync.yml, bump.yml).                                   *)
THEOREM AppTypes == Spec => []TypeOK
<1>1. IInv => TypeOK
  BY DEF IInv, Typed, TypeOK, Phase
<1> QED
  BY <1>1, Invariance, PTL

(* The latest version on main always has a payload of its own for every     *)
(* allowlisted platform, whatever order the requests are merged in (enrich  *)
(* "at its exact registry version").                                        *)
THEOREM LatestComplete == Spec => []LatestIsComplete
<1>1. IInv => LatestIsComplete
  BY DEF IInv, Whole, Complete, LatestIsComplete
<1> QED
  BY <1>1, Invariance, PTL

(* No version on main ever offers the payload of another one, though a bump *)
(* may carry blocks forward and Scoop refreshes old manifests               *)
(* (scoop-import: "Never copy them from another version").                  *)
THEOREM OwnBlocks == Spec => []BlocksMatchVersion
<1>1. IInv => BlocksMatchVersion
  BY DEF IInv, Whole, BlocksMatch, Matches, BlocksMatchVersion
<1> QED
  BY <1>1, Invariance, PTL

Kept ==
    \A p \in Package : \A v \in Versions(main, p) :
         /\ main'[p][v] # NoManifest
         /\ \A k \in Platform : main[p][v].unix[k] # NoSource => main'[p][v].unix[k] # NoSource

(* No step takes a version or a block of it off main, however stale the     *)
(* request that is merged (scoop-sync.yml: "NEVER deleted").                *)
THEOREM NothingLost == Spec => NothingIsLost
<1>1. IInv /\ [Next]_vars => [Kept]_vars
  <2> SUFFICES ASSUME IInv, Next PROVE Kept
    OBVIOUS
  <2>1. ASSUME NEW pr \in prs, MergePR(pr) PROVE Kept
    BY <2>1, MergeKeeps DEF Kept
  <2>2. CASE main' = main
    BY <2>2 DEF Kept, Versions
  <2>3. main' = main \/ \E pr \in prs : MergePR(pr)
    BY DEF Next, Checkout, Enrich, Propose, Break, ScoopWrite, BumpWrite, Report, ClosePR
  <2> QED
    BY <2>1, <2>2, <2>3
<1>2. Spec => [][Kept]_vars
  BY <1>1, Invariance, PTL DEF Spec
<1> QED
  BY <1>2 DEF NothingIsLost, Kept
=============================================================================
