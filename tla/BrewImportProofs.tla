-------------------------- MODULE BrewImportProofs --------------------------
(***************************************************************************)
(* The importer implements AtomicImport, for every set of packages and     *)
(* platforms and whatever the upstream does between the requests.          *)
(***************************************************************************)
EXTENDS BrewImport, LeastNumbers, TLAPS

(* The tail of a sequence of two or more is not empty. *)
LEMMA LongTail == ASSUME NEW S, NEW s \in Seq(S), Len(s) > 1
                  PROVE  Tail(s) \in Seq(S) \ {<<>>}
<1>1. Tail(s) \in Seq(S) /\ Len(Tail(s)) > 0  OBVIOUS
<1>2. \A n : n > 0 => n # 0  OBVIOUS
<1>3. Len(Tail(s)) # 0  BY <1>1, <1>2, Zenon
<1>4. Len(<<>>) = 0  OBVIOUS
<1>5. Tail(s) # <<>>  BY <1>3, <1>4, Zenon
<1> QED  BY <1>1, <1>5, Zenon

(* Max of a nonempty set of versions is one of them. *)
LEMMA MaxIsMember == ASSUME NEW S \in SUBSET Version, S # {}  PROVE Max(S) \in S
BY SourcesAssumption, MaxIsGreatest DEF Version

-----------------------------------------------------------------------------
(* What the steps rest on: every release ever seen is in the history, and   *)
(* so is the one being downloaded; what is verified is that release's.      *)
Recorded ==
    \A p \in Package, t \in Tag : releases[p][t] # NoRelease =>
        [package |-> p, version |-> t.version, assets |-> releases[p][t]] \in published

OneRelease ==
    job.phase = "download" =>
        /\ [package |-> Package1, version |-> job.tag.version, assets |-> job.assets]
                \in published
        /\ \A k \in Platform : job.verified[k] # NoSource =>
                k \in Keys[Package1] /\ job.verified[k] = job.assets[k]

IInv == TypeOK /\ Recorded /\ OneRelease

(* The phase tells the shape of the run, and the run has a package at hand. *)
LEMMA JobShape ==
    ASSUME TypeOK, job # Idle
    PROVE  /\ job.queue \in SUBSET Package /\ job.registry \in BOOLEAN
           /\ Package1 \in job.queue /\ Package1 \in Package
           /\ job.phase = "resolve" => job \in Request
           /\ job.phase = "fetch" => job \in Lookup
           /\ job.phase = "download" => job \in Transfer
<1>1. job \in Request \cup Lookup \cup Transfer  BY DEF TypeOK
<1>2. /\ job.queue \in SUBSET Package /\ job.queue # {} /\ job.registry \in BOOLEAN
      /\ job.phase = "resolve" => job \in Request
      /\ job.phase = "fetch" => job \in Lookup
      /\ job.phase = "download" => job \in Transfer
  BY <1>1 DEF Request, Lookup, Transfer
<1>3. job.queue \in SUBSET Nat  BY <1>2, BrewAssumption
<1>4. Package1 \in job.queue  BY <1>2, <1>3, MinIsMember DEF Package1
<1> QED  BY <1>2, <1>4

(* The invariant holds initially. *)
LEMMA InitIInv == Init => IInv
<1> SUFFICES ASSUME Init  PROVE IInv  OBVIOUS
<1>1. \A p \in Package, t \in Tag : releases[p][t] = NoRelease  BY DEF Init
<1>2. releases \in [Package -> [Tag -> [Platform -> Source] \cup {NoRelease}]]  BY DEF Init
<1>3. newest \in [Package -> Tag \cup {NoTag}]  BY DEF Init
<1>4. manifests \in Tree
  <2>1. 0 \in Source /\ NoSource \in Source  BY DEF Source
  <2>2. NewUnixManifest([k \in Platform |-> 0]) \in Manifest
    BY <2>1 DEF NewUnixManifest, Manifest
  <2> QED  BY <2>2 DEF Init, Tree
<1>5. job = Idle /\ published = {} /\ uploads = 0 /\ windows = 0  BY DEF Init
<1>6. job.phase = "idle"  BY <1>5 DEF Idle
<1>7. TypeOK  BY <1>2, <1>3, <1>4, <1>5, <1>6 DEF TypeOK
<1>8. Recorded /\ OneRelease  BY <1>1, <1>6 DEF Recorded, OneRelease
<1> QED  BY <1>7, <1>8 DEF IInv

(* The upstream only ever adds to the history what it puts in a release.    *)
LEMMA ReplaceKeeps ==
    ASSUME IInv, NEW p \in Package, NEW t \in Tag, NEW assets \in [Platform -> Source],
           Replace(p, t, assets),
           newest' \in [Package -> Tag \cup {NoTag}], uploads' \in Nat,
           UNCHANGED <<manifests, job, windows>>
    PROVE  IInv' /\ published \subseteq published' /\ published' \subseteq Assets
<1> DEFINE new == [package |-> p, version |-> t.version, assets |-> assets]
<1>1. releases' = [releases EXCEPT ![p][t] = assets] /\ published' = published \cup {new}
  BY DEF Replace
<1>2. releases' \in [Package -> [Tag -> [Platform -> Source] \cup {NoRelease}]]
  BY <1>1 DEF IInv, TypeOK
<1>3. new \in Assets  BY DEF Assets, Tag
<1>4. published \subseteq published' /\ published' \subseteq Assets  BY <1>1, <1>3 DEF IInv, TypeOK
<1>5. Recorded'
  <2> SUFFICES ASSUME NEW q \in Package, NEW u \in Tag, releases'[q][u] # NoRelease
               PROVE  [package |-> q, version |-> u.version, assets |-> releases'[q][u]]
                            \in published'
    BY DEF Recorded
  <2>1. CASE q = p /\ u = t
    <3>1. releases'[q][u] = assets  BY <2>1, <1>1 DEF IInv, TypeOK
    <3> QED  BY <2>1, <3>1, <1>1
  <2>2. CASE ~(q = p /\ u = t)
    <3>1. releases'[q][u] = releases[q][u]  BY <2>2, <1>1 DEF IInv, TypeOK
    <3> QED  BY <3>1, <1>1 DEF IInv, Recorded
  <2> QED  BY <2>1, <2>2
<1>6. OneRelease'  BY <1>4 DEF IInv, OneRelease, Package1
<1>7. TypeOK'  BY <1>2, <1>4 DEF IInv, TypeOK, Package1
<1> QED  BY <1>4, <1>5, <1>6, <1>7 DEF IInv

(* The abstract module sees the same data. *)
LEMMA SameData ==
    /\ Atomic!Assets = Assets /\ Atomic!Tree = Tree /\ Atomic!Manifest = Manifest
    /\ Atomic!Version = Version
    /\ \A m, p : Atomic!Retains(m, p) <=> Retains(m, p)
    /\ \A m, verified : Atomic!Imported(m, verified) = Imported(m, verified)
BY DEF Atomic!Assets, Assets, Atomic!Tree, Tree, Atomic!Manifest, Manifest,
       Atomic!Source, Source, Atomic!Version, Version, Atomic!Retains, Retains,
       Atomic!Imported, Imported, Atomic!NewUnixManifest, NewUnixManifest,
       Atomic!MergeUnix, MergeUnix

(* PublishRelease and Reupload keep the invariant and are upstream steps. *)
LEMMA UpstreamStep ==
    ASSUME IInv, NEW p \in Package, NEW t \in Tag,
           \/ \E files \in SUBSET Keys[p], hidden \in BOOLEAN : PublishRelease(p, t, files, hidden)
           \/ \E k \in Keys[p] : Reupload(p, t, k)
    PROVE  IInv' /\ Atomic!Upstream
<1>1. uploads + 1 \in Nat /\ uploads + 1 \in Source /\ NoSource \in Source
  BY DEF IInv, TypeOK, Source
<1>2. CASE \E files \in SUBSET Keys[p], hidden \in BOOLEAN : PublishRelease(p, t, files, hidden)
  <2>1. PICK files \in SUBSET Keys[p], hidden \in BOOLEAN : PublishRelease(p, t, files, hidden)
    BY <1>2
  <2> DEFINE assets == [k \in Platform |-> IF k \in files THEN uploads + 1 ELSE NoSource]
  <2>2. assets \in [Platform -> Source]  BY <1>1
  <2>3. Replace(p, t, assets) /\ UNCHANGED <<manifests, job, windows>> /\ uploads' = uploads + 1
    BY <2>1 DEF PublishRelease
  <2>4. newest' \in [Package -> Tag \cup {NoTag}]  BY <2>1 DEF PublishRelease, IInv, TypeOK
  <2> HIDE DEF assets
  <2> QED  BY <2>2, <2>3, <2>4, <1>1, ReplaceKeeps, SameData DEF Atomic!Upstream
<1>3. CASE \E k \in Keys[p] : Reupload(p, t, k)
  <2>1. PICK k \in Keys[p] : Reupload(p, t, k)  BY <1>3
  <2> DEFINE assets == [releases[p][t] EXCEPT ![k] = uploads + 1]
  <2>2. releases[p][t] \in [Platform -> Source]  BY <2>1 DEF Reupload, IInv, TypeOK
  <2>3. assets \in [Platform -> Source]  BY <1>1, <2>2
  <2>4. /\ Replace(p, t, assets) /\ UNCHANGED <<newest, manifests, job, windows>>
        /\ uploads' = uploads + 1
    BY <2>1 DEF Reupload
  <2>5. newest' \in [Package -> Tag \cup {NoTag}]  BY <2>4 DEF IInv, TypeOK
  <2> HIDE DEF assets
  <2> QED  BY <2>3, <2>4, <2>5, <1>1, ReplaceKeeps, SameData DEF Atomic!Upstream
<1> QED  BY <1>2, <1>3

(* A step of the run that neither the upstream nor the tree takes part in   *)
(* keeps the invariant if the run's new state is well-formed.               *)
LEMMA JobStep ==
    ASSUME IInv, UNCHANGED <<upstreamVars, manifests, windows>>,
           \/ job' = Idle \/ job' \in Request \/ job' \in Lookup
           \/ /\ job' \in Transfer /\ OneRelease'
              /\ \A k \in Keys[Package1'] : job'.assets[k] # NoSource
    PROVE  IInv' /\ UNCHANGED <<published, manifests>>
<1>1. UNCHANGED <<releases, newest, published, manifests, uploads, windows>>
  BY DEF upstreamVars
<1>2. job' \in {Idle} \cup Request \cup Lookup \cup Transfer  OBVIOUS
<1>3. job'.phase = "download" => /\ OneRelease'
                                 /\ \A k \in Keys[Package1'] : job'.assets[k] # NoSource
  BY DEF Idle, Request, Lookup, Transfer
<1>4. TypeOK'  BY <1>1, <1>2, <1>3 DEF IInv, TypeOK
<1>5. Recorded'  BY <1>1 DEF IInv, Recorded
<1>6. OneRelease'  BY <1>3 DEF OneRelease
<1> QED  BY <1>1, <1>4, <1>5, <1>6 DEF IInv

(* Begin keeps the invariant. *)
LEMMA BeginStep ==
    ASSUME IInv, NEW names \in (SUBSET Package) \ {{}}, NEW registry \in BOOLEAN,
           Begin(names, registry)
    PROVE  IInv' /\ UNCHANGED <<published, manifests>>
<1>1. job' \in Request  BY DEF Begin, Request
<1> QED  BY <1>1, JobStep DEF Begin

(* Resolve keeps the invariant: there is a spelling to look up. *)
LEMMA ResolveStep ==
    ASSUME IInv, NEW pin \in Pins, Resolve(pin)
    PROVE  IInv' /\ UNCHANGED <<published, manifests>>
<1> USE DEF IInv
<1>1. job # Idle /\ job.phase = "resolve"  BY DEF Resolve, Idle
<1>2. /\ job.queue \in (SUBSET Package) \ {{}} /\ job.registry \in BOOLEAN /\ Package1 \in Package
  BY <1>1, JobShape
<1>3. ASSUME Versions(manifests, Package1) # {}
      PROVE  ExactTags(pin, Latest(manifests, Package1)) \in Seq(Tag \cup {LatestTag}) \ {<<>>}
  <2>1. Latest(manifests, Package1) \in Version
    <3>1. Versions(manifests, Package1) \in SUBSET Version  BY DEF Versions
    <3>2. Max(Versions(manifests, Package1)) \in Versions(manifests, Package1)
      BY <1>3, <3>1, MaxIsMember
    <3> QED  BY <3>1, <3>2 DEF Latest
  <2>2. \A withV \in BOOLEAN :
          Spellings(Latest(manifests, Package1), withV) \in Seq(Tag \cup {LatestTag}) \ {<<>>}
    BY <2>1 DEF Spellings, Tag
  <2>3. pin # NoTag => pin.v \in BOOLEAN  BY <1>2, BrewAssumption DEF Tag
  <2> QED  BY <2>2, <2>3 DEF ExactTags
<1>4. <<IF pin # NoTag THEN pin ELSE LatestTag>>
            \in Seq(Tag \cup {LatestTag}) \ {<<>>}
  BY <1>2, BrewAssumption
<1>5. job' = Idle \/ job' \in Lookup
  <2>1. \A tags \in Seq(Tag \cup {LatestTag}) \ {<<>>} : Fetching(tags) \in Lookup
    BY <1>2 DEF Fetching, Lookup
  <2>2. CASE job.registry /\ Versions(manifests, Package1) = {}  BY <2>2 DEF Resolve, Fail
  <2>3. CASE job.registry /\ Versions(manifests, Package1) # {}
    <3>1. job' = Fetching(ExactTags(pin, Latest(manifests, Package1)))  BY <2>3 DEF Resolve
    <3> QED  BY <2>1, <2>3, <3>1, <1>3
  <2>4. CASE ~job.registry
    <3>1. job' = Fetching(<<IF pin # NoTag THEN pin ELSE LatestTag>>)
      BY <2>4 DEF Resolve
    <3> QED  BY <2>1, <3>1, <1>4
  <2> QED  BY <2>2, <2>3, <2>4, <1>2
<1> QED  BY <1>5, JobStep DEF Resolve

(* Fetch keeps the invariant: the release it picks is in the history. *)
LEMMA FetchStep == ASSUME IInv, Fetch  PROVE IInv' /\ UNCHANGED <<published, manifests>>
<1> USE DEF IInv
<1>1. job # Idle /\ job.phase = "fetch"  BY DEF Fetch, Idle
<1>2. job \in Lookup /\ Package1 \in Package  BY <1>1, JobShape
<1>3. UNCHANGED <<upstreamVars, manifests, windows>>  BY DEF Fetch
<1>4. CASE NextSpelling
  <2>1. ASSUME Len(job.tags) > 1  PROVE job' \in Lookup
    <3>1. /\ job.tags \in Seq(Tag \cup {LatestTag})
          /\ job.queue \in (SUBSET Package) \ {{}} /\ job.registry \in BOOLEAN
      BY <1>2 DEF Lookup
    <3>2. Tail(job.tags) \in Seq(Tag \cup {LatestTag}) \ {<<>>}
      BY <2>1, <3>1, LongTail
    <3>3. job' = Fetching(Tail(job.tags))  BY <1>4, <2>1 DEF NextSpelling
    <3> QED  BY <3>1, <3>2, <3>3 DEF Fetching, Lookup
  <2> QED  BY <1>3, <1>4, <2>1, JobStep DEF NextSpelling, Fail
<1>5. CASE Fail  BY <1>3, <1>5, JobStep DEF Fail
<1>6. CASE /\ Answer # NoTag /\ releases[Package1][Answer] # NoRelease
           /\ \A k \in Keys[Package1] : releases[Package1][Answer][k] # NoSource
           /\ job' = Selected
  <2>1. /\ job.tags \in Seq(Tag \cup {LatestTag}) /\ job.tags # <<>>
        /\ job.queue \in (SUBSET Package) \ {{}} /\ job.registry \in BOOLEAN
    BY <1>2 DEF Lookup
  <2>2. Head(job.tags) \in Tag \cup {LatestTag}  BY <2>1
  <2>3. newest[Package1] \in Tag \cup {NoTag}  BY <1>2 DEF TypeOK
  <2>4. Answer \in Tag  BY <1>6, <2>2, <2>3 DEF Answer
  <2>5. releases[Package1][Answer] \in [Platform -> Source]
    <3>1. releases[Package1] \in [Tag -> [Platform -> Source] \cup {NoRelease}]
      BY <1>2 DEF TypeOK
    <3> QED  BY <1>6, <2>4, <3>1
  <2>6. None \in [Platform -> Source]  BY DEF None, Source
  <2>7. job' = Downloading(Answer, releases[Package1][Answer], None)  BY <1>6 DEF Selected
  <2>8. job' \in Transfer  BY <2>1, <2>4, <2>5, <2>6, <2>7 DEF Downloading, Transfer
  <2>9. /\ job'.queue = job.queue /\ job'.tag = Answer
        /\ job'.assets = releases[Package1][Answer] /\ job'.verified = None
    BY <2>7 DEF Downloading
  <2>10. Package1' = Package1  BY <2>9 DEF Package1
  <2>11. published' = published  BY <1>3 DEF upstreamVars
  <2>12. [package |-> Package1, version |-> Answer.version,
          assets |-> releases[Package1][Answer]] \in published
    BY <1>2, <1>6, <2>4 DEF Recorded
  <2>13. OneRelease'
    BY <2>9, <2>10, <2>11, <2>12 DEF OneRelease, None
  <2>14. \A k \in Keys[Package1'] : job'.assets[k] # NoSource  BY <1>6, <2>9, <2>10
  <2> QED  BY <1>3, <2>8, <2>13, <2>14, JobStep
<1> QED  BY <1>4, <1>5, <1>6 DEF Fetch

(* Download keeps the invariant: a payload that passes is the release's. *)
LEMMA DownloadStep == ASSUME IInv, Download  PROVE IInv' /\ UNCHANGED <<published, manifests>>
<1> USE DEF IInv
<1>1. job # Idle /\ job.phase = "download"  BY DEF Download, Idle
<1>2. job \in Transfer /\ Package1 \in Package  BY <1>1, JobShape
<1>3. UNCHANGED <<upstreamVars, manifests, windows>>  BY DEF Download
<1>4. Min(Todo) \in Keys[Package1] /\ Keys[Package1] \subseteq Platform
  <2>1. Keys[Package1] \subseteq Platform /\ Platform \subseteq Nat  BY <1>2, SourcesAssumption
  <2>2. Todo \in SUBSET Nat /\ Todo # {}  BY <2>1 DEF Download, Todo
  <2> QED  BY <2>1, <2>2, MinIsMember DEF Todo
<1> DEFINE verified == [job.verified EXCEPT ![Min(Todo)] = job.assets[Min(Todo)]]
<1>5. CASE Fail  BY <1>3, <1>5, JobStep DEF Fail
<1>6. CASE job' = Downloading(job.tag, job.assets, verified)
  <2>1. /\ job.queue \in (SUBSET Package) \ {{}} /\ job.registry \in BOOLEAN /\ job.tag \in Tag
        /\ job.assets \in [Platform -> Source] /\ job.verified \in [Platform -> Source]
    BY <1>2 DEF Transfer
  <2>2. verified \in [Platform -> Source]  BY <1>4, <2>1
  <2>3. /\ \A k \in Platform : verified[k] # NoSource =>
                k \in Keys[Package1] /\ verified[k] = job.assets[k]
    BY <1>1, <1>4, <2>1 DEF OneRelease
  <2> HIDE DEF verified
  <2>4. job' \in Transfer  BY <1>6, <2>1, <2>2 DEF Downloading, Transfer
  <2>5. /\ job'.queue = job.queue /\ job'.tag = job.tag
        /\ job'.assets = job.assets /\ job'.verified = verified
    BY <1>6 DEF Downloading
  <2>6. Package1' = Package1  BY <2>5 DEF Package1
  <2>7. published' = published  BY <1>3 DEF upstreamVars
  <2>8. OneRelease'  BY <1>1, <2>3, <2>5, <2>6, <2>7 DEF OneRelease
  <2>9. \A k \in Keys[Package1'] : job'.assets[k] # NoSource  BY <1>1, <2>5, <2>6 DEF TypeOK
  <2> QED  BY <1>3, <2>4, <2>8, <2>9, JobStep
<1> QED  BY <1>5, <1>6 DEF Download

(* The manifest written is the one an import of one release gives. *)
LEMMA WriteStep ==
    ASSUME IInv, Write
    PROVE  /\ IInv'
           /\ \/ UNCHANGED <<published, manifests>>
              \/ \E r \in published : Atomic!Import(r)
<1> USE DEF IInv
<1>1. job # Idle /\ job.phase = "download"  BY DEF Write, Idle
<1>2. job \in Transfer /\ Package1 \in Package  BY <1>1, JobShape
<1>3. UNCHANGED <<upstreamVars, windows>>  BY DEF Write
<1>4. CASE Fail /\ UNCHANGED manifests  BY <1>3, <1>4, JobStep DEF Fail, upstreamVars
<1>5. CASE /\ ~Retains(manifests[Package1][job.tag.version], Package1)
           /\ manifests' = [manifests EXCEPT ![Package1][job.tag.version] =
                                Imported(manifests[Package1][job.tag.version], job.verified)]
           /\ NextPackage
  <2> DEFINE old == manifests[Package1][job.tag.version]
             r == [package |-> Package1, version |-> job.tag.version, assets |-> job.assets]
             chosen == [k \in Platform |-> IF k \in Keys[Package1] THEN job.assets[k]
                                                                  ELSE NoSource]
  <2>1. /\ job.queue \in (SUBSET Package) \ {{}} /\ job.registry \in BOOLEAN /\ job.tag \in Tag
        /\ job.assets \in [Platform -> Source] /\ job.verified \in [Platform -> Source]
    BY <1>2 DEF Transfer
  <2>2. \A k \in Keys[Package1] : job.verified[k] # NoSource  BY DEF Write, Todo
  <2>3. job.verified = chosen
    <3>1. \A k \in Platform : job.verified[k] = chosen[k]  BY <1>1, <2>2 DEF OneRelease
    <3> QED  BY <2>1, <3>1
  <2>4. Atomic!Import(r)
    <3>1. \A k \in Keys[Package1] : r.assets[k] # NoSource  BY <1>1 DEF TypeOK
    <3>2. manifests' = [manifests EXCEPT ![r.package][r.version] = Imported(old, chosen)]
      BY <1>5, <2>3
    <3>3. ~Retains(old, r.package)  BY <1>5
    <3>4. published' = published  BY <1>3 DEF upstreamVars
    <3>5. chosen = [k \in Platform |-> IF k \in Keys[r.package] THEN r.assets[k] ELSE NoSource]
      OBVIOUS
    <3> HIDE DEF r, chosen
    <3> QED  BY <3>1, <3>2, <3>3, <3>4, <3>5, SameData DEF Atomic!Import, r
  <2>5. manifests' \in Tree
    <3>1. old \in Manifest \cup {NoManifest}  BY <1>2, <2>1 DEF TypeOK, Tree, Tag
    <3>2. Imported(old, job.verified) \in Manifest
      BY <2>1, <3>1 DEF Imported, MergeUnix, NewUnixManifest, Manifest, Source
    <3> QED  BY <1>5, <3>2 DEF TypeOK, Tree
  <2>6. job' = Idle \/ job' \in Request
    <3>1. job.queue # {Package1} => job.queue \ {Package1} \in (SUBSET Package) \ {{}}
      BY <1>1, <2>1, JobShape
    <3> QED  BY <1>5, <2>1, <3>1 DEF NextPackage, Request
  <2>7. job'.phase # "download"  BY <2>6 DEF Idle, Request
  <2>8. UNCHANGED <<releases, newest, published, uploads, windows>>  BY <1>3 DEF upstreamVars
  <2>9. TypeOK' /\ OneRelease'  BY <2>5, <2>6, <2>7, <2>8 DEF TypeOK, OneRelease
  <2>10. Recorded'  BY <2>8 DEF Recorded
  <2> QED  BY <1>1, <2>4, <2>9, <2>10 DEF OneRelease
<1> QED  BY <1>4, <1>5 DEF Write

(* Break keeps the invariant. *)
LEMMA BreakStep == ASSUME IInv, Break  PROVE IInv' /\ UNCHANGED <<published, manifests>>
BY JobStep DEF Break, Fail

(* A Windows tool writes a well-formed manifest and keeps its Unix blocks. *)
LEMMA WindowsStep ==
    ASSUME IInv, NEW p \in Package, NEW v \in Version, NEW carries \in BOOLEAN,
           WindowsImport(p, v, carries)
    PROVE  IInv' /\ Atomic!Windows(p, v)
<1> USE DEF IInv
<1> DEFINE old == manifests[p][v]
           new == [win |-> windows + 1,
                   unix |-> IF old = NoManifest THEN Carried(p, carries) ELSE old.unix]
<1>1. manifests' = [manifests EXCEPT ![p][v] = new]  BY DEF WindowsImport
<1>2. old \in Manifest \cup {NoManifest}  BY DEF TypeOK, Tree
<1>3. Carried(p, carries) \in [Platform -> Source]
  <2>1. None \in [Platform -> Source]  BY DEF None, Source
  <2>2. ASSUME Versions(manifests, p) # {}
        PROVE  manifests[p][Latest(manifests, p)].unix \in [Platform -> Source]
    <3>1. Versions(manifests, p) \in SUBSET Version  BY DEF Versions
    <3>2. Latest(manifests, p) \in Versions(manifests, p)  BY <2>2, <3>1, MaxIsMember DEF Latest
    <3>3. manifests[p][Latest(manifests, p)] \in Manifest  BY <3>2 DEF Versions, TypeOK, Tree
    <3> QED  BY <3>3 DEF Manifest
  <2> QED  BY <2>1, <2>2 DEF Carried
<1>4. new \in Manifest
  <2>1. windows + 1 \in Source  BY DEF TypeOK, Source
  <2>2. old # NoManifest => old.unix \in [Platform -> Source]  BY <1>2 DEF Manifest
  <2> QED  BY <1>3, <2>1, <2>2 DEF Manifest
<1>5. manifests'[p][v] = new  BY <1>1 DEF TypeOK, Tree
<1>6. old # NoManifest => new.unix = old.unix  OBVIOUS
<1> HIDE DEF new
<1>7. UNCHANGED <<releases, newest, published, uploads, job>> /\ windows' = windows + 1
  BY DEF WindowsImport, upstreamVars
<1>8. Atomic!Windows(p, v)
  <2>1. manifests'[p][v] \in Atomic!Manifest  BY <1>4, <1>5, SameData
  <2>2. old # NoManifest => manifests'[p][v].unix = old.unix  BY <1>5, <1>6
  <2>3. manifests' = [manifests EXCEPT ![p][v] = manifests'[p][v]]  BY <1>1, <1>5, Zenon
  <2>4. UNCHANGED published  BY <1>7
  <2> QED  BY <2>1, <2>2, <2>3, <2>4, Zenon DEF Atomic!Windows
<1>9. manifests' \in Tree  BY <1>1, <1>4 DEF TypeOK, Tree
<1>10. TypeOK'  BY <1>7, <1>9 DEF TypeOK, Package1
<1>11. Recorded' /\ OneRelease'  BY <1>7 DEF Recorded, OneRelease, Package1
<1> QED  BY <1>8, <1>10, <1>11

-----------------------------------------------------------------------------
(* Every step keeps the invariant and is a step of AtomicImport or a stutter. *)
LEMMA StepIInv ==
    ASSUME IInv, [Next]_vars
    PROVE  IInv' /\ [Atomic!Next]_<<published, manifests>>
<1>1. CASE UNCHANGED vars
  BY <1>1 DEF vars, upstreamVars, IInv, TypeOK, Recorded, OneRelease, Package1
<1>2. CASE \E p \in Package : \E t \in Tag, hidden \in BOOLEAN, files \in SUBSET Keys[p] :
                PublishRelease(p, t, files, hidden)
  BY <1>2, UpstreamStep DEF Atomic!Next
<1>3. CASE \E p \in Package : \E t \in Tag, k \in Keys[p] : Reupload(p, t, k)
  BY <1>3, UpstreamStep DEF Atomic!Next
<1>4. CASE \E names \in (SUBSET Package) \ {{}}, registry \in BOOLEAN : Begin(names, registry)
  BY <1>4, BeginStep
<1>5. CASE \E pin \in Pins : Resolve(pin)  BY <1>5, ResolveStep
<1>6. CASE Fetch  BY <1>6, FetchStep
<1>7. CASE Download  BY <1>7, DownloadStep
<1>8. CASE Write  BY <1>8, WriteStep DEF Atomic!Next
<1>9. CASE Break  BY <1>9, BreakStep
<1>10. CASE \E p \in Package, v \in Version, carries \in BOOLEAN : WindowsImport(p, v, carries)
  BY <1>10, WindowsStep, SameData DEF Atomic!Next
<1> QED
  BY <1>1, <1>2, <1>3, <1>4, <1>5, <1>6, <1>7, <1>8, <1>9, <1>10 DEF Next

(* Type correctness of the importer: among it, no payload is downloaded     *)
(* while an allowlisted platform lacks its asset.                           *)
THEOREM BrewTypeCorrect == Spec => []TypeOK
<1>1. IInv /\ [Next]_vars => IInv'  BY StepIInv
<1>2. IInv => TypeOK  BY DEF IInv
<1> QED  BY InitIInv, <1>1, <1>2, PTL DEF Spec

(* An import takes effect as a whole or not at all, whatever the upstream   *)
(* replaces between its requests: the importer implements AtomicImport.     *)
THEOREM ImportIsAtomic == Spec => ImportsAreAtomic
<1>1. IInv /\ [Next]_vars => IInv' /\ [Atomic!Next]_<<published, manifests>>  BY StepIInv
<1>2. Init => Atomic!Init
  BY InitIInv, SameData DEF Atomic!Init, IInv, TypeOK
<1> QED  BY InitIInv, <1>1, <1>2, PTL DEF Spec, ImportsAreAtomic, Atomic!Spec

-----------------------------------------------------------------------------
(* A run with --registry-version only ever asks for, and downloads, the     *)
(* release of a version that the tree has.                                  *)
InTree(tag) == tag \in Tag /\ manifests[Package1][tag.version] # NoManifest

AsksForTree ==
    /\ job.phase = "fetch" /\ job.registry => \A i \in 1..Len(job.tags) : InTree(job.tags[i])
    /\ job.phase = "download" /\ job.registry => InTree(job.tag)

(* What is at a position of a pair is one of the two. *)
LEMMA PairElements ==
    ASSUME NEW x, NEW y, NEW i \in 1..Len(<<x, y>>)
    PROVE  <<x, y>>[i] = x \/ <<x, y>>[i] = y
OBVIOUS

(* Resolve asks for the two spellings of the latest version in the tree. *)
LEMMA ResolveAsks ==
    ASSUME IInv, NEW pin \in Pins, Resolve(pin)  PROVE AsksForTree'
<1>1. job # Idle /\ job.phase = "resolve"  BY DEF Resolve, Idle
<1>2. job.registry \in BOOLEAN /\ Package1 \in Package  BY <1>1, JobShape DEF IInv
<1>3. UNCHANGED manifests  BY DEF Resolve
<1>4. CASE job.registry /\ Versions(manifests, Package1) # {}
  <2>1. PICK v \in Version :
            v = Latest(manifests, Package1) /\ manifests[Package1][v] # NoManifest
    <3>1. Versions(manifests, Package1) \in SUBSET Version  BY DEF Versions
    <3>2. Latest(manifests, Package1) \in Versions(manifests, Package1)
      BY <1>4, <3>1, MaxIsMember DEF Latest
    <3> QED  BY <3>2 DEF Versions
  <2>2. job' = Fetching(ExactTags(pin, v))  BY <1>4, <2>1 DEF Resolve
  <2>3. pin # NoTag => pin.v \in BOOLEAN  BY BrewAssumption DEF Tag
  <2>4. PICK withV \in BOOLEAN : ExactTags(pin, v) = Spellings(v, withV)
    BY <2>3 DEF ExactTags
  <2>5. \A b \in BOOLEAN : [version |-> v, v |-> b] \in Tag  BY <2>1 DEF Tag
  <2>6. \A i \in 1..Len(Spellings(v, withV)) :
            \E b \in BOOLEAN : Spellings(v, withV)[i] = [version |-> v, v |-> b]
    <3> SUFFICES ASSUME NEW i \in 1..Len(Spellings(v, withV))
                 PROVE  \E b \in BOOLEAN : Spellings(v, withV)[i] = [version |-> v, v |-> b]
      OBVIOUS
    <3> DEFINE x == [version |-> v, v |-> withV]
               y == [version |-> v, v |-> ~withV]
    <3>1. Spellings(v, withV) = <<x, y>>  BY DEF Spellings
    <3>2. \E b \in BOOLEAN : x = [version |-> v, v |-> b]  BY Zenon
    <3>3. (~withV) \in BOOLEAN  OBVIOUS
    <3>4. \E b \in BOOLEAN : y = [version |-> v, v |-> b]  BY <3>3, Zenon
    <3> HIDE DEF x, y
    <3>5. Spellings(v, withV)[i] \in {x, y}  BY <3>1, PairElements
    <3> QED  BY <3>2, <3>4, <3>5
  <2>7. job'.tags = Spellings(v, withV) /\ job'.phase = "fetch" /\ job'.queue = job.queue
    BY <2>2, <2>4 DEF Fetching
  <2>8. Package1' = Package1  BY <2>7 DEF Package1
  <2>9. \A b \in BOOLEAN : InTree([version |-> v, v |-> b])'
    BY <2>1, <2>5, <2>8, <1>3 DEF InTree
  <2> QED  BY <2>6, <2>7, <2>9 DEF AsksForTree
<1>5. CASE job.registry /\ Versions(manifests, Package1) = {}
  <2>1. job'.phase = "idle"  BY <1>5 DEF Resolve, Fail, Idle
  <2> QED  BY <2>1 DEF AsksForTree
<1>6. CASE ~job.registry
  <2>1. job'.phase = "fetch" /\ ~job'.registry  BY <1>6 DEF Resolve, Fetching
  <2> QED  BY <2>1 DEF AsksForTree
<1> QED  BY <1>2, <1>4, <1>5, <1>6

(* Fetch goes on to the next of these, or downloads the one it found. *)
LEMMA FetchAsks == ASSUME IInv, AsksForTree, Fetch  PROVE AsksForTree'
<1>1. job # Idle /\ job.phase = "fetch"  BY DEF Fetch, Idle
<1>2. job \in Lookup  BY <1>1, JobShape DEF IInv
<1>3. UNCHANGED manifests  BY DEF Fetch
<1>4. job.tags \in Seq(Tag \cup {LatestTag}) /\ job.tags # <<>>  BY <1>2 DEF Lookup
<1>5. CASE job' = Idle
  <2>1. job'.phase = "idle"  BY <1>5 DEF Idle
  <2> QED  BY <2>1 DEF AsksForTree
<1>6. CASE job' = Fetching(Tail(job.tags)) /\ Len(job.tags) > 1
  <2>1. /\ job'.tags = Tail(job.tags) /\ job'.phase = "fetch" /\ job'.queue = job.queue
        /\ job'.registry = job.registry
    BY <1>6 DEF Fetching
  <2>2. Package1' = Package1  BY <2>1 DEF Package1
  <2>3. \A tag : InTree(tag)' <=> InTree(tag)  BY <2>2, <1>3 DEF InTree
  <2>4. \A i \in 1..Len(Tail(job.tags)) :
            i + 1 \in 1..Len(job.tags) /\ Tail(job.tags)[i] = job.tags[i + 1]
    BY <1>4, <1>6
  <2> QED  BY <1>1, <2>1, <2>3, <2>4 DEF AsksForTree
<1>7. CASE job' = Selected
  <2>1. /\ job'.tag = Answer /\ job'.phase = "download" /\ job'.queue = job.queue
        /\ job'.registry = job.registry
    BY <1>7 DEF Selected, Downloading
  <2>2. Package1' = Package1  BY <2>1 DEF Package1
  <2>3. ASSUME job.registry  PROVE InTree(Answer)
    <3>1. 1 \in 1..Len(job.tags) /\ Head(job.tags) = job.tags[1]  BY <1>4
    <3>2. InTree(Head(job.tags))  BY <1>1, <2>3, <3>1 DEF AsksForTree
    <3>3. Head(job.tags) # LatestTag  BY <3>2, BrewAssumption DEF InTree
    <3> QED  BY <3>2, <3>3 DEF Answer
  <2>4. \A tag : InTree(tag)' <=> InTree(tag)  BY <2>2, <1>3 DEF InTree
  <2> QED  BY <2>1, <2>3, <2>4 DEF AsksForTree
<1> QED  BY <1>5, <1>6, <1>7 DEF Fetch, NextSpelling, Fail

(* Every other step leaves what is asked for alone, or ends the asking. *)
LEMMA StepAsks == ASSUME IInv, AsksForTree, [Next]_vars  PROVE AsksForTree'
<1>1. CASE UNCHANGED <<job, manifests>>  BY <1>1 DEF AsksForTree, InTree, Package1
<1>2. CASE Download
  <2>1. job.phase = "download" /\ UNCHANGED manifests  BY <1>2 DEF Download
  <2>2. CASE job' = Idle
    <3>1. job'.phase = "idle"  BY <2>2 DEF Idle
    <3> QED  BY <3>1 DEF AsksForTree
  <2>3. CASE \E verified : job' = Downloading(job.tag, job.assets, verified)
    <3>1. /\ job'.tag = job.tag /\ job'.phase = "download" /\ job'.queue = job.queue
          /\ job'.registry = job.registry
      BY <2>3 DEF Downloading
    <3>2. Package1' = Package1  BY <3>1 DEF Package1
    <3> QED  BY <2>1, <3>1, <3>2 DEF AsksForTree, InTree
  <2> QED  BY <1>2, <2>2, <2>3 DEF Download, Fail
<1>3. CASE \/ Write \/ Break \/ \E p \in Package, v \in Version, carries \in BOOLEAN :
                                    WindowsImport(p, v, carries)
           \/ \E names \in (SUBSET Package) \ {{}}, registry \in BOOLEAN : Begin(names, registry)
  <2>1. job'.phase \in {"idle", "resolve"}
    BY <1>3 DEF Write, Break, Fail, NextPackage, Begin, WindowsImport, Idle
  <2> QED  BY <2>1 DEF AsksForTree
<1>4. CASE UNCHANGED vars  BY <1>1, <1>4 DEF vars
<1>5. CASE \/ \E p \in Package : \E t \in Tag, hidden \in BOOLEAN, files \in SUBSET Keys[p] :
                PublishRelease(p, t, files, hidden)
           \/ \E p \in Package : \E t \in Tag, k \in Keys[p] : Reupload(p, t, k)
  BY <1>1, <1>5 DEF PublishRelease, Reupload
<1>6. CASE \E pin \in Pins : Resolve(pin)  BY <1>6, ResolveAsks
<1>7. CASE Fetch  BY <1>7, FetchAsks
<1> QED  BY <1>2, <1>3, <1>4, <1>5, <1>6, <1>7 DEF Next

(* The only step of such a run that writes, writes to a manifest there is. *)
LEMMA RegistryStep ==
    ASSUME IInv, AsksForTree, [Next]_vars, job # Idle, job.registry,
           NEW p \in Package
    PROVE  Versions(manifests, p)' = Versions(manifests, p)
<1>1. CASE UNCHANGED manifests  BY <1>1 DEF Versions
<1>2. CASE Write /\ ~UNCHANGED manifests
  <2>1. job.phase = "download"  BY <1>2 DEF Write
  <2>2. job \in Transfer /\ Package1 \in Package  BY <2>1, JobShape DEF IInv
  <2> DEFINE v == job.tag.version
             old == manifests[Package1][v]
  <2>3. v \in Version /\ old # NoManifest  BY <2>1 DEF AsksForTree, InTree, Tag
  <2>4. manifests \in Tree  BY DEF IInv, TypeOK
  <2>5. manifests' = [manifests EXCEPT ![Package1][v] = Imported(old, job.verified)]
    BY <1>2 DEF Write
  <2>6. Imported(old, job.verified) # NoManifest
    <3>1. old \in Manifest  BY <2>2, <2>3, <2>4 DEF Tree
    <3>2. job.verified \in [Platform -> Source]  BY <2>2 DEF Transfer
    <3>3. Imported(old, job.verified) \in Manifest
      BY <2>3, <3>1, <3>2 DEF Imported, MergeUnix, Manifest, Source
    <3> QED  BY <3>3, SourcesAssumption
  <2> HIDE DEF v
  <2>7. \A w \in Version : manifests'[p][w] # NoManifest <=> manifests[p][w] # NoManifest
    BY <2>2, <2>3, <2>4, <2>5, <2>6 DEF Tree
  <2> QED  BY <2>7 DEF Versions
<1>3. ~(\E q \in Package, v \in Version, carries \in BOOLEAN : WindowsImport(q, v, carries))
  BY DEF WindowsImport
<1>4. Write \/ UNCHANGED manifests
  BY <1>3 DEF Next, vars, PublishRelease, Reupload, Begin, Resolve, Fetch, Download, Break
<1> QED  BY <1>1, <1>2, <1>4

(* With --registry-version no version enters or leaves the registry,        *)
(* whatever is pinned and whatever the upstream calls latest.               *)
THEOREM RegistryModeIsExact == Spec => RegistryModeAddsNoVersion
<1> DEFINE Kept == job # Idle /\ job.registry =>
                    \A p \in Package : Versions(manifests, p)' = Versions(manifests, p)
<1>1. Init => IInv /\ AsksForTree
  <2>1. Init => job.phase = "idle"  BY DEF Init, Idle
  <2> QED  BY InitIInv, <2>1 DEF AsksForTree
<1>2. IInv /\ AsksForTree /\ [Next]_vars => IInv' /\ AsksForTree'  BY StepIInv, StepAsks
<1>3. IInv /\ AsksForTree /\ [Next]_vars => Kept  BY RegistryStep
<1>4. Spec => [][Kept]_vars  BY <1>1, <1>2, <1>3, PTL DEF Spec
<1> QED  BY <1>4, PTL DEF RegistryModeAddsNoVersion
=============================================================================
