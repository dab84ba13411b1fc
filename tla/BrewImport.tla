----------------------------- MODULE BrewImport -----------------------------
(***************************************************************************)
(* tools/brew-import: for each allowlisted package of a run, resolve a     *)
(* release, select its assets, download and gate them one by one, and      *)
(* write one manifest; the first error ends the run.  The upstream changes *)
(* between any two requests.  Runs work on one tree; between them Windows  *)
(* tools add and refresh manifests.                                        *)
(***************************************************************************)
EXTENDS UnixSources, Sequences

CONSTANTS
    Pins,       \* what the allowlist pins a package to over time: tags, NoTag
    MaxUploads, \* bound: uploads to releases
    MaxWindows, \* bound: changes by Windows tools
    NoTag, NoRelease,
    LatestTag   \* the request for the latest release

(* A release tag names a version with or without a leading v: strip_v. *)
Tag == [version : Version, v : BOOLEAN]

(* Packages are numbered in the order of the allowlist. *)
ASSUME BrewAssumption ==
    /\ Package \subseteq Nat /\ MaxUploads \in Nat /\ MaxWindows \in Nat
    /\ Pins \subseteq Tag \cup {NoTag}
    /\ NoRelease \notin [Platform -> Source]
    /\ NoTag \notin Tag /\ LatestTag \notin Tag /\ LatestTag # NoTag

VARIABLES
    releases,  \* the assets behind each tag
    newest,    \* the release GitHub calls latest
    published, \* history: every set of assets a release has had
    manifests, \* the work tree
    job,       \* the run
    uploads, windows

upstreamVars == <<releases, newest, published, uploads>>
vars == <<upstreamVars, manifests, job, windows>>

Idle == [phase |-> "idle"]
Package1 == Min(job.queue)

(* Some packages start with a first version whose blocks a wider allowlist  *)
(* of former days wrote.                                                    *)
Init ==
    /\ releases = [p \in Package |-> [t \in Tag |-> NoRelease]]
    /\ newest = [p \in Package |-> NoTag]
    /\ published = {}
    /\ \E old \in SUBSET Package : manifests = [p \in Package |-> [v \in Version |->
            IF p \in old /\ v = 1 THEN NewUnixManifest([k \in Platform |-> 0]) ELSE NoManifest]]
    /\ job = Idle /\ uploads = 0 /\ windows = 0

-----------------------------------------------------------------------------
(* The upstream. *)

Replace(p, t, assets) ==
    /\ releases' = [releases EXCEPT ![p][t] = assets]
    /\ published' = published \cup {[package |-> p, version |-> t.version, assets |-> assets]}

(* A release, with some of the assets the allowlist names; a hidden one     *)
(* (a prerelease) is not the latest.                                        *)
PublishRelease(p, t, files, hidden) ==
    /\ releases[p][t] = NoRelease /\ uploads < MaxUploads
    /\ uploads' = uploads + 1
    /\ Replace(p, t, [k \in Platform |-> IF k \in files THEN uploads + 1 ELSE NoSource])
    /\ newest' = IF hidden THEN newest ELSE [newest EXCEPT ![p] = t]
    /\ UNCHANGED <<manifests, job, windows>>

(* An asset is added to a release or replaced. *)
Reupload(p, t, k) ==
    /\ releases[p][t] # NoRelease /\ uploads < MaxUploads
    /\ uploads' = uploads + 1
    /\ Replace(p, t, [releases[p][t] EXCEPT ![k] = uploads + 1])
    /\ UNCHANGED <<newest, manifests, job, windows>>

-----------------------------------------------------------------------------
(* The run. *)

(* --only names, handled in allowlist order; with or without              *)
(* --registry-version.                                                    *)
Begin(names, registry) ==
    /\ job = Idle
    /\ job' = [phase |-> "resolve", registry |-> registry, queue |-> names]
    /\ UNCHANGED <<upstreamVars, manifests, windows>>

Fail == job' = Idle
Fetching(tags) ==
    [phase |-> "fetch", registry |-> job.registry, queue |-> job.queue, tags |-> tags]
Downloading(tag, assets, verified) ==
    [phase |-> "download", registry |-> job.registry, queue |-> job.queue,
     tag |-> tag, assets |-> assets, verified |-> verified]

Spellings(v, withV) ==
    <<[version |-> v, v |-> withV], [version |-> v, v |-> ~withV]>>

\* Mutant: without a release of that version, the latest one.
ExactTagsOrLatest(pin, v) == Append(Spellings(v, TRUE), LatestTag)

(* The spellings of an exact version, a matching pin first.  The comparison *)
(* of the answer's tag with the version never fails: each tag spells it.    *)
ExactTags(pin, v) ==
    Spellings(v, IF pin # NoTag /\ pin.version = v THEN pin.v ELSE TRUE)

(* The pin is what the allowlist says at this run; a package is resolved    *)
(* once in a run.                                                          *)
Resolve(pin) ==
    /\ job.phase = "resolve"
    /\ IF job.registry /\ Versions(manifests, Package1) = {}
         THEN Fail
         ELSE job' = Fetching(
                IF job.registry THEN ExactTags(pin, Latest(manifests, Package1))
                ELSE <<IF pin # NoTag THEN pin ELSE LatestTag>>)
    /\ UNCHANGED <<upstreamVars, manifests, windows>>

Answer == IF Head(job.tags) = LatestTag THEN newest[Package1] ELSE Head(job.tags)

Selected == Downloading(Answer, releases[Package1][Answer], None)

NextSpelling == IF Len(job.tags) > 1 THEN job' = Fetching(Tail(job.tags)) ELSE Fail

\* Mutant: a platform without an asset is no error.
FetchPartial ==
    /\ job.phase = "fetch"
    /\ IF Answer = NoTag \/ releases[Package1][Answer] = NoRelease THEN NextSpelling
       ELSE job' = Selected
    /\ UNCHANGED <<upstreamVars, manifests, windows>>

(* One metadata request: a missing release is the next spelling's turn, one *)
(* that lacks an allowlisted asset is an error.                             *)
Fetch ==
    /\ job.phase = "fetch"
    /\ IF Answer = NoTag \/ releases[Package1][Answer] = NoRelease THEN NextSpelling
       ELSE IF \E k \in Keys[Package1] : releases[Package1][Answer][k] = NoSource THEN Fail
       ELSE job' = Selected
    /\ UNCHANGED <<upstreamVars, manifests, windows>>

Todo == {k \in Keys[Package1] : job.verified[k] = NoSource}

\* Mutant: the official digest is not compared.
DownloadUnchecked ==
    /\ job.phase = "download" /\ Todo # {}
    /\ LET k == Min(Todo) IN
       job' = Downloading(job.tag, job.assets,
                        [job.verified EXCEPT ![k] = releases[Package1][job.tag][k]])
    /\ UNCHANGED <<upstreamVars, manifests, windows>>

(* Download the next payload, compare it with the digest the metadata gave, *)
(* and gate it; a failing gate is Break.                                    *)
Download ==
    /\ job.phase = "download" /\ Todo # {}
    /\ LET k == Min(Todo) IN
       IF releases[Package1][job.tag][k] # job.assets[k] THEN Fail
       ELSE job' = Downloading(job.tag, job.assets,
                             [job.verified EXCEPT ![k] = job.assets[k]])
    /\ UNCHANGED <<upstreamVars, manifests, windows>>

NextPackage ==
    job' = IF job.queue = {Package1} THEN Idle
           ELSE [phase |-> "resolve", registry |-> job.registry,
                 queue |-> job.queue \ {Package1}]

\* Mutant: blocks of platforms the allowlist does not name are kept.
WriteRetains ==
    /\ job.phase = "download" /\ Todo = {}
    /\ manifests' = [manifests EXCEPT ![Package1][job.tag.version] = Imported(@, job.verified)]
    /\ NextPackage
    /\ UNCHANGED <<upstreamVars, windows>>

(* Every platform is verified: write the manifest of the release's version. *)
Write ==
    /\ job.phase = "download" /\ Todo = {}
    /\ IF Retains(manifests[Package1][job.tag.version], Package1)
         THEN Fail /\ UNCHANGED manifests
         ELSE /\ manifests' = [manifests EXCEPT ![Package1][job.tag.version] =
                                    Imported(@, job.verified)]
              /\ NextPackage
    /\ UNCHANGED <<upstreamVars, windows>>

(* A request, a gate or the file system fails, in any phase. *)
Break ==
    /\ job # Idle /\ Fail
    /\ UNCHANGED <<upstreamVars, manifests, windows>>

-----------------------------------------------------------------------------
(* Windows tools, between runs: a new version carries the blocks of the     *)
(* latest one forward or none at all; a refresh keeps the version's own.    *)
Carried(p, carries) ==
    IF carries /\ Versions(manifests, p) # {}
      THEN manifests[p][Latest(manifests, p)].unix ELSE None

WindowsImport(p, v, carries) ==
    /\ job = Idle /\ windows < MaxWindows
    /\ windows' = windows + 1
    /\ manifests' = [manifests EXCEPT ![p][v] =
            [win |-> windows + 1, unix |-> IF @ = NoManifest THEN Carried(p, carries) ELSE @.unix]]
    /\ UNCHANGED <<upstreamVars, job>>

Next ==
    \/ \E p \in Package : \E t \in Tag, hidden \in BOOLEAN, files \in SUBSET Keys[p] :
            PublishRelease(p, t, files, hidden)
    \/ \E p \in Package : \E t \in Tag, k \in Keys[p] : Reupload(p, t, k)
    \/ \E names \in (SUBSET Package) \ {{}}, registry \in BOOLEAN : Begin(names, registry)
    \/ \E pin \in Pins : Resolve(pin)
    \/ Fetch \/ Download \/ Write \/ Break
    \/ \E p \in Package, v \in Version, carries \in BOOLEAN : WindowsImport(p, v, carries)

Spec == Init /\ [][Next]_vars

-----------------------------------------------------------------------------
Request == [phase : {"resolve"}, registry : BOOLEAN, queue : (SUBSET Package) \ {{}}]
Lookup == [phase : {"fetch"}, registry : BOOLEAN, queue : (SUBSET Package) \ {{}},
           tags : Seq(Tag \cup {LatestTag}) \ {<<>>}]
Transfer == [phase : {"download"}, registry : BOOLEAN, queue : (SUBSET Package) \ {{}},
             tag : Tag, assets : [Platform -> Source], verified : [Platform -> Source]]

(* Among the types: a payload is downloaded only once every allowlisted     *)
(* platform has its asset ("a failed update, never a skip").                *)
TypeOK ==
    /\ releases \in [Package -> [Tag -> [Platform -> Source] \cup {NoRelease}]]
    /\ newest \in [Package -> Tag \cup {NoTag}]
    /\ published \subseteq Assets /\ manifests \in Tree
    /\ job \in {Idle} \cup Request \cup Lookup \cup Transfer
    /\ job.phase = "download" => \A k \in Keys[Package1] : job.assets[k] # NoSource
    /\ uploads \in Nat /\ windows \in Nat

Atomic == INSTANCE AtomicImport WITH published <- published, manifests <- manifests

(* An import takes effect as a whole or not at all: the blocks written are  *)
(* one release's assets of one moment, for the version the manifest states, *)
(* whatever the upstream replaces between the requests, and the Windows     *)
(* sources stay as they are (module comment, write_release_manifest).       *)
ImportsAreAtomic == Atomic!Spec

(* With --registry-version no version enters or leaves the registry: the    *)
(* release found is never another version's (enrich "at its exact registry  *)
(* version").                                                               *)
RegistryModeAddsNoVersion ==
    [][job # Idle /\ job.registry =>
        \A p \in Package : Versions(manifests, p)' = Versions(manifests, p)]_vars
=============================================================================
