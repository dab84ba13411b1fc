# voli-registry in TLA+

The repository is a package registry: thousands of TOML manifests, the tools
that generate them, and the GitHub Actions workflows that validate, sign and
publish them.  There is no server.  The program is the set of workflows and
tools working on shared state: the `main` branch, open pull requests, two kinds
of GitHub releases and, beyond the repository, upstream projects and clients.
What is hard about it is not any one script but their interleavings: a merge
lands while a publish is running, an upload breaks off, two review branches are
merged in an order nobody tried, an upstream replaces a file between two
requests.

## Inventory

| Part | State | Operations | Where it bites |
| --- | --- | --- | --- |
| Publish workflow (`publish.yml`) | `main`, `packages.json` on it, the `index` release, one running and one pending run | push, dispatch, re-run; sign, replace assets, commit and push with three rounds | merges racing the push, replaced queue entries, lost answers, partial uploads, re-runs of old commits |
| Archive preflight (`publish.yml` 76-111) | list of URLs, `failed` | two passes per URL | transient and lasting failures told apart |
| Client (other repository; README "Published index") | local index | poll, download, verify, swap | reads three files one by one while they are replaced |
| Skill archive publisher (`publish-skill-assets.py`) | releases `skills-<source>-v<version>` | check plan, inspect, create, upload | broken uploads, retries, the 1000-asset limit, manual changes |
| Skill importer (`skill-import.py`) and `skill-sync.yml` | `skill-sources.toml` pins, `manifests/skills` | refresh pins, discover, resolve names, archive, write manifests, open PR | name collisions over time, a version that means two archives, PRs merged out of order |
| Unix importer (`tools/brew-import`) | work tree of app manifests | resolve release, select assets, download, gate, merge; verify-only | upstream changes between requests, several packages and one failure |
| App workflows (`bump.yml`, `scoop-sync.yml`, `scoop-import`, `enrich-changed-packages.py`) | work tree, PRs, `main` | import or bump, enrich, validate, report, open PR | stale bases, carried-forward blocks, failure after half of the writes |
| PR gates (`validate.yml`, `check_reserved_shims.py`, `bump_pr_report.py`) | the PR's checkout | diff against main, decide | gates that look at the wrong difference |
| Native verification (`tools.yml` verify-unix, `brew-import --verify-only`) | a result per runner | download the host's payload, compare, run it | a manifest that changed since its payloads were gated, a payload that changed since, platforms without a runner |
| Scoop converter (`scoop-import/src/lib.rs`) | none | JSON to manifest or skip | fields of two architectures folded into one, an environment that is added to and set |
| `voli-index-tool`, `voli-core` | other repository | validate, fmt, build, bump | external; modelled from how the workflows use them |

The parts meet only in shared state.  Importers write to a work tree; workflows
turn it into pull requests; maintainers merge them into `main`; a merge that
touches `manifests/**` queues a publish run; the run writes the `index` release,
which clients read, and `packages.json` on `main`, which the website reads.
Skill manifests point at archives on releases that skill-sync fills before it
opens the pull request and that the publish run's preflight looks for.

`PROJECT.json` lists the hazards at their lines, with the properties aimed at
each.

What makes each part correct, in a sentence:

- *publishing*: a green run leaves one complete signed build and the website
  lists exactly it; no merge is lost, none waits forever unnoticed;
- *delivery*: a client installs only complete signed builds, of later and later
  epochs, and ends up with main's manifests;
- *skill archives*: a finished plan is downloadable, an archive once public never
  changes, a repeated run completes the plan unless it says what people must put
  right;
- *skill sync*: what a manifest on `main` names exists with the digest it states,
  and a name and version stand for one archive forever;
- *Unix import*: the blocks of a manifest come from one release of its own
  version at one moment, all platforms or none;
- *gates of Unix payloads*: a block has passed them wherever it was imported, only
  what a manifest states is executed and nothing next to write access, a green
  leg has run what users run;
- *conversion*: a converted manifest unpacks its archives and finds its paths as
  the bucket file said;
- *app workflows*: the latest version of an allowlisted package has all its
  blocks, no version offers another's payload, nothing is lost in a merge;
- *pull request gates*: they fail what their comments say they fail, and nothing else.

## Modules

| Module | Models |
| --- | --- |
| `PublishIndex` | the publish workflow |
| `PublishIndexProofs` | its theorems |
| `IndexClient` | a client's update, over the release it reads |
| `IndexRegister` | abstract: every client holds one signed build, of ever later epochs |
| `IndexDelivery` | publisher and clients together; implements `IndexRegister` |
| `IndexDeliveryProofs` | the proof that it does |
| `Preflight`, `MCPreflight` | the preflight loop of the publish workflow |
| `SkillArchives` | the archive publisher |
| `SkillPublish`, `MCSkillPublish` | publisher and preflight over the same releases |
| `SkillPublishProofs` | their theorems |
| `SkillNames` | name resolution, as a fold |
| `SkillSync`, `MCSkillSync` | the skill-sync workflow, its pull requests and their merges |
| `SkillSyncProofs` | its theorems, and what the lists and the fold it is built from return |
| `UnixSources` | app manifests and what merging Unix blocks into them does |
| `AtomicImport` | abstract: an import is one step |
| `BrewImport`, `MCBrewImport` | the Unix importer against a changing upstream; implements `AtomicImport` |
| `BrewImportProofs` | its theorems |
| `ScoopConvert` | what a Scoop manifest is converted to |
| `UnixVerify`, `MCUnixVerify` | the importer's gates and the verification legs, with what changes the manifest between them |
| `UnixVerifyProofs` | its theorems, those about the conversion included |
| `AppPipelines`, `MCAppPipelines` | scoop-sync and bump, their pull requests and merges |
| `AppPipelinesProofs` | its theorems |
| `LeastNumbers` | lemmas on least and greatest numbers, for the proof modules |
| `PrGates` | the reserved-shim gate on the checkouts it runs on |

`IndexDelivery` extends `PublishIndex` and instantiates `IndexClient` on its
variables; `SkillPublish` extends `SkillArchives` and instantiates `Preflight`
with the archives that are downloadable for its `present`; `SkillSync` extends
`SkillNames`; `BrewImport` and `AppPipelines` extend `UnixSources`, `UnixVerify`
extends `ScoopConvert`.  `IndexDelivery` is shown to implement `IndexRegister`
(`Register == INSTANCE IndexRegister WITH signed <- signed, local <- local`) and
`BrewImport` to implement `AtomicImport`.  A gate that fails is a step that fails
in `BrewImport`; what the gates look at is `UnixVerify`'s.  What `AppPipelines`
does in one step per package (`Enrich`) is what `BrewImport` does request by
request; what `SkillSync` does in one step per archive (`Publish`) is what
`SkillArchives` does release by release.

Conventions.  A step that fails ends its run and a runner's checkout is thrown
away with it, so one action (`Break`, or `Fail` in `PublishIndex`) stands for
everything in a run that can only make it fail: a request, a gate, a parser, a
disk.  History variables are marked in the module that declares them and appear
in no guard.

### PublishIndex

A tree of manifests is its generation: the number of merges that touched
manifests.  `main` is the number of merges, the generation, and the generation
`packages.json` was generated from; a build is a generation and an epoch.
`release` maps each asset to its build or to `NoBuild` while it is replaced.
`pending` is the one run GitHub keeps waiting in the concurrency group: queueing
overwrites it.  `phase`, `run`, `todo`, `base` and `attempt` are the running
run: sign, upload (delete and upload of each asset, in any order), then rounds
of fetch and push.  A push is a compare-and-swap of the tip, and its answer may
be lost after it landed.  `Fail` ends a run in any phase.  A maintainer can
re-run a failed run, all jobs or only the failed ones; it keeps its commit, and
in the second case its signed artifact.  The history variable `outdated` counts
re-runs of manifests that `main` had outgrown: what publishing promises about
`main`'s manifests, it promises as long as there are none.

### IndexClient, IndexRegister, IndexDelivery

A client reads `index.json`, the snapshot and the signature in three steps.  A
snapshot is a function of the manifests it is built from, so comparing hashes
and verifying a signature compares generations.  `IndexDelivery` runs clients
beside the publisher and keeps a history of signed builds; `ImplementsRegister`
is the refinement, `local` being what each client has installed.

### Preflight, SkillPublish

One URL after another.  A pass is one `curl` call, its `--retry` included; what
it can answer depends on whether the archive is there.  `Code` is the text the
shell captures, in which a failing `curl` has printed its own `000` before
`echo 000` appends another.  `failed` keeps which URLs were reported and with
which answers, so that a verdict can be compared with its reasons.  Alone, the
module lets archives appear at any time; in `SkillPublish` they are what the
archive publisher and maintainers make of the releases between two requests.

### SkillArchives

`remote` holds the releases (absent, draft or public) and the digests of their
assets; an asset can be `Partial`, left by an upload that broke off.  `Begin`
checks the whole local plan, `Inspect` reads one release and plans the uploads
from what it held then, `Create` and `Upload` act on what it is by now: GitHub
refuses a name that has been taken and an asset more than a release can hold.
Maintainers upload by hand, publish drafts and delete partial assets, if they
like.  Nothing makes them, and the tool fails every repeat on a partial asset
(a remote checksum conflict, `publish-skill-assets.py` 69-73), so
`RetriesComplete` promises completion only where nothing blocks the plan for
good, and counts such an asset among what does.  `RunStep` is what a started
run does next; `Begin`, which may be a repeat, is somebody's decision.

### SkillNames, SkillSync

A name is the sequence of its dash-separated parts, so that prefixing is
concatenation.  A source is a sequence of revisions, each the list of the names
its directories ship, which may repeat a name: a name is front matter and two
directories can state the same; a pin
is a revision and the day it was pinned.  An archive's digest is the revision,
the directory and the published name, which is written into the archive; its URL
is the source, version and published name.  `Import` is refresh and import on a
checkout of main, `Publish` uploads one archive of the plan, `OpenPR` records
base and result, `Merge` is git's three-way merge.

### ScoopConvert, UnixVerify

A bucket file is a record of the fields the conversion looks at, with a value for
each kind of thing it can tell apart: an extension, a kind of hash, a path that
stays below the install directory or leaves it, an environment value that is
plain, names the directory, or has a variable only Scoop knows.  `Convertible`
collects the reasons to skip, `Hoist` decides where wrapper directories land,
`Env` merges what is added and what is set.

In `UnixVerify` a payload is its visible top directories and the files that are
bins, each with a format, a CPU, whether a package manager's prefix is in its
references (and where the parsers look), and whether it exits with 0.
`ExtractDirs`, `GateBinary` and `Gates` are the importer's gates on a given host;
`Importable` says that all platforms pass, `Imported` what is then written.
`Enrich` is the import of the workflows (Linux x64, `--static-only`, the latest
version), `ImportByHand` a developer's, on any machine, with any flags, of the
latest version or of a newer one.  `ScoopSync` refreshes the latest version under its
Unix blocks or adds a newer one.  An allowlist entry has its platforms with their
pins and the bins to gate, and all of them change (`AllowlistChanges`).  A
manifest the importer creates declares the entry's bins, a merge keeps those it
has, `ScoopSync` writes the converted ones.  `gated` is the history of what a
block was gated for, since later neither list need say.  A leg downloads its
platform's payload from
what upstream serves by then, compares its hash and gates the bins the manifest
declares.  `ran` and `privileged` record what was executed where.

One package is followed at its latest version, and commits are made while no leg
is running: a leg checks out one commit.  Which release an import finds, and
payloads replaced during one, are `BrewImport`'s.

### UnixSources, AtomicImport, BrewImport

A manifest is its Windows source and one Unix block or none per platform; a
payload, and the block naming it, is the serial number of its upload.
`releases` maps each tag to its assets: a tag spells a version with or without a
leading `v`, and maintainers upstream publish releases, add assets and replace
them whenever they like.  A run (`job`) handles its packages in allowlist order:
`Resolve` decides which tags to ask for (the pin, the latest release, or with
`--registry-version` both spellings of the registry's latest version),
`Fetch` is one metadata request, `Download` one payload, whose digest is
compared with the one the metadata gave, `Write` the merge into the manifest.
The pin is a parameter of `Resolve`, since the allowlist is edited between runs.
`published` is a history of the sets of assets a release has had; in
`AtomicImport` an import takes one of these as a whole.

### AppPipelines

Two workflows, each with a checkout (`base`) and a work tree, and the pull
requests they open.  Here a Unix block is the version its payload belongs to.
`ScoopWrite` adds or rewrites a version and keeps the blocks of the one it
rewrites; `BumpWrite` adds a newer version with or without its predecessor's
blocks, since `enrich-changed-packages.py` says the bump may do either; `Enrich`
runs the importer for the allowlisted packages that changed, `Report` is the
vendor checksum report, `MergePR` git's three-way merge of the Windows part and
of each block.

### PrGates

`main` is its commits, a manifest the set of shim names it claims.  `CheckoutCI`
is GitHub's merge commit without history (the default depth of
`actions/checkout`), `CheckoutClone` a contributor's clone.  `Gate` compares with
the newest commit the checkout shares with `origin/main`, and fails if there is
none.

## Runs

| Run | Question | Bounds |
| --- | --- | --- |
| `publish_index` | races of merges, runs, failures and re-runs; liveness of merges | 3 merges, 1 dispatch or re-run, 2 assets, 3 rounds |
| `publish_rerun` | is a stale `packages.json` always followed by a fresher run? No | 2 merges, 1 dispatch or re-run, 2 assets, 3 rounds |
| `index_delivery` | do clients install only whole signed builds, and catch up? | 1 merge, 2 dispatches or re-runs, 1 client, 3 assets, 1 round |
| `skill_archives` | are finished plans downloadable, archives permanent, do uploads fit, do repeats complete what nothing blocks; is the preflight's verdict founded while they run, are server errors retried? | 2 tags, 3 names, 2 digests, 2 assets a release, one break, one manual change, 2 URLs with every sequence of answers |
| `preflight_no_answer` | is a request without answer retried? No | 2 URLs, every sequence of answers |
| `skill_sync` | are merged manifests downloadable and immutable, names unique? | 2 sources, 2 names that collide when prefixed, a name shipped twice by one source, 2 and 3 revisions on one day, 2 PRs, 1 break |
| `skill_collision` | does a shared name always resolve? No | 2 sources, 1 name, 2 revisions, 2 days |
| `brew_import` | is an import atomic and `--registry-version` exact? | 1 package, 3 platforms (2 allowlisted), 2 versions, 3 uploads, 1 Windows change, with and without an old pin |
| `unix_verify` | are blocks gated, is only what is declared executed, is green usable, does the conversion keep layout and environment? | 223 bucket files (31 different conversions), 10 payloads, 4 allowlist entries of one and two bins, 2 legs, 4 kinds of machine |
| `app_pipelines` | are blocks complete and of their own version, is nothing lost? | 1 allowlisted package, 2 platforms (1 allowlisted), 3 versions, 3 writes, 2 PRs |
| `bump_mismatch` | does a checksum mismatch keep the PR from being opened? No | 2 packages, 1 write |
| `reserved_shims` | may a package keep a reserved name it has? No | 1 package, 2 versions, 2 names, 2 commits on main |

Why the bounds are enough.  Three merges replace a pending run while another is
running.  Two assets show every mixture of old, new and missing; a third is
needed only where a client reads three.  One round of the push loop suffices
where clients are watched, since they do not look at `main`.  Three names
where a release holds two meet the asset limit both in a plan and together with
what is there already.  Two skill names
cover both the prefixed name and the one that is already taken; three revisions
of one source on one day are two that share a version and one before them.
Three uploads are a release of two assets of different uploads and a replacement
of either between the metadata and the download; the third platform is one the
allowlist does not name.  A second package adds to the importer only the order
of its queue: it is in the proofs, which hold for any packages.  The payloads of
`unix_verify` are flat and wrapped, for each platform, with two wrapper
directories, without their bin, with a prefix that is seen and one that is not,
one that fails when run, and one whose second bin alone is bad; the bucket files
are all combinations of two
architectures with and without wrapper directories of their own and of the top,
all combinations of adding to and setting `PATH`, and one file for each other
reason to skip.  The gates look at one bin after the other: lists of one
and of two bins, in manifests and in entries, let a later bin fail and let the
two lists differ.  Two requests
open at once are what an order of merging needs, and a third write lets one of
them be refreshed after the other has been merged.

## Fairness

`PublishIndex` assumes weak fairness of the steps of runs: GitHub starts a queued
run of an idle group and every job ends, if only by its timeout.  It does not
assume that pushes or uploads succeed; `Fail` satisfies the fairness too, and
`MergesArePublished` therefore says published or reported by a red run.
`IndexDelivery` adds that a client keeps polling and, strongly, that its
downloads are not interrupted on every single attempt: without it an update that
always meets a replacement in progress never finishes.  `SkillPublish` assumes
only that a run once started takes its steps (`RunStep`): that failed runs are
repeated is the premise of `RetriesComplete` and not assumed, nobody has to clean
up, and the preflight beside it may stop anywhere.  The other modules state safety only:
nothing in the code obliges an upstream to stop replacing assets or a maintainer
to merge.

## Findings

- **A re-run publishes the past** (`publish_rerun`).  The comment at
  `publish.yml` 181-184 argues that a stale `packages.json` is followed by a
  fresher run.  Re-running an older failed run after a newer one has finished
  puts the older generation on the release and on `main`; nothing is queued and
  the run is green.  `ImplementsRegister` still holds: a client never goes back
  to an earlier epoch, but a full re-run signs the older manifests with a new
  one, and clients then install them.
- **No answer is not retried** (`preflight_no_answer`).  `000` printed by curl
  followed by `echo 000` is `000000`, which the branch `5*|000)` does not match.
- **A collision that resolves back fails the sync** (`skill_collision`).  When
  the source that holds a bare name drops the skill, another source's skill goes
  from the prefixed to the bare name.  If that source has not moved, its version
  stays, and the former holder may have published the bare name at the same
  version: with another archive, its own.  The import then fails until the other
  source moves, although `skill-import.py` 263-264 says a shared
  name resolves rather than failing the sync.
- **A mismatch does not keep the PR back** (`bump_mismatch`).  `bump.yml` 79-80
  says it does.  The report compares commits with `git diff base...` before the
  job has committed anything, so there is nothing to compare; it would pass over
  new files too, and a bump writes nothing else.
- **The reserved-name gate fails requests that give no package a reserved name**
  (`reserved_shims`).  Its docstring says it fails only those that do.  On the
  shallow checkout of `validate.yml` there is no merge base and the comparison
  exits with an error, whatever the request changes.

Noted on the way and not a finding, since no document promises otherwise: a
skill published under its bare name is renamed when a source earlier in
`skill-sources.toml` starts shipping the name; its older versions stay under the
old one.  `fastfetch` and `gping` are allowlisted, but some of their manifests
carry no Unix blocks: `LatestIsComplete` starts from manifests that do.

The reserved-name gate fails on a clone too (`CheckoutClone`): a new version of a
package that has a reserved name is a new file whose names all count as gained
(`check_reserved_shims.py` 85), and a deleted file cannot be read.  With
`CheckoutCI` taken out of `Next`, TLC finds both; `reserved_shims` stops at the
shallow checkout's shorter story.

Noted while modelling the gates; the properties of `UnixVerify` are stated so
that they hold with these:

- The legs run on Linux x64 and macOS arm64 and verify the latest version only.
  Blocks for Linux arm64 and macOS x64, and those of a version once a newer one
  is on `main`, are executed by nobody, although `brew-import/src/main.rs`
  690-692 counts on every target being executed on a runner of its own.
- The importer compares an ELF file's CPU with its own host's and not with the
  platform it is imported for; a wrong payload is found by a leg or not at all.
- A macOS x64 binary in an arm64 block passes its leg: Rosetta starts it.
- A package manager's prefix the parsers do not look at (`unseen`) passes the
  static gate; where a leg executes the payload it fails if that matters.
- A refresh by `scoop-import` keeps a manifest's Unix blocks but writes the rest
  anew: what was added to it by hand is gone.

## Proofs

`PublishIndexProofs`, `IndexDeliveryProofs`, `SkillPublishProofs`,
`SkillSyncProofs`, `BrewImportProofs`, `UnixVerifyProofs` and
`AppPipelinesProofs` prove for every value of the constants what the runs check
on small ones: every invariant and every action property of a passing run, and
both refinements.

`TypeCorrect`: the type invariant of `PublishIndex`, inductive by itself.

`GreenIsPublished`, `WebsiteFollows`: by the invariant `PublishInv`.  Neither is
inductive alone.  `RunsFollowMain` says that the newest queued or running run is
for main's manifests and none is for later ones: queueing keeps it because every
merge that changes manifests queues, and because what is overwritten is older.
`ReleaseFollowsRun` orders website, assets and run: a present asset is no older
than the website and no newer than the run, and the uploaded ones are the run's
build.  Both hold until older manifests are re-run (`outdated = 0`);
`publish_rerun` shows why not longer.

`GreenLeavesWhole`: re-runs included, what a green run leaves is whole.  Its
invariant adds what the running run has uploaded.

`MergesAreKept`: from the type invariant, because a push lands only on the tip
the run rebuilt on.

`DeliveryTypes`, `DeliveryImplementsRegister`: `IndexDelivery` implements `IndexRegister` for any
clients, assets and bounds, re-runs included.  The invariant is that whatever
can reach a client is signed (`OnlySigned`) and that a client between two
downloads has a later epoch in hand and a snapshot that fits it
(`DownloadsFit`).  Every publish step then maps to `Sign` or a stutter, every
client step to `Install` or a stutter.

`BrewTypeCorrect`, `ImportIsAtomic`: the importer implements `AtomicImport`, for
any packages, platforms, pins and uploads.  The invariant `IInv` adds to the types
that what a release holds now is in the history (`Recorded`), and that a run
which downloads has a metadata answer that is in the history too, with every
verified payload equal to what that answer promised (`OneRelease`).  When the
last payload is verified, what `Write` merges is therefore one recorded set of
assets, restricted to the allowlisted platforms: an `Import`.  Publishing and
replacing assets map to `Upstream`, the Windows tools to `Windows`, everything
else to a stutter.

`RegistryModeIsExact`: with `--registry-version` no version enters or leaves the
registry.  The invariant `AsksForTree` says that every tag such a run still asks
for, and the one it downloads, names a version the tree has; `Resolve`
establishes it from the latest version, and nothing removes a version while a
run is under way.

`PublishTypes`, `DoneIsDownloadable`, `UploadsAlwaysFit`, `ArchivesStay`,
`VerdictFounded`, `ServerErrorRetried`: publisher and preflight together, for any plans, files,
limits and archives.  The invariant has two halves.  `ArchivesInv` says that a
run is under way only for a valid plan (`PlansAhead`), that the releases behind
it are complete, and that of the release it is at everything not pending is held
with the planned digest (`DoneBehind`).  That the releases behind it stay
complete while others work on them needs the step fact `Permanent`, that no step
replaces, removes or hides an archive, which is `ArchivesStay` and holds because
every step that touches an asset finds it absent or partial.  `UploadsFit` needs
no more than `ArchivesInv` beside it: `Inspect` establishes it, because pending
and held assets are among those it counted, and each upload moves one name from
the first to the second; the counting is by the library's theorems on finite
sets, for which the set of names is assumed finite.  `CheckInv` says
that no URL is read twice (`LinesLeft`) and that each URL whose check has ended
can be downloaded or was reported (`Judged`); uploads keep it because by
`Permanent` what is downloadable only grows.

`BlocksGated`, `ExecutionDeclared`, `GreenUsable`: by one invariant.  A block is
written only by an import whose every bin passed the static gates, and nothing
else writes blocks, so `BlocksAreGated`, which is about the bins the entry named
at that import, is inductive; `--static-only` defers
every execution, so `privileged` stays empty.  `GreenMeansUsable` follows where a
leg ends, from what `Gates` returned and the hash comparison, and is kept because
a manifest changes only while the legs are idle.

`LayoutKept`, `SearchPath`: the same invariant says that the Windows part of a
manifest is the conversion of the file it came from (`Converted`), and lemmas on
`Hoist` and `Env` say what a conversion keeps, for any bucket file.

`VerifyTypes`: the types of `UnixVerify`, inductive by themselves.  What is not
obvious is the directory of a block: the one a gate passed in, which is a
directory of the payload whether the entry pins it or it was told from the bins.

`SyncTypes`, `UniqueNames`, `Downloadable`, `ImmutableVersions`: the skill sync,
by one invariant on main, the run, the requests and the archives.  `Pinned` says
that the pins of all of them name revisions that exist.  `JobSound` says that a
new manifest of the run is still in the plan or its archive is uploaded, so that
a request, which is opened when the plan is empty, adds only what can be
downloaded.  Manifests are `Consistent`: two of the same name and version are
one.  A catalog is, because its names differ; main stays so, because git refuses
two different files of one path and a manifest is determined by its path and its
digest (`WellFormed`).  URLs keep their contents because the publisher uploads
nothing over another archive.

That the names of a catalog differ rests on what recursive functions compute:
`FlattenSeq`, which lists the skills of all sources, and the fold of
`ResolveNames`.  The library's induction theorems cannot be used (they take an
operator as a parameter), so `FlatteningExists` and `FoldingExists` show that the
functions exist and `FlattenIsList` and `NamesResolved` what they return by a least
counterexample (`Least`, in `LeastNumbers`): the set of numbers for which the
claim fails has no least element.  The proof found that an earlier form of
`Claim` told a collision from the name it resulted in; with an empty prefix,
which the code refuses, that form published a name twice.  It now has the code's
condition.

`AppTypes`, `LatestComplete`, `OwnBlocks`, `NothingLost`: the app workflows, by
one invariant.  None of the three properties is inductive alone: a merge is right
because of what the request's base was and what its work tree kept of it.  The
invariant says that every base is a tree main once had (`Earlier`: complete, with
no version main lacks by now), that a work tree loses nothing of its base
(`Keeps`), and that blocks are of their own version except in a version a bump
has just added (`Carried`), which the importer then completes (`FullyEnriched`).
`MergeComplete` is the core: if the request's latest version is newer than
main's, its base does not have it, so git takes it as the importer left it; if
not, main's latest stays the latest, and where the request edited it, it kept the
blocks, which can only be of that version.

The theorems assume `PublishAssumption`, `DeliveryAssumption`,
`ArchivesAssumption`, `CommitAssumption`, `SourcesAssumption`, `BrewAssumption`,
`ScoopAssumption`, `VerifyAssumption`, `AppAssumption` and `SyncAssumption`.  They
say of the constants that bounds are numbers, that a package can have a version
and a source a revision, that sources are listed and ship lists of names, that
the names of archives are finitely many, that plans, bucket files, payloads and
allowlist entries have their
shapes, that a commit names no archive twice, and that markers such as `NoBuild`
are not values.

Only model-checked: liveness (`MergesArePublished`, `ClientsCatchUp`,
`RetriesComplete`), which needs fairness and `ENABLED`, out of this prover's
reach.  The runs that expect a violation refute what they check, so there is
nothing to prove.

## Not modelled

- `voli-index-tool` and `voli-core` are in another repository.  What the
  workflows rely on appears as external steps (sign, bump) or failing ones
  (validate).
- The parsing of ELF and Mach-O files, archive extraction and its limits, and the
  naming of release assets are abstracted to what the gates tell apart; where they
  only make a run fail they are `Break`.  The same holds for the skill importer's
  licence review, front matter and archive limits.
- `ScoopConvert` leaves out what is copied or reworded and decides nothing:
  licence, description, homepage, icon, dependencies, autoupdate tables; and the
  syntax of names, hashes and URLs.
- `UnixVerify` follows one package at its latest version and makes commits while no
  leg is running: a leg checks out one commit and never sees another.
- Scheduling: the daily triggers are actions that may happen at any time.
- The catalog itself is data; the modules take small sets of names and versions.
- The jobs of `tools.yml` that build and test the tools.

## Plan

`SkillArchives` as an implementation of `SkillSync`'s one-step `Publish`, which
needs plans in terms of the manifests they were made for, and `BrewImport` as one
of the `Enrich` of `AppPipelines`, which needs several packages in a run.
