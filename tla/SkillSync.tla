----------------------------- MODULE SkillSync -----------------------------
(***************************************************************************)
(* The skill-sync workflow: the pins of skill-sources.toml follow the      *)
(* upstream HEADs, tools/skill-import.py turns the pinned revisions into   *)
(* archives and manifests, the archives are uploaded, and a pull request   *)
(* with the manifests is opened, to be merged by a maintainer whenever     *)
(* they like, or never.                                                    *)
(***************************************************************************)
EXTENDS SkillNames, FiniteSets

CONSTANTS
    Order,    \* the sources, in skill-sources.toml order
    Name,     \* upstream names of skills
    Ships,    \* revisions each source may have: its skills, directory by directory
    MaxRev,   \* bound: revisions of each source
    MaxDay,   \* bound: days
    MaxOpen,  \* bound: open pull requests
    MaxBreaks \* bound: runs that break off

Source == ToSet(Order)

ASSUME SyncAssumption ==
    /\ Order \in Seq(Source)
    /\ \A s \in Source : Ships[s] \subseteq Seq(Name) /\ MaxRev[s] \in Nat \ {0}
    /\ MaxDay \in Nat /\ MaxOpen \in Nat /\ MaxBreaks \in Nat

VARIABLES
    upstream, \* revisions of each source: the names their directories ship
    day,      \* today; a version is the day a revision was pinned
    main,     \* pins and manifests on main
    archives, \* uploaded archives: their URL and content
    job,      \* the sync run
    prs,      \* open pull requests
    breaks

vars == <<upstream, day, main, archives, job, prs, breaks>>

(* discover_skills over all sources, in order: the directories of a source  *)
(* are sorted, and two of them may state the same name.                     *)
Skills(pins) ==
    FlattenSeq([i \in DOMAIN Order |->
        LET s == Order[i]
            names == upstream[s][pins[s].rev]
        IN  [k \in DOMAIN names |-> [source |-> s, directory |-> k, name |-> names[k]]]])

(* An archive's bytes are a function of the source's revision, the skill's  *)
(* directory and the published name, which is written into it.              *)
Manifest(skill, as, pins) ==
    LET pin == pins[skill.source] IN
    [name |-> as, version |-> pin.version,
     url |-> <<skill.source, pin.version, as>>,
     sha256 |-> <<skill.source, pin.rev, skill.directory, as>>]

Archive(manifest) == [url |-> manifest.url, sha256 |-> manifest.sha256]
SamePath(m1, m2) == m1.name = m2.name /\ m1.version = m2.version

(* The manifests of a catalog, or failure. *)
Resolved(pins) == ResolveNames(Skills(pins))
Catalog(pins) ==
    LET skills == Skills(pins) IN
    {Manifest(skills[k], Resolved(pins).names[k], pins) : k \in DOMAIN skills}

(* A manifest of that name and version refers to another archive. *)
Clash(catalog, manifests) ==
    \E m \in catalog, old \in manifests : SamePath(m, old) /\ m.sha256 # old.sha256

\* Mutant: the date is not UTC's.
RefreshedTomorrow(pins, today) ==
    [s \in Source |->
        IF pins[s].rev = Len(upstream[s]) THEN pins[s]
        ELSE [rev |-> Len(upstream[s]), version |-> today + 1]]

(* refresh_pins: the version is the day, if the revision moved. *)
Refreshed(pins, today) ==
    [s \in Source |->
        IF pins[s].rev = Len(upstream[s]) THEN pins[s]
        ELSE [rev |-> Len(upstream[s]), version |-> today]]

ImportFails(pins) ==
    Resolved(pins).failed \/ Clash(Catalog(pins), main.manifests)

Idle == job.phase = "idle"
NoJob == [phase |-> "idle", plan |-> {}]
Pins0 == [s \in Source |-> [rev |-> 1, version |-> 0]]

-----------------------------------------------------------------------------
Init ==
    /\ upstream \in [Source -> {<<names>> : names \in UNION {Ships[s] : s \in Source}}]
    /\ \A s \in Source : upstream[s][1] \in Ships[s]
    /\ ~Resolved(Pins0).failed
    /\ day = 0
    /\ main = [pins |-> Pins0, manifests |-> Catalog(Pins0)]
    /\ archives = {Archive(m) : m \in main.manifests}
    /\ job = NoJob /\ prs = {} /\ breaks = 0

Push(s, names) ==
    /\ Len(upstream[s]) < MaxRev[s]
    /\ upstream' = [upstream EXCEPT ![s] = Append(@, names)]
    /\ UNCHANGED <<day, main, archives, job, prs, breaks>>

Midnight ==
    /\ day < MaxDay /\ day' = day + 1
    /\ UNCHANGED <<upstream, main, archives, job, prs, breaks>>

(* Check out main, refresh the pins, import: the plan holds the new         *)
(* manifests' archives and those of unchanged ones.                         *)
Import ==
    /\ Idle /\ day > 0
    /\ LET pins == Refreshed(main.pins, day)
           catalog == Catalog(pins) IN
       /\ ~ImportFails(pins)
       /\ job' = [phase |-> "publish", base |-> main.pins, pins |-> pins,
                  new |-> {m \in catalog : \A old \in main.manifests : ~SamePath(m, old)},
                  plan |-> {m \in catalog : \A old \in main.manifests :
                                SamePath(m, old) => m.url = old.url}]
    /\ UNCHANGED <<upstream, day, main, archives, prs, breaks>>

\* Mutant: an archive already there is replaced.
PublishReplaces(m) ==
    /\ job.phase = "publish" /\ m \in job.plan
    /\ archives' = {a \in archives : a.url # m.url} \cup {Archive(m)}
    /\ job' = [job EXCEPT !.plan = @ \ {m}]
    /\ UNCHANGED <<upstream, day, main, prs, breaks>>

\* Mutant: an archive already there is kept unseen and the new one added.
PublishUnchecked(m) ==
    /\ job.phase = "publish" /\ m \in job.plan
    /\ archives' = archives \cup {Archive(m)}
    /\ job' = [job EXCEPT !.plan = @ \ {m}]
    /\ UNCHANGED <<upstream, day, main, prs, breaks>>

(* One archive of the plan: what is there is kept if it is the same, and a  *)
(* conflict ends the run (SkillArchives has the steps in between).          *)
Publish(m) ==
    /\ job.phase = "publish" /\ m \in job.plan
    /\ IF \E a \in archives : a.url = m.url /\ a.sha256 # m.sha256
         THEN job' = NoJob /\ UNCHANGED archives
         ELSE /\ archives' = archives \cup {Archive(m)}
              /\ job' = [job EXCEPT !.plan = @ \ {m}]
    /\ UNCHANGED <<upstream, day, main, prs, breaks>>

Break ==
    /\ ~Idle /\ breaks < MaxBreaks
    /\ breaks' = breaks + 1 /\ job' = NoJob
    /\ UNCHANGED <<upstream, day, main, archives, prs>>

(* All archives are up: open the pull request if anything changed. *)
OpenPR ==
    /\ job.phase = "publish" /\ job.plan = {}
    /\ job' = NoJob
    /\ IF job.pins = job.base /\ job.new = {}
         THEN UNCHANGED prs
         ELSE /\ Cardinality(prs) < MaxOpen
              /\ prs' = prs \cup {[base |-> job.base, pins |-> job.pins, new |-> job.new]}
    /\ UNCHANGED <<upstream, day, main, archives, breaks>>

(* git's three-way merge: a pin changed on both sides differently, or a     *)
(* file added on both sides differently, is a conflict.                     *)
Mergeable(pr) ==
    /\ \A s \in Source : \/ pr.pins[s] \in {pr.base[s], main.pins[s]}
                         \/ main.pins[s] = pr.base[s]
    /\ ~Clash(pr.new, main.manifests)

Merge(pr) ==
    /\ Mergeable(pr)
    /\ main' = [pins |-> [s \in Source |-> IF pr.pins[s] = pr.base[s] THEN main.pins[s]
                                                                      ELSE pr.pins[s]],
                manifests |-> main.manifests \cup pr.new]
    /\ prs' = prs \ {pr}
    /\ UNCHANGED <<upstream, day, archives, job, breaks>>

Close(pr) ==
    /\ prs' = prs \ {pr}
    /\ UNCHANGED <<upstream, day, main, archives, job, breaks>>

Next ==
    \/ Midnight \/ Import \/ Break \/ OpenPR
    \/ \E s \in Source : \E names \in Ships[s] : Push(s, names)
    \/ \E m \in job.plan : Publish(m)
    \/ \E pr \in prs : Merge(pr) \/ Close(pr)

Spec == Init /\ [][Next]_vars

-----------------------------------------------------------------------------
TypeOK ==
    /\ day \in 0..MaxDay /\ DOMAIN main.pins = Source
    /\ \A s \in Source :
        /\ Len(upstream[s]) \in 1..MaxRev[s]
        /\ main.pins[s] \in [rev : 1..Len(upstream[s]), version : 0..day]
    /\ job.phase \in {"idle", "publish"} /\ breaks \in 0..MaxBreaks

(* Every skill manifest on main, and every one a pull request would add,    *)
(* has its archive uploaded with the digest it states, whenever and in      *)
(* whatever order pull requests are merged (skill-sync.yml: archives are    *)
(* uploaded before the review PR exists).                                   *)
ManifestsAreDownloadable ==
    \A m \in main.manifests \cup UNION {pr.new : pr \in prs} : Archive(m) \in archives

(* A name and version stands for one archive forever: no manifest on main   *)
(* is changed or contradicted by a later one, and no URL ever serves two    *)
(* different archives.                                                      *)
VersionsAreImmutable ==
    /\ \A m1, m2 \in main.manifests : SamePath(m1, m2) => m1 = m2
    /\ \A a1, a2 \in archives : a1.url = a2.url => a1 = a2

(* Two skills of one catalog never share a published name. *)
NamesAreUnique ==
    LET r == Resolved(Refreshed(main.pins, day)) IN IsInjective(r.names)

(* A name shipped by two sources is resolved and never fails the sync:      *)
(* tomorrow's import, whose new versions are unused, always succeeds        *)
(* (comment of resolve_names).                                              *)
CollisionsResolve ==
    Idle => ~ImportFails(Refreshed(main.pins, day + 1))
=============================================================================
