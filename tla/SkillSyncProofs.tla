-------------------------- MODULE SkillSyncProofs --------------------------
(***************************************************************************)
(* What the skill sync promises of names, manifests and archives, for any  *)
(* sources, skills and prefixes, and for any number of runs and requests.  *)
(***************************************************************************)
EXTENDS SkillSync, LeastNumbers, TLAPS

(* Pins point at revisions that exist. *)
Pinned(pins) ==
    /\ DOMAIN pins = Source
    /\ \A s \in Source : pins[s] \in [rev : 1..Len(upstream[s]), version : 0..day]

(* The URL of a manifest says whose archive it is, and which. *)
WellFormed(m) ==
    /\ m = [name |-> m.name, version |-> m.version, url |-> m.url, sha256 |-> m.sha256]
    /\ m.url = <<m.sha256[1], m.version, m.name>>

Consistent(manifests) == \A m1, m2 \in manifests : SamePath(m1, m2) => m1 = m2

Typed ==
    /\ upstream \in [Source -> Seq(Seq(Name))]
    /\ \A s \in Source : Len(upstream[s]) \in 1..MaxRev[s]
    /\ day \in 0..MaxDay /\ breaks \in 0..MaxBreaks

MainSound ==
    /\ main = [pins |-> main.pins, manifests |-> main.manifests]
    /\ Pinned(main.pins)
    /\ \A m \in main.manifests : WellFormed(m) /\ Archive(m) \in archives
    /\ Consistent(main.manifests)

(* What a run has not planned to upload, it found uploaded or has uploaded. *)
JobSound ==
    \/ job = NoJob
    \/ /\ job = [phase |-> "publish", base |-> job.base, pins |-> job.pins,
                 new |-> job.new, plan |-> job.plan]
       /\ Pinned(job.pins)
       /\ \A m \in job.new : WellFormed(m) /\ (m \in job.plan \/ Archive(m) \in archives)
       /\ Consistent(job.new)

RequestSound(pr) ==
    /\ pr = [base |-> pr.base, pins |-> pr.pins, new |-> pr.new]
    /\ Pinned(pr.pins)
    /\ \A m \in pr.new : WellFormed(m) /\ Archive(m) \in archives
    /\ Consistent(pr.new)

ArchivesSound ==
    /\ \A a \in archives : a = [url |-> a.url, sha256 |-> a.sha256]
    /\ \A a1, a2 \in archives : a1.url = a2.url => a1 = a2

IInv ==
    /\ Typed /\ MainSound /\ JobSound /\ ArchivesSound
    /\ \A pr \in prs : RequestSound(pr)

-----------------------------------------------------------------------------
(* Lists: what the community modules' recursive functions return.           *)

(* The function FlattenSeq recurses with, over the first n lists. *)
Flattening(seqs, n, f) ==
    f = [i \in 1..n |-> IF i = 1 THEN seqs[i] ELSE f[i - 1] \o seqs[i]]

LEMMA FlatteningExists == ASSUME NEW seqs, NEW n \in Nat PROVE \E f : Flattening(seqs, n, f)
<1> DEFINE Missing == {k \in Nat : ~\E f : Flattening(seqs, k, f)}
<1> SUFFICES ASSUME Missing # {} PROVE FALSE
  OBVIOUS
<1>1. PICK k \in Missing : \A m \in Missing : k <= m
  <2> HIDE DEF Missing
  <2>1. Missing \in SUBSET Nat
    BY DEF Missing
  <2> QED
    BY <2>1, Least
<1>2. CASE k = 0
  <2> DEFINE f == [i \in 1..0 |-> 0]
  <2>1. Flattening(seqs, 0, f)
    BY DEF Flattening
  <2> QED
    BY <1>1, <1>2, <2>1
<1>3. CASE k # 0
  <2>1. k - 1 \in Nat /\ k - 1 \notin Missing
    BY <1>1, <1>3
  <2>2. PICK f : Flattening(seqs, k - 1, f)
    BY <2>1
  <2> DEFINE g == [i \in 1..k |-> IF i \in 1..(k - 1) THEN f[i]
                                  ELSE IF i = 1 THEN seqs[i] ELSE f[i - 1] \o seqs[i]]
  <2>3. \A i \in 1..(k - 1) : f[i] = IF i = 1 THEN seqs[i] ELSE f[i - 1] \o seqs[i]
    BY <2>2 DEF Flattening
  <2>4. \A i \in 1..k : g[i] = IF i = 1 THEN seqs[i] ELSE g[i - 1] \o seqs[i]
    <3> TAKE i \in 1..k
    <3>1. CASE i = 1
      BY <2>3, <3>1
    <3>2. CASE i # 1
      <4>1. i - 1 \in 1..(k - 1) /\ i - 1 \in 1..k
        BY <1>1, <3>2
      <4>2. g[i - 1] = f[i - 1]
        BY <4>1
      <4>3. g[i] = f[i - 1] \o seqs[i]
        BY <2>3, <3>2
      <4> QED
        BY <3>2, <4>2, <4>3
    <3> QED
      BY <3>1, <3>2
  <2>5. g = [i \in 1..k |-> g[i]]
    OBVIOUS
  <2> HIDE DEF g
  <2>6. Flattening(seqs, k, g)
    BY <2>4, <2>5 DEF Flattening
  <2> QED
    BY <1>1, <2>6
<1> QED
  BY <1>2, <1>3

(* Lists of lists are flattened to a list. *)
LEMMA FlattenIsList ==
    ASSUME NEW T, NEW seqs \in Seq(Seq(T))
    PROVE  FlattenSeq(seqs) \in Seq(T)
<1> DEFINE n == Len(seqs)
           flatten == CHOOSE f : Flattening(seqs, n, f)
<1>1. n \in Nat /\ \A i \in 1..n : seqs[i] \in Seq(T)
  OBVIOUS
<1>2. CASE n = 0
  BY <1>2 DEF FlattenSeq
<1>3. CASE n # 0
  <2>1. FlattenSeq(seqs) = flatten[n]
    BY <1>3, Zenon DEF FlattenSeq, Flattening
  <2>2. Flattening(seqs, n, flatten)
    BY <1>1, FlatteningExists
  <2> HIDE DEF flatten
  <2>3. \A i \in 1..n : flatten[i] = IF i = 1 THEN seqs[i] ELSE flatten[i - 1] \o seqs[i]
    BY <2>2 DEF Flattening
  <2> HIDE DEF n
  <2> DEFINE Wrong == {i \in 1..n : flatten[i] \notin Seq(T)}
  <2>4. Wrong = {}
    <3> SUFFICES ASSUME Wrong # {} PROVE FALSE
      OBVIOUS
    <3>1. PICK i \in Wrong : \A m \in Wrong : i <= m
      <4> HIDE DEF Wrong
      <4>1. Wrong \in SUBSET Nat
        BY DEF Wrong
      <4> QED
        BY <4>1, Least
    <3>2. CASE i = 1
      BY <1>1, <2>3, <3>1, <3>2
    <3>3. CASE i # 1
      <4>1. i - 1 \in 1..n /\ i - 1 \notin Wrong
        BY <1>1, <3>1, <3>3
      <4>2. flatten[i - 1] \in Seq(T) /\ seqs[i] \in Seq(T)
        BY <1>1, <3>1, <4>1
      <4>3. flatten[i] = flatten[i - 1] \o seqs[i]
        BY <2>3, <3>1, <3>3
      <4>4. \A l1, l2 \in Seq(T) : l1 \o l2 \in Seq(T)
        OBVIOUS
      <4>5. flatten[i] \in Seq(T)
        BY <4>2, <4>3, <4>4
      <4> QED
        BY <3>1, <4>5
    <3> QED
      BY <3>2, <3>3
  <2> QED
    BY <1>1, <1>3, <2>1, <2>4
<1> QED
  BY <1>2, <1>3

-----------------------------------------------------------------------------
(* The published names. *)

Unnamed == [names |-> <<>>, failed |-> FALSE]

(* The function the fold of resolve_names recurses with, n skills long: its *)
(* values are those of the rounds.                                          *)
Folding(skills, n, f) ==
    f = [s \in SUBSET (1..n) |-> IF s = {} THEN Unnamed
                                 ELSE Claim(f[s \ {Max(s)}], skills[Max(s)])]

LEMMA FoldingExists == ASSUME NEW skills, NEW n \in Nat PROVE \E f : Folding(skills, n, f)
<1> DEFINE Missing == {k \in Nat : ~\E f : Folding(skills, k, f)}
<1> SUFFICES ASSUME Missing # {} PROVE FALSE
  OBVIOUS
<1>1. PICK k \in Missing : \A m \in Missing : k <= m
  <2> HIDE DEF Missing
  <2>1. Missing \in SUBSET Nat
    BY DEF Missing
  <2> QED
    BY <2>1, Least
<1>2. CASE k = 0
  <2> DEFINE f == [s \in SUBSET (1..0) |-> Unnamed]
  <2>1. \A s \in SUBSET (1..0) : s = {}
    OBVIOUS
  <2>2. Folding(skills, 0, f)
    BY <2>1 DEF Folding
  <2> QED
    BY <1>1, <1>2, <2>2
<1>3. CASE k # 0
  <2>1. k \in Nat /\ k - 1 \in Nat /\ k - 1 \notin Missing
    BY <1>1, <1>3
  <2>2. PICK f : Folding(skills, k - 1, f)
    BY <2>1
  <2> DEFINE g == [s \in SUBSET (1..k) |->
                        IF k \in s THEN Claim(f[s \ {k}], skills[k]) ELSE f[s]]
  <2>3. \A s \in SUBSET (1..(k - 1)) : f[s] = IF s = {} THEN Unnamed
                        ELSE Claim(f[s \ {Max(s)}], skills[Max(s)])
    BY <2>2, Zenon DEF Folding
  <2>4. \A s \in SUBSET (1..k) : k \notin s => s \in SUBSET (1..(k - 1))
    BY <2>1
  <2>5. \A s \in SUBSET (1..(k - 1)) : k \notin s /\ s \in SUBSET (1..k)
    BY <2>1
  <2>6. \A s \in SUBSET (1..(k - 1)) : g[s] = f[s]
    BY <2>5
  <2>7. ASSUME NEW s \in SUBSET (1..k)
        PROVE  g[s] = IF s = {} THEN Unnamed ELSE Claim(g[s \ {Max(s)}], skills[Max(s)])
    <3>1. CASE k \in s
      <4>1. s # {} /\ \A m \in s : m <= k
        BY <2>1, <3>1
      <4>2. Max(s) = k
        BY <2>1, <3>1, <4>1, MaxIsGreatest
      <4>3. s \ {k} \in SUBSET (1..(k - 1))
        BY <2>1
      <4>4. g[s \ {k}] = f[s \ {k}]
        BY <2>6, <4>3
      <4>5. g[s] = Claim(f[s \ {k}], skills[k])
        BY <3>1
      <4> HIDE DEF g
      <4> QED
        BY <4>1, <4>2, <4>4, <4>5
    <3>2. CASE k \notin s
      <4>1. s \in SUBSET (1..(k - 1)) /\ s \ {Max(s)} \in SUBSET (1..(k - 1))
        BY <2>4, <3>2
      <4>2. g[s] = f[s] /\ g[s \ {Max(s)}] = f[s \ {Max(s)}]
        BY <2>6, <4>1
      <4> HIDE DEF g
      <4> QED
        BY <2>3, <4>1, <4>2
    <3> QED
      BY <3>1, <3>2
  <2>8. g = [s \in SUBSET (1..k) |-> g[s]]
    OBVIOUS
  <2> HIDE DEF g
  <2>9. Folding(skills, k, g)
    <3>1. [s \in SUBSET (1..k) |-> g[s]] = [s \in SUBSET (1..k) |->
            IF s = {} THEN Unnamed ELSE Claim(g[s \ {Max(s)}], skills[Max(s)])]
      BY <2>7, Zenon
    <3> QED
      BY <2>8, <3>1 DEF Folding
  <2> QED
    BY <1>1, <2>9
<1> QED
  BY <1>2, <1>3

(* The rounds of resolve_names. *)
Rounds(skills, n) == CHOOSE f : Folding(skills, n, f)

LEMMA RoundsOfResolveNames ==
    ASSUME NEW skills, NEW n \in Nat, DOMAIN skills = 1..n
    PROVE  LET round(k) == Rounds(skills, n)[1..k] IN
           /\ ResolveNames(skills) = round(n)
           /\ round(0) = Unnamed
           /\ \A k \in 1..n : round(k) = Claim(round(k - 1), skills[k])
<1> DEFINE rounds == Rounds(skills, n)
<1>1. ResolveNames(skills) = rounds[1..n]
  BY Zenon DEF ResolveNames, FoldLeft, MapThenFoldSet, Rounds, Folding, Unnamed
<1>2. Folding(skills, n, rounds)
  BY FoldingExists, Zenon DEF Rounds
<1> HIDE DEF rounds
<1>3. \A s \in SUBSET (1..n) : rounds[s] = IF s = {} THEN Unnamed
                        ELSE Claim(rounds[s \ {Max(s)}], skills[Max(s)])
  BY <1>2, Zenon DEF Folding
<1>4. rounds[1..0] = Unnamed
  <2>1. 1..0 = {}
    OBVIOUS
  <2> QED
    BY <1>3, <2>1
<1>5. ASSUME NEW k \in 1..n PROVE rounds[1..k] = Claim(rounds[1..(k - 1)], skills[k])
  <2>1. 1..k \in SUBSET (1..n) /\ 1..k # {} /\ k \in 1..k /\ k \in Nat
    OBVIOUS
  <2>2. Max(1..k) = k
    <3>1. \A w \in 1..k : w <= k
      OBVIOUS
    <3> DEFINE S == 1..k
    <3>2. S \in SUBSET (1..n) /\ S # {} /\ k \in S /\ \A w \in S : w <= k
      BY <2>1, <3>1
    <3> HIDE DEF S
    <3>3. Max(S) = k
      BY <3>2, MaxIsGreatest
    <3> QED
      BY <3>3 DEF S
  <2>3. (1..k) \ {k} = 1..(k - 1)
    BY <2>1
  <2> QED
    BY <1>3, <2>1, <2>2, <2>3, Zenon
<1> QED
  BY <1>1, <1>4, <1>5 DEF rounds

(* After k rounds: the names differ, and there are k of them unless one     *)
(* failed.                                                                  *)
RoundSound(state, N, k) ==
    /\ state \in [names : Seq(N), failed : BOOLEAN]
    /\ IsInjective(state.names)
    /\ ~state.failed => Len(state.names) = k

LEMMA ClaimStep ==
    ASSUME NEW N, NEW k \in Nat, NEW state, RoundSound(state, N, k),
           NEW skill, skill.name \in N, Candidate(skill) \in N
    PROVE  RoundSound(Claim(state, skill), N, k + 1)
<1> DEFINE names == state.names
           collides == skill.name \in ToSet(names)
           name == IF collides THEN Candidate(skill) ELSE skill.name
           refused == \/ state.failed
                      \/ collides /\ (Len(name) > MaxParts \/ name \in ToSet(names))
<1>1. names \in Seq(N) /\ IsInjective(names) /\ state.failed \in BOOLEAN
  BY DEF RoundSound
<1>2. CASE refused
  <2>1. Claim(state, skill) = [state EXCEPT !.failed = TRUE]
    BY <1>2 DEF Claim
  <2>2. /\ [state EXCEPT !.failed = TRUE] \in [names : Seq(N), failed : BOOLEAN]
        /\ [state EXCEPT !.failed = TRUE].names = names
        /\ [state EXCEPT !.failed = TRUE].failed = TRUE
    BY DEF RoundSound
  <2> QED
    BY <1>1, <2>1, <2>2 DEF RoundSound
<1>3. CASE ~refused
  <2>1. /\ ~state.failed /\ name \notin ToSet(names)
        /\ Claim(state, skill) = [state EXCEPT !.names = Append(names, name)]
    BY <1>3 DEF Claim
  <2>2. name \in N /\ Len(names) = k
    BY <2>1 DEF RoundSound
  <2> HIDE DEF name, names, collides, refused
  <2>3. Append(names, name) \in Seq(N) /\ Len(Append(names, name)) = k + 1
    BY <1>1, <2>2
  <2>4. IsInjective(Append(names, name))
    <3> SUFFICES ASSUME NEW a \in 1..(k + 1), NEW b \in 1..(k + 1),
                        Append(names, name)[a] = Append(names, name)[b]
                 PROVE  a = b
      BY <2>3 DEF IsInjective
    <3>1. /\ \A i \in 1..k : Append(names, name)[i] = names[i] /\ names[i] \in ToSet(names)
          /\ Append(names, name)[k + 1] = name
      BY <1>1, <2>2 DEF ToSet
    <3>2. CASE a \in 1..k /\ b \in 1..k
      BY <1>1, <2>2, <3>1, <3>2 DEF IsInjective
    <3>3. CASE ~(a \in 1..k /\ b \in 1..k)
      BY <2>1, <3>1, <3>3
    <3> QED
      BY <3>2, <3>3
  <2>5. /\ Claim(state, skill) \in [names : Seq(N), failed : BOOLEAN]
        /\ Claim(state, skill).names = Append(names, name)
    BY <2>1, <2>3 DEF RoundSound
  <2> QED
    BY <2>3, <2>4, <2>5 DEF RoundSound
<1> QED
  BY <1>2, <1>3

(* A list of skills gets as many different names, or the resolution fails. *)
LEMMA NamesResolved ==
    ASSUME NEW T, NEW skills \in Seq(T)
    PROVE  /\ IsInjective(ResolveNames(skills).names)
           /\ ~ResolveNames(skills).failed =>
                    DOMAIN ResolveNames(skills).names = DOMAIN skills
<1> DEFINE n == Len(skills)
           N == {skills[i].name : i \in 1..n} \cup {Candidate(skills[i]) : i \in 1..n}
           round(k) == Rounds(skills, n)[1..k]
           Wrong == {k \in 0..n : ~RoundSound(round(k), N, k)}
<1>1. n \in Nat /\ DOMAIN skills = 1..n
  OBVIOUS
<1>2. /\ ResolveNames(skills) = round(n) /\ round(0) = Unnamed
      /\ \A k \in 1..n : round(k) = Claim(round(k - 1), skills[k])
  BY <1>1, RoundsOfResolveNames
<1>3. \A k \in 1..n : skills[k].name \in N /\ Candidate(skills[k]) \in N
  OBVIOUS
<1> HIDE DEF n, N, round
<1>4. Wrong = {}
  <2> SUFFICES ASSUME Wrong # {} PROVE FALSE
    OBVIOUS
  <2>1. PICK k \in Wrong : \A m \in Wrong : k <= m
    <3>1. Wrong \in SUBSET Nat
      BY <1>1
    <3> HIDE DEF Wrong
    <3> QED
      BY <3>1, Least
  <2>2. CASE k = 0
    <3>1. RoundSound(Unnamed, N, 0)
      BY DEF RoundSound, Unnamed, IsInjective
    <3> QED
      BY <1>2, <2>1, <2>2, <3>1
  <2>3. CASE k # 0
    <3>1. k \in 1..n /\ k - 1 \in 0..n /\ k - 1 \notin Wrong
      BY <1>1, <2>1, <2>3
    <3>2. RoundSound(round(k - 1), N, k - 1)
      BY <3>1
    <3>3. PICK j \in Nat : j = k - 1 /\ k = j + 1
      BY <1>1, <3>1
    <3>4. RoundSound(Claim(round(j), skills[k]), N, j + 1)
      BY <1>3, <3>1, <3>2, <3>3, ClaimStep
    <3>5. RoundSound(round(k), N, k)
      BY <1>2, <3>1, <3>3, <3>4
    <3> QED
      BY <2>1, <3>5
  <2> QED
    BY <2>2, <2>3
<1>5. RoundSound(ResolveNames(skills), N, n)
  BY <1>1, <1>2, <1>4
<1> QED
  BY <1>1, <1>5 DEF RoundSound

-----------------------------------------------------------------------------
(* Catalogs. *)

Skill == [source : Source, directory : Nat, name : Name]

LEMMA SkillsAreListed ==
    ASSUME Typed, NEW pins, Pinned(pins)
    PROVE  Skills(pins) \in Seq(Skill)
<1> DEFINE names(s) == upstream[s][pins[s].rev]
           seqs == [i \in DOMAIN Order |->
                        [k \in DOMAIN names(Order[i]) |->
                            [source |-> Order[i], directory |-> k,
                             name |-> names(Order[i])[k]]]]
<1>1. Skills(pins) = FlattenSeq(seqs)
  BY DEF Skills
<1>2. Order \in Seq(Source)
  BY SyncAssumption
<1>3. ASSUME NEW s \in Source PROVE names(s) \in Seq(Name)
  <2>1. pins[s].rev \in 1..Len(upstream[s])
    BY DEF Pinned
  <2>2. upstream[s] \in Seq(Seq(Name))
    BY DEF Typed
  <2> QED
    BY <2>1, <2>2
<1> HIDE DEF names
<1>4. ASSUME NEW i \in DOMAIN Order PROVE seqs[i] \in Seq(Skill)
  <2>1. Order[i] \in Source
    BY <1>2
  <2>2. PICK n \in Nat : DOMAIN names(Order[i]) = 1..n
    BY <1>3, <2>1
  <2>3. \A k \in 1..n : [source |-> Order[i], directory |-> k,
                         name |-> names(Order[i])[k]] \in Skill
    BY <1>3, <2>1, <2>2 DEF Skill
  <2>4. seqs[i] = [k \in 1..n |-> [source |-> Order[i], directory |-> k,
                                  name |-> names(Order[i])[k]]]
    BY <2>2
  <2>5. seqs[i] \in [1..n -> Skill]
    BY <2>3, <2>4
  <2> QED
    BY <2>5
<1>5. seqs \in Seq(Seq(Skill))
  <2>1. PICK n \in Nat : DOMAIN Order = 1..n
    BY <1>2
  <2>2. DOMAIN seqs = 1..n /\ \A i \in 1..n : seqs[i] \in Seq(Skill)
    BY <1>4, <2>1
  <2>3. seqs = [i \in 1..n |-> seqs[i]]
    BY <2>1
  <2> HIDE DEF seqs
  <2> QED
    BY <2>2, <2>3
<1> QED
  BY <1>1, <1>5, FlattenIsList

(* No two manifests of a catalog have the same name. *)
LEMMA CatalogSound ==
    ASSUME Typed, NEW pins, Pinned(pins), ~Resolved(pins).failed
    PROVE  (\A m \in Catalog(pins) : WellFormed(m)) /\ Consistent(Catalog(pins))
<1> DEFINE skills == Skills(pins)
           names == Resolved(pins).names
<1>1. IsInjective(names) /\ DOMAIN names = DOMAIN skills
  BY SkillsAreListed, NamesResolved DEF Resolved
<1>2. Catalog(pins) = {Manifest(skills[k], names[k], pins) : k \in DOMAIN skills}
  BY DEF Catalog
<1> HIDE DEF skills, names
<1>3. \A m \in Catalog(pins) : WellFormed(m)
  BY <1>2 DEF Manifest, WellFormed
<1>4. Consistent(Catalog(pins))
  <2> SUFFICES ASSUME NEW k1 \in DOMAIN skills, NEW k2 \in DOMAIN skills,
                      SamePath(Manifest(skills[k1], names[k1], pins),
                               Manifest(skills[k2], names[k2], pins))
               PROVE  k1 = k2
    BY <1>2 DEF Consistent
  <2>1. names[k1] = names[k2]
    BY DEF SamePath, Manifest
  <2> QED
    BY <1>1, <2>1 DEF IsInjective
<1> QED
  BY <1>3, <1>4

LEMMA RefreshedPinned ==
    ASSUME Typed, NEW pins, Pinned(pins)
    PROVE  Pinned(Refreshed(pins, day))
<1>1. \A s \in Source : Len(upstream[s]) \in 1..Len(upstream[s]) /\ day \in 0..day
  BY SyncAssumption DEF Typed
<1> QED
  BY <1>1 DEF Pinned, Refreshed

(* Manifests that do not clash with consistent ones add up with them. *)
LEMMA Joined ==
    ASSUME NEW old, NEW new, Consistent(old), Consistent(new),
           \A m \in old \cup new : WellFormed(m), ~Clash(new, old)
    PROVE  Consistent(old \cup new)
<1>1. ASSUME NEW m1 \in new, NEW m2 \in old, SamePath(m1, m2) PROVE m1 = m2
  <2>1. m1.name = m2.name /\ m1.version = m2.version /\ m1.sha256 = m2.sha256
    BY <1>1 DEF Clash, SamePath
  <2>2. WellFormed(m1) /\ WellFormed(m2)
    OBVIOUS
  <2>3. m1.url = m2.url
    BY <2>1, <2>2 DEF WellFormed
  <2> QED
    BY <2>1, <2>2, <2>3 DEF WellFormed
<1> QED
  BY <1>1 DEF Consistent, SamePath

(* Consistent manifests have archives of their own. *)
LEMMA OwnArchives ==
    ASSUME NEW manifests, Consistent(manifests), \A m \in manifests : WellFormed(m),
           NEW m1 \in manifests, NEW m2 \in manifests, m1.url = m2.url
    PROVE  m1 = m2
<1>1. WellFormed(m1) /\ WellFormed(m2)
  OBVIOUS
<1>2. m1.name = m2.name /\ m1.version = m2.version
  BY <1>1 DEF WellFormed
<1> QED
  BY <1>2 DEF Consistent, SamePath

-----------------------------------------------------------------------------
LEMMA InitInv == Init => IInv
<1> SUFFICES ASSUME Init PROVE IInv
  OBVIOUS
<1>1. \A s \in Source : \E names \in Seq(Name) : upstream[s] = <<names>>
  BY SyncAssumption DEF Init
<1>2. Typed
  <2>1. \A s \in Source : MaxRev[s] \in Nat /\ 1 \in 1..MaxRev[s]
    BY SyncAssumption
  <2>2. ASSUME NEW s \in Source
        PROVE  upstream[s] \in Seq(Seq(Name)) /\ Len(upstream[s]) = 1
    <3>1. PICK names \in Seq(Name) : upstream[s] = <<names>>
      BY <1>1
    <3> QED
      BY <3>1
  <2>3. DOMAIN upstream = Source /\ upstream = [s \in Source |-> upstream[s]]
    BY DEF Init
  <2>4. upstream \in [Source -> Seq(Seq(Name))]
    BY <2>2, <2>3
  <2>5. day \in 0..MaxDay /\ breaks \in 0..MaxBreaks
    BY SyncAssumption DEF Init
  <2> QED
    BY <2>1, <2>2, <2>4, <2>5 DEF Typed
<1>3. Pinned(Pins0)
  <2>1. \A s \in Source : 1 \in 1..Len(upstream[s]) /\ 0 \in 0..day
    BY <1>2 DEF Typed
  <2> QED
    BY <2>1 DEF Pinned, Pins0
<1>4. /\ main = [pins |-> Pins0, manifests |-> Catalog(Pins0)]
      /\ archives = {Archive(m) : m \in main.manifests}
      /\ job = NoJob /\ prs = {} /\ ~Resolved(Pins0).failed
  BY DEF Init
<1>5. MainSound
  BY <1>2, <1>3, <1>4, CatalogSound DEF MainSound
<1>6. ArchivesSound
  <2>1. \A m \in main.manifests : Archive(m) = [url |-> m.url, sha256 |-> m.sha256]
    BY DEF Archive
  <2>2. \A m1, m2 \in main.manifests : m1.url = m2.url => m1 = m2
    BY <1>5, OwnArchives DEF MainSound
  <2> QED
    BY <1>4, <2>1, <2>2 DEF ArchivesSound
<1> QED
  BY <1>2, <1>4, <1>5, <1>6 DEF IInv, JobSound

-----------------------------------------------------------------------------
(* The steps. *)

(* Pins stay good while upstream moves and days pass. *)
LEMMA WorldStep ==
    ASSUME IInv, Typed', \A pins : Pinned(pins) => Pinned(pins)',
           UNCHANGED <<main, archives, job, prs>>
    PROVE  IInv'
BY DEF IInv, MainSound, JobSound, RequestSound, ArchivesSound

LEMMA PushStep ==
    ASSUME IInv, NEW s \in Source, NEW names \in Ships[s], Push(s, names)
    PROVE  IInv'
<1> DEFINE longer == Append(upstream[s], names)
<1>1. /\ Len(upstream[s]) < MaxRev[s] /\ upstream' = [upstream EXCEPT ![s] = longer]
      /\ UNCHANGED <<day, main, archives, job, prs, breaks>>
  BY DEF Push
<1>2. /\ upstream \in [Source -> Seq(Seq(Name))] /\ upstream[s] \in Seq(Seq(Name))
      /\ names \in Seq(Name) /\ \A t \in Source : Len(upstream[t]) \in 1..MaxRev[t]
  BY SyncAssumption DEF IInv, Typed
<1>3. longer \in Seq(Seq(Name)) /\ Len(longer) = Len(upstream[s]) + 1
  BY <1>2
<1>4. Len(longer) \in 1..MaxRev[s]
  <2>1. MaxRev[s] \in Nat
    BY SyncAssumption
  <2> QED
    BY <1>1, <1>2, <1>3, <2>1
<1> HIDE DEF longer
<1>5. \A t \in Source : upstream'[t] = IF t = s THEN longer ELSE upstream[t]
  BY <1>1, <1>2
<1>6. upstream' \in [Source -> Seq(Seq(Name))]
  BY <1>1, <1>2, <1>3
<1>7. Typed'
  BY <1>1, <1>2, <1>4, <1>5, <1>6 DEF Typed, IInv
<1>8. ASSUME NEW pins, Pinned(pins) PROVE Pinned(pins)'
  <2>1. ASSUME NEW t \in Source PROVE 1..Len(upstream[t]) \subseteq 1..Len(upstream'[t])
    <3>1. Len(upstream[t]) \in Nat /\ Len(upstream[s]) \in Nat
      BY <1>2
    <3>2. Len(upstream'[t]) \in {Len(upstream[t]), Len(upstream[t]) + 1}
      BY <1>3, <1>5
    <3> QED
      BY <3>1, <3>2
  <2> QED
    BY <1>1, <1>8, <2>1 DEF Pinned
<1> QED
  BY <1>1, <1>7, <1>8, WorldStep

LEMMA MidnightStep == ASSUME IInv, Midnight PROVE IInv'
<1>1. /\ day < MaxDay /\ day' = day + 1 /\ day \in 0..MaxDay /\ MaxDay \in Nat
      /\ UNCHANGED <<upstream, main, archives, job, prs, breaks>>
  BY SyncAssumption DEF Midnight, IInv, Typed
<1>2. Typed'
  <2>1. day' \in 0..MaxDay
    BY <1>1
  <2> QED
    BY <1>1, <2>1 DEF IInv, Typed
<1>3. \A pins : Pinned(pins) => Pinned(pins)'
  <2>1. 0..day \subseteq 0..day'
    BY <1>1
  <2> QED
    BY <1>1, <2>1 DEF Pinned
<1> QED
  BY <1>1, <1>2, <1>3, WorldStep

(* A step of the run that leaves pins, main and archives alone. *)
LEMMA RunStep ==
    ASSUME IInv, UNCHANGED <<upstream, day, main, archives>>, breaks' \in 0..MaxBreaks,
           JobSound', \A pr \in prs' : RequestSound(pr)
    PROVE  IInv'
<1>1. Typed' /\ \A pins : Pinned(pins)' <=> Pinned(pins)
  BY DEF IInv, Typed, Pinned
<1> QED
  BY <1>1 DEF IInv, MainSound, RequestSound, ArchivesSound

(* What is new is in the plan: no manifest of main is in its way. *)
LEMMA ImportStep == ASSUME IInv, Import PROVE IInv'
<1>0. PICK pins : pins = Refreshed(main.pins, day)
  OBVIOUS
<1> DEFINE catalog == Catalog(pins)
           new == {m \in catalog : \A old \in main.manifests : ~SamePath(m, old)}
           plan == {m \in catalog : \A old \in main.manifests :
                        SamePath(m, old) => m.url = old.url}
<1>1. /\ ~ImportFails(pins)
      /\ job' = [phase |-> "publish", base |-> main.pins, pins |-> pins,
                 new |-> new, plan |-> plan]
      /\ UNCHANGED <<upstream, day, main, archives, prs, breaks>>
  BY <1>0 DEF Import
<1>2. Pinned(pins)
  BY <1>0, RefreshedPinned DEF IInv, MainSound
<1>3. (\A m \in catalog : WellFormed(m)) /\ Consistent(catalog)
  BY <1>1, <1>2, CatalogSound DEF ImportFails, IInv
<1> HIDE DEF catalog
<1>4. Consistent(new) /\ new \subseteq plan
  BY <1>3 DEF Consistent
<1>5. JobSound'
  <2>1. Pinned(job.pins)'
    BY <1>1, <1>2 DEF Pinned
  <2>2. \A m \in new : WellFormed(m) /\ m \in plan
    BY <1>3, <1>4
  <2> HIDE DEF new, plan
  <2> QED
    BY <1>1, <1>4, <2>1, <2>2 DEF JobSound
<1> QED
  BY <1>1, <1>5, RunStep DEF IInv, Typed

(* An archive is uploaded only where no other one is. *)
LEMMA PublishStep == ASSUME IInv, NEW m \in job.plan, Publish(m) PROVE IInv'
<1>1. UNCHANGED <<upstream, day, main, prs, breaks>> /\ job.phase = "publish"
  BY DEF Publish
<1>2. CASE job' = NoJob /\ UNCHANGED archives
  BY <1>1, <1>2, RunStep DEF JobSound, IInv, Typed
<1>3. CASE /\ ~\E a \in archives : a.url = m.url /\ a.sha256 # m.sha256
           /\ archives' = archives \cup {Archive(m)}
           /\ job' = [job EXCEPT !.plan = @ \ {m}]
  <2>1. /\ job = [phase |-> "publish", base |-> job.base, pins |-> job.pins,
                  new |-> job.new, plan |-> job.plan]
        /\ Pinned(job.pins) /\ Consistent(job.new)
        /\ \A n \in job.new : WellFormed(n) /\ (n \in job.plan \/ Archive(n) \in archives)
    BY <1>1 DEF IInv, JobSound, NoJob
  <2>2. job' = [phase |-> "publish", base |-> job.base, pins |-> job.pins,
                new |-> job.new, plan |-> job.plan \ {m}]
    BY <1>3, <2>1
  <2>3. Typed' /\ \A pins : Pinned(pins)' <=> Pinned(pins)
    BY <1>1 DEF IInv, Typed, Pinned
  <2>4. JobSound'
    BY <1>3, <2>1, <2>2, <2>3 DEF JobSound
  <2>5. ArchivesSound'
    <3>1. Archive(m) = [url |-> m.url, sha256 |-> m.sha256]
      BY DEF Archive
    <3>2. \A a \in archives : a.url = m.url => a = Archive(m)
      BY <1>3, <3>1 DEF IInv, ArchivesSound
    <3> QED
      BY <1>3, <3>1, <3>2 DEF IInv, ArchivesSound
  <2> QED
    BY <1>1, <1>3, <2>3, <2>4, <2>5 DEF IInv, MainSound, RequestSound
<1> QED
  BY <1>2, <1>3 DEF Publish

LEMMA BreakStep == ASSUME IInv, Break PROVE IInv'
<1>1. /\ job' = NoJob /\ breaks' \in 0..MaxBreaks
      /\ UNCHANGED <<upstream, day, main, archives, prs>>
  BY SyncAssumption DEF Break, IInv, Typed
<1> QED
  BY <1>1, RunStep DEF JobSound, IInv

(* With the plan empty, everything the request adds is uploaded. *)
LEMMA OpenStep == ASSUME IInv, OpenPR PROVE IInv'
<1> DEFINE pr == [base |-> job.base, pins |-> job.pins, new |-> job.new]
<1>1. /\ job.phase = "publish" /\ job.plan = {} /\ job' = NoJob
      /\ prs' = prs \/ prs' = prs \cup {pr}
      /\ UNCHANGED <<upstream, day, main, archives, breaks>>
  BY DEF OpenPR
<1>2. RequestSound(pr)
  BY <1>1 DEF IInv, JobSound, NoJob, RequestSound
<1>3. JobSound'
  BY <1>1 DEF JobSound
<1> QED
  BY <1>1, <1>2, <1>3, RunStep DEF IInv, Typed

LEMMA MergeStep == ASSUME IInv, NEW pr \in prs, Merge(pr) PROVE IInv'
<1> DEFINE pins == [s \in Source |-> IF pr.pins[s] = pr.base[s] THEN main.pins[s]
                                                                ELSE pr.pins[s]]
<1>1. /\ ~Clash(pr.new, main.manifests)
      /\ main' = [pins |-> pins, manifests |-> main.manifests \cup pr.new]
      /\ prs' \subseteq prs
      /\ UNCHANGED <<upstream, day, archives, job, breaks>>
  BY DEF Merge, Mergeable
<1>2. MainSound /\ RequestSound(pr)
  BY DEF IInv
<1>3. Pinned(pins)
  BY <1>2 DEF MainSound, RequestSound, Pinned
<1> HIDE DEF pins
<1>4. Typed' /\ \A p : Pinned(p)' <=> Pinned(p)
  BY <1>1 DEF IInv, Typed, Pinned
<1>5. Consistent(main.manifests \cup pr.new)
  BY <1>1, <1>2, Joined DEF MainSound, RequestSound
<1>6. MainSound'
  BY <1>1, <1>2, <1>3, <1>4, <1>5 DEF MainSound, RequestSound
<1> QED
  BY <1>1, <1>4, <1>6 DEF IInv, JobSound, RequestSound, ArchivesSound

LEMMA CloseStep == ASSUME IInv, NEW pr \in prs, Close(pr) PROVE IInv'
<1>1. prs' \subseteq prs /\ UNCHANGED <<upstream, day, main, archives, job, breaks>>
  BY DEF Close
<1>2. JobSound'
  BY <1>1 DEF IInv, JobSound, Pinned
<1> QED
  BY <1>1, <1>2, RunStep DEF IInv, Typed

LEMMA NextInv == IInv /\ [Next]_vars => IInv'
<1> SUFFICES ASSUME IInv, [Next]_vars PROVE IInv'
  OBVIOUS
<1>1. ASSUME NEW s \in Source, NEW names \in Ships[s], Push(s, names) PROVE IInv'
  BY <1>1, PushStep
<1>2. CASE Midnight
  BY <1>2, MidnightStep
<1>3. CASE Import
  BY <1>3, ImportStep
<1>4. ASSUME NEW m \in job.plan, Publish(m) PROVE IInv'
  BY <1>4, PublishStep
<1>5. CASE Break
  BY <1>5, BreakStep
<1>6. CASE OpenPR
  BY <1>6, OpenStep
<1>7. ASSUME NEW pr \in prs, Merge(pr) PROVE IInv'
  BY <1>7, MergeStep
<1>8. ASSUME NEW pr \in prs, Close(pr) PROVE IInv'
  BY <1>8, CloseStep
<1>9. CASE UNCHANGED vars
  <2>1. JobSound'
    BY <1>9 DEF vars, IInv, JobSound, Pinned
  <2> QED
    BY <1>9, <2>1, RunStep DEF vars, IInv, Typed
<1> QED
  BY <1>1, <1>2, <1>3, <1>4, <1>5, <1>6, <1>7, <1>8, <1>9 DEF Next

LEMMA Invariance == Spec => []IInv
BY InitInv, NextInv, PTL DEF Spec

-----------------------------------------------------------------------------
(* The types: main's pins always name a revision upstream has, and a day    *)
(* that has come (refresh_pins).                                            *)
THEOREM SyncTypes == Spec => []TypeOK
<1>1. IInv => TypeOK
  BY DEF IInv, Typed, MainSound, JobSound, NoJob, Pinned, TypeOK
<1> QED
  BY <1>1, Invariance, PTL

(* Whatever the sources ship and however they are prefixed, the names a run *)
(* publishes differ (resolve_names: "a unique published name").             *)
THEOREM UniqueNames == Spec => []NamesAreUnique
<1>1. IInv => NamesAreUnique
  <2> SUFFICES ASSUME IInv PROVE IsInjective(Resolved(Refreshed(main.pins, day)).names)
    BY DEF NamesAreUnique
  <2>1. Typed /\ Pinned(Refreshed(main.pins, day))
    BY RefreshedPinned DEF IInv, MainSound
  <2> QED
    BY <2>1, SkillsAreListed, NamesResolved DEF Resolved
<1> QED
  BY <1>1, Invariance, PTL

(* Every skill manifest on main, and every one a request would add, has its *)
(* archive uploaded, whatever runs broke off and whichever requests were    *)
(* merged (skill-sync.yml: archives are uploaded before the request).       *)
THEOREM Downloadable == Spec => []ManifestsAreDownloadable
<1>1. IInv => ManifestsAreDownloadable
  BY DEF IInv, MainSound, RequestSound, ManifestsAreDownloadable
<1> QED
  BY <1>1, Invariance, PTL

(* A name and version stands for one archive forever, though requests made  *)
(* on different days and from different mains are merged in any order       *)
(* (the conflict checks of skill-import.py and of the publisher, and git).  *)
THEOREM ImmutableVersions == Spec => []VersionsAreImmutable
<1>1. IInv => VersionsAreImmutable
  BY DEF IInv, MainSound, Consistent, ArchivesSound, VersionsAreImmutable
<1> QED
  BY <1>1, Invariance, PTL
=============================================================================
