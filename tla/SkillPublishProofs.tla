------------------------- MODULE SkillPublishProofs -------------------------
(***************************************************************************)
(* What uploading a plan establishes, and what a publish run may conclude  *)
(* from its requests, for any plans, files, releases, limits and archives. *)
(***************************************************************************)
EXTENDS SkillPublish, SequenceTheorems, FiniteSetTheorems, TLAPS

Entries(release) == {release.assets[k] : k \in DOMAIN release.assets}

Running == phase \notin {"idle", "refused"}

(* A run touches nothing unless the plan is valid; what it still has to     *)
(* upload is of the release it is at.                                       *)
PlansAhead ==
    /\ Running => PlanValid
    /\ phase \in {"create", "upload"} => pending \subseteq Paths(plan[at])
    /\ phase = "done" => at > Len(plan)

(* The releases behind a run are complete, and of the one it is at,         *)
(* everything that is not pending is held with the right digest.            *)
DoneBehind ==
    /\ Running => \A i \in DOMAIN plan : i < at => \A e \in Entries(plan[i]) :
            /\ remote[plan[i].tag].state = "public"
            /\ remote[plan[i].tag].assets[e.path] = e.sha256
    /\ phase \in {"create", "upload"} => \A e \in Entries(plan[at]) :
            e.path \notin pending => remote[plan[at].tag].assets[e.path] = e.sha256
    /\ phase = "upload" => remote[plan[at].tag].state = "public"

ArchivesInv == TypeOK /\ PlansAhead /\ DoneBehind

(* No archive is replaced, removed or made private. *)
Permanent ==
    \A t \in Tag : /\ remote[t].state = "public" => remote'[t].state = "public"
                   /\ \A n \in Name : remote[t].assets[n] \in Digest =>
                            remote'[t].assets[n] = remote[t].assets[n]

-----------------------------------------------------------------------------
(* The plan and its entries. *)

LEMMA PlanTyped ==
    ASSUME TypeOK, NEW i \in DOMAIN plan
    PROVE  /\ plan \in Seq([tag : Tag, assets : Seq(Entry)])
           /\ plan[i] \in [tag : Tag, assets : Seq(Entry)]
           /\ \A k \in DOMAIN plan[i].assets : plan[i].assets[k] \in Entry
           /\ Entries(plan[i]) \subseteq Entry
           /\ Paths(plan[i]) \subseteq Name
<1>1. plan \in Seq([tag : Tag, assets : Seq(Entry)])
  BY ArchivesAssumption DEF TypeOK
<1>2. plan[i] \in [tag : Tag, assets : Seq(Entry)]
  BY <1>1, ElementOfSeq, LenProperties
<1>3. \A k \in DOMAIN plan[i].assets : plan[i].assets[k] \in Entry
  BY <1>2, ElementOfSeq, LenProperties
<1> QED
  BY <1>1, <1>2, <1>3 DEF Entries, Paths, Entry

(* A run that is at a release has a plan that long. *)
LEMMA AtRelease ==
    ASSUME TypeOK, at <= Len(plan)
    PROVE  at \in DOMAIN plan
<1>1. plan \in Seq([tag : Tag, assets : Seq(Entry)])
  BY ArchivesAssumption DEF TypeOK
<1> QED
  BY <1>1, LenProperties DEF TypeOK

-----------------------------------------------------------------------------
(* Archives are permanent. *)

(* One release is made public. *)
LEMMA SetPublic ==
    ASSUME TypeOK, NEW t \in Tag, remote' = [remote EXCEPT ![t].state = "public"]
    PROVE  /\ remote' \in [Tag -> Release]
           /\ \A u \in Tag : remote'[u].state = IF u = t THEN "public" ELSE remote[u].state
           /\ \A u \in Tag : remote'[u].assets = remote[u].assets
<1>1. remote \in [Tag -> Release]
  BY DEF TypeOK
<1>2. \A u \in Tag : remote'[u] = IF u = t THEN [remote[u] EXCEPT !.state = "public"] ELSE remote[u]
  BY <1>1
<1> QED
  BY <1>1, <1>2 DEF Release

(* A step that fills a free name, or frees one a broken upload took. *)
LEMMA SetIsPermanent ==
    ASSUME TypeOK, NEW t \in Tag, NEW n \in Name, NEW x \in Asset,
           remote[t].assets[n] \in {NoAsset, Partial},
           remote' = [remote EXCEPT ![t].assets[n] = x]
    PROVE  remote' \in [Tag -> Release] /\ Permanent
<1>1. remote \in [Tag -> Release]
  BY DEF TypeOK
<1>2. \A u \in Tag : remote'[u] = IF u = t THEN [remote[u] EXCEPT !.assets[n] = x] ELSE remote[u]
  BY <1>1
<1>3. [remote[t] EXCEPT !.assets[n] = x] \in Release
  BY <1>1 DEF Release
<1>4. \A u \in Tag : /\ remote'[u].state = remote[u].state
                     /\ \A m \in Name : remote'[u].assets[m] =
                            IF u = t /\ m = n THEN x ELSE remote[u].assets[m]
  BY <1>1, <1>2 DEF Release
<1>5. remote[t].assets[n] \notin Digest
  BY ArchivesAssumption
<1>6. remote' \in [Tag -> Release]
  BY <1>1, <1>2, <1>3
<1> QED
  BY <1>4, <1>5, <1>6 DEF Permanent

LEMMA DiskTyped ==
    ASSUME ArchivesInv, phase = "upload", NEW n \in pending
    PROVE  disk[n] \in Digest /\ n \in Name /\ plan[at].tag \in Tag
           /\ \A e \in Entries(plan[at]) : e.path = n => disk[n] = e.sha256
<1>1. at \in DOMAIN plan
  BY AtRelease DEF ArchivesInv, TypeOK
<1>2. PICK k \in DOMAIN plan[at].assets : n = plan[at].assets[k].path
  BY DEF ArchivesInv, PlansAhead, Paths
<1>3. \A l \in DOMAIN plan[at].assets :
            disk[plan[at].assets[l].path] = plan[at].assets[l].sha256
  BY <1>1 DEF ArchivesInv, PlansAhead, Running, PlanValid
<1>4. plan[at].tag \in Tag /\ plan[at].assets[k] \in Entry
  BY <1>1, PlanTyped DEF ArchivesInv
<1> QED
  BY <1>2, <1>3, <1>4 DEF Entry, Entries

(* Every step keeps the releases typed and the archives in place. *)
LEMMA StepPermanent ==
    ASSUME ArchivesInv, [Next]_vars
    PROVE  remote' \in [Tag -> Release] /\ Permanent
<1>1. CASE UNCHANGED remote
  BY <1>1 DEF ArchivesInv, TypeOK, Permanent
<1>2. CASE Create
  <2>1. at \in DOMAIN plan
    BY <1>2, AtRelease DEF Create, ArchivesInv, TypeOK
  <2>2. plan[at].tag \in Tag
    BY <2>1, PlanTyped DEF ArchivesInv
  <2>3. CASE remote' = [remote EXCEPT ![plan[at].tag].state = "public"]
    BY <2>2, <2>3, SetPublic DEF ArchivesInv, Permanent
  <2> QED
    BY <1>1, <1>2, <2>3 DEF Create
<1>3. ASSUME NEW n \in Name, Upload(n)
      PROVE  remote' \in [Tag -> Release] /\ Permanent
  <2>1. disk[n] \in Asset /\ plan[at].tag \in Tag
    BY <1>3, DiskTyped DEF Upload, Asset
  <2>2. CASE /\ remote[plan[at].tag].assets[n] = NoAsset
             /\ Cardinality(Held(plan[at].tag)) < Limit
    BY <1>3, <2>1, <2>2, SetIsPermanent DEF Upload, ArchivesInv
  <2> QED
    BY <1>1, <1>3, <2>2 DEF Upload
<1>4. ASSUME NEW n \in Name, UploadBreaks(n)
      PROVE  remote' \in [Tag -> Release] /\ Permanent
  <2>1. Partial \in Asset /\ plan[at].tag \in Tag
    BY <1>4, DiskTyped DEF UploadBreaks, Asset
  <2> QED
    BY <1>4, <2>1, SetIsPermanent DEF UploadBreaks, ArchivesInv
<1>5. ASSUME NEW t \in Tag, PublishDraft(t)
      PROVE  remote' \in [Tag -> Release] /\ Permanent
  BY <1>5, SetPublic DEF PublishDraft, ArchivesInv, Permanent
<1>6. ASSUME NEW t \in Tag, NEW n \in Name, NEW d \in Digest, ManualUpload(t, n, d)
      PROVE  remote' \in [Tag -> Release] /\ Permanent
  BY <1>6, SetIsPermanent DEF ManualUpload, ArchivesInv, Asset
<1>7. ASSUME NEW t \in Tag, NEW n \in Name, DeletePartial(t, n)
      PROVE  remote' \in [Tag -> Release] /\ Permanent
  BY <1>7, SetIsPermanent DEF DeletePartial, ArchivesInv, Asset
<1>8. CASE Begin \/ Inspect \/ NextRelease \/ Succeed \/ Break \/ UNCHANGED vars
  BY <1>1, <1>8 DEF Begin, Inspect, NextRelease, Succeed, Break, vars
<1> QED
  BY <1>2, <1>3, <1>4, <1>5, <1>6, <1>7, <1>8 DEF Next, RunStep, Cleanup

-----------------------------------------------------------------------------
(* The invariant of a run. *)

(* What is held stays held. *)
LEMMA HeldStays ==
    ASSUME ArchivesInv, Permanent, NEW i \in DOMAIN plan, NEW e \in Entries(plan[i])
    PROVE  /\ remote[plan[i].tag].state = "public" => remote'[plan[i].tag].state = "public"
           /\ remote[plan[i].tag].assets[e.path] = e.sha256 =>
                    remote'[plan[i].tag].assets[e.path] = e.sha256
<1>1. plan[i].tag \in Tag /\ e \in Entry
  BY PlanTyped DEF ArchivesInv
<1> QED
  BY <1>1 DEF Permanent, Entry

(* Whoever else touches the releases leaves a run its progress. *)
LEMMA OthersKeepProgress ==
    ASSUME ArchivesInv, remote' \in [Tag -> Release], Permanent,
           UNCHANGED <<plan, disk, jobVars>>, breaks' \in Nat, manual' \in Nat
    PROVE  ArchivesInv'
<1>1. TypeOK'
  BY DEF ArchivesInv, TypeOK, jobVars
<1>2. PlansAhead'
  BY DEF ArchivesInv, PlansAhead, Running, PlanValid, Paths, jobVars
<1>3. phase \in {"create", "upload"} => at \in DOMAIN plan /\ plan[at].tag \in Tag
  BY AtRelease, PlanTyped DEF ArchivesInv, TypeOK
<1>4. DoneBehind'
  <2>1. Running => \A i \in DOMAIN plan : i < at => \A e \in Entries(plan[i]) :
            /\ remote'[plan[i].tag].state = "public"
            /\ remote'[plan[i].tag].assets[e.path] = e.sha256
    BY HeldStays DEF ArchivesInv, DoneBehind
  <2>2. phase \in {"create", "upload"} => \A e \in Entries(plan[at]) :
            e.path \notin pending => remote'[plan[at].tag].assets[e.path] = e.sha256
    BY <1>3, HeldStays DEF ArchivesInv, DoneBehind
  <2>3. phase = "upload" => remote'[plan[at].tag].state = "public"
    BY <1>3 DEF ArchivesInv, DoneBehind, Permanent
  <2> QED
    BY <2>1, <2>2, <2>3 DEF DoneBehind, Running, jobVars
<1> QED
  BY <1>1, <1>2, <1>4 DEF ArchivesInv

(* A run that has ended promises nothing yet. *)
LEMMA EndedRun ==
    ASSUME ArchivesInv, remote' \in [Tag -> Release], phase' \in {"idle", "refused"},
           UNCHANGED <<plan, disk, manual>>, at' \in 1..Len(plan) + 1,
           pending' \subseteq Name, breaks' \in Nat
    PROVE  ArchivesInv'
BY DEF ArchivesInv, TypeOK, PlansAhead, DoneBehind, Running

LEMMA ArchivesInit == Init => ArchivesInv
<1> SUFFICES ASSUME Init PROVE ArchivesInv
  OBVIOUS
<1>1. plan \in Seq([tag : Tag, assets : Seq(Entry)])
  BY ArchivesAssumption DEF Init
<1>2. 1 \in 1..Len(plan) + 1
  BY <1>1, LenProperties
<1>3. remote \in [Tag -> Release]
  BY DEF Init, EarlierReleases
<1> QED
  BY <1>2, <1>3 DEF Init, ArchivesInv, TypeOK, PlansAhead, DoneBehind, Running

LEMMA BeginStep == ArchivesInv /\ Begin => ArchivesInv'
<1> SUFFICES ASSUME ArchivesInv, Begin PROVE ArchivesInv'
  OBVIOUS
<1>1. plan \in Seq([tag : Tag, assets : Seq(Entry)])
  BY ArchivesAssumption DEF ArchivesInv, TypeOK
<1>2. Len(plan) \in Nat /\ DOMAIN plan = 1..Len(plan)
  BY <1>1, LenProperties
<1>3. TypeOK'
  BY <1>2 DEF Begin, ArchivesInv, TypeOK
<1>4. PlansAhead'
  BY DEF Begin, PlansAhead, Running, PlanValid
<1>5. DoneBehind'
  BY <1>2 DEF Begin, DoneBehind, Running
<1> QED
  BY <1>3, <1>4, <1>5 DEF ArchivesInv

(* What is not pending after the one read was held without a conflict. *)
LEMMA InspectStep == ArchivesInv /\ Inspect => ArchivesInv'
<1> SUFFICES ASSUME ArchivesInv, Inspect PROVE ArchivesInv'
  OBVIOUS
<1>1. at \in DOMAIN plan
  BY AtRelease DEF Inspect, ArchivesInv
<1>2. CASE phase' = "idle" /\ UNCHANGED pending
  BY <1>2, EndedRun DEF Inspect, ArchivesInv, TypeOK
<1>3. CASE /\ phase' = IF remote[plan[at].tag].state = "absent" THEN "create" ELSE "upload"
           /\ pending' = Paths(plan[at]) \ Held(plan[at].tag)
           /\ remote[plan[at].tag].state # "draft" /\ ~Conflict(plan[at])
  <2>1. TypeOK'
    <3>1. Paths(plan[at]) \subseteq Name
      BY <1>1, PlanTyped DEF ArchivesInv
    <3> QED
      BY <1>1, <1>3, <3>1 DEF Inspect, ArchivesInv, TypeOK
  <2>2. PlansAhead'
    BY <1>3 DEF Inspect, ArchivesInv, PlansAhead, Running, PlanValid, Paths
  <2>3. \A e \in Entries(plan[at]) : e.path \notin pending' =>
            remote[plan[at].tag].assets[e.path] = e.sha256
    <3> SUFFICES ASSUME NEW k \in DOMAIN plan[at].assets,
                        plan[at].assets[k].path \notin pending'
                 PROVE  remote[plan[at].tag].assets[plan[at].assets[k].path]
                            = plan[at].assets[k].sha256
      BY DEF Entries
    <3>1. plan[at].assets[k].path \in Held(plan[at].tag)
      BY <1>3 DEF Paths
    <3> QED
      BY <1>3, <3>1 DEF Conflict, Held
  <2>4. remote[plan[at].tag].state \in {"absent", "public"}
    BY <1>1, <1>3, PlanTyped DEF ArchivesInv, TypeOK, Release
  <2>5. DoneBehind'
    BY <1>3, <2>3, <2>4 DEF Inspect, ArchivesInv, DoneBehind, Running
  <2> QED
    BY <2>1, <2>2, <2>5 DEF ArchivesInv
<1> QED
  BY <1>2, <1>3 DEF Inspect

LEMMA CreateStep == ArchivesInv /\ Create => ArchivesInv'
<1> SUFFICES ASSUME ArchivesInv, Create PROVE ArchivesInv'
  OBVIOUS
<1>1. at \in DOMAIN plan
  BY AtRelease DEF Create, ArchivesInv, TypeOK
<1>2. remote' \in [Tag -> Release] /\ Permanent
  BY StepPermanent DEF Next, RunStep
<1>3. CASE phase' = "idle" /\ UNCHANGED remote
  BY <1>2, <1>3, EndedRun DEF Create, ArchivesInv, TypeOK
<1>4. CASE /\ phase' = "upload"
           /\ remote' = [remote EXCEPT ![plan[at].tag].state = "public"]
  <2>1. TypeOK'
    BY <1>1, <1>2, <1>4 DEF Create, ArchivesInv, TypeOK
  <2>2. PlansAhead'
    BY <1>4 DEF Create, ArchivesInv, PlansAhead, Running, PlanValid, Paths
  <2>3. remote'[plan[at].tag].state = "public"
    BY <1>1, <1>4, PlanTyped, SetPublic DEF ArchivesInv
  <2>4. \A i \in DOMAIN plan : i < at => \A e \in Entries(plan[i]) :
            /\ remote'[plan[i].tag].state = "public"
            /\ remote'[plan[i].tag].assets[e.path] = e.sha256
    BY <1>2, HeldStays DEF Create, ArchivesInv, DoneBehind, Running
  <2>5. \A e \in Entries(plan[at]) : e.path \notin pending =>
            remote'[plan[at].tag].assets[e.path] = e.sha256
    BY <1>1, <1>2, HeldStays DEF Create, ArchivesInv, DoneBehind
  <2>6. DoneBehind'
    BY <1>4, <2>3, <2>4, <2>5 DEF Create, DoneBehind
  <2> QED
    BY <2>1, <2>2, <2>6 DEF ArchivesInv
<1> QED
  BY <1>3, <1>4 DEF Create

LEMMA UploadStep ==
    ASSUME ArchivesInv, NEW n \in Name, Upload(n)
    PROVE  ArchivesInv'
<1>1. at \in DOMAIN plan /\ plan[at].tag \in Tag
  BY AtRelease, PlanTyped DEF Upload, ArchivesInv, TypeOK
<1>2. remote' \in [Tag -> Release] /\ Permanent
  BY StepPermanent DEF Next, RunStep
<1>3. CASE phase' = "idle" /\ UNCHANGED <<remote, pending>>
  BY <1>2, <1>3, EndedRun DEF Upload, ArchivesInv, TypeOK
<1>4. CASE /\ remote' = [remote EXCEPT ![plan[at].tag].assets[n] = disk[n]]
           /\ pending' = pending \ {n} /\ UNCHANGED phase
  <2>1. TypeOK'
    BY <1>1, <1>2, <1>4 DEF Upload, ArchivesInv, TypeOK
  <2>2. PlansAhead'
    BY <1>4 DEF Upload, ArchivesInv, PlansAhead, Running, PlanValid, Paths
  <2>3. remote'[plan[at].tag].state = "public"
    BY <1>1, <1>2 DEF Upload, ArchivesInv, DoneBehind, Permanent
  <2>4. \A i \in DOMAIN plan : i < at => \A e \in Entries(plan[i]) :
            /\ remote'[plan[i].tag].state = "public"
            /\ remote'[plan[i].tag].assets[e.path] = e.sha256
    BY <1>2, HeldStays DEF Upload, ArchivesInv, DoneBehind, Running
  <2>5. remote'[plan[at].tag].assets[n] = disk[n]
    BY <1>1, <1>4 DEF ArchivesInv, TypeOK, Release
  <2>6. \A e \in Entries(plan[at]) : e.path \notin pending' =>
            remote'[plan[at].tag].assets[e.path] = e.sha256
    <3> SUFFICES ASSUME NEW e \in Entries(plan[at]), e.path \notin pending'
                 PROVE  remote'[plan[at].tag].assets[e.path] = e.sha256
      OBVIOUS
    <3>1. CASE e.path = n
      BY <2>5, <3>1, DiskTyped DEF Upload
    <3>2. CASE e.path # n
      BY <1>1, <1>2, <1>4, <3>2, HeldStays DEF Upload, ArchivesInv, DoneBehind
    <3> QED
      BY <3>1, <3>2
  <2>7. DoneBehind'
    BY <1>4, <2>3, <2>4, <2>6 DEF Upload, DoneBehind
  <2> QED
    BY <2>1, <2>2, <2>7 DEF ArchivesInv
<1> QED
  BY <1>3, <1>4 DEF Upload

(* All of a release is uploaded when nothing is pending. *)
LEMMA NextReleaseStep == ArchivesInv /\ NextRelease => ArchivesInv'
<1> SUFFICES ASSUME ArchivesInv, NextRelease PROVE ArchivesInv'
  OBVIOUS
<1>1. plan \in Seq([tag : Tag, assets : Seq(Entry)]) /\ at \in DOMAIN plan
  BY ArchivesAssumption, AtRelease DEF NextRelease, ArchivesInv, TypeOK
<1>2. DOMAIN plan = 1..Len(plan) /\ Len(plan) \in Nat
  BY <1>1, LenProperties
<1>3. TypeOK'
  BY <1>1, <1>2 DEF NextRelease, ArchivesInv, TypeOK
<1>4. PlansAhead'
  BY DEF NextRelease, ArchivesInv, PlansAhead, Running, PlanValid
<1>5. \A i \in DOMAIN plan : i < at + 1 => i < at \/ i = at
  BY <1>1, <1>2
<1>6. \A i \in DOMAIN plan : i < at + 1 => \A e \in Entries(plan[i]) :
            /\ remote[plan[i].tag].state = "public"
            /\ remote[plan[i].tag].assets[e.path] = e.sha256
  BY <1>5 DEF NextRelease, ArchivesInv, DoneBehind, Running
<1>7. DoneBehind'
  BY <1>6 DEF NextRelease, DoneBehind
<1> QED
  BY <1>3, <1>4, <1>7 DEF ArchivesInv

LEMMA SucceedStep == ArchivesInv /\ Succeed => ArchivesInv'
BY DEF Succeed, ArchivesInv, TypeOK, PlansAhead, DoneBehind, Running, PlanValid

LEMMA ArchivesNext == ArchivesInv /\ [Next]_vars => ArchivesInv'
<1> SUFFICES ASSUME ArchivesInv, [Next]_vars PROVE ArchivesInv'
  OBVIOUS
<1>1. remote' \in [Tag -> Release] /\ Permanent
  BY StepPermanent
<1>2. CASE Begin \/ RunStep
  BY <1>2, BeginStep, InspectStep, CreateStep, UploadStep, NextReleaseStep, SucceedStep DEF RunStep
<1>3. CASE Break \/ \E n \in Name : UploadBreaks(n)
  <2>1. /\ phase' = "idle" /\ breaks' = breaks + 1
        /\ UNCHANGED <<plan, disk, at, pending, manual>>
    BY <1>3 DEF Break, UploadBreaks
  <2>2. at' \in 1..Len(plan) + 1 /\ pending' \subseteq Name /\ breaks' \in Nat
    BY <2>1 DEF ArchivesInv, TypeOK
  <2> QED
    BY <1>1, <2>1, <2>2, EndedRun
<1>4. ASSUME \/ \E t \in Tag, n \in Name, d \in Digest : ManualUpload(t, n, d)
             \/ \E t \in Tag : PublishDraft(t)
             \/ Cleanup \/ UNCHANGED vars
      PROVE  ArchivesInv'
  <2>1. UNCHANGED <<plan, disk, jobVars>> /\ breaks' \in Nat /\ manual' \in Nat
    BY <1>4 DEF ManualUpload, PublishDraft, Cleanup, DeletePartial, vars, jobVars, ArchivesInv, TypeOK
  <2> QED
    BY <1>1, <2>1, OthersKeepProgress
<1> QED
  BY <1>2, <1>3, <1>4 DEF Next

-----------------------------------------------------------------------------
(* What a run uploads fits. *)

LEMMA SubsetFits ==
    ASSUME NEW S \in SUBSET Name, NEW U \in SUBSET S, Cardinality(S) <= Limit
    PROVE  Cardinality(U) <= Limit
<1>1. IsFiniteSet(S) /\ IsFiniteSet(U)
  BY FS_Subset, ArchivesAssumption
<1>2. Cardinality(U) <= Cardinality(S)
  BY <1>1, FS_Subset
<1>3. Cardinality(U) \in Nat /\ Cardinality(S) \in Nat
  BY <1>1, FS_CardinalityType
<1> QED
  BY <1>2, <1>3, ArchivesAssumption

(* A step that adds nothing to what is held and pending. *)
LEMMA NoMoreFits ==
    ASSUME ArchivesInv, ArchivesInv', UploadsFit, phase \in {"create", "upload"},
           UNCHANGED <<plan, at, manual>>,
           Held(plan[at].tag)' \cup pending' \subseteq Held(plan[at].tag) \cup pending
    PROVE  UploadsFit'
<1>1. Held(plan[at].tag) \cup pending \subseteq Name
  BY DEF ArchivesInv, TypeOK, Held
<1> QED
  BY <1>1, SubsetFits DEF UploadsFit

LEMMA FitsNext == ArchivesInv /\ UploadsFit /\ [Next]_vars => UploadsFit'
<1> SUFFICES ASSUME ArchivesInv, UploadsFit, [Next]_vars PROVE UploadsFit'
  OBVIOUS
<1>1. ArchivesInv'
  BY ArchivesNext
<1>2. CASE phase' \notin {"create", "upload"} \/ manual' # 0
  BY <1>2 DEF UploadsFit
<1>3. CASE Inspect /\ phase' \in {"create", "upload"}
  <2>1. /\ ~TooMany(plan[at]) /\ pending' = Paths(plan[at]) \ Held(plan[at].tag)
        /\ UNCHANGED <<plan, remote, at>>
    BY <1>3 DEF Inspect
  <2>2. Held(plan[at].tag)' \cup pending' = Held(plan[at].tag) \cup Paths(plan[at])
    BY <2>1 DEF Held
  <2>3. IsFiniteSet(Held(plan[at].tag) \cup Paths(plan[at]))
    <3>1. at \in DOMAIN plan
      BY <1>3, AtRelease DEF Inspect, ArchivesInv
    <3>2. Held(plan[at].tag) \cup Paths(plan[at]) \subseteq Name
      BY <3>1, PlanTyped DEF ArchivesInv, Held
    <3> QED
      BY <3>2, FS_Subset, ArchivesAssumption
  <2>4. Cardinality(Held(plan[at].tag) \cup Paths(plan[at])) <= Limit
    BY <2>1, <2>3, FS_CardinalityType, ArchivesAssumption DEF TooMany
  <2> QED
    BY <2>2, <2>4 DEF UploadsFit
<1>4. CASE Create
  <2>1. at \in DOMAIN plan /\ plan[at].tag \in Tag
    BY <1>4, AtRelease, PlanTyped DEF Create, ArchivesInv, TypeOK
  <2>2. phase = "create" /\ UNCHANGED <<plan, at, pending, manual>>
    BY <1>4 DEF Create
  <2>3. Held(plan[at].tag)' = Held(plan[at].tag)
    BY <1>4, <2>1, <2>2, SetPublic DEF Create, ArchivesInv, Held
  <2> QED
    BY <1>1, <2>2, <2>3, NoMoreFits
<1>5. ASSUME NEW n \in Name, Upload(n), phase' \in {"create", "upload"}
      PROVE  UploadsFit'
  <2>1. /\ phase = "upload" /\ n \in pending /\ UNCHANGED <<plan, at, manual>>
        /\ remote' = [remote EXCEPT ![plan[at].tag].assets[n] = disk[n]]
        /\ pending' = pending \ {n}
    BY <1>5 DEF Upload
  <2>2. plan[at].tag \in Tag
    BY <2>1, AtRelease, PlanTyped DEF ArchivesInv, TypeOK
  <2>3. \A m \in Name : m # n =>
            remote'[plan[at].tag].assets[m] = remote[plan[at].tag].assets[m]
    BY <2>1, <2>2 DEF ArchivesInv, TypeOK, Release
  <2>4. Held(plan[at].tag)' \subseteq Held(plan[at].tag) \cup {n}
    BY <2>1, <2>3 DEF Held
  <2> QED
    BY <1>1, <2>1, <2>4, NoMoreFits
<1>6. ASSUME NEW t \in Tag, NEW n \in Name, DeletePartial(t, n),
             phase' \in {"create", "upload"}
      PROVE  UploadsFit'
  <2>1. /\ phase \in {"create", "upload"} /\ UNCHANGED <<plan, at, pending, manual>>
        /\ remote' = [remote EXCEPT ![t].assets[n] = NoAsset]
    BY <1>6 DEF DeletePartial, jobVars
  <2>2. plan[at].tag \in Tag
    BY <2>1, AtRelease, PlanTyped DEF ArchivesInv, TypeOK
  <2>3. \A m \in Name : remote'[plan[at].tag].assets[m]
                \in {NoAsset, remote[plan[at].tag].assets[m]}
    BY <2>1, <2>2 DEF ArchivesInv, TypeOK, Release
  <2>4. Held(plan[at].tag)' \subseteq Held(plan[at].tag)
    BY <2>1, <2>3 DEF Held
  <2> QED
    BY <1>1, <2>1, <2>4, NoMoreFits
<1>7. CASE UNCHANGED vars
  BY <1>7 DEF UploadsFit, vars, jobVars, Held
<1>8. CASE Begin \/ NextRelease \/ Succeed \/ Break \/ \E n \in Name : UploadBreaks(n)
  BY <1>2, <1>8 DEF Begin, NextRelease, Succeed, Break, UploadBreaks
<1>9. CASE \/ \E t \in Tag : PublishDraft(t)
           \/ \E t \in Tag, n \in Name, d \in Digest : ManualUpload(t, n, d)
  BY <1>2, <1>9 DEF PublishDraft, ManualUpload, ArchivesInv, TypeOK
<1> QED
  BY <1>2, <1>3, <1>4, <1>5, <1>6, <1>7, <1>8, <1>9 DEF Next, RunStep, Cleanup

-----------------------------------------------------------------------------
(* The preflight beside it. *)

Lines == {todo[i] : i \in DOMAIN todo}

(* No URL is checked twice. *)
LinesLeft ==
    /\ \A i, j \in DOMAIN todo : todo[i] = todo[j] => i = j
    /\ url \notin Lines

(* A URL whose check has ended can be downloaded or was reported. *)
Judged ==
    /\ \A u \in Preflight!Settled : u \in Downloadable \/ \E f \in failed : f.url = u
    /\ verdict = "sign" => todo = <<>> /\ url = NoURL /\ failed = {}

CheckInv ==
    /\ Preflight!TypeOK /\ LinesLeft /\ Judged
    /\ \A f \in failed : f.answers[Len(f.answers)] # "2xx"
    /\ ServerErrorIsRetried

LEMMA CommitURLs == Preflight!URL \subseteq Tag \X Name /\ NoURL \notin Preflight!URL
<1>1. \A i \in DOMAIN URLs : URLs[i] \in Tag \X Name
  BY CommitAssumption, ElementOfSeq, LenProperties
<1> QED
  BY <1>1, CommitAssumption DEF Preflight!URL

(* What can be downloaded stays so, whatever happens to the releases. *)
LEMMA DownloadableStays == Permanent => Downloadable \subseteq Downloadable'
<1> SUFFICES ASSUME Permanent, NEW i \in DOMAIN URLs, URLs[i] \in Downloadable
             PROVE  URLs[i] \in Downloadable'
  BY DEF Downloadable
<1>1. URLs[i][1] \in Tag /\ URLs[i][2] \in Name
  BY CommitURLs DEF Preflight!URL
<1>2. remote[URLs[i][1]].state = "public" /\ remote[URLs[i][1]].assets[URLs[i][2]] \in Digest
  BY DEF Downloadable
<1> QED
  BY <1>1, <1>2 DEF Downloadable, Permanent

LEMMA CheckInit == PublishInit => CheckInv
<1> SUFFICES ASSUME PublishInit PROVE CheckInv
  OBVIOUS
<1> USE DEF PublishInit, Preflight!Init
<1>1. todo \in Seq(Preflight!URL)
  <2>1. URLs \in Seq(Tag \X Name)
    BY CommitAssumption
  <2>2. \A i \in 1..Len(URLs) : URLs[i] \in Preflight!URL
    BY <2>1, LenProperties DEF Preflight!URL
  <2> QED
    BY <2>1, <2>2, LenProperties
<1>2. Lines = Preflight!URL
  BY DEF Lines, Preflight!URL
<1>3. Preflight!Settled = {}
  BY <1>2 DEF Preflight!Settled, Lines
<1>4. Preflight!TypeOK
  BY <1>1 DEF Preflight!TypeOK
<1>5. LinesLeft
  BY <1>2, CommitURLs, CommitAssumption DEF LinesLeft
<1>6. Judged
  BY <1>3 DEF Judged
<1> QED
  BY <1>4, <1>5, <1>6 DEF CheckInv, ServerErrorIsRetried, Preflight!ServerErrorIsRetried

(* Whatever the publisher does, a check keeps its ground. *)
LEMMA UploadsKeepCheck ==
    ASSUME CheckInv, Permanent, UNCHANGED checkVars
    PROVE  CheckInv'
<1> USE DEF checkVars
<1>1. Downloadable \subseteq Downloadable'
  BY DownloadableStays
<1>2. Downloadable' \subseteq Preflight!URL
  BY DEF Downloadable, Preflight!URL
<1>3. Preflight!Settled' = Preflight!Settled
  BY DEF Preflight!Settled
<1>4. Preflight!TypeOK'
  BY <1>2, <1>3 DEF CheckInv, Preflight!TypeOK
<1>5. LinesLeft'
  BY DEF CheckInv, LinesLeft, Lines
<1>6. Judged'
  BY <1>1, <1>3 DEF CheckInv, Judged
<1> QED
  BY <1>4, <1>5, <1>6 DEF CheckInv, ServerErrorIsRetried, Preflight!ServerErrorIsRetried

LEMMA NextURLKeeps == CheckInv /\ UNCHANGED vars /\ Preflight!NextURL => CheckInv'
<1> SUFFICES ASSUME CheckInv, UNCHANGED vars, Preflight!NextURL PROVE CheckInv'
  OBVIOUS
<1> USE DEF Preflight!NextURL
<1>1. todo \in Seq(Preflight!URL)
  BY DEF CheckInv, Preflight!TypeOK
<1>2. /\ todo' \in Seq(Preflight!URL)
      /\ url' = todo[1] /\ url' \in Preflight!URL
      /\ DOMAIN todo = 1..Len(todo) /\ Len(todo) \in Nat \ {0}
      /\ DOMAIN todo' = 1..Len(todo) - 1
      /\ \A i \in DOMAIN todo' : todo'[i] = todo[i + 1]
  BY <1>1, HeadTailProperties, LenProperties, EmptySeq
<1>3. Lines = Lines' \cup {url'}
  <2>1. Lines' \cup {url'} \subseteq Lines
    BY <1>2 DEF Lines
  <2>2. ASSUME NEW i \in DOMAIN todo, i # 1 PROVE todo[i] \in Lines'
    <3>1. i - 1 \in DOMAIN todo' /\ (i - 1) + 1 = i
      BY <1>2, <2>2
    <3> QED
      BY <1>2, <3>1 DEF Lines
  <2> QED
    BY <1>2, <2>1, <2>2 DEF Lines
<1>4. Preflight!Settled' = Preflight!Settled
  BY <1>3, CommitURLs DEF Preflight!Settled, Lines
<1>5. LinesLeft'
  <2>1. \A i, j \in DOMAIN todo' : todo'[i] = todo'[j] => i = j
    BY <1>2 DEF CheckInv, LinesLeft
  <2>2. \A i \in DOMAIN todo' : todo'[i] # url'
    BY <1>2 DEF CheckInv, LinesLeft
  <2> QED
    BY <2>1, <2>2 DEF LinesLeft, Lines
<1>6. Downloadable' = Downloadable
  BY DEF vars, Downloadable
<1>7. Preflight!TypeOK'
  BY <1>2, <1>4, <1>6 DEF CheckInv, Preflight!TypeOK
<1>8. Judged'
  BY <1>4, <1>6 DEF CheckInv, Judged
<1> QED
  BY <1>5, <1>7, <1>8 DEF CheckInv, ServerErrorIsRetried, Preflight!ServerErrorIsRetried

(* A check that ends: answered by 2xx, the archive is there; else reported. *)
LEMMA SettleKeeps ==
    ASSUME CheckInv, UNCHANGED vars, url # NoURL, UNCHANGED <<todo, verdict>>,
           NEW a \in Preflight!Possible(url), NEW passes \in Preflight!Answers,
           passes[Len(passes)] = a, passes[1] = "5xx" => Len(passes) = 2,
           Preflight!Settle(passes)
    PROVE  CheckInv'
<1> USE DEF Preflight!Settle
<1> DEFINE report == [url |-> url, answers |-> passes]
<1>1. url \in Preflight!URL /\ a \in Preflight!Answer
  BY DEF CheckInv, Preflight!TypeOK, Preflight!Possible
<1>2. Downloadable' = Downloadable
  BY DEF vars, Downloadable
<1>3. Preflight!Settled' = Preflight!Settled \cup {url} /\ url \notin Preflight!Settled
  BY <1>1, CommitURLs DEF CheckInv, LinesLeft, Lines, Preflight!Settled
<1>4. a = "2xx" => url \in Downloadable
  BY DEF Preflight!Possible
<1>5. failed' = IF a = "2xx" THEN failed ELSE failed \cup {report}
  BY <1>1 DEF Preflight!Code, Preflight!Answer
<1>6. Preflight!TypeOK'
  <2>1. failed' \subseteq [url : Preflight!Settled', answers : Preflight!Answers]
    BY <1>3, <1>5 DEF CheckInv, Preflight!TypeOK
  <2>2. \A f \in failed : f.url # url
    BY <1>3 DEF CheckInv, Preflight!TypeOK
  <2>3. \A f, g \in failed' : f.url = g.url => f = g
    BY <1>5, <2>2 DEF CheckInv, Preflight!TypeOK
  <2> QED
    BY <1>2, <2>1, <2>3 DEF CheckInv, Preflight!TypeOK
<1>7. LinesLeft'
  BY CommitURLs DEF CheckInv, LinesLeft, Lines, Preflight!TypeOK
<1>8. Judged'
  <2>1. \A f \in failed : f \in failed'
    BY <1>5
  <2>2. \A u \in Preflight!Settled : u \in Downloadable \/ \E f \in failed' : f.url = u
    BY <2>1 DEF CheckInv, Judged
  <2>3. url \in Downloadable \/ \E f \in failed' : f.url = url
    <3>1. CASE a = "2xx"
      BY <1>4, <3>1
    <3>2. CASE a # "2xx"
      <4>1. report \in failed' /\ report.url = url
        BY <1>5, <3>2
      <4> QED
        BY <4>1
    <3> QED
      BY <3>1, <3>2
  <2>4. verdict' # "sign"
    BY DEF CheckInv, Judged
  <2> QED
    BY <1>2, <1>3, <2>2, <2>3, <2>4 DEF Judged
<1>9. \A f \in failed' : f.answers[Len(f.answers)] # "2xx"
  BY <1>5 DEF CheckInv
<1>10. ServerErrorIsRetried'
  BY <1>5 DEF CheckInv, ServerErrorIsRetried, Preflight!ServerErrorIsRetried
<1> QED
  BY <1>6, <1>7, <1>8, <1>9, <1>10 DEF CheckInv

LEMMA FirstPassKeeps == CheckInv /\ UNCHANGED vars /\ Preflight!FirstPass => CheckInv'
<1> SUFFICES ASSUME CheckInv, UNCHANGED vars, Preflight!FirstPass PROVE CheckInv'
  OBVIOUS
<1>1. PICK a \in Preflight!Possible(url) :
        IF Preflight!Code(a) \in {<<"5xx">>, <<"000">>}
          THEN answers' = <<a>> /\ UNCHANGED <<url, failed>>
          ELSE Preflight!Settle(<<a>>)
  BY DEF Preflight!FirstPass
<1>2. a \in Preflight!Answer /\ url # NoURL /\ UNCHANGED <<todo, verdict>>
  BY DEF Preflight!Possible, Preflight!FirstPass
<1>3. CASE answers' = <<a>> /\ UNCHANGED <<url, failed>>
  <2>1. Downloadable' = Downloadable
    BY DEF vars, Downloadable
  <2>2. Preflight!Settled' = Preflight!Settled
    BY <1>2, <1>3 DEF Preflight!Settled
  <2>3. Preflight!TypeOK'
    BY <1>2, <1>3, <2>1, <2>2 DEF CheckInv, Preflight!TypeOK
  <2>4. LinesLeft' /\ Judged'
    BY <1>2, <1>3, <2>1, <2>2 DEF CheckInv, LinesLeft, Lines, Judged
  <2> QED
    BY <1>3, <2>3, <2>4 DEF CheckInv, ServerErrorIsRetried, Preflight!ServerErrorIsRetried
<1>4. CASE a # "5xx" /\ Preflight!Settle(<<a>>)
  <2>1. <<a>> \in Preflight!Answers /\ Len(<<a>>) = 1 /\ <<a>>[1] = a
    BY <1>2 DEF Preflight!Answers
  <2>2. <<a>>[Len(<<a>>)] = a /\ (<<a>>[1] = "5xx" => Len(<<a>>) = 2)
    BY <1>4, <2>1
  <2> QED
    BY <1>2, <1>4, <2>1, <2>2, SettleKeeps
<1>5. a = "5xx" => Preflight!Code(a) \in {<<"5xx">>, <<"000">>}
  BY DEF Preflight!Code
<1> QED
  BY <1>1, <1>3, <1>4, <1>5

LEMMA SecondPassKeeps == CheckInv /\ UNCHANGED vars /\ Preflight!SecondPass => CheckInv'
<1> SUFFICES ASSUME CheckInv, UNCHANGED vars, Preflight!SecondPass PROVE CheckInv'
  OBVIOUS
<1>1. PICK a \in Preflight!Possible(url) : Preflight!Settle(Append(answers, a))
  BY DEF Preflight!SecondPass
<1>2. a \in Preflight!Answer /\ url # NoURL /\ UNCHANGED <<todo, verdict>>
  BY DEF Preflight!Possible, Preflight!SecondPass
<1>3. PICK b \in Preflight!Answer : answers = <<b>>
  BY DEF CheckInv, Preflight!TypeOK, Preflight!SecondPass
<1>4. Append(answers, a) = <<b, a>>
  <2>1. <<b>> \in Seq({a, b}) /\ a \in {a, b} /\ Len(<<b>>) = 1
    OBVIOUS
  <2>2. /\ Append(<<b>>, a) \in Seq({a, b}) /\ Len(Append(<<b>>, a)) = 2
        /\ Append(<<b>>, a)[1] = b /\ Append(<<b>>, a)[2] = a
    BY <2>1, AppendProperties
  <2>3. <<b, a>> \in Seq({a, b}) /\ Len(<<b, a>>) = 2
        /\ <<b, a>>[1] = b /\ <<b, a>>[2] = a
    OBVIOUS
  <2>4. \A s, t \in Seq({a, b}) :
            Len(s) = 2 /\ Len(t) = 2 /\ s[1] = t[1] /\ s[2] = t[2] => s = t
    BY SeqEqual
  <2>5. Append(<<b>>, a) = <<b, a>>
    BY <2>2, <2>3, <2>4, Zenon
  <2> QED
    BY <1>3, <2>5
<1>5. <<b, a>> \in Preflight!Answers /\ Len(<<b, a>>) = 2 /\ <<b, a>>[2] = a
  BY <1>2, <1>3 DEF Preflight!Answers
<1>6. <<b, a>>[Len(<<b, a>>)] = a
  BY <1>5
<1> QED
  BY <1>1, <1>2, <1>4, <1>5, <1>6, SettleKeeps

LEMMA DecideKeeps == CheckInv /\ UNCHANGED vars /\ Preflight!Decide => CheckInv'
<1> SUFFICES ASSUME CheckInv, UNCHANGED vars, Preflight!Decide PROVE CheckInv'
  OBVIOUS
<1>1. Downloadable' = Downloadable
  BY DEF vars, Downloadable
<1>2. Preflight!Settled' = Preflight!Settled
  BY DEF Preflight!Decide, Preflight!Settled
<1>3. Preflight!TypeOK'
  BY <1>1, <1>2 DEF CheckInv, Preflight!TypeOK, Preflight!Decide
<1>4. LinesLeft' /\ Judged'
  BY <1>1, <1>2 DEF CheckInv, LinesLeft, Lines, Judged, Preflight!Decide
<1> QED
  BY <1>3, <1>4 DEF CheckInv, Preflight!Decide, ServerErrorIsRetried, Preflight!ServerErrorIsRetried

-----------------------------------------------------------------------------
(* Both together. *)

IInv == ArchivesInv /\ UploadsFit /\ CheckInv

(* The invariants are kept, and archives stay, in every step. *)
LEMMA NextInv == IInv /\ [PublishNext]_publishVars => IInv' /\ Permanent
<1> SUFFICES ASSUME IInv, [PublishNext]_publishVars PROVE IInv' /\ Permanent
  OBVIOUS
<1>1. CASE Archive(Next) \/ UNCHANGED publishVars
  <2>1. [Next]_vars /\ UNCHANGED checkVars
    BY <1>1 DEF Archive, publishVars
  <2>2. ArchivesInv' /\ UploadsFit' /\ Permanent
    BY <2>1, ArchivesNext, FitsNext, StepPermanent DEF IInv
  <2> QED
    BY <2>1, <2>2, UploadsKeepCheck DEF IInv
<1>2. CASE UNCHANGED vars /\ Preflight!Check
  <2>1. ArchivesInv' /\ UploadsFit' /\ Permanent
    BY <1>2, ArchivesNext, FitsNext, StepPermanent DEF IInv
  <2>2. CheckInv'
    BY <1>2, NextURLKeeps, FirstPassKeeps, SecondPassKeeps, DecideKeeps DEF IInv, Preflight!Check
  <2> QED
    BY <2>1, <2>2 DEF IInv
<1> QED
  BY <1>1, <1>2 DEF PublishNext

LEMMA Invariance == PublishSpec => []IInv
<1>1. PublishInit => IInv
  BY ArchivesInit, CheckInit DEF PublishInit, IInv, Init, UploadsFit
<1>2. IInv /\ [PublishNext]_publishVars => IInv'
  BY NextInv
<1> QED
  BY <1>1, <1>2, PTL DEF PublishSpec

-----------------------------------------------------------------------------
(* The theorems. *)

(* Publisher and preflight keep their types; a run uploads only files that  *)
(* are what the plan says, and a URL fails once (publish, Preflight skill   *)
(* archive URLs).                                                           *)
THEOREM PublishTypes == PublishSpec => []PublishTypeOK
<1>1. IInv => PublishTypeOK
  BY DEF IInv, ArchivesInv, CheckInv, PublishTypeOK
<1> QED
  BY <1>1, Invariance, PTL

(* A finished run has left its whole plan downloadable (publish: retries    *)
(* skip what matches, and conflicts end the run).                           *)
THEOREM DoneIsDownloadable == PublishSpec => []DoneMeansDownloadable
<1>1. IInv => DoneMeansDownloadable
  <2> SUFFICES ASSUME IInv, phase = "done", NEW i \in DOMAIN plan, NEW k \in DOMAIN plan[i].assets
               PROVE  /\ remote[plan[i].tag].state = "public"
                      /\ remote[plan[i].tag].assets[plan[i].assets[k].path]
                            = plan[i].assets[k].sha256
    BY DEF DoneMeansDownloadable
  <2>1. plan \in Seq([tag : Tag, assets : Seq(Entry)])
    BY ArchivesAssumption DEF IInv, ArchivesInv, TypeOK
  <2>2. i < at
    BY <2>1, LenProperties DEF IInv, ArchivesInv, PlansAhead, TypeOK
  <2> QED
    BY <2>2 DEF IInv, ArchivesInv, DoneBehind, Running, Entries
<1> QED
  BY <1>1, Invariance, PTL

(* A run never starts on a release what GitHub's limit would cut short: it   *)
(* counted what is held and what is pending, and only maintainers can take  *)
(* the room away meanwhile (the 1000-asset check before the uploads).       *)
THEOREM UploadsAlwaysFit == PublishSpec => []UploadsFit
<1>1. IInv => UploadsFit
  BY DEF IInv
<1> QED
  BY <1>1, Invariance, PTL

(* No archive of a public release is ever replaced, removed or hidden (gh   *)
(* release upload without --clobber).                                       *)
THEOREM ArchivesStay == PublishSpec => ArchivesArePermanent
<1>1. IInv /\ [PublishNext]_publishVars => [Permanent]_vars
  BY NextInv
<1>2. PublishSpec => [][Permanent]_vars
  BY <1>1, Invariance, PTL DEF PublishSpec
<1> QED
  BY <1>2 DEF ArchivesArePermanent, Permanent

(* A publish run signs only what can be downloaded, however many archives   *)
(* are uploaded while it checks, and refuses only what failed (Preflight    *)
(* skill archive URLs).                                                     *)
THEOREM VerdictFounded == PublishSpec => []VerdictIsFounded
<1>1. IInv => VerdictIsFounded
  BY DEF IInv, CheckInv, Judged, VerdictIsFounded, Preflight!VerdictIsFounded
<1> QED
  BY <1>1, Invariance, PTL

(* A server error alone never fails a publish (a first pass of code 5xx).  *)
THEOREM ServerErrorRetried == PublishSpec => []ServerErrorIsRetried
<1>1. IInv => ServerErrorIsRetried
  BY DEF IInv, CheckInv
<1> QED
  BY <1>1, Invariance, PTL
=============================================================================
