------------------------- MODULE PublishIndexProofs -------------------------
(***************************************************************************)
(* Proofs about the publish workflow, for any set of assets and any number *)
(* of merges, manual runs and push attempts.                               *)
(***************************************************************************)
EXTENDS PublishIndex, TLAPS

(* Cases of [Next]_pubVars, in the order the proofs treat them. *)
LEMMA TypeInit == Init => TypeOK
BY PublishAssumption DEF Init, TypeOK, Tip, Build, Build0, Request

LEMMA TypeStep == TypeOK /\ [Next]_pubVars => TypeOK'
<1> SUFFICES ASSUME TypeOK, [Next]_pubVars PROVE TypeOK'
  OBVIOUS
<1> USE PublishAssumption DEF TypeOK, Tip, Build, Request, manualVars
<1>1. CASE MergeManifests
  <2>1. main' \in Tip
    BY <1>1 DEF MergeManifests
  <2>2. pending' \in Request
    BY <1>1 DEF MergeManifests, Queue
  <2> QED
    BY <1>1, <2>1, <2>2 DEF MergeManifests, jobVars
<1>2. ASSUME NEW matches \in BOOLEAN, MergeOther(matches) PROVE TypeOK'
  BY <1>2 DEF MergeOther, Queue, jobVars
<1>3. CASE Dispatch
  BY <1>3 DEF Dispatch, Queue, jobVars, repoVars
<1>4. ASSUME NEW r \in failed, NEW all \in BOOLEAN, Rerun(r, all) PROVE TypeOK'
  BY <1>4 DEF Rerun, Queue, jobVars, repoVars
<1>5. CASE Start
  BY <1>5 DEF Start, Idle, repoVars
<1>6. CASE Sign
  BY <1>6 DEF Sign, repoVars, groupVars
<1>7. ASSUME NEW a \in Asset, DeleteAsset(a) PROVE TypeOK'
  BY <1>7 DEF DeleteAsset, groupVars, jobVars
<1>8. ASSUME NEW a \in Asset, UploadAsset(a) PROVE TypeOK'
  BY <1>8 DEF UploadAsset, groupVars
<1>9. CASE Uploaded
  BY <1>9 DEF Uploaded, repoVars, groupVars
<1>10. CASE Fetch
  BY <1>10 DEF Fetch, Conclude, repoVars
<1>11. ASSUME NEW answered \in BOOLEAN, PushLands(answered) PROVE TypeOK'
  BY <1>11 DEF PushLands, Retry, Conclude
<1>12. CASE PushFails
  BY <1>12 DEF PushFails, Retry, Conclude, repoVars
<1>13. CASE Fail
  BY <1>13 DEF Fail, Conclude, repoVars
<1>14. CASE UNCHANGED pubVars
  BY <1>14 DEF pubVars, repoVars, groupVars, jobVars
<1> QED
  BY <1>1, <1>2, <1>3, <1>4, <1>5, <1>6, <1>7, <1>8, <1>9, <1>10, <1>11,
     <1>12, <1>13, <1>14 DEF Next, Step

(* The state of the publish workflow always has the declared types. *)
THEOREM TypeCorrect == Spec => []TypeOK
BY TypeInit, TypeStep, PTL DEF Spec
-----------------------------------------------------------------------------
(* Until a run of older manifests is re-run: PublishInv. *)

LEMMA InvInit == Init => PublishInv
BY PublishAssumption DEF Init, PublishInv, RunsFollowMain, ReleaseFollowsRun,
   GreenMeansPublished, Quiet, Idle, Build0, Build

(* A merge, a dispatch or the re-run of a run that is not outdated queues a *)
(* run for main's manifests: the release may lag behind main, but never     *)
(* quietly.                                                                 *)
LEMMA EventKeepsInv ==
    ASSUME TypeOK, PublishInv,
           \/ MergeManifests \/ Dispatch
           \/ \E matches \in BOOLEAN : MergeOther(matches)
           \/ \E r \in failed, all \in BOOLEAN : Rerun(r, all)
    PROVE  PublishInv'
<1> USE PublishAssumption DEF TypeOK, Tip, Build, Request, manualVars, PublishInv, RunsFollowMain,
        ReleaseFollowsRun, GreenMeansPublished, Quiet, Idle
<1>1. CASE MergeManifests
  <2>1. pending' # NoRun /\ pending'.man = main'.man /\ pending'.dist = NoBuild
    BY <1>1, TypeStep DEF Next, MergeManifests, Queue
  <2> QED
    BY <1>1, <2>1 DEF MergeManifests, jobVars
<1>2. ASSUME NEW matches \in BOOLEAN, MergeOther(matches) PROVE PublishInv'
  BY <1>2 DEF MergeOther, Queue, jobVars
<1>3. CASE Dispatch
  BY <1>3 DEF Dispatch, Queue, jobVars, repoVars
<1>4. ASSUME NEW r \in failed, NEW all \in BOOLEAN, Rerun(r, all) PROVE PublishInv'
  <2>1. CASE r.man # main.man
    BY <1>4, <2>1 DEF Rerun, Queue
  <2>2. CASE r.man = main.man
    <3>1. /\ pending' # NoRun /\ pending'.man = main.man
          /\ pending'.dist = NoBuild \/ pending'.dist = r.dist
      BY <1>4, <2>2 DEF Rerun, Queue
    <3>2. outdated' = outdated /\ failed' \subseteq failed
      BY <1>4, <2>2 DEF Rerun
    <3> QED
      BY <1>4, <2>2, <3>1, <3>2 DEF Rerun, jobVars, repoVars
  <2> QED
    BY <2>1, <2>2
<1> QED
  BY <1>1, <1>2, <1>3, <1>4

(* The steps of a run. *)
LEMMA StepKeepsInv ==
    ASSUME TypeOK, PublishInv, Step PROVE PublishInv'
<1> USE PublishAssumption DEF TypeOK, Tip, Build, Request, manualVars, PublishInv, RunsFollowMain,
        ReleaseFollowsRun, GreenMeansPublished, Quiet, Idle
<1>1. CASE Start
  BY <1>1 DEF Start, repoVars
<1>2. CASE Sign
  <2>1. run'.man = run.man /\ run'.dist.man = run.man
    BY <1>2 DEF Sign
  <2> QED
    BY <1>2, <2>1 DEF Sign, repoVars, groupVars
<1>3. ASSUME NEW a \in Asset, DeleteAsset(a) PROVE PublishInv'
  BY <1>3 DEF DeleteAsset, groupVars, jobVars
<1>4. ASSUME NEW a \in Asset, UploadAsset(a) PROVE PublishInv'
  BY <1>4 DEF UploadAsset, groupVars
<1>5. CASE Uploaded
  BY <1>5 DEF Uploaded, repoVars, groupVars
<1>6. CASE Fetch
  BY <1>6 DEF Fetch, Conclude, repoVars
<1>7. ASSUME NEW answered \in BOOLEAN, PushLands(answered) PROVE PublishInv'
  BY <1>7 DEF PushLands, Retry, Conclude
<1>8. CASE PushFails
  BY <1>8 DEF PushFails, Retry, Conclude, repoVars
<1>9. CASE Fail
  BY <1>9 DEF Fail, Conclude, repoVars
<1> QED
  BY <1>1, <1>2, <1>3, <1>4, <1>5, <1>6, <1>7, <1>8, <1>9 DEF Step

LEMMA Invariance == Spec => [](TypeOK /\ PublishInv)
<1>1. Init => TypeOK /\ PublishInv
  BY TypeInit, InvInit
<1>2. ASSUME TypeOK, PublishInv, [Next]_pubVars PROVE PublishInv'
  <2>1. CASE Step
    BY <1>2, <2>1, StepKeepsInv
  <2>2. CASE UNCHANGED pubVars
    BY <1>2, <2>2 DEF pubVars, repoVars, groupVars, jobVars, manualVars, PublishInv, RunsFollowMain,
       ReleaseFollowsRun, GreenMeansPublished, Quiet, Idle
  <2> QED
    BY <1>2, <2>1, <2>2, EventKeepsInv DEF Next
<1> QED
  BY <1>1, <1>2, TypeStep, PTL DEF Spec

(* Until older manifests are re-run, a quiet and green workflow has         *)
(* published main's manifests, whole, on the release and on the website,    *)
(* however merges, replaced runs, failures, re-runs and rejected pushes     *)
(* interleaved.                                                             *)
THEOREM GreenIsPublished == Spec => []GreenMeansPublished
<1>1. PublishInv => GreenMeansPublished
  BY DEF PublishInv
<1> QED
  BY <1>1, Invariance, PTL

(* Until older manifests are re-run, the website never lists manifests that *)
(* the index lacks.                                                         *)
THEOREM WebsiteFollows == Spec => []WebsiteNotAhead
<1>1. PublishInv => WebsiteNotAhead
  BY DEF PublishInv, ReleaseFollowsRun, WebsiteNotAhead
<1> QED
  BY <1>1, Invariance, PTL

-----------------------------------------------------------------------------
(* Re-runs included: what the running run has uploaded, and what a green    *)
(* run leaves behind.                                                       *)
Uploads ==
    /\ phase = "sign" => todo = Asset
    /\ phase = "upload" => \A a \in Asset \ todo : release[a] = run.dist
    /\ phase \in {"fetch", "push"} => \A a \in Asset : release[a] = run.dist

WholeInv == Uploads /\ GreenIsWhole

LEMMA WholeStep ==
    ASSUME TypeOK, WholeInv, [Next]_pubVars PROVE WholeInv'
<1> USE PublishAssumption DEF TypeOK, Tip, Build, Request, manualVars, WholeInv, Uploads, GreenIsWhole, Idle
<1>1. CASE MergeManifests \/ Dispatch
  BY <1>1 DEF MergeManifests, Dispatch, Queue, jobVars, repoVars
<1>2. ASSUME NEW matches \in BOOLEAN, MergeOther(matches) PROVE WholeInv'
  BY <1>2 DEF MergeOther, jobVars
<1>3. ASSUME NEW r \in failed, NEW all \in BOOLEAN, Rerun(r, all) PROVE WholeInv'
  BY <1>3 DEF Rerun, jobVars, repoVars
<1>4. CASE Start
  BY <1>4 DEF Start, repoVars
<1>5. CASE Sign
  BY <1>5 DEF Sign, repoVars, groupVars
<1>6. ASSUME NEW a \in Asset, DeleteAsset(a) \/ UploadAsset(a) PROVE WholeInv'
  BY <1>6 DEF DeleteAsset, UploadAsset, groupVars, jobVars
<1>7. CASE Uploaded
  BY <1>7 DEF Uploaded, repoVars, groupVars
<1>8. CASE Fetch
  BY <1>8 DEF Fetch, Conclude, repoVars
<1>9. ASSUME NEW answered \in BOOLEAN, PushLands(answered) PROVE WholeInv'
  BY <1>9 DEF PushLands, Retry, Conclude
<1>10. CASE PushFails \/ Fail
  BY <1>10 DEF PushFails, Fail, Retry, Conclude, repoVars
<1>11. CASE UNCHANGED pubVars
  BY <1>11 DEF pubVars, repoVars, groupVars, jobVars
<1> QED
  BY <1>1, <1>2, <1>3, <1>4, <1>5, <1>6, <1>7, <1>8, <1>9, <1>10, <1>11 DEF Next, Step

(* Whatever failed, was replaced or was re-run before: a green run leaves   *)
(* one complete build on the release and its manifests on the website.      *)
THEOREM GreenLeavesWhole == Spec => []GreenIsWhole
<1>1. Init => WholeInv
  BY PublishAssumption DEF Init, WholeInv, Uploads, GreenIsWhole, Build0, Build, Idle
<1>2. WholeInv => GreenIsWhole
  BY DEF WholeInv
<1> QED
  BY <1>1, <1>2, TypeCorrect, WholeStep, PTL DEF Spec

(* No run, re-run or not, takes a merge out of main. *)
THEOREM MergesAreKept == Spec => MainKeepsMerges
<1>1. ASSUME TypeOK, [Next]_pubVars
      PROVE  main'.merges >= main.merges /\ main'.man >= main.man
  <2> USE PublishAssumption DEF TypeOK, Tip, Build, Request
  <2>1. CASE MergeManifests
    BY <1>1, <2>1 DEF MergeManifests
  <2>2. ASSUME NEW matches \in BOOLEAN, MergeOther(matches)
        PROVE  main'.merges >= main.merges /\ main'.man >= main.man
    BY <1>1, <2>2 DEF MergeOther
  <2>3. ASSUME NEW answered \in BOOLEAN, PushLands(answered)
        PROVE  main'.merges >= main.merges /\ main'.man >= main.man
    BY <1>1, <2>3 DEF PushLands
  <2>4. UNCHANGED main => main'.merges >= main.merges /\ main'.man >= main.man
    BY <1>1
  <2> QED
    BY <1>1, <2>1, <2>2, <2>3, <2>4 DEF Next, Step, Dispatch, Rerun, Start, Sign, DeleteAsset,
       UploadAsset, Uploaded, Fetch, PushFails, Fail, pubVars, repoVars
<1> QED
  BY <1>1, TypeCorrect, PTL DEF Spec, MainKeepsMerges
=============================================================================
