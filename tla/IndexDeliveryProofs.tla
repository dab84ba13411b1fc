------------------------ MODULE IndexDeliveryProofs ------------------------
(***************************************************************************)
(* Publishing and updating clients implement IndexRegister, for any number *)
(* of clients, merges and runs, and also when runs are re-run.             *)
(***************************************************************************)
EXTENDS IndexDelivery, PublishIndexProofs

LEMMA DeliveryInitInv == DeliveryInit => DeliveryInv
<1> SUFFICES ASSUME DeliveryInit PROVE DeliveryInv
  OBVIOUS
<1>1. DeliveryTypeOK
  BY TypeInit DEF DeliveryInit, DeliveryTypeOK, C!ClientInit, C!ClientState, C!Build,
     C!Build0, Build, Build0
<1>2. OnlySigned
  BY PublishAssumption DEF DeliveryInit, Init, OnlySigned, C!ClientInit, C!Build0, Build0
<1>3. DownloadsFit
  BY DEF DeliveryInit, DownloadsFit, C!ClientInit
<1> QED
  BY <1>1, <1>2, <1>3 DEF DeliveryInv

(* What a publish step may do to the variables the clients depend on. *)
LEMMA PublishKeepsSigned ==
    ASSUME DeliveryInv, PublishStep
    PROVE  /\ epoch' >= epoch
           /\ signed \subseteq signed'
           /\ OnlySigned'
<1> USE PublishAssumption DEF DeliveryInv, DeliveryTypeOK, TypeOK, OnlySigned, Build, Request
<1>1. CASE Sign
  <2>1. run'.dist = [man |-> run.man, epoch |-> epoch + 1] /\ epoch' = epoch + 1
    BY <1>1 DEF Sign
  <2>2. signed' = signed \cup {run'.dist}
    BY <2>1 DEF PublishStep
  <2> QED
    BY <1>1, <2>1, <2>2 DEF PublishStep, Sign, repoVars, groupVars
<1>2. CASE ~Sign
  <2>1. epoch' = epoch /\ signed' = signed
    BY <1>2 DEF PublishStep, Next, Step, MergeManifests, MergeOther, Dispatch, Rerun, Start,
       DeleteAsset, UploadAsset, Uploaded, Fetch, PushLands, PushFails, Fail
  <2>2. \A a \in Asset : release'[a] \in signed \cup {NoBuild}
    BY <1>2 DEF PublishStep, Next, Step, MergeManifests, MergeOther, Dispatch, Rerun, Start,
       DeleteAsset, UploadAsset, Uploaded, Fetch, PushLands, PushFails, Fail, repoVars
  <2>3. \A r \in (failed' \cup {run', pending'}) \ {NoRun} : r.dist \in signed \cup {NoBuild}
    BY <1>2 DEF PublishStep, Next, Step, MergeManifests, MergeOther, Dispatch, Rerun, Start,
       DeleteAsset, UploadAsset, Uploaded, Fetch, PushLands, PushFails, Fail, Queue,
       Conclude, Retry, jobVars, groupVars
  <2> QED
    BY <2>1, <2>2, <2>3 DEF PublishStep
<1> QED
  BY <1>1, <1>2
-----------------------------------------------------------------------------
LEMMA PublishKeepsInv == ASSUME DeliveryInv, PublishStep PROVE DeliveryInv'
<1>1. TypeOK'
  BY TypeStep DEF DeliveryInv, DeliveryTypeOK, PublishStep
<1>2. OnlySigned'
  BY PublishKeepsSigned
<1>3. signed' \subseteq Build
  <2>1. CASE epoch' # epoch
    <3>1. run'.dist \in Build
      BY <2>1, <1>1 DEF PublishStep, Next, Step, Sign, MergeManifests, MergeOther, Dispatch,
         Rerun, Start, DeleteAsset, UploadAsset, Uploaded, Fetch, PushLands, PushFails,
         Fail, TypeOK
    <3> QED
      BY <3>1 DEF PublishStep, DeliveryInv, DeliveryTypeOK
  <2> QED
    BY <2>1 DEF PublishStep, DeliveryInv, DeliveryTypeOK
<1> QED
  BY <1>1, <1>2, <1>3 DEF PublishStep, DeliveryInv, DeliveryTypeOK, DownloadsFit

(* What a client's step does to its own record. *)
LEMMA ReaderEffect ==
    ASSUME DeliveryInv, NEW c \in Client, ReaderStep(c)
    PROVE  /\ \A d \in Client \ {c} : client'[d] = client[d]
           /\ client'[c] \in C!ClientState
           /\ client'[c].ptr \in signed
           /\ client'[c].step # "idle" => client'[c].ptr.epoch > client'[c].local.epoch
           /\ client'[c].step = "signature" => client'[c].snap.man = client'[c].ptr.man
           /\ \/ client'[c].local = client[c].local
              \/ /\ client'[c].local \in signed
                 /\ client'[c].local.epoch > client[c].local.epoch
<1> USE DeliveryAssumption, PublishAssumption DEF DeliveryInv, DeliveryTypeOK, OnlySigned,
        DownloadsFit, C!ClientState, C!Build, Build, TypeOK
<1>1. CASE C!Poll(c)
  BY <1>1 DEF C!Poll
<1>2. CASE C!Abandon(c)
  <2>1. client'[c].step = "idle" /\ client'[c].local = client[c].local
        /\ client'[c].ptr = client[c].ptr /\ client'[c].snap = client[c].snap
    BY <1>2 DEF C!Abandon
  <2>2. client'[c] \in C!ClientState /\ \A d \in Client \ {c} : client'[d] = client[d]
    BY <1>2 DEF C!Abandon
  <2> QED
    BY <2>1, <2>2
<1>3. CASE C!FetchSnapshot(c)
  BY <1>3 DEF C!FetchSnapshot, C!SameContent
<1>4. CASE C!FetchSignature(c)
  <2>1. client[c].ptr = [man |-> client[c].snap.man, epoch |-> client[c].ptr.epoch]
    BY <1>4 DEF C!FetchSignature
  <2>2. client'[c].local = client[c].ptr /\ client'[c].ptr = client[c].ptr
    BY <1>4, <2>1 DEF C!FetchSignature
  <2> QED
    BY <1>4, <2>1, <2>2 DEF C!FetchSignature
<1> QED
  BY <1>1, <1>2, <1>3, <1>4 DEF ReaderStep, C!ClientStep

LEMMA ReaderKeepsInv ==
    ASSUME DeliveryInv, NEW c \in Client, ReaderStep(c) PROVE DeliveryInv'
<1>1. client' \in [Client -> C!ClientState]
  BY ReaderEffect DEF DeliveryInv, DeliveryTypeOK, ReaderStep, C!ClientStep, C!Poll,
     C!Abandon, C!FetchSnapshot, C!FetchSignature
<1>2. UNCHANGED <<pubVars, signed>>
  BY DEF ReaderStep, C!ClientStep, C!Poll, C!Abandon, C!FetchSnapshot, C!FetchSignature,
     pubVars, repoVars
<1>3. TypeOK'
  BY <1>2, TypeStep DEF DeliveryInv, DeliveryTypeOK
<1>4. OnlySigned' /\ DownloadsFit'
  BY <1>2, ReaderEffect DEF DeliveryInv, OnlySigned, DownloadsFit, pubVars, repoVars,
     groupVars, jobVars
<1> QED
  BY <1>1, <1>2, <1>3, <1>4 DEF DeliveryInv, DeliveryTypeOK

LEMMA DeliveryInvariance == DeliverySafety => []DeliveryInv
<1>1. ASSUME DeliveryInv, [DeliveryNext]_vars PROVE DeliveryInv'
  <2>1. CASE UNCHANGED vars
    <3>1. TypeOK'
      BY <1>1, <2>1, TypeStep DEF vars, DeliveryInv, DeliveryTypeOK
    <3> QED
      BY <1>1, <2>1, <3>1 DEF vars, pubVars, repoVars, groupVars, jobVars, DeliveryInv,
         DeliveryTypeOK, OnlySigned, DownloadsFit
  <2> QED
    BY <1>1, <2>1, PublishKeepsInv, ReaderKeepsInv DEF DeliveryNext
<1> QED
  BY <1>1, DeliveryInitInv, PTL DEF DeliverySafety

(* A sign job is an abstract Sign; every other publish step is invisible. *)
LEMMA PublishRefines ==
    ASSUME DeliveryInv, PublishStep
    PROVE  Register!Sign \/ UNCHANGED <<signed, local>>
<1>1. local' = local
  BY DEF PublishStep, local
<1>2. CASE epoch' # epoch
  <2>1. run'.dist \in signed' /\ run'.dist.epoch = epoch + 1 /\ run'.dist \in Build
    BY <1>2, PublishKeepsInv DEF PublishStep, Next, Step, Sign, MergeManifests, MergeOther,
       Dispatch, Rerun, Start, DeleteAsset, UploadAsset, Uploaded, Fetch, PushLands,
       PushFails, Fail, DeliveryInv, DeliveryTypeOK, TypeOK, Request, Build
  <2>2. \A s \in signed : s.epoch < run'.dist.epoch
    BY <2>1 DEF DeliveryInv, DeliveryTypeOK, OnlySigned, TypeOK, Build
  <2> QED
    BY <1>1, <1>2, <2>1, <2>2 DEF PublishStep, Register!Sign, Register!Build, Build
<1> QED
  BY <1>1, <1>2 DEF PublishStep

(* A verified download is an abstract Install, every other client step      *)
(* invisible.                                                               *)
LEMMA ReaderRefines ==
    ASSUME DeliveryInv, NEW c \in Client, ReaderStep(c)
    PROVE  (\E b \in signed : Register!Install(c, b)) \/ UNCHANGED <<signed, local>>
<1>1. signed' = signed
  BY DEF ReaderStep
<1>2. \A d \in Client \ {c} : local'[d] = local[d]
  BY ReaderEffect DEF local
<1>3. local \in [Client -> Build] /\ local' \in [Client -> Build]
  BY ReaderKeepsInv DEF local, DeliveryInv, DeliveryTypeOK, C!ClientState, C!Build, Build
<1>4. CASE client'[c].local = client[c].local
  <2>1. \A d \in Client : local'[d] = local[d]
    BY <1>2, <1>4 DEF local
  <2> QED
    BY <1>1, <1>3, <2>1
<1>5. CASE client'[c].local \in signed /\ client'[c].local.epoch > client[c].local.epoch
  <2>1. local' = [local EXCEPT ![c] = client'[c].local]
    BY <1>2, <1>3 DEF local
  <2>2. local[c] = client[c].local
    BY DEF local
  <2> QED
    BY <1>1, <1>5, <2>1, <2>2 DEF Register!Install
<1> QED
  BY <1>4, <1>5, ReaderEffect

(* Whatever clients read while the assets are replaced, every local index   *)
(* is a whole signed build and its epochs only grow.                        *)
THEOREM DeliveryImplementsRegister == DeliverySafety => ImplementsRegister
<1>1. DeliveryInit => Register!Init
  BY DEF DeliveryInit, Register!Init, Register!Build0, Build0, local, C!ClientInit, C!Build0
<1>2. ASSUME DeliveryInv, [DeliveryNext]_vars
      PROVE  [Register!Next]_<<signed, local>>
  <2>1. CASE UNCHANGED vars
    BY <2>1 DEF vars, local
  <2>2. CASE PublishStep
    BY <1>2, <2>2, PublishRefines DEF Register!Next
  <2>3. ASSUME NEW c \in Client, ReaderStep(c)
        PROVE  [Register!Next]_<<signed, local>>
    BY <1>2, <2>3, ReaderRefines DEF Register!Next
  <2> QED
    BY <1>2, <2>1, <2>2, <2>3 DEF DeliveryNext
<1> QED
  BY <1>1, <1>2, DeliveryInvariance, PTL DEF DeliverySafety, ImplementsRegister, Register!Spec

(* Publisher, clients and the history of signed builds keep their types: a  *)
(* client never holds a build that is half replaced, whatever it reads      *)
(* while publish.yml replaces the assets.                                   *)
THEOREM DeliveryTypes == DeliverySafety => []DeliveryTypeOK
<1>1. DeliveryInv => DeliveryTypeOK
  BY DEF DeliveryInv
<1> QED
  BY <1>1, DeliveryInvariance, PTL
=============================================================================
