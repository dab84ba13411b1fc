--------------------------- MODULE IndexDelivery ---------------------------
(***************************************************************************)
(* The publish workflow and the clients that update from the release while *)
(* its assets are being replaced; the whole implements IndexRegister.      *)
(***************************************************************************)
EXTENDS PublishIndex

CONSTANTS Client, Pointer, Snapshot, Signature

ASSUME DeliveryAssumption == {Pointer, Snapshot, Signature} \subseteq Asset

VARIABLES
    client,
    signed  \* history: the builds signed so far

vars == <<pubVars, client, signed>>

C == INSTANCE IndexClient WITH release <- release, client <- client

DeliveryInit == Init /\ C!ClientInit /\ signed = {Build0}

(* A publish step; the sign job's build joins the history. *)
PublishStep ==
    /\ Next
    /\ signed' = IF epoch' # epoch THEN signed \cup {run'.dist} ELSE signed
    /\ UNCHANGED client

(* C!ClientStep leaves the release alone, and with it every other variable. *)
ReaderStep(c) ==
    /\ C!ClientStep(c)
    /\ UNCHANGED <<main, groupVars, jobVars, epoch, manualVars, signed>>

DeliveryNext == PublishStep \/ \E c \in Client : ReaderStep(c)

(* Clients poll, and are not cut off on every single attempt. *)
ClientFairness ==
    \A c \in Client :
        /\ WF_vars(ReaderStep(c) /\ C!Poll(c))
        /\ WF_vars(ReaderStep(c) /\ C!Abandon(c))
        /\ SF_vars(ReaderStep(c) /\ C!FetchSnapshot(c))
        /\ SF_vars(ReaderStep(c) /\ C!FetchSignature(c))

PublishFairness == WF_vars(PublishStep /\ Step)

DeliverySafety == DeliveryInit /\ [][DeliveryNext]_vars
DeliverySpec == DeliverySafety /\ PublishFairness /\ ClientFairness

-----------------------------------------------------------------------------
local == [c \in Client |-> client[c].local]

Register == INSTANCE IndexRegister WITH signed <- signed, local <- local

(* Whatever mix of old, new and missing assets a client finds, and even     *)
(* when a re-run puts an older build back on the release, it installs only  *)
(* complete signed builds of ever later epochs (README, "Published index"). *)
ImplementsRegister == Register!Spec

DeliveryTypeOK == TypeOK /\ client \in [Client -> C!ClientState] /\ signed \subseteq Build

(* Everything that can reach a client is signed: the assets, the builds of  *)
(* the running, queued and re-runnable runs, and what a client holds.       *)
OnlySigned ==
    /\ Build0 \in signed /\ \A b \in signed : b.epoch <= epoch
    /\ \A a \in Asset : release[a] \in signed \cup {NoBuild}
    /\ \A r \in (failed \cup {run, pending}) \ {NoRun} : r.dist \in signed \cup {NoBuild}
    /\ \A c \in Client : client[c].ptr \in signed

(* A client between two downloads is on its way to a later build, and has   *)
(* compared the snapshot with the pointer.                                  *)
DownloadsFit ==
    \A c \in Client :
        /\ client[c].step # "idle" => client[c].ptr.epoch > client[c].local.epoch
        /\ client[c].step = "signature" => client[c].snap.man = client[c].ptr.man

DeliveryInv == DeliveryTypeOK /\ OnlySigned /\ DownloadsFit

(* Once publishing has settled on a green run, every client gets the index  *)
(* of main's manifests: an update interrupted by the replacement of the     *)
(* assets is not stuck between two builds.  A re-run of older manifests is  *)
(* excepted.                                                                *)
ClientsCatchUp ==
    <>[](Quiet /\ last = "success" /\ outdated = 0) =>
        <>[](\A c \in Client : client[c].local.man = main.man)
=============================================================================
