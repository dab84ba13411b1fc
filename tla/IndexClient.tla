---------------------------- MODULE IndexClient ----------------------------
(***************************************************************************)
(* A voli client updating its local index from the `index` release.  The   *)
(* client is not in this repository: the files it fetches are listed in    *)
(* publish.yml and its order of steps in the README section "Published     *)
(* index".  The assets are fetched one at a time while the publish         *)
(* workflow may be replacing them.                                         *)
(***************************************************************************)
EXTENDS Naturals

CONSTANTS
    Client,
    Pointer, Snapshot, Signature, \* index.json, index.sqlite.zst, index.sig
    NoBuild

VARIABLES
    release, \* assets of the release: only read here
    client   \* step, what was downloaded, and the local index

Build == [man : Nat, epoch : Nat]
Build0 == [man |-> 0, epoch |-> 0]
ClientState == [step : {"idle", "snapshot", "signature"},
                ptr : Build, snap : Build, local : Build]

ClientInit ==
    client = [c \in Client |-> [step |-> "idle", ptr |-> Build0,
                                snap |-> Build0, local |-> Build0]]

(* A build's snapshot is a function of its manifests: equal generations     *)
(* have equal hashes and each other's signature.                           *)
SameContent(b1, b2) == b1 # NoBuild /\ b2 # NoBuild /\ b1.man = b2.man

(* Fetch index.json; go on only if it announces a later epoch. *)
Poll(c) ==
    /\ client[c].step = "idle"
    /\ release[Pointer] # NoBuild
    /\ release[Pointer].epoch > client[c].local.epoch
    /\ client' = [client EXCEPT ![c].step = "snapshot",
                                ![c].ptr = release[Pointer]]
    /\ UNCHANGED release

(* Any failing step leaves the local index as it is. *)
Abandon(c) ==
    /\ client[c].step # "idle"
    /\ client' = [client EXCEPT ![c].step = "idle"]
    /\ UNCHANGED release

\* Mutant: whatever the server sends is taken for the snapshot.
FetchSnapshotUnchecked(c) ==
    /\ client[c].step = "snapshot"
    /\ client' = [client EXCEPT ![c].step = "signature",
                                ![c].snap = release[Snapshot]]
    /\ UNCHANGED release

(* Download the snapshot; its size and hash must be the pointer's. *)
FetchSnapshot(c) ==
    /\ client[c].step = "snapshot"
    /\ SameContent(release[Snapshot], client[c].ptr)
    /\ client' = [client EXCEPT ![c].step = "signature",
                                ![c].snap = release[Snapshot]]
    /\ UNCHANGED release

(* Download the signature, verify the snapshot with it, swap atomically. *)
FetchSignature(c) ==
    /\ client[c].step = "signature"
    /\ SameContent(release[Signature], client[c].snap)
    /\ client' = [client EXCEPT
                    ![c].step = "idle",
                    ![c].local = [man |-> client[c].snap.man,
                                  epoch |-> client[c].ptr.epoch]]
    /\ UNCHANGED release

ClientStep(c) ==
    Poll(c) \/ Abandon(c) \/ FetchSnapshot(c) \/ FetchSignature(c)
=============================================================================
