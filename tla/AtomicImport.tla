---------------------------- MODULE AtomicImport ----------------------------
(***************************************************************************)
(* What importing Unix sources promises: all allowlisted platforms of a    *)
(* manifest are replaced together, by the assets a release of that very    *)
(* version had at one moment, and nothing else changes.  How many requests *)
(* that takes, and what the upstream does meanwhile, is invisible.         *)
(***************************************************************************)
EXTENDS UnixSources

VARIABLES
    published, \* every set of assets a release has had so far
    manifests  \* the work tree

Init == published \subseteq Assets /\ manifests \in Tree

Upstream ==
    /\ published \subseteq published' /\ published' \subseteq Assets
    /\ UNCHANGED manifests

(* Windows tools add manifests, and refresh existing ones but for their     *)
(* Unix blocks.                                                             *)
Windows(p, v) ==
    LET new == manifests'[p][v] IN
    /\ new \in Manifest
    /\ manifests[p][v] # NoManifest => new.unix = manifests[p][v].unix
    /\ manifests' = [manifests EXCEPT ![p][v] = new]
    /\ UNCHANGED published

Import(r) ==
    LET old == manifests[r.package][r.version] IN
    /\ \A k \in Keys[r.package] : r.assets[k] # NoSource
    /\ ~Retains(old, r.package)
    /\ manifests' = [manifests EXCEPT ![r.package][r.version] =
            Imported(old, [k \in Platform |-> IF k \in Keys[r.package] THEN r.assets[k]
                                                                       ELSE NoSource])]
    /\ UNCHANGED published

Next ==
    \/ Upstream
    \/ \E p \in Package, v \in Version : Windows(p, v)
    \/ \E r \in published : Import(r)

Spec == Init /\ [][Next]_<<published, manifests>>
=============================================================================
