---------------------------- MODULE UnixSources ----------------------------
(***************************************************************************)
(* App manifests and their Unix source blocks, as tools/brew-import sees   *)
(* them: the work tree, its latest versions, and what merging verified     *)
(* sources into a manifest does.                                           *)
(***************************************************************************)
EXTENDS Naturals, FiniteSetsExt

CONSTANTS
    Package,
    Platform,   \* the Unix source keys, numbered in the order of their names
    Keys,       \* the platforms the allowlist names for each package
    MaxVersion, \* bound: versions of a package
    NoSource,   \* a platform without a source block, a release without an asset
    NoManifest  \* no file for that version

Version == 1..MaxVersion
None == [k \in Platform |-> NoSource]

(* A source block, like a payload, is the serial number of its upload. *)
Source == Nat \cup {NoSource}
Manifest == [win : Source, unix : [Platform -> Source]]
Tree == [Package -> [Version -> Manifest \cup {NoManifest}]]
Assets == [package : Package, version : Version, assets : [Platform -> Source]]

ASSUME SourcesAssumption ==
    /\ MaxVersion \in Nat \ {0}
    /\ Platform \subseteq Nat /\ Keys \in [Package -> SUBSET Platform]
    /\ NoSource \notin Nat /\ NoManifest \notin Manifest

Versions(tree, p) == {v \in Version : tree[p][v] # NoManifest}
Latest(tree, p) == Max(Versions(tree, p))

(* Replace the blocks of the verified platforms, keep everything else. *)
MergeUnix(manifest, verified) ==
    [win |-> manifest.win,
     unix |-> [k \in Platform |-> IF verified[k] = NoSource THEN manifest.unix[k]
                                                            ELSE verified[k]]]

NewUnixManifest(verified) == [win |-> NoSource, unix |-> verified]

Imported(manifest, verified) ==
    IF manifest = NoManifest THEN NewUnixManifest(verified)
                             ELSE MergeUnix(manifest, verified)

(* A block of a platform the allowlist does not name: never kept. *)
Retains(manifest, p) ==
    manifest # NoManifest /\ \E k \in Platform \ Keys[p] : manifest.unix[k] # NoSource

=============================================================================
