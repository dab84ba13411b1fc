----------------------------- MODULE UnixVerify -----------------------------
(***************************************************************************)
(* What the gates of tools/brew-import establish about the payloads of one *)
(* package: the importer gates a release before it writes blocks, and      *)
(* tools.yml's legs gate the latest manifest's payload of their own        *)
(* platform.  Between the two, Scoop refreshes that manifest and upstream  *)
(* serves what it likes.  Commits are made while the legs are idle; legs   *)
(* that run are those of the last commit.                                  *)
(***************************************************************************)
EXTENDS ScoopConvert, FiniteSets

CONSTANTS
    Bucket,     \* what Scoop may say of the package
    Payload,    \* what its release assets may contain
    Allowlists, \* what the allowlist may say of it over time
    Leg,        \* the platforms tools.yml has a runner of
    Root,       \* the top of an unpacked payload
    NoManifest, NoFile, NoBlock, NoPayload

Key == [os : {"linux", "macos"}, cpu : {"x64", "arm64"}]

(* A binary: an ELF or Mach-O file, for a CPU; its references to a package  *)
(* manager's prefix, if any, are where the parsers look or elsewhere.       *)
Binary == [format : {"elf", "macho", "other"}, cpu : {"x64", "arm64"},
           prefix : {"none", "seen", "unseen"}, exits0 : BOOLEAN]

Place == (Dir \cup {Root}) \X Path

(* An archive: its visible top directories, and the files that are bins.    *)
IsPayload(p) ==
    p.tops \subseteq Dir /\ DOMAIN p.at \subseteq Place /\ Range(p.at) \subseteq Binary

(* An allowlist entry names platforms, whose wrapper directory it may pin,  *)
(* and binaries.                                                            *)
IsEntry(a) ==
    /\ a = [assets |-> a.assets, bin |-> a.bin]
    /\ DOMAIN a.assets \subseteq Key /\ DOMAIN a.assets # {}
    /\ Range(a.assets) \subseteq Dir \cup {Absent}
    /\ a.bin \in Seq(Path) /\ a.bin # <<>>

(* gated, kept for the properties: the bins the entry named at the import.  *)
Block == [payload : Payload, dir : Dir \cup {Root}, gated : Seq(Path)]

ASSUME VerifyAssumption ==
    /\ \A f \in Bucket : IsScoopFile(f)
    /\ \A p \in Payload : IsPayload(p)
    /\ Allowlists # {} /\ \A a \in Allowlists : IsEntry(a)
    /\ Leg \subseteq Key /\ Root \notin Dir
    /\ NoBlock \notin Block /\ NoPayload \notin Payload /\ NoFile \notin Bucket

VARIABLES
    manifest,  \* of the latest version: its conversion, the file it is of, its bins
               \* and its blocks
    allowlist, \* the package's entry
    legs,      \* per leg: its result, and the payload it executed
    privileged \* payloads executed by a job that can write to the repository

vars == <<manifest, allowlist, legs, privileged>>

NoBlocks == [k \in Key |-> NoBlock]
Idle == [h \in Leg |-> [result |-> "idle", ran |-> NoPayload]]

Init ==
    /\ manifest = NoManifest /\ allowlist \in Allowlists
    /\ legs = Idle /\ privileged = {}

-----------------------------------------------------------------------------
(* The gates. *)

Pins == allowlist.assets
AllowBins == allowlist.bin

(* Flat if every bin is at the top; else one visible top directory that has *)
(* them all.                                                                *)
Detected(payload) ==
    {d \in {Root} \cup payload.tops :
        /\ \A i \in DOMAIN AllowBins : <<d, AllowBins[i]>> \in DOMAIN payload.at
        /\ d # Root => \E i \in DOMAIN AllowBins : <<Root, AllowBins[i]>> \notin DOMAIN payload.at
        /\ d # Root => payload.tops = {d}}

(* A pinned directory wins, and has to be there. *)
ExtractDirs(payload, pin) ==
    IF pin = Absent THEN Detected(payload) ELSE {pin} \cap payload.tops

Format(os) == IF os = "macos" THEN "macho" ELSE "elf"

(* An Apple Silicon Mac starts x64 programs too. *)
Starts(binary, host) ==
    /\ binary.format = Format(host.os)
    /\ binary.cpu = host.cpu \/ host = [os |-> "macos", cpu |-> "arm64"]

\* Mutant: the references of a foreign CPU's ELF are not looked at.
RejectedHere(binary, os, host) ==
    \/ binary.format # Format(os)
    \/ binary.prefix = "seen" /\ ~(os = "linux" /\ binary.cpu # host.cpu)

(* Another format, or a prefix among the references the parsers collect. *)
Rejected(binary, os, host) == binary.format # Format(os) \/ binary.prefix = "seen"

\* Mutant: --static-only is asked of payloads that cannot run here anyway.
Foreign(binary, os, host, staticOnly) ==
    (os = "linux" /\ binary.cpu # host.cpu) \/ (os = "macos" /\ host.os # "macos")

(* Not executed: of an ELF the CPU is compared with the host's, of a Mach-O *)
(* file nothing but the system.                                             *)
Deferred(binary, os, host, staticOnly) ==
    Foreign(binary, os, host, staticOnly) \/ staticOnly

(* A binary of a payload for os, on a host: its references, then a run      *)
(* where one is possible.                                                   *)
GateBinary(binary, os, host, staticOnly) ==
    IF Rejected(binary, os, host) THEN "error"
    ELSE IF Deferred(binary, os, host, staticOnly) THEN "static"
    ELSE IF ~Starts(binary, host) THEN "error"
    ELSE IF binary.exits0 THEN "verified" ELSE "failed"

(* The bins one after the other; one that is no file is an error. *)
Gates(payload, dir, bins, os, host, staticOnly) ==
    [i \in DOMAIN bins |->
        IF <<dir, bins[i]>> \notin DOMAIN payload.at THEN "error"
        ELSE GateBinary(payload.at[<<dir, bins[i]>>], os, host, staticOnly)]

(* The first error ends them: was anything executed before? *)
Executed(gates) ==
    \E i \in DOMAIN gates : gates[i] \in {"verified", "failed"}
        /\ \A j \in 1..i-1 : gates[j] \in {"verified", "static"}

-----------------------------------------------------------------------------
(* The importer. *)

(* Where a payload has its bins, none of which fails: in the directory the  *)
(* entry pins or, if it pins none, the one that can be told.                *)
Verified(payload, pin, k, host, staticOnly) ==
    {d \in ExtractDirs(payload, pin) :
        Range(Gates(payload, d, AllowBins, k.os, host, staticOnly)) \subseteq {"verified", "static"}}

(* Platforms are handled in the order of their names. *)
Before(j, k) ==
    (j.os = "linux" /\ k.os = "macos") \/ (j.os = k.os /\ j.cpu = "arm64" /\ k.cpu = "x64")

ImportExecutes(offered, k, host, staticOnly) ==
    /\ \A j \in DOMAIN Pins : Before(j, k) =>
            Verified(offered[j], Pins[j], j, host, staticOnly) # {}
    /\ \E d \in ExtractDirs(offered[k], Pins[k]) :
            Executed(Gates(offered[k], d, AllowBins, k.os, host, staticOnly))

Unix(base) == IF base = NoManifest THEN NoBlocks ELSE base.unix

(* All platforms verified, and no block of another one in the manifest of   *)
(* that version.                                                            *)
Importable(offered, host, staticOnly, base) ==
    /\ \A k \in DOMAIN Pins : Verified(offered[k], Pins[k], k, host, staticOnly) # {}
    /\ \A k \in Key \ DOMAIN Pins : Unix(base)[k] = NoBlock

\* Mutant: the block has the directory the entry pins, or none.
PinnedDir(payload, pin, k, host, staticOnly) == pin

BlockDir(payload, pin, k, host, staticOnly) ==
    CHOOSE d \in Verified(payload, pin, k, host, staticOnly) : TRUE

(* The blocks in that manifest, which keeps its bins, or in a new one that  *)
(* declares the allowlist's.                                                *)
Imported(offered, host, staticOnly, base) ==
    [from |-> IF base = NoManifest THEN NoFile ELSE base.from,
     win |-> IF base = NoManifest THEN Skip ELSE base.win,
     bin |-> IF base = NoManifest THEN AllowBins ELSE base.bin,
     unix |-> [k \in Key |->
        IF k \notin DOMAIN Pins THEN NoBlock
        ELSE [payload |-> offered[k],
              dir |-> BlockDir(offered[k], Pins[k], k, host, staticOnly),
              gated |-> AllowBins]]]

(* On any error, nothing is written. *)
Import(offered, host, staticOnly, base) ==
    /\ manifest' = IF Importable(offered, host, staticOnly, base)
                     THEN Imported(offered, host, staticOnly, base) ELSE manifest
    /\ UNCHANGED <<allowlist, legs>>

(* enrich-changed-packages.py: --registry-version --static-only, in a job   *)
(* that goes on to push what it writes.                                     *)
Enrich(offered) ==
    LET runner == [os |-> "linux", cpu |-> "x64"] IN
    /\ manifest # NoManifest
    /\ Import(offered, runner, TRUE, manifest)
    /\ privileged' = privileged \cup
            {offered[k] : k \in {j \in DOMAIN Pins : ImportExecutes(offered, j, runner, TRUE)}}

(* On a developer's machine; without --registry-version, the release may be *)
(* one that has no manifest.                                                *)
ImportByHand(offered, host, staticOnly, newer) ==
    /\ Import(offered, host, staticOnly, IF newer THEN NoManifest ELSE manifest)
    /\ UNCHANGED privileged

-----------------------------------------------------------------------------
(* Other commits. *)

Conversion == [f \in Bucket |-> Convert(f)]

(* scoop-import writes a newer version, or refreshes the latest one, whose  *)
(* Unix blocks stay.  What is skipped is not written.                       *)
ScoopSync(f, newer) ==
    /\ Conversion[f] # Skip
    /\ manifest' = [from |-> f, win |-> Conversion[f], bin |-> Conversion[f].bin,
                    unix |-> IF newer THEN NoBlocks ELSE Unix(manifest)]
    /\ UNCHANGED <<allowlist, legs, privileged>>

AllowlistChanges(entry) ==
    /\ allowlist' = entry /\ entry # allowlist
    /\ UNCHANGED <<manifest, legs, privileged>>

-----------------------------------------------------------------------------
(* --verify-only, a leg per runner. *)

(* The commit's run, or a re-run of it. *)
StartLegs ==
    /\ \A h \in Leg : legs[h].result # "pending"
    /\ legs' = [h \in Leg |-> [result |-> "pending", ran |-> NoPayload]]
    /\ UNCHANGED <<manifest, allowlist, privileged>>

(* Windows bins resolve to the files of the same stem; a manifest without   *)
(* any is verified by the allowlist's of now.                               *)
Declared == manifest.bin

\* Mutant: the allowlist's bins are verified, whatever the manifest declares.
AllowlistBins == AllowBins

VerificationBins == IF Declared = <<>> THEN AllowBins ELSE Declared

\* Mutant: the download is not compared with the manifest's hash.
AnyDownload(block, served) == served # NoPayload

(* A download that succeeds and has the manifest's hash. *)
HashMatches(block, served) == served = block.payload

(* Download the host's payload, compare, gate; a bin that cannot be executed *)
(* here is an error too.  A platform without a block is no error if the      *)
(* allowlist does not name it.                                               *)
Verify(h, served) ==
    LET block == Unix(manifest)[h]
        gates == Gates(served, block.dir, VerificationBins, h.os, h, FALSE)
        Red == [result |-> "red", ran |-> NoPayload] IN
    /\ legs[h].result = "pending"
    /\ legs' = [legs EXCEPT ![h] =
            IF manifest # NoManifest /\ block = NoBlock /\ h \notin DOMAIN Pins
              THEN [result |-> "skipped", ran |-> NoPayload]
            ELSE IF block = NoBlock \/ ~HashMatches(block, served) THEN Red
            ELSE [result |-> IF Range(gates) = {"verified"} THEN "green" ELSE "red",
                  ran |-> IF Executed(gates) THEN served ELSE NoPayload]]
    /\ UNCHANGED <<manifest, allowlist, privileged>>

(* Work goes on from a commit whose legs have run, or are abandoned. *)
NextCommit ==
    /\ legs # Idle /\ legs' = Idle
    /\ UNCHANGED <<manifest, allowlist, privileged>>

Commit ==
    /\ legs = Idle
    /\ \/ \E offered \in [DOMAIN Pins -> Payload] :
            \/ Enrich(offered)
            \/ \E host \in Key, staticOnly, newer \in BOOLEAN :
                    ImportByHand(offered, host, staticOnly, newer)
       \/ \E f \in Bucket, newer \in BOOLEAN : ScoopSync(f, newer)
       \/ \E entry \in Allowlists : AllowlistChanges(entry)

Next ==
    \/ Commit \/ StartLegs \/ NextCommit
    \/ \E h \in Leg, served \in Payload \cup {NoPayload} : Verify(h, served)

Spec == Init /\ [][Next]_vars

-----------------------------------------------------------------------------
(* What the state variables hold. *)
TypeOK ==
    /\ manifest = NoManifest \/ manifest \in
        [from : Bucket \cup {NoFile}, win : {Conversion[f] : f \in Bucket} \cup {Skip},
         bin : Seq(Path \cup {Outside, Malformed}),
         unix : [Key -> Block \cup {NoBlock}]]
    /\ allowlist \in Allowlists
    /\ legs \in [Leg -> [result : {"idle", "pending", "green", "red", "skipped"},
                         ran : Payload \cup {NoPayload}]]
    /\ privileged \subseteq Payload

(* A manifest unpacks each of its archives where the bucket said, also when *)
(* both architectures' directories became one field                        *)
(* (hoist_extract_dir).                                                     *)
WindowsLayoutKept ==
    manifest # NoManifest /\ manifest.win # Skip =>
        \A arch \in Offered(manifest.from) :
            LET own == manifest.win.source[arch].extract_dir IN
            (IF own # Absent THEN own ELSE manifest.win.extract_dir)
                = ExtractDir(manifest.from, EntryOf(manifest.from, arch))

(* Whatever the bucket adds to PATH or sets is in the manifest's            *)
(* environment, a PATH that is both added to and set included (parse_env).  *)
SearchPathKept ==
    manifest # NoManifest /\ manifest.win # Skip =>
        LET env == manifest.win.env IN
        /\ Range(manifest.from.env_add_path) \subseteq UNION {Range(env[v]) : v \in DOMAIN env}
        /\ \A v \in DOMAIN manifest.from.env_set : manifest.from.env_set[v] \in Range(env[v])

(* A block's payload has every bin the allowlist named at its import under  *)
(* the block's directory, in the platform's format and without a package    *)
(* manager's prefix in the references, on whatever machine it was imported  *)
(* and whatever has become of the allowlist (gate_payload).                 *)
BlocksAreGated ==
    \A k \in Key : Unix(manifest)[k] # NoBlock =>
        LET block == Unix(manifest)[k] IN
        /\ block.gated # <<>>
        /\ \A i \in DOMAIN block.gated :
            /\ <<block.dir, block.gated[i]>> \in DOMAIN block.payload.at
            /\ block.payload.at[<<block.dir, block.gated[i]>>].format = Format(k.os)
            /\ block.payload.at[<<block.dir, block.gated[i]>>].prefix # "seen"

(* A leg executes nothing but the payload the manifest states, and a job    *)
(* that can write executes nothing (verify_only_mode, --static-only).       *)
ExecutedIsDeclared ==
    /\ \A h \in Leg : legs[h].ran # NoPayload =>
            Unix(manifest)[h] # NoBlock /\ legs[h].ran = Unix(manifest)[h].payload
    /\ privileged = {}

(* A green leg executed the block's payload: every bin the manifest declares *)
(* is there, starts on this platform and exits with 0 (verify_only_mode).    *)
GreenMeansUsable ==
    \A h \in Leg : legs[h].result = "green" =>
        LET block == Unix(manifest)[h] IN
        /\ legs[h].ran = block.payload
        /\ \A i \in DOMAIN Declared :
            /\ <<block.dir, Declared[i]>> \in DOMAIN block.payload.at
            /\ LET binary == block.payload.at[<<block.dir, Declared[i]>>] IN
               Starts(binary, h) /\ binary.exits0 /\ binary.prefix # "seen"
=============================================================================
