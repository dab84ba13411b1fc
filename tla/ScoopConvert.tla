---------------------------- MODULE ScoopConvert ----------------------------
(***************************************************************************)
(* tools/scoop-import, lib.rs: what a Scoop manifest becomes, or that it   *)
(* is skipped.  A path is one of Path or leaves the install directory; an  *)
(* environment value is plain, a template of the install directory, or     *)
(* holds a variable only Scoop knows.  Licence, description, dependencies  *)
(* and the opaque autoupdate table are left out.                           *)
(***************************************************************************)
EXTENDS Naturals, Sequences, Functions

CONSTANTS
    Path,      \* relative paths below the install directory
    Dir,       \* wrapper directories of archives
    Outside,   \* a path that is absolute or climbs out with ..
    Malformed, \* a JSON value of a shape the field does not have
    Absent,    \* no such field, or null
    Skip

Section == {"64bit", "arm64", "32bit"}
Arch == {"64bit", "arm64"} \* mapped to x64 and arm64; 32-bit is dropped

(* The extension a payload is stored under, renaming fragment included, and *)
(* what a hash is: by its prefix, or by its length.                         *)
Extension == {"zip", "msi", "exe"}
Algorithm == {"sha256", "sha512", "other"}

(* An entry: url and hash are absent or lists. *)
Entry == [url : Seq(Extension) \cup {Absent}, hash : Seq(Algorithm) \cup {Absent},
          innosetup : BOOLEAN, extract_dir : Dir \cup {Absent}]

(* A bucket file; top is what it says outside its architecture table. *)
IsScoopFile(f) ==
    /\ f.name \in {"valid", "invalid"} /\ f.version \in {"some", Absent}
    /\ f.scripts \subseteq Section \cup {"top"}
    /\ f.top \in Entry
    /\ \/ f.architecture = Absent
       \/ DOMAIN f.architecture \subseteq Section /\ Range(f.architecture) \subseteq Entry
    /\ f.persist \in {"flat", "nested"}
    /\ f.env_add_path \in Seq(Path) \cup {Malformed}
    /\ f.env_set = Malformed \/ Range(f.env_set) \subseteq {"plain", "dir", "variable"}
    /\ {f.bin, f.shortcuts} \subseteq Seq(Path \cup {Outside, Malformed})

ASSUME ScoopAssumption ==
    /\ Outside \notin Path /\ Malformed \notin Path /\ Outside # Malformed
    /\ Absent \notin Dir /\ Absent \notin Seq(Extension) \cup Seq(Algorithm)

-----------------------------------------------------------------------------
(* Sources. *)

(* A field that would run code, at the top or in any architecture, the      *)
(* dropped one included.                                                    *)
HasScript(f) ==
    \/ "top" \in f.scripts
    \/ f.architecture # Absent /\ f.scripts \cap DOMAIN f.architecture # {}

(* The entry of an architecture; without a table the file itself is x64.    *)
EntryOf(f, arch) ==
    IF f.architecture # Absent
      THEN IF arch \in DOMAIN f.architecture THEN f.architecture[arch] ELSE Absent
      ELSE IF arch = "64bit" THEN f.top ELSE Absent

Offered(f) == {arch \in Arch : EntryOf(f, arch) # Absent /\ EntryOf(f, arch).url # Absent}

Inno(f, entry) == entry.innosetup \/ f.top.innosetup

Kind(f, entry) ==
    CASE entry.url[1] = "msi" -> "installer-archive"
      [] entry.url[1] = "exe" /\ Inno(f, entry) -> "installer-archive"
      [] OTHER -> "archive"

(* A bare executable may be the application itself: never an archive.       *)
Usable(f, entry) ==
    /\ Len(entry.url) = 1 /\ entry.hash # Absent /\ Len(entry.hash) = 1
    /\ entry.hash[1] \in {"sha256", "sha512"}
    /\ entry.url[1] = "exe" => Inno(f, entry)

ExtractDir(f, entry) ==
    IF entry.extract_dir # Absent THEN entry.extract_dir ELSE f.top.extract_dir

Sources(f) ==
    [arch \in Offered(f) |->
        LET entry == EntryOf(f, arch) IN
        [kind |-> Kind(f, entry), hash |-> entry.hash[1],
         extract_dir |-> ExtractDir(f, entry)]]

\* Mutant: an architecture that has no directory does not disagree.
DisagreeOnNames(sources) ==
    \E a, b \in DOMAIN sources :
        /\ sources[a].extract_dir # sources[b].extract_dir
        /\ Absent \notin {sources[a].extract_dir, sources[b].extract_dir}

(* Architectures whose archives are wrapped differently, or not all wrapped. *)
Disagree(sources) ==
    \E a, b \in DOMAIN sources : sources[a].extract_dir # sources[b].extract_dir

(* One top-level directory when all architectures agree; else each keeps    *)
(* its own.                                                                 *)
Hoist(sources) ==
    IF Disagree(sources) THEN [source |-> sources, extract_dir |-> Absent]
    ELSE [source |-> [a \in DOMAIN sources |-> [sources[a] EXCEPT !.extract_dir = Absent]],
          extract_dir |-> CHOOSE d \in {sources[a].extract_dir : a \in DOMAIN sources} : TRUE]

-----------------------------------------------------------------------------
(* Launch entries and environment. *)

(* bin and shortcuts: every path relative and below the install directory;  *)
(* a shortcut with arguments is malformed here.                             *)
PathsOk(entries) == {Malformed, Outside} \cap Range(entries) = {}

EnvOk(f) ==
    /\ f.env_add_path # Malformed /\ f.env_set # Malformed
    /\ \A var \in DOMAIN f.env_set : f.env_set[var] # "variable"

\* Mutant: a PATH that is set replaces the paths that are added.
EnvReplaced(f) ==
    LET added == IF f.env_add_path = <<>> THEN {} ELSE {"PATH"} IN
    [var \in DOMAIN f.env_set \cup added |->
        IF var \in DOMAIN f.env_set THEN <<f.env_set[var]>> ELSE f.env_add_path]

(* PATH first has the added paths; setting it appends.                      *)
Env(f) ==
    LET added == IF f.env_add_path = <<>> THEN {} ELSE {"PATH"} IN
    [var \in DOMAIN f.env_set \cup added |->
        (IF var = "PATH" THEN f.env_add_path ELSE <<>>)
            \o (IF var \in DOMAIN f.env_set THEN <<f.env_set[var]>> ELSE <<>>)]

(* An extracted installer leaves nothing to start it by but these. *)
HasLaunchEntry(f) ==
    f.bin # <<>> \/ f.shortcuts # <<>> \/ "PATH" \in DOMAIN Env(f)

Convertible(f) ==
    /\ f.name = "valid" /\ f.version # Absent /\ ~HasScript(f)
    /\ Offered(f) # {} /\ \A arch \in Offered(f) : Usable(f, EntryOf(f, arch))
    /\ f.persist = "flat" /\ EnvOk(f) /\ PathsOk(f.bin) /\ PathsOk(f.shortcuts)
    /\ (\E arch \in Offered(f) : Sources(f)[arch].kind = "installer-archive")
            => HasLaunchEntry(f)

Convert(f) ==
    IF ~Convertible(f) THEN Skip
    ELSE LET layout == Hoist(Sources(f)) IN
         [source |-> layout.source, extract_dir |-> layout.extract_dir,
          bin |-> f.bin, shortcuts |-> f.shortcuts, env |-> Env(f)]
=============================================================================
