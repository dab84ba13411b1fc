---------------------------- MODULE MCUnixVerify ----------------------------
EXTENDS UnixVerify

CONSTANTS tool, other, inner, outer

Linux(cpu) == [os |-> "linux", cpu |-> cpu]
Mac(cpu) == [os |-> "macos", cpu |-> cpu]

-----------------------------------------------------------------------------
(* Payloads. *)
Elf(cpu) == [format |-> "elf", cpu |-> cpu, prefix |-> "none", exits0 |-> TRUE]
MachO(cpu) == [Elf(cpu) EXCEPT !.format = "macho"]
Both(b, c) == [tops |-> {}, at |-> [s \in {<<Root, tool>>, <<Root, other>>} |->
                                       IF s[2] = tool THEN b ELSE c]]
Flat(binary) == Both(binary, binary)
Wrapped(binary) == [tops |-> {inner}, at |-> [s \in {<<inner, tool>>} |-> binary]]

MCPayload ==
    {Flat(Elf("x64")), Wrapped(Elf("x64")), Wrapped(Elf("arm64")),
     Wrapped([Elf("arm64") EXCEPT !.prefix = "seen"]),
     Wrapped([Elf("x64") EXCEPT !.exits0 = FALSE, !.prefix = "unseen"]),
     Flat(MachO("arm64")), Wrapped(MachO("x64")),
     [Wrapped(MachO("arm64")) EXCEPT !.tops = {inner, outer}],
     Both(Elf("x64"), [Elf("x64") EXCEPT !.exits0 = FALSE, !.prefix = "seen"]),
     [tops |-> {inner}, at |-> <<>>]}

(* Two platforms or one, pinned or not, and the bins they are gated for. *)
MCAllowlists ==
    {[assets |-> [k \in {Linux("x64"), Linux("arm64")} |-> Absent], bin |-> <<tool>>],
     [assets |-> [k \in {Linux("x64"), Mac("arm64")} |-> Absent], bin |-> <<tool>>],
     [assets |-> [k \in {Linux("x64"), Mac("arm64")} |-> Absent], bin |-> <<tool, other>>],
     [assets |-> [k \in {Mac("arm64")} |-> inner], bin |-> <<tool>>]}

MCLeg == {Linux("x64"), Mac("arm64")}

-----------------------------------------------------------------------------
(* Bucket files. *)
NoEntry == [url |-> Absent, hash |-> Absent, innosetup |-> FALSE, extract_dir |-> Absent]
Zip(dir) == [url |-> <<"zip">>, hash |-> <<"sha256">>, innosetup |-> FALSE, extract_dir |-> dir]

File == [name |-> "valid", version |-> "some", scripts |-> {}, top |-> NoEntry,
         architecture |-> [s \in {"64bit"} |-> Zip(Absent)], persist |-> "flat",
         env_add_path |-> <<>>, env_set |-> <<>>, bin |-> <<tool>>, shortcuts |-> <<>>]

(* One or two architectures, wrapped or not, by their own word or the top's. *)
Layouts ==
    {[File EXCEPT !.architecture = [s \in archs |-> IF s = "arm64" THEN Zip(d) ELSE Zip(e)],
                  !.top = [NoEntry EXCEPT !.extract_dir = top]] :
        archs \in {{"64bit"}, {"arm64"}, {"64bit", "arm64"}, {"32bit"}},
        d \in {Absent, inner}, e \in {Absent, inner}, top \in {Absent, outer}}

Environments ==
    {[File EXCEPT !.env_add_path = add, !.env_set = set, !.bin = bin] :
        add \in {<<>>, <<tool, other>>, Malformed},
        set \in UNION {[s -> {"plain", "variable"}] : s \in SUBSET {"PATH", "HOME"}},
        bin \in {<<>>, <<tool, other>>}}

Kinds ==
    {[File EXCEPT !.architecture = Absent, !.bin = bin, !.shortcuts = shortcuts,
                  !.top = [url |-> url, hash |-> hash, innosetup |-> inno, extract_dir |-> Absent]] :
        url \in {<<"msi">>, <<"exe">>, <<"zip", "zip">>, Absent},
        hash \in {<<"sha512">>, <<"other">>, Absent}, inno \in BOOLEAN,
        bin \in {<<>>, <<Outside>>}, shortcuts \in {<<>>, <<tool>>, <<tool, Malformed>>}}

Refused ==
    {[File EXCEPT !.scripts = {"64bit"}], [File EXCEPT !.scripts = {"top"}],
     [File EXCEPT !.name = "invalid"], [File EXCEPT !.version = Absent],
     [File EXCEPT !.persist = "nested"]}

MCBucket == Layouts \cup Environments \cup Kinds \cup Refused
=============================================================================
