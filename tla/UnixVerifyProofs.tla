-------------------------- MODULE UnixVerifyProofs --------------------------
(***************************************************************************)
(* What the importer's gates and the verification legs establish, for any  *)
(* bucket, payloads, allowlists and runners.                               *)
(***************************************************************************)
EXTENDS UnixVerify, TLAPS

(* These bins are there, in the platform's format, and show no prefix.      *)
GatedAt(payload, dir, bins, os) ==
    bins # <<>> /\ \A i \in DOMAIN bins :
        /\ <<dir, bins[i]>> \in DOMAIN payload.at
        /\ payload.at[<<dir, bins[i]>>].format = Format(os)
        /\ payload.at[<<dir, bins[i]>>].prefix # "seen"

(* What the steps need of the types. *)
Shape ==
    /\ allowlist \in Allowlists
    /\ legs = [h \in Leg |-> legs[h]]

(* The Windows part of a manifest is a conversion of the file it is from,   *)
(* and what it declares is a list of bins.                                  *)
BinList == Seq(Path \cup {Outside, Malformed})

Converted ==
    /\ manifest # NoManifest /\ manifest.win # Skip =>
            /\ manifest.from \in Bucket
            /\ manifest.win = Convert(manifest.from)
    /\ manifest # NoManifest => manifest.bin \in BinList

-----------------------------------------------------------------------------
(* The gates. *)

(* Whatever the importer accepts is gated. *)
LEMMA VerifiedIsGated ==
    ASSUME NEW payload \in Payload, NEW pin \in Dir \cup {Absent},
           NEW k \in Key, NEW host \in Key, NEW staticOnly \in BOOLEAN,
           NEW d \in Verified(payload, pin, k, host, staticOnly), allowlist \in Allowlists
    PROVE  GatedAt(payload, d, AllowBins, k.os)
<1>1. Range(Gates(payload, d, AllowBins, k.os, host, staticOnly)) \subseteq {"verified", "static"}
  BY DEF Verified
<1>2. ASSUME NEW i \in DOMAIN AllowBins
      PROVE  /\ <<d, AllowBins[i]>> \in DOMAIN payload.at
             /\ payload.at[<<d, AllowBins[i]>>].format = Format(k.os)
             /\ payload.at[<<d, AllowBins[i]>>].prefix # "seen"
  <2>1. Gates(payload, d, AllowBins, k.os, host, staticOnly)[i] \in {"verified", "static"}
    BY <1>1 DEF Range, Gates
  <2> QED
    BY <2>1 DEF Gates, GateBinary, Rejected
<1>3. AllowBins # <<>>
  BY VerifyAssumption DEF IsEntry, AllowBins
<1> QED
  BY <1>2, <1>3 DEF GatedAt

(* The entry's parts. *)
LEMMA EntryParts ==
    ASSUME allowlist \in Allowlists
    PROVE  /\ AllowBins \in Seq(Path)
           /\ DOMAIN Pins \subseteq Key
           /\ \A k \in DOMAIN Pins : Pins[k] \in Dir \cup {Absent}
BY VerifyAssumption DEF IsEntry, AllowBins, Pins, Range

(* With --static-only nothing is executed. *)
LEMMA StaticOnlyExecutesNothing ==
    ASSUME NEW payload, NEW d, NEW bins, NEW os, NEW host
    PROVE  ~Executed(Gates(payload, d, bins, os, host, TRUE))
BY DEF Executed, Gates, GateBinary, Deferred

(* The blocks of an import. *)
LEMMA ImportIsGated ==
    ASSUME allowlist \in Allowlists,
           NEW offered \in [DOMAIN Pins -> Payload],
           NEW host \in Key, NEW staticOnly \in BOOLEAN, NEW base,
           Importable(offered, host, staticOnly, base),
           NEW k \in Key, Imported(offered, host, staticOnly, base).unix[k] # NoBlock
    PROVE  GatedAt(Imported(offered, host, staticOnly, base).unix[k].payload,
                   Imported(offered, host, staticOnly, base).unix[k].dir,
                   Imported(offered, host, staticOnly, base).unix[k].gated, k.os)
<1> DEFINE dir == BlockDir(offered[k], Pins[k], k, host, staticOnly)
<1>1. k \in DOMAIN Pins
  BY DEF Imported
<1>2. Imported(offered, host, staticOnly, base).unix[k]
            = [payload |-> offered[k], dir |-> dir, gated |-> AllowBins]
  BY <1>1 DEF Imported
<1>3. offered[k] \in Payload /\ Pins[k] \in Dir \cup {Absent}
  BY <1>1, EntryParts
<1>4. dir \in Verified(offered[k], Pins[k], k, host, staticOnly)
  BY <1>1 DEF Importable, BlockDir
<1>5. GatedAt(offered[k], dir, AllowBins, k.os)
  BY <1>3, <1>4, VerifiedIsGated
<1> QED
  BY <1>2, <1>5

-----------------------------------------------------------------------------
(* The conversion. *)

(* However directories are hoisted, every architecture unpacks as before.   *)
LEMMA HoistKeepsLayout ==
    ASSUME NEW S, NEW sources, DOMAIN sources = S, NEW arch \in S,
           \A a \in S : sources[a] = [kind |-> sources[a].kind, hash |-> sources[a].hash,
                                      extract_dir |-> sources[a].extract_dir]
    PROVE  LET own == Hoist(sources).source[arch].extract_dir IN
           (IF own # Absent THEN own ELSE Hoist(sources).extract_dir)
                = IF sources[arch].extract_dir # Absent THEN sources[arch].extract_dir ELSE Absent
<1> DEFINE dirs == {sources[a].extract_dir : a \in DOMAIN sources}
           one == CHOOSE d \in dirs : TRUE
<1>1. CASE Disagree(sources)
  BY <1>1 DEF Hoist
<1>2. CASE ~Disagree(sources)
  <2>1. \A d \in dirs : d = sources[arch].extract_dir
    BY <1>2 DEF Disagree
  <2>2. one = sources[arch].extract_dir
    <3>1. sources[arch].extract_dir \in dirs
      OBVIOUS
    <3> QED
      BY <2>1, <3>1
  <2>3. Hoist(sources).extract_dir = one
    BY <1>2 DEF Hoist
  <2>4. Hoist(sources).source[arch].extract_dir = Absent
    BY <1>2 DEF Hoist
  <2> QED
    BY <2>2, <2>3, <2>4
<1> QED
  BY <1>1, <1>2

(* A manifest that is not skipped is a record of these fields. *)
LEMMA ConvertFields ==
    ASSUME NEW f, Convert(f) # Skip
    PROVE  /\ Convertible(f)
           /\ Convert(f).source = Hoist(Sources(f)).source
           /\ Convert(f).extract_dir = Hoist(Sources(f)).extract_dir
           /\ Convert(f).bin = f.bin
           /\ Convert(f).env = Env(f)
BY DEF Convert

LEMMA ConvertKeepsLayout ==
    ASSUME NEW f, Convert(f) # Skip, NEW arch \in Offered(f)
    PROVE  LET own == Convert(f).source[arch].extract_dir IN
           (IF own # Absent THEN own ELSE Convert(f).extract_dir)
                = ExtractDir(f, EntryOf(f, arch))
<1>1. DOMAIN Sources(f) = Offered(f)
  BY DEF Sources
<1>2. \A a \in Offered(f) : Sources(f)[a] =
        [kind |-> Sources(f)[a].kind, hash |-> Sources(f)[a].hash,
         extract_dir |-> Sources(f)[a].extract_dir]
  BY DEF Sources
<1>3. Sources(f)[arch].extract_dir = ExtractDir(f, EntryOf(f, arch))
  BY DEF Sources
<1> HIDE DEF Sources, Offered
<1> QED
  BY <1>1, <1>2, <1>3, ConvertFields, HoistKeepsLayout

(* Nothing that is added to PATH or set is lost. *)
LEMMA EnvKeepsAll ==
    ASSUME NEW f, IsScoopFile(f), Convertible(f)
    PROVE  /\ Range(f.env_add_path) \subseteq UNION {Range(Env(f)[v]) : v \in DOMAIN Env(f)}
           /\ \A v \in DOMAIN f.env_set : f.env_set[v] \in Range(Env(f)[v])
<1>1. f.env_add_path \in Seq(Path)
  BY DEF IsScoopFile, Convertible, EnvOk
<1> DEFINE first(v) == IF v = "PATH" THEN f.env_add_path ELSE <<>>
           last(v) == IF v \in DOMAIN f.env_set THEN <<f.env_set[v]>> ELSE <<>>
<1>2. ASSUME NEW v \in DOMAIN Env(f)
      PROVE  Env(f)[v] = first(v) \o last(v)
  BY DEF Env
<1>3. ASSUME NEW v
      PROVE  /\ first(v) \in Seq(Path \cup {f.env_set[v]})
             /\ last(v) \in Seq(Path \cup {f.env_set[v]})
  <2>1. <<>> \in Seq(Path \cup {f.env_set[v]}) /\ <<f.env_set[v]>> \in Seq(Path \cup {f.env_set[v]})
    OBVIOUS
  <2>2. f.env_add_path \in Seq(Path \cup {f.env_set[v]})
    BY <1>1
  <2> QED
    BY <2>1, <2>2
<1>4. ASSUME NEW v \in DOMAIN f.env_set
      PROVE  f.env_set[v] \in Range(Env(f)[v])
  <2>1. v \in DOMAIN Env(f)
    BY DEF Env
  <2>2. last(v) = <<f.env_set[v]>> /\ Len(last(v)) = 1 /\ last(v)[1] = f.env_set[v]
    OBVIOUS
  <2> HIDE DEF first, last
  <2>3. (first(v) \o last(v))[Len(first(v)) + 1] = f.env_set[v]
        /\ Len(first(v)) + 1 \in DOMAIN (first(v) \o last(v))
    BY <1>3, <2>2
  <2> QED
    BY <1>2, <2>1, <2>3 DEF Range
<1>5. ASSUME NEW p \in Range(f.env_add_path)
      PROVE  p \in UNION {Range(Env(f)[v]) : v \in DOMAIN Env(f)}
  <2>1. PICK i \in DOMAIN f.env_add_path : f.env_add_path[i] = p
    BY DEF Range
  <2>2. "PATH" \in DOMAIN Env(f)
    BY <1>1, <2>1 DEF Env
  <2>3. first("PATH") = f.env_add_path
    OBVIOUS
  <2> HIDE DEF first, last
  <2>4. (f.env_add_path \o last("PATH"))[i] = p /\ i \in DOMAIN (f.env_add_path \o last("PATH"))
    BY <1>3, <2>1, <2>3
  <2>5. p \in Range(Env(f)["PATH"])
    BY <1>2, <2>2, <2>3, <2>4 DEF Range
  <2> QED
    BY <2>2, <2>5
<1> QED
  BY <1>4, <1>5

-----------------------------------------------------------------------------
(* The inductive invariant. *)

LegsExecuteDeclared ==
    \A h \in Leg : legs[h].ran # NoPayload =>
        Unix(manifest)[h] # NoBlock /\ legs[h].ran = Unix(manifest)[h].payload

IInv ==
    /\ Shape
    /\ Converted
    /\ BlocksAreGated
    /\ LegsExecuteDeclared /\ privileged = {}
    /\ GreenMeansUsable

LEMMA InitInv == Init => IInv
BY DEF Init, IInv, Shape, Converted, BlocksAreGated, LegsExecuteDeclared, GreenMeansUsable,
       Idle, Unix, NoBlocks

(* A step that leaves the legs idle has nothing to show for them. *)
LEMMA IdleLegs ==
    ASSUME legs' = Idle
    PROVE  LegsExecuteDeclared' /\ GreenMeansUsable' /\ legs' = [h \in Leg |-> legs'[h]]
BY DEF Idle, LegsExecuteDeclared, GreenMeansUsable

LEMMA ImportStep ==
    ASSUME IInv, legs = Idle,
           NEW offered \in [DOMAIN Pins -> Payload],
           NEW host \in Key, NEW staticOnly \in BOOLEAN, NEW base \in {manifest, NoManifest},
           Import(offered, host, staticOnly, base)
    PROVE  Shape' /\ Converted' /\ BlocksAreGated' /\ legs' = Idle
<1>1. legs' = Idle
  BY DEF Import
<1>2. Shape'
  BY <1>1 DEF Import, IInv, Shape, Idle
<1>3. CASE Importable(offered, host, staticOnly, base)
  <2> DEFINE written == Imported(offered, host, staticOnly, base)
  <2>1. manifest' = written
    BY <1>3 DEF Import
  <2>2. Converted'
    <3>1. AllowBins \in BinList
      BY EntryParts DEF IInv, Shape, BinList
    <3> QED
      BY <2>1, <3>1 DEF Imported, IInv, Converted
  <2>3. ASSUME NEW k \in Key, Unix(manifest')[k] # NoBlock
        PROVE  GatedAt(Unix(manifest')[k].payload, Unix(manifest')[k].dir,
                       Unix(manifest')[k].gated, k.os)
    <3>1. Unix(manifest')[k] = written.unix[k] /\ written.unix[k] # NoBlock
      BY <2>1, <2>3 DEF Unix, NoBlocks
    <3>2. allowlist \in Allowlists
      BY DEF IInv, Shape
    <3> HIDE DEF written
    <3> QED
      BY <1>3, <3>1, <3>2, ImportIsGated DEF written
  <2>4. BlocksAreGated'
    BY <2>3 DEF BlocksAreGated, GatedAt, Unix
  <2> QED
    BY <1>1, <1>2, <2>2, <2>4
<1>4. CASE ~Importable(offered, host, staticOnly, base)
  BY <1>1, <1>2, <1>4 DEF Import, IInv, Converted, BlocksAreGated, Unix
<1> QED
  BY <1>3, <1>4

LEMMA SyncStep ==
    ASSUME IInv, legs = Idle, NEW f \in Bucket, NEW newer \in BOOLEAN, ScoopSync(f, newer)
    PROVE  Shape' /\ Converted' /\ BlocksAreGated' /\ legs' = Idle
<1>1. legs' = Idle /\ Shape'
  BY DEF ScoopSync, IInv, Shape, Idle
<1>2. Converted'
  <2>1. manifest' = [from |-> f, win |-> Convert(f), bin |-> Convert(f).bin,
                     unix |-> manifest'.unix] /\ Convert(f) # Skip
    BY DEF ScoopSync, Conversion
  <2>2. Convert(f).bin \in BinList
    BY <2>1, ConvertFields, VerifyAssumption DEF IsScoopFile, BinList
  <2> QED
    BY <2>1, <2>2 DEF Converted
<1>3. \A k \in Key : Unix(manifest')[k] # NoBlock => Unix(manifest')[k] = Unix(manifest)[k]
  BY DEF ScoopSync, Unix, NoBlocks
<1>4. BlocksAreGated'
  <2> DEFINE Gated(b, os) == GatedAt(b.payload, b.dir, b.gated, os)
  <2>1. \A k \in Key : Unix(manifest)[k] # NoBlock => Gated(Unix(manifest)[k], k.os)
    BY DEF IInv, BlocksAreGated, GatedAt
  <2> HIDE DEF Gated
  <2>2. \A k \in Key : Unix(manifest')[k] # NoBlock => Gated(Unix(manifest')[k], k.os)
    BY <1>3, <2>1
  <2> QED
    BY <2>2 DEF Gated, BlocksAreGated, GatedAt, Unix
<1> QED
  BY <1>1, <1>2, <1>4

(* A leg whose gates are all passed has executed the first of its bins. *)
LEMMA PassedIsExecuted ==
    ASSUME NEW payload, NEW dir, NEW bins, NEW n \in Nat, DOMAIN bins = 1..n, NEW os, NEW host,
           Range(Gates(payload, dir, bins, os, host, FALSE)) = {"verified"}
    PROVE  Executed(Gates(payload, dir, bins, os, host, FALSE))
<1> DEFINE gates == Gates(payload, dir, bins, os, host, FALSE)
<1>1. DOMAIN gates = 1..n
  BY DEF Gates
<1>2. \A i \in 1..n : gates[i] = "verified"
  BY <1>1 DEF Range
<1>3. PICK i \in 1..n : gates[i] = "verified"
  BY <1>1 DEF Range
<1> HIDE DEF gates
<1>4. Executed(gates)
  BY <1>1, <1>2, <1>3 DEF Executed
<1> QED
  BY <1>4 DEF gates

(* What passes a leg's gates starts there and exits with 0. *)
LEMMA PassedIsUsable ==
    ASSUME NEW payload, NEW dir, NEW bins, NEW os, NEW host,
           Range(Gates(payload, dir, bins, os, host, FALSE)) = {"verified"},
           NEW i \in DOMAIN bins
    PROVE  /\ <<dir, bins[i]>> \in DOMAIN payload.at
           /\ LET binary == payload.at[<<dir, bins[i]>>] IN
              Starts(binary, host) /\ binary.exits0 /\ binary.prefix # "seen"
<1> DEFINE gates == Gates(payload, dir, bins, os, host, FALSE)
<1>1. gates[i] = "verified"
  BY DEF Range, Gates
<1> QED
  BY <1>1 DEF Gates, GateBinary, Rejected

(* The bins a leg verifies are a list. *)
LEMMA BinsAreListed ==
    ASSUME IInv, manifest # NoManifest
    PROVE  \E n \in Nat : DOMAIN VerificationBins = 1..n
<1>1. AllowBins \in Seq(Path)
  BY EntryParts DEF IInv, Shape
<1>2. Declared \in BinList
  BY DEF IInv, Converted, Declared
<1> QED
  BY <1>1, <1>2 DEF VerificationBins, BinList

LEMMA VerifyStep ==
    ASSUME IInv, NEW h \in Leg, NEW served \in Payload \cup {NoPayload}, Verify(h, served)
    PROVE  IInv'
<1> DEFINE block == Unix(manifest)[h]
           gates == Gates(served, block.dir, VerificationBins, h.os, h, FALSE)
           here == legs'[h]
<1>1. Shape' /\ Converted' /\ BlocksAreGated' /\ privileged' = {}
  BY DEF Verify, IInv, Shape, Converted, BlocksAreGated, Unix
<1>2. \A g \in Leg \ {h} : legs'[g] = legs[g]
  BY DEF Verify, IInv, Shape
<1>3. \/ here.result # "green" /\ here.ran = NoPayload
      \/ /\ block # NoBlock /\ served = block.payload
         /\ here = [result |-> IF Range(gates) = {"verified"} THEN "green" ELSE "red",
                    ran |-> IF Executed(gates) THEN served ELSE NoPayload]
  BY DEF Verify, IInv, Shape, HashMatches
<1>4. UNCHANGED <<manifest, allowlist>>
  BY DEF Verify
<1> HIDE DEF here, gates, block
<1>5. LegsExecuteDeclared'
  <2>1. here.ran # NoPayload => block # NoBlock /\ here.ran = block.payload
    BY <1>3
  <2> QED
    BY <1>2, <1>4, <2>1 DEF here, block, IInv, LegsExecuteDeclared, Unix
<1>6. GreenMeansUsable'
  <2>1. ASSUME here.result = "green"
        PROVE  /\ here.ran = block.payload
               /\ \A i \in DOMAIN Declared :
                    /\ <<block.dir, Declared[i]>> \in DOMAIN block.payload.at
                    /\ LET binary == block.payload.at[<<block.dir, Declared[i]>>] IN
                       Starts(binary, h) /\ binary.exits0 /\ binary.prefix # "seen"
    <3>1. block # NoBlock /\ served = block.payload /\ Range(gates) = {"verified"}
      BY <1>3, <2>1
    <3>2. manifest # NoManifest
      BY <3>1, VerifyAssumption DEF block, Unix, NoBlocks
    <3>3. here.ran = IF Executed(gates) THEN served ELSE NoPayload
      BY <1>3, <2>1
    <3>4. PICK n \in Nat : DOMAIN VerificationBins = 1..n
      BY <3>2, BinsAreListed
    <3>5. Executed(gates)
      BY <3>1, <3>4, PassedIsExecuted DEF gates
    <3>6. ASSUME NEW i \in DOMAIN Declared
          PROVE  /\ <<block.dir, Declared[i]>> \in DOMAIN block.payload.at
                 /\ LET binary == block.payload.at[<<block.dir, Declared[i]>>] IN
                    Starts(binary, h) /\ binary.exits0 /\ binary.prefix # "seen"
      <4>1. Declared # <<>> /\ VerificationBins = Declared
        BY DEF VerificationBins
      <4> QED
        BY <3>1, <4>1, PassedIsUsable DEF gates
    <3> QED
      BY <3>1, <3>3, <3>5, <3>6
  <2>2. Unix(manifest)' = Unix(manifest) /\ Declared' = Declared
    BY <1>4 DEF Unix, Declared
  <2> DEFINE UsableOn(g) ==
        LET b == Unix(manifest)[g] IN
        \A i \in DOMAIN Declared :
            /\ <<b.dir, Declared[i]>> \in DOMAIN b.payload.at
            /\ LET binary == b.payload.at[<<b.dir, Declared[i]>>] IN
               Starts(binary, g) /\ binary.exits0 /\ binary.prefix # "seen"
  <2>3. here.result = "green" => here.ran = Unix(manifest)[h].payload /\ UsableOn(h)
    BY <2>1 DEF block
  <2>4. \A g \in Leg : legs[g].result = "green" =>
            legs[g].ran = Unix(manifest)[g].payload /\ UsableOn(g)
    BY DEF IInv, GreenMeansUsable
  <2> HIDE DEF UsableOn
  <2>5. \A g \in Leg : legs'[g].result = "green" =>
            legs'[g].ran = Unix(manifest)[g].payload /\ UsableOn(g)
    BY <1>2, <2>3, <2>4 DEF here
  <2> QED
    BY <2>2, <2>5 DEF UsableOn, GreenMeansUsable
<1> QED
  BY <1>1, <1>5, <1>6 DEF IInv

LEMMA NextInv == IInv /\ [Next]_vars => IInv'
<1> SUFFICES ASSUME IInv, [Next]_vars PROVE IInv'
  OBVIOUS
<1>1. ASSUME NEW offered \in [DOMAIN Pins -> Payload], legs = Idle, Enrich(offered)
      PROVE  IInv'
  <2> DEFINE runner == [os |-> "linux", cpu |-> "x64"]
  <2>1. Shape' /\ Converted' /\ BlocksAreGated' /\ legs' = Idle
    BY <1>1, ImportStep DEF Enrich, Key
  <2>2. \A k : ~ImportExecutes(offered, k, runner, TRUE)
    BY StaticOnlyExecutesNothing DEF ImportExecutes
  <2>3. privileged' = {}
    BY <1>1, <2>2 DEF Enrich, IInv
  <2> QED
    BY <2>1, <2>3, IdleLegs DEF IInv
<1>2. ASSUME NEW offered \in [DOMAIN Pins -> Payload], legs = Idle,
             NEW host \in Key, NEW staticOnly \in BOOLEAN, NEW newer \in BOOLEAN,
             ImportByHand(offered, host, staticOnly, newer)
      PROVE  IInv'
  <2>1. Shape' /\ Converted' /\ BlocksAreGated' /\ legs' = Idle
    BY <1>2, ImportStep DEF ImportByHand
  <2>2. privileged' = {}
    BY <1>2 DEF ImportByHand, IInv
  <2> QED
    BY <2>1, <2>2, IdleLegs DEF IInv
<1>3. ASSUME legs = Idle, NEW f \in Bucket, NEW newer \in BOOLEAN, ScoopSync(f, newer)
      PROVE  IInv'
  <2>1. privileged' = {}
    BY <1>3 DEF ScoopSync, IInv
  <2> QED
    BY <1>3, <2>1, SyncStep, IdleLegs DEF IInv
<1>4. ASSUME legs = Idle, NEW entry \in Allowlists, AllowlistChanges(entry)
      PROVE  IInv'
  <2>1. legs' = Idle
    BY <1>4 DEF AllowlistChanges
  <2> QED
    BY <1>4, <2>1, IdleLegs
    DEF AllowlistChanges, IInv, Shape, Converted, BlocksAreGated, Unix
<1>5. CASE StartLegs
  BY <1>5 DEF StartLegs, IInv, Shape, Converted, BlocksAreGated, LegsExecuteDeclared,
              GreenMeansUsable, Unix
<1>6. CASE NextCommit
  BY <1>6, IdleLegs DEF NextCommit, IInv, Shape, Converted, BlocksAreGated, Unix
<1>7. ASSUME NEW h \in Leg, NEW served \in Payload \cup {NoPayload}, Verify(h, served)
      PROVE  IInv'
  BY <1>7, VerifyStep
<1>8. CASE UNCHANGED vars
  BY <1>8 DEF vars, IInv, Shape, Converted, BlocksAreGated, LegsExecuteDeclared,
              GreenMeansUsable, Unix, Declared
<1> QED
  BY <1>1, <1>2, <1>3, <1>4, <1>5, <1>6, <1>7, <1>8 DEF Next, Commit

LEMMA Invariance == Spec => []IInv
BY InitInv, NextInv, PTL DEF Spec

-----------------------------------------------------------------------------
(* The theorems. *)

(* Every block of the latest manifest passed the importer's static gates,   *)
(* whichever machine, mode and order of refreshes it came by                *)
(* (gate_payload, write_release_manifest, scoop-import's write_manifest).   *)
THEOREM BlocksGated == Spec => []BlocksAreGated
<1>1. IInv => BlocksAreGated
  BY DEF IInv
<1> QED
  BY <1>1, Invariance, PTL

(* Nothing that is not declared is executed: not by a leg, and nothing at   *)
(* all by the enrichment job (verify_only_mode, --static-only).             *)
THEOREM ExecutionDeclared == Spec => []ExecutedIsDeclared
<1>1. IInv => ExecutedIsDeclared
  BY DEF IInv, LegsExecuteDeclared, ExecutedIsDeclared
<1> QED
  BY <1>1, Invariance, PTL

(* A green leg has executed the payload, and every declared bin runs on its *)
(* platform (verify_only_mode, verification_bins, gate_binary).             *)
THEOREM GreenUsable == Spec => []GreenMeansUsable
<1>1. IInv => GreenMeansUsable
  BY DEF IInv
<1> QED
  BY <1>1, Invariance, PTL

(* Manifests unpack their Windows archives where the bucket says, for any   *)
(* bucket file (hoist_extract_dir, resolve_entry).                          *)
THEOREM LayoutKept == Spec => []WindowsLayoutKept
<1>1. IInv => WindowsLayoutKept
  <2> SUFFICES ASSUME IInv, manifest # NoManifest, manifest.win # Skip,
                      NEW arch \in Offered(manifest.from)
               PROVE  LET own == manifest.win.source[arch].extract_dir IN
                      (IF own # Absent THEN own ELSE manifest.win.extract_dir)
                          = ExtractDir(manifest.from, EntryOf(manifest.from, arch))
    BY DEF WindowsLayoutKept
  <2>1. manifest.win = Convert(manifest.from)
    BY DEF IInv, Converted
  <2> QED
    BY <2>1, ConvertKeepsLayout
<1> QED
  BY <1>1, Invariance, PTL

(* Nothing a bucket file adds to PATH or sets is lost (parse_env).          *)
THEOREM SearchPath == Spec => []SearchPathKept
<1>1. IInv => SearchPathKept
  <2> SUFFICES ASSUME IInv, manifest # NoManifest, manifest.win # Skip
               PROVE  SearchPathKept
    BY DEF SearchPathKept
  <2> DEFINE f == manifest.from
  <2>1. f \in Bucket /\ manifest.win = Convert(f)
    BY DEF IInv, Converted
  <2>2. Convertible(f) /\ manifest.win.env = Env(f)
    BY <2>1, ConvertFields
  <2>3. IsScoopFile(f)
    BY <2>1, VerifyAssumption
  <2>4. /\ Range(f.env_add_path) \subseteq UNION {Range(Env(f)[v]) : v \in DOMAIN Env(f)}
        /\ \A v \in DOMAIN f.env_set : f.env_set[v] \in Range(Env(f)[v])
    BY <2>2, <2>3, EnvKeepsAll
  <2> QED
    BY <2>2, <2>4 DEF SearchPathKept
<1> QED
  BY <1>1, Invariance, PTL

-----------------------------------------------------------------------------
(* The types. *)

ManifestType ==
    [from : Bucket \cup {NoFile}, win : {Conversion[f] : f \in Bucket} \cup {Skip},
     bin : BinList, unix : [Key -> Block \cup {NoBlock}]]

(* What is imported has its bins in a directory of the payload, or at its   *)
(* top, pinned or not.                                                      *)
LEMMA ImportedTyped ==
    ASSUME allowlist \in Allowlists, NEW offered \in [DOMAIN Pins -> Payload],
           NEW host \in Key, NEW staticOnly \in BOOLEAN, NEW base \in ManifestType \cup {NoManifest},
           Importable(offered, host, staticOnly, base)
    PROVE  Imported(offered, host, staticOnly, base) \in ManifestType
<1> DEFINE new == Imported(offered, host, staticOnly, base)
           from == IF base = NoManifest THEN NoFile ELSE base.from
           win == IF base = NoManifest THEN Skip ELSE base.win
           bin == IF base = NoManifest THEN AllowBins ELSE base.bin
           dir(k) == BlockDir(offered[k], Pins[k], k, host, staticOnly)
           unix == [k \in Key |-> IF k \notin DOMAIN Pins THEN NoBlock
                                  ELSE [payload |-> offered[k], dir |-> dir(k),
                                        gated |-> AllowBins]]
<1>1. new = [from |-> from, win |-> win, bin |-> bin, unix |-> unix]
  BY DEF Imported
<1>2. /\ from \in Bucket \cup {NoFile} /\ win \in {Conversion[f] : f \in Bucket} \cup {Skip}
      /\ bin \in BinList
  BY EntryParts DEF ManifestType, BinList
<1>3. ASSUME NEW k \in Key, k \in DOMAIN Pins
      PROVE  [payload |-> offered[k], dir |-> dir(k), gated |-> AllowBins] \in Block
  <2>1. offered[k] \in Payload /\ Pins[k] \in Dir \cup {Absent} /\ AllowBins \in Seq(Path)
    BY <1>3, EntryParts
  <2>2. offered[k].tops \subseteq Dir
    BY <2>1, VerifyAssumption DEF IsPayload
  <2>3. dir(k) \in Verified(offered[k], Pins[k], k, host, staticOnly)
    BY <1>3 DEF Importable, BlockDir
  <2>4. dir(k) \in ExtractDirs(offered[k], Pins[k])
    BY <2>3 DEF Verified
  <2> HIDE DEF dir
  <2>5. dir(k) \in Dir \cup {Root}
    BY <2>2, <2>4 DEF ExtractDirs, Detected
  <2> QED
    BY <2>1, <2>5 DEF Block
<1> HIDE DEF dir
<1>4. unix \in [Key -> Block \cup {NoBlock}]
  BY <1>3
<1> HIDE DEF from, win, bin, unix
<1> QED
  BY <1>1, <1>2, <1>4 DEF ManifestType

LEMMA UnixTyped ==
    ASSUME NEW base \in ManifestType \cup {NoManifest}
    PROVE  Unix(base) \in [Key -> Block \cup {NoBlock}]
BY DEF Unix, NoBlocks, ManifestType

LEMMA NextTypes == TypeOK /\ [Next]_vars => TypeOK'
<1> SUFFICES ASSUME TypeOK, [Next]_vars PROVE TypeOK'
  OBVIOUS
<1>1. /\ manifest \in ManifestType \cup {NoManifest} /\ allowlist \in Allowlists
      /\ privileged \subseteq Payload
  BY DEF TypeOK, ManifestType, BinList
<1> DEFINE LegsTyped == legs \in [Leg -> [result : {"idle", "pending", "green", "red", "skipped"},
                                          ran : Payload \cup {NoPayload}]]
<1>2. LegsTyped
  BY DEF TypeOK
<1>3. ASSUME manifest' \in ManifestType \cup {NoManifest}, allowlist' \in Allowlists,
             LegsTyped', privileged' \subseteq Payload
      PROVE  TypeOK'
  BY <1>3 DEF TypeOK, ManifestType, BinList, Conversion
<1> HIDE DEF LegsTyped
<1>4. ASSUME NEW offered \in [DOMAIN Pins -> Payload], NEW host \in Key,
             NEW staticOnly \in BOOLEAN, NEW base \in {manifest, NoManifest},
             Import(offered, host, staticOnly, base)
      PROVE  manifest' \in ManifestType \cup {NoManifest} /\ UNCHANGED <<allowlist, legs>>
  BY <1>1, <1>4, ImportedTyped DEF Import
<1>5. ASSUME NEW offered \in [DOMAIN Pins -> Payload], Enrich(offered)
      PROVE  TypeOK'
  <2> DEFINE runner == [os |-> "linux", cpu |-> "x64"]
  <2>1. manifest' \in ManifestType \cup {NoManifest} /\ UNCHANGED <<allowlist, legs>>
    BY <1>4, <1>5 DEF Enrich, Key
  <2>2. privileged' \subseteq Payload
    BY <1>1, <1>5 DEF Enrich
  <2> QED
    BY <1>1, <1>2, <1>3, <2>1, <2>2 DEF LegsTyped
<1>6. ASSUME NEW offered \in [DOMAIN Pins -> Payload], NEW host \in Key,
             NEW staticOnly \in BOOLEAN, NEW newer \in BOOLEAN,
             ImportByHand(offered, host, staticOnly, newer)
      PROVE  TypeOK'
  <2>1. manifest' \in ManifestType \cup {NoManifest} /\ UNCHANGED <<allowlist, legs, privileged>>
    BY <1>4, <1>6 DEF ImportByHand
  <2> QED
    BY <1>1, <1>2, <1>3, <2>1 DEF LegsTyped
<1>7. ASSUME NEW f \in Bucket, NEW newer \in BOOLEAN, ScoopSync(f, newer)
      PROVE  TypeOK'
  <2> DEFINE unix == IF newer THEN NoBlocks ELSE Unix(manifest)
  <2>1. unix \in [Key -> Block \cup {NoBlock}]
    BY <1>1, UnixTyped DEF NoBlocks
  <2> HIDE DEF unix
  <2>2. manifest' = [from |-> f, win |-> Conversion[f], bin |-> Conversion[f].bin, unix |-> unix]
        /\ Conversion[f] # Skip /\ UNCHANGED <<allowlist, legs, privileged>>
    BY <1>7 DEF ScoopSync, unix
  <2>3. Conversion[f].bin \in BinList
    BY <2>2, ConvertFields, VerifyAssumption DEF Conversion, IsScoopFile, BinList
  <2>4. manifest' \in ManifestType
    BY <2>1, <2>2, <2>3 DEF ManifestType
  <2> QED
    BY <1>1, <1>2, <1>3, <2>2, <2>4 DEF LegsTyped
<1>8. ASSUME NEW entry \in Allowlists, AllowlistChanges(entry) PROVE TypeOK'
  BY <1>1, <1>2, <1>3, <1>8 DEF AllowlistChanges, LegsTyped
<1>9. CASE StartLegs
  BY <1>1, <1>2, <1>3, <1>9 DEF StartLegs, LegsTyped
<1>10. CASE NextCommit
  BY <1>1, <1>2, <1>3, <1>10 DEF NextCommit, LegsTyped, Idle
<1>11. ASSUME NEW h \in Leg, NEW served \in Payload \cup {NoPayload}, Verify(h, served)
       PROVE  TypeOK'
  BY <1>1, <1>2, <1>3, <1>11 DEF Verify, LegsTyped
<1>12. CASE UNCHANGED vars
  BY <1>1, <1>2, <1>3, <1>12 DEF vars, LegsTyped
<1> QED
  BY <1>5, <1>6, <1>7, <1>8, <1>9, <1>10, <1>11, <1>12 DEF Next, Commit

(* The types: a block unpacks in a directory of its payload or at the top,  *)
(* and the Windows part is a conversion of a bucket file or none            *)
(* (write_release_manifest, scoop-import's write_manifest).                 *)
THEOREM VerifyTypes == Spec => []TypeOK
<1>1. Init => TypeOK
  BY DEF Init, TypeOK, Idle
<1> QED
  BY <1>1, NextTypes, PTL DEF Spec
=============================================================================
