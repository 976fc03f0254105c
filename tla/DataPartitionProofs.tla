------------------------- MODULE DataPartitionProofs -------------------------
(***************************************************************************)
(* Proofs about the data partition: the verdicts on one ISO's files        *)
(* (IsoShelf), the host's commands that fill it (DataPartition) and the    *)
(* rescue environment's search of it (IsoScan), for any files, downloads,  *)
(* images and bounds.                                                      *)
(***************************************************************************)
EXTENDS DataPartition, IsoScan, FiniteSetTheorems, SequenceTheorems, TLAPS

-----------------------------------------------------------------------------
(* IsoShelf.  The verdicts rescue-tui derives from one ISO's files are     *)
(* five functions written apart (verdict.rs, state.rs, main.rs,            *)
(* render.rs).  What they say of the same files agrees, for every content  *)
(* of the files, every distribution and both Secure Boot states -- and     *)
(* where it does not, the theorems name the case.                          *)

(* The tiers partition the ISOs. *)
LEMMA TierInRange ==
  ASSUME NEW f, NEW distro, NEW enforcing
  PROVE Tier(f, distro, enforcing) \in {1, 2, 3, 5, 6}
BY DEF Tier

(* verdict.rs's tiers against the gates of attempt_kexec: what the gates   *)
(* block has a tier that says so, tiers 2 and 3 are asked for the typed    *)
(* word and tier 1 is not; what a tier calls unbootable and the gates let  *)
(* through is an unsigned kernel under Secure Boot, which only the kernel  *)
(* refuses.                                                                *)
THEOREM TierAgreesWithGates ==
  ASSUME NEW f, NEW distro, NEW enforcing \in BOOLEAN
  PROVE LET tier == Tier(f, distro, enforcing) IN
        /\ KexecBlocked(f, distro) => ~ IsBootable(tier)
        /\ tier \in {2, 3} => ~ KexecBlocked(f, distro) /\ DegradedTrust(f)
        /\ tier = 1 => ~ KexecBlocked(f, distro) /\ ~ DegradedTrust(f)
        /\ ~ IsBootable(tier) /\ ~ KexecBlocked(f, distro)
             => "UnsignedKernel" \in Quirks(distro) /\ enforcing
<1> DEFINE tier == Tier(f, distro, enforcing)
<1>1. KexecBlocked(f, distro) => tier \in {5, 6}
  BY DEF Tier, KexecBlocked
<1>2. tier \in {2, 3} => ~ KexecBlocked(f, distro) /\ DegradedTrust(f)
  BY DEF Tier, KexecBlocked, DegradedTrust
<1>3. tier = 1 => ~ KexecBlocked(f, distro) /\ ~ DegradedTrust(f)
  BY DEF Tier, KexecBlocked, DegradedTrust
<1>4. tier \in {5, 6} /\ ~ KexecBlocked(f, distro)
        => "UnsignedKernel" \in Quirks(distro) /\ enforcing
  BY DEF Tier, KexecBlocked
<1>5. IsBootable(tier) <=> tier \in {1, 2, 3}
  BY DEF IsBootable
<1>6. tier \in {1, 2, 3, 5, 6}
  BY TierInRange
<1> QED
  BY <1>1, <1>2, <1>3, <1>4, <1>5, <1>6

(* The text mode's four colours against the tiers: red is what the gate    *)
(* blocks, green is never asked for the typed word, and without Secure     *)
(* Boot each colour is one tier of the graphical list.                     *)
THEOREM TextAgreesWithTier ==
  ASSUME NEW f, NEW distro
  PROVE LET verdict == TextVerdict(f, distro)
            tier == Tier(f, distro, FALSE) IN
        /\ verdict = "red" <=> KexecBlocked(f, distro)
        /\ verdict = "green" => ~ DegradedTrust(f)
        /\ verdict \in {"yellow", "gray"} => DegradedTrust(f)
        /\ verdict = "red" <=> tier \in {5, 6}
        /\ verdict = "green" <=> tier = 1
        /\ verdict = "yellow" <=> tier = 3
        /\ verdict = "gray" <=> tier = 2
BY DEF TextVerdict, Tier, KexecBlocked, DegradedTrust

(* The Confirm screen against itself: a red span on the Trust line and the *)
(* tampered banner go together and kexec is blocked under them, and a      *)
(* banner of tier 1 has a green span and no red one.                       *)
THEOREM ConfirmAgrees ==
  ASSUME NEW f, NEW distro, NEW enforcing \in BOOLEAN
  PROVE LET c == ConfirmShows(f, distro, enforcing) IN
        /\ c.banner = 6 <=> "red" \in c.trust
        /\ c.banner = 6 => c.blocked
        /\ c.banner = 1 => "green" \in c.trust /\ "red" \notin c.trust
<1> DEFINE c == ConfirmShows(f, distro, enforcing)
<1>1. /\ c.banner = Tier(f, distro, enforcing)
      /\ c.trust = {ChecksumSpan(f), SignatureSpan(f)}
      /\ c.blocked = KexecBlocked(f, distro)
  BY DEF ConfirmShows
<1>2. Tier(f, distro, enforcing) = 6 <=> Tampered(f)
  BY DEF Tier
<1>3. Tier(f, distro, enforcing) = 1 => Attested(f) /\ ~ Tampered(f)
  BY DEF Tier
<1>4. ("red" \in {ChecksumSpan(f), SignatureSpan(f)}) <=> Tampered(f)
  BY DEF ChecksumSpan, SignatureSpan, Tampered
<1>5. ("green" \in {ChecksumSpan(f), SignatureSpan(f)}) <=> Attested(f)
  BY DEF ChecksumSpan, SignatureSpan, Attested
<1>6. Tampered(f) => KexecBlocked(f, distro)
  BY DEF KexecBlocked
<1> QED
  BY <1>1, <1>2, <1>3, <1>4, <1>5, <1>6

(* The two axes of the Confirm screen explain its banner: one of them says *)
(* what tier 6 says, but for a wrong sidecar beside a good signature,      *)
(* where both axes read Verified under a tampered banner.                  *)
THEOREM AxesExplainBanner ==
  ASSUME NEW f, NEW distro, NEW enforcing \in BOOLEAN
  PROVE LET c == ConfirmShows(f, distro, enforcing) IN
        /\ c.source = "Tampered" \/ c.media = "Mismatch" => c.banner = 6
        /\ c.banner = 6 =>
             \/ c.source = "Tampered" \/ c.media = "Mismatch"
             \/ /\ VerifyHash(f) = "Mismatch" /\ VerifySignature(f) = "Verified"
                /\ c.source = "Verified" /\ c.media = "Verified"
<1> DEFINE c == ConfirmShows(f, distro, enforcing)
<1>1. /\ c.banner = Tier(f, distro, enforcing)
      /\ c.source = SourceVerdict(f) /\ c.media = MediaVerdict(f)
  BY DEF ConfirmShows
<1>2. Tier(f, distro, enforcing) = 6 <=> Tampered(f)
  BY DEF Tier
<1>3. SourceVerdict(f) = "Tampered" \/ MediaVerdict(f) = "Mismatch" => Tampered(f)
  BY DEF SourceVerdict, MediaVerdict, Tampered
<1>4. Tampered(f) =>
        \/ SourceVerdict(f) = "Tampered" \/ MediaVerdict(f) = "Mismatch"
        \/ /\ VerifyHash(f) = "Mismatch" /\ VerifySignature(f) = "Verified"
           /\ SourceVerdict(f) = "Verified" /\ MediaVerdict(f) = "Verified"
  BY DEF SourceVerdict, MediaVerdict, Tampered, Attested
<1> QED
  BY <1>1, <1>2, <1>3, <1>4

(* The info pane against the gates: "typed confirmation" is written of     *)
(* exactly the ISOs the gates will ask for it, unless Secure Boot is       *)
(* enforcing and the kernel unsigned; those the pane calls disabled.       *)
THEOREM PaneAgreesWithGates ==
  ASSUME NEW f, NEW distro, NEW enforcing \in BOOLEAN,
         ~ ("UnsignedKernel" \in Quirks(distro) /\ enforcing)
  PROVE LET note == PaneNote(Tier(f, distro, enforcing), distro) IN
        /\ note = "typed confirmation" <=> ~ KexecBlocked(f, distro) /\ DegradedTrust(f)
        /\ note \in {"boot is disabled", "use another tool"} <=> KexecBlocked(f, distro)
<1> DEFINE tier == Tier(f, distro, enforcing)
           note == PaneNote(tier, distro)
<1>1. /\ KexecBlocked(f, distro) => ~ IsBootable(tier)
      /\ tier \in {2, 3} => ~ KexecBlocked(f, distro) /\ DegradedTrust(f)
      /\ tier = 1 => ~ KexecBlocked(f, distro) /\ ~ DegradedTrust(f)
      /\ ~ IsBootable(tier) => KexecBlocked(f, distro)
  BY TierAgreesWithGates
<1>2. IsBootable(tier) <=> tier \in {1, 2, 3}
  BY DEF IsBootable
<1>3. note = "typed confirmation" <=> IsBootable(tier) /\ tier \in {2, 3}
  BY DEF PaneNote
<1>4. note \in {"boot is disabled", "use another tool"} <=> ~ IsBootable(tier)
  BY DEF PaneNote
<1> QED
  BY <1>1, <1>2, <1>3, <1>4

(* The pane's summaries and the Confirm screen tell the same tale: the     *)
(* pane says MISMATCH or FORGED of exactly the ISOs whose banner is        *)
(* "tampered", and of no ISO that Confirm would let through.               *)
THEOREM PaneNamesTampering ==
  ASSUME NEW f, NEW distro, NEW enforcing \in BOOLEAN
  PROVE LET says == Summaries(f).sha256 = "Mismatch" \/ Summaries(f).signer = "Forged"
            c == ConfirmShows(f, distro, enforcing)
        IN  (says <=> c.banner = 6) /\ (says => c.blocked)
<1>1. Tier(f, distro, enforcing) = 6 <=> Tampered(f)
  BY DEF Tier
<1>2. /\ Summaries(f).sha256 = VerifyHash(f)
      /\ Summaries(f).signer = VerifySignature(f)
  BY DEF Summaries
<1>3. /\ ConfirmShows(f, distro, enforcing).banner = Tier(f, distro, enforcing)
      /\ ConfirmShows(f, distro, enforcing).blocked = KexecBlocked(f, distro)
  BY DEF ConfirmShows
<1> QED
  BY <1>1, <1>2, <1>3 DEF Tampered, KexecBlocked

(* The pane of a Windows installer offers the stick's other ISOs "to try   *)
(* Linux instead" without their verdicts: the gate blocks an ISO on offer  *)
(* exactly when it has been tampered with.                                 *)
THEOREM OffersMayBeTampered ==
  ASSUME NEW distros, NEW distro \in WindowsRedirect(distros), NEW f
  PROVE KexecBlocked(f, distro) <=> Tampered(f)
  BY DEF WindowsRedirect, KexecBlocked

-----------------------------------------------------------------------------
(* DataPartition *)

(* Types, with what a step of a command needs of its operands. *)
DiskTypes ==
  /\ DiskTypeOK
  /\ receipts \in [Receipts -> {None, Torn} \cup Seq(Name)]
  /\ whole \in [Receipts -> Seq(Name)]
  /\ tool = "none" => step = "idle"
  /\ tool = "add" => parcel \in Download /\ place \in Place
  /\ step \in {"hashed", "record"} => place \in Place
  /\ drag = None \/ drag \in Place \X Download
  /\ red \subseteq Place

(* Every temporary mount is the running command's own, unless a command    *)
(* was killed or an umount failed. *)
MountsCounted ==
  /\ tools \in 0 .. MaxTools /\ mounts \in 0 .. tools /\ mounting \in BOOLEAN
  /\ mounting => mounts >= 1
  /\ tool = "none" => ~ mounting
  /\ killed \/ umount_failed \/ mounts = 0 \/ (mounting /\ mounts = 1)

(* What was red in the listing was listed with its sum, so that --scan     *)
(* makes none for it. *)
RedIsListed ==
  tool = "scan" =>
    /\ \A e \in todo : e.at \in red => e.sha
    /\ step = "hashed" => place \notin red

(* A receipt that is whole is the last whole one, and the one a command    *)
(* holds has one record more than that, while no other add has written it. *)
HeldExtends ==
  /\ \A r \in Receipts : receipts[r] \notin {None, Torn} => receipts[r] = whole[r]
  /\ step \in {"held", "writing"} =>
       /\ held \in Receipts \X Seq(Name)
       /\ ~ overlapped => \E n \in Name : held[2] = Append(whole[held[1]], n)

DiskInv ==
  DiskTypes /\ MountsCounted /\ RedIsListed /\ HeldExtends /\ IsFiniteSet(Isos)

LEMMA NoFilesAreFiles == NoFiles \in Files
BY DEF NoFiles, Files, Bytes

LEMMA BoundsAreNat == MaxTools \in Nat
BY DataPartitionAssumption

LEMMA DiskInitInv == ASSUME DiskInit PROVE DiskInv
<1> USE BoundsAreNat
<1>1. DiskTypes
  <2>1. shelf \in [Place -> Files]
    BY NoFilesAreFiles DEF DiskInit
  <2>2. receipts \in [Receipts -> {None, Torn} \cup Seq(Name)]
    <3>1. <<>> \in Seq(Name)
      OBVIOUS
    <3>2. {None, <<>>} \subseteq {None, Torn} \cup Seq(Name)
      BY <3>1
    <3> QED
      BY <3>2 DEF DiskInit
  <2>3. whole \in [Receipts -> Seq(Name)]
    BY DEF DiskInit
  <2> QED
    BY <2>1, <2>2, <2>3 DEF DiskInit, DiskTypes, DiskTypeOK
<1>2. MountsCounted
  <2>1. tools = 0 /\ mounts = 0 /\ mounting = FALSE
    BY DEF DiskInit
  <2>2. tools \in 0 .. MaxTools /\ mounts \in 0 .. tools
    BY <2>1
  <2> QED
    BY <2>1, <2>2 DEF MountsCounted
<1>3. RedIsListed
  BY DEF DiskInit, RedIsListed
<1>4. HeldExtends
  BY DEF DiskInit, HeldExtends
<1>5. Isos = {}
  BY DEF DiskInit, Isos, NoFiles
<1> QED
  BY <1>1, <1>2, <1>3, <1>4, <1>5, FS_EmptySet DEF DiskInv

LEMMA DiskRestInv == ASSUME DiskInv, UNCHANGED diskVars PROVE DiskInv'
BY DEF diskVars, toolVars, mountVars, receiptVars, dragVars, DiskInv, DiskTypes, DiskTypeOK,
   MountsCounted, RedIsListed, HeldExtends, Isos

(* The mounts: only the start and the end of a command touch them. *)
LEMMA MountsStep == ASSUME MountsCounted, DiskNext PROVE MountsCounted'
<1> USE BoundsAreNat DEF MountsCounted, mountVars, toolVars
<1>1. ASSUME NEW t \in {"add", "scan", "list", "verify"}, Begin(t) PROVE MountsCounted'
  BY <1>1 DEF Begin
<1>2. CASE StartAdd \/ StartScan \/ StartList \/ StartVerify
  BY <1>1, <1>2 DEF StartAdd, StartScan, StartList, StartVerify
<1>3. CASE Release
  <2>1. CASE mounting /\ mounts' = mounts - 1 /\ UNCHANGED umount_failed
    <3>1. tools' = tools /\ killed' = killed /\ mounting' = FALSE /\ tool' = "none"
      BY <1>3 DEF Release
    <3>2. mounts' \in 0 .. tools'
      BY <2>1, <3>1
    <3>3. killed' \/ umount_failed' \/ mounts' = 0
      BY <2>1, <3>1
    <3> QED
      BY <3>1, <3>2, <3>3
  <2>2. CASE mounting /\ umount_failed' = TRUE /\ UNCHANGED mounts
    BY <1>3, <2>2 DEF Release
  <2>3. CASE ~ mounting
    BY <1>3, <2>3 DEF Release
  <2> QED
    BY <1>3, <2>1, <2>2, <2>3 DEF Release
<1>4. CASE Kill
  BY <1>4 DEF Kill
<1>5. CASE UNCHANGED <<tools, mounts, mounting, tool, killed, umount_failed>>
  BY <1>5
<1> QED
  BY <1>2, <1>3, <1>4, <1>5
     DEF DiskNext, AddNext, ScanNext, RecordNext, Continue, AddRefused, CopyIso, CopyEnds,
         CopyFails, CopySidecars, ScanExisting, ScanHash, ScanAttest, ScanAttestFails,
         ReadReceipt, NoReceipt, TruncateReceipt, WriteReceipt, VerifyOne, ListingEnds,
         OtherAdd, DragStarts, DragEnds

(* The listing: ScanHash takes only what was listed without a sum. *)
LEMMA RedStep == ASSUME RedIsListed, DiskNext PROVE RedIsListed'
<1> USE DEF RedIsListed, toolVars
<1>1. CASE StartScan
  <2>1. ASSUME NEW e \in Listing, shelf[e.at].sha # None PROVE e.sha
    <3>1. PICK p \in Isos : e = [at |-> p, sha |-> shelf[p].sha # None \/ shelf[p].sums]
      BY DEF Listing
    <3>2. e.at = p /\ e.sha = (shelf[p].sha # None \/ shelf[p].sums)
      BY <3>1
    <3> QED
      BY <2>1, <3>2
  <2>2. \A p \in red' : shelf[p].sha # None
    BY <1>1 DEF StartScan
  <2> QED
    BY <1>1, <2>1, <2>2 DEF StartScan
<1>2. CASE StartAdd \/ StartList \/ StartVerify \/ Release \/ Kill
  BY <1>2 DEF StartAdd, StartList, StartVerify, Release, Kill, Begin
<1>3. CASE ScanNext
  BY <1>3 DEF ScanNext, ScanExisting, ScanHash, ScanAttest, ScanAttestFails, Continue
<1>4. CASE AddNext \/ RecordNext \/ ListingEnds
  BY <1>4 DEF AddNext, AddRefused, CopyIso, CopyEnds, CopyFails, CopySidecars, RecordNext,
     ReadReceipt, NoReceipt, TruncateReceipt, WriteReceipt, ListingEnds, AfterRecord, Continue
<1>5. CASE VerifyOne \/ OtherAdd \/ DragStarts \/ DragEnds
  BY <1>5 DEF VerifyOne, OtherAdd, DragStarts, DragEnds
<1> QED
  BY <1>1, <1>2, <1>3, <1>4, <1>5 DEF DiskNext

(* The receipts. *)
LEMMA HeldIsSomething == \A h \in Receipts \X Seq(Name) : h # None
BY DataPartitionAssumption DEF Receipts

LEMMA HeldStep == ASSUME DiskTypes, HeldExtends, DiskNext PROVE HeldExtends'
<1> USE DEF HeldExtends, receiptVars
<1>1. CASE UNCHANGED <<receipts, whole>> /\ step' \notin {"held", "writing"}
  BY <1>1
<1>2. CASE UNCHANGED <<receiptVars, step>>
  BY <1>2
<1>3. CASE ReadReceipt
  <2>1. PICK r \in Receipts : /\ receipts[r] \notin {None, Torn}
                              /\ held' = <<r, Append(receipts[r], place[2])>>
    BY <1>3 DEF ReadReceipt, Located, DiskTypes, DiskTypeOK, Receipts
  <2>2. place[2] \in Name
    BY <1>3 DEF ReadReceipt, DiskTypes, Place
  <2>3. receipts[r] = whole[r] /\ whole[r] \in Seq(Name)
    BY <2>1 DEF DiskTypes
  <2>4. held'[1] = r /\ held'[2] = Append(whole[r], place[2])
    BY <2>1, <2>3
  <2>5. held' \in Receipts \X Seq(Name)
    <3>1. Append(whole[r], place[2]) \in Seq(Name)
      BY <2>2, <2>3
    <3> QED
      BY <2>1, <2>3, <3>1
  <2> QED
    BY <1>3, <2>2, <2>4, <2>5 DEF ReadReceipt, Continue
<1>4. CASE TruncateReceipt
  <2>1. held[1] \in Receipts /\ receipts' = [receipts EXCEPT ![held[1]] = Torn]
    BY <1>4 DEF TruncateReceipt
  <2>2. \A r \in Receipts : receipts'[r] \in {receipts[r], Torn}
    BY <2>1 DEF DiskTypes
  <2> QED
    BY <1>4, <2>2 DEF TruncateReceipt, Continue
<1>5. CASE WriteReceipt
  <2>1. /\ held[1] \in Receipts
        /\ receipts' = [receipts EXCEPT ![held[1]] = held[2]]
        /\ whole' = [whole EXCEPT ![held[1]] = held[2]]
    BY <1>5 DEF WriteReceipt
  <2>2. \A r \in Receipts : receipts'[r] \notin {None, Torn} => receipts'[r] = whole'[r]
    BY <2>1 DEF DiskTypes
  <2> QED
    BY <1>5, <2>2 DEF WriteReceipt, Continue, AfterRecord
<1>6. CASE OtherAdd
  <2>1. PICK r \in Receipts, n \in Name :
          /\ receipts[r] \notin {None, Torn}
          /\ receipts' = [receipts EXCEPT ![r] = Append(@, n)]
          /\ whole' = [whole EXCEPT ![r] = receipts'[r]]
          /\ overlapped' = (overlapped \/ (held # None /\ held[1] = r))
    BY <1>6 DEF OtherAdd
  <2>2. \A x \in Receipts : receipts'[x] \notin {None, Torn} => receipts'[x] = whole'[x]
    BY <2>1 DEF DiskTypes
  <2>3. \A x \in Receipts \ {r} : whole'[x] = whole[x]
    BY <2>1 DEF DiskTypes
  <2>4. UNCHANGED <<step, held>>
    BY <1>6 DEF OtherAdd, toolVars
  <2>5. step \in {"held", "writing"} /\ ~ overlapped' => ~ overlapped /\ held[1] # r
    BY <2>1, HeldIsSomething
  <2> QED
    BY <2>2, <2>3, <2>4, <2>5
<1> QED
  BY <1>1, <1>2, <1>3, <1>4, <1>5, <1>6
     DEF DiskNext, StartAdd, StartScan, StartList, StartVerify, Begin, Release, Kill,
         AddNext, ScanNext, RecordNext, Continue, AddRefused, CopyIso, CopyEnds,
         CopyFails, CopySidecars, ScanExisting, ScanHash, ScanAttest, ScanAttestFails,
         NoReceipt, AfterRecord, VerifyOne, ListingEnds, DragStarts, DragEnds, toolVars

(* Types, the start and the end of a command first. *)
LEMMA TypesAtEnds ==
  ASSUME DiskTypes, MountsCounted',
         StartAdd \/ StartScan \/ StartList \/ StartVerify \/ Release \/ Kill
  PROVE DiskTypes'
<1> USE DataPartitionAssumption, BoundsAreNat
    DEF DiskTypes, DiskTypeOK, MountsCounted, receiptVars, dragVars, mountVars
<1>1. Listing \subseteq Entry
  <2>1. ASSUME NEW p \in Isos
        PROVE [at |-> p, sha |-> shelf[p].sha # None \/ shelf[p].sums] \in Entry
    <3>1. p \in Place /\ (shelf[p].sha # None \/ shelf[p].sums) \in BOOLEAN
      BY DEF Isos
    <3> QED
      BY <3>1 DEF Entry
  <2> QED
    BY <2>1 DEF Listing
<1>2. mounts' \in 0 .. MaxTools
  OBVIOUS
<1>3. CASE StartAdd
  BY <1>2, <1>3 DEF StartAdd, Begin, Place
<1>4. CASE StartScan \/ StartList \/ StartVerify
  BY <1>1, <1>2, <1>4 DEF StartScan, StartList, StartVerify, Begin, Isos
<1>5. CASE Release \/ Kill
  BY <1>2, <1>5 DEF Release, Kill
<1> QED
  BY <1>3, <1>4, <1>5

(* Files stay files, whatever part of them is written. *)
LEMMA FilesStay ==
  ASSUME NEW f \in Files
  PROVE /\ \A b \in Bytes : [f EXCEPT !.iso = b] \in Files
        /\ \A a \in Bytes \cup {Garbled, None} : [f EXCEPT !.sha = a] \in Files
BY DEF Files

(* What cp may leave of the sidecars. *)
LEMMA SidecarTypes ==
  ASSUME NEW f \in Files, NEW d \in Download, NEW copied \in SUBSET SidecarsOf(d)
  PROVE /\ Sidecar(f, d, "sha", copied) \subseteq Bytes \cup {Garbled, None}
        /\ Sidecar(f, d, "sig", copied) \subseteq Signature \cup {Garbled, None}
        /\ Sidecar(f, d, "sums", copied) \subseteq BOOLEAN
<1>1. /\ d.sha \in Body \cup {Garbled, None} /\ d.sums \in BOOLEAN
      /\ d.sig \in Signature \cup {None}
  BY DataPartitionAssumption
<1>2. /\ f.sha \in Bytes \cup {Garbled, None} /\ f.sums \in BOOLEAN
      /\ f.sig \in Signature \cup {Garbled, None}
  BY DEF Files
<1> QED
  BY <1>1, <1>2 DEF Sidecar, SidecarsOf, Bytes

LEMMA TypesOfAdd ==
  ASSUME DiskTypes, AddNext PROVE DiskTypes'
<1> USE DEF DiskTypes, DiskTypeOK, receiptVars, dragVars, mountVars, Continue
<1>1. parcel \in Download /\ place \in Place /\ shelf[place] \in Files
  BY DEF AddNext, AddRefused, CopyIso, CopyEnds, CopyFails, CopySidecars
<1>2. parcel.iso \in Body /\ parcel.bulk \in Body \cup {None}
  BY <1>1, DataPartitionAssumption
<1>3. CASE AddRefused \/ CopyFails
  BY <1>3 DEF AddRefused, CopyFails
<1>4. CASE CopyIso \/ CopyEnds
  <2>1. PICK b \in Bytes : shelf' = [shelf EXCEPT ![place].iso = b]
    BY <1>2, <1>4 DEF CopyIso, CopyEnds, Bytes
  <2>2. shelf' \in [Place -> Files]
    BY <1>1, <2>1, FilesStay
  <2> QED
    BY <1>4, <2>2 DEF CopyIso, CopyEnds
<1>5. CASE CopySidecars
  <2>1. PICK copied \in SUBSET SidecarsOf(parcel) :
          \E a \in Sidecar(shelf[place], parcel, "sha", copied),
             b \in Sidecar(shelf[place], parcel, "sig", copied),
             c \in Sidecar(shelf[place], parcel, "sums", copied),
             synthesized \in BOOLEAN :
            /\ synthesized => copied = {} /\ parcel.bulk # None
            /\ shelf' = [shelf EXCEPT ![place].sha = IF synthesized THEN parcel.bulk ELSE a,
                                      ![place].sig = b, ![place].sums = c]
    BY <1>5 DEF CopySidecars
  <2>2. PICK x \in Bytes \cup {Garbled, None}, b \in Signature \cup {Garbled, None},
             c \in BOOLEAN, synthesized \in BOOLEAN :
          shelf' = [shelf EXCEPT ![place].sha = IF synthesized THEN parcel.bulk ELSE x,
                                 ![place].sig = b, ![place].sums = c]
    <3>1. /\ Sidecar(shelf[place], parcel, "sha", copied) \subseteq Bytes \cup {Garbled, None}
          /\ Sidecar(shelf[place], parcel, "sig", copied) \subseteq Signature \cup {Garbled, None}
          /\ Sidecar(shelf[place], parcel, "sums", copied) \subseteq BOOLEAN
      BY <1>1, SidecarTypes
    <3> QED
      BY <2>1, <3>1
  <2> DEFINE a == IF synthesized THEN parcel.bulk ELSE x
  <2>6. a \in Bytes \cup {Garbled, None}
    BY <1>2 DEF Bytes
  <2>3. shelf' = [shelf EXCEPT ![place] = [shelf[place] EXCEPT !.sha = a, !.sig = b, !.sums = c]]
    BY <1>1, <2>2
  <2> HIDE DEF a
  <2>4. [shelf[place] EXCEPT !.sha = a, !.sig = b, !.sums = c] \in Files
    BY <1>1, <2>6 DEF Files
  <2>5. shelf' \in [Place -> Files]
    BY <1>1, <2>3, <2>4
  <2> QED
    BY <1>1, <1>5, <2>5 DEF CopySidecars
<1> QED
  BY <1>3, <1>4, <1>5 DEF AddNext

LEMMA TypesOfScan ==
  ASSUME DiskTypes, ScanNext \/ VerifyOne \/ ListingEnds PROVE DiskTypes'
<1> USE DEF DiskTypes, DiskTypeOK, receiptVars, dragVars, mountVars, Continue
<1>1. CASE ScanExisting \/ VerifyOne
  BY <1>1 DEF ScanExisting, VerifyOne
<1>2. CASE ScanHash
  <2>1. PICK e \in todo : /\ todo' = todo \ {e} /\ place' = e.at /\ digest' = shelf[e.at].iso
                          /\ shelf[e.at].iso # None
    BY <1>2 DEF ScanHash
  <2>2. e.at \in Place
    BY DEF Entry
  <2>3. shelf[e.at].iso \in Bytes
    BY <2>1, <2>2 DEF Files
  <2> QED
    BY <1>2, <2>1, <2>2, <2>3 DEF ScanHash
<1>3. CASE ScanAttest
  <2>1. shelf[place] \in Files /\ place \in Place
    BY <1>3 DEF ScanAttest
  <2>2. shelf' \in [Place -> Files]
    BY <1>3, <2>1, FilesStay DEF ScanAttest
  <2> QED
    BY <1>3, <2>1, <2>2 DEF ScanAttest
<1>4. CASE ListingEnds
  BY <1>4 DEF ListingEnds
<1>5. CASE ScanAttestFails
  <2>1. shelf[place] \in Files /\ place \in Place
    BY <1>5 DEF ScanAttestFails
  <2>2. [shelf[place] EXCEPT !.sha = Garbled] \in Files
    BY <2>1, FilesStay
  <2>3. shelf' \in {shelf, [shelf EXCEPT ![place] = [shelf[place] EXCEPT !.sha = Garbled]]}
    BY <1>5, <2>1 DEF ScanAttestFails
  <2>4. shelf' \in [Place -> Files]
    BY <2>1, <2>2, <2>3
  <2> QED
    BY <1>5, <2>4 DEF ScanAttestFails
<1> QED
  BY <1>1, <1>2, <1>3, <1>4, <1>5 DEF ScanNext

LEMMA TypesOfRecord ==
  ASSUME DiskTypes, HeldExtends, RecordNext \/ OtherAdd PROVE DiskTypes'
<1> USE DEF DiskTypes, DiskTypeOK, receiptVars, dragVars, mountVars, toolVars, Continue
<1>1. CASE ReadReceipt \/ NoReceipt
  BY <1>1 DEF ReadReceipt, NoReceipt, AfterRecord
<1>2. CASE TruncateReceipt \/ WriteReceipt
  <2>1. held[1] \in Receipts /\ held[2] \in Seq(Name)
    BY <1>2 DEF TruncateReceipt, WriteReceipt, HeldExtends
  <2>2. /\ receipts' \in [Receipts -> {None, Torn} \cup Seq(Name)]
        /\ whole' \in [Receipts -> Seq(Name)] /\ latest' \in Receipts
    BY <1>2, <2>1 DEF TruncateReceipt, WriteReceipt
  <2> QED
    BY <1>2, <2>2 DEF TruncateReceipt, WriteReceipt, AfterRecord
<1>3. CASE OtherAdd
  <2>1. PICK r \in Receipts, n \in Name :
          /\ receipts[r] \notin {None, Torn}
          /\ receipts' = [receipts EXCEPT ![r] = Append(receipts[r], n)]
          /\ whole' = [whole EXCEPT ![r] = receipts'[r]] /\ latest' = r
    BY <1>3 DEF OtherAdd
  <2>2. Append(receipts[r], n) \in Seq(Name)
    BY <2>1
  <2>3. receipts'[r] = Append(receipts[r], n)
    BY <2>1
  <2>4. /\ receipts' \in [Receipts -> {None, Torn} \cup Seq(Name)]
        /\ whole' \in [Receipts -> Seq(Name)]
    BY <2>1, <2>2, <2>3
  <2> QED
    BY <1>3, <2>1, <2>4 DEF OtherAdd
<1> QED
  BY <1>1, <1>2, <1>3 DEF RecordNext

LEMMA TypesOfDrag ==
  ASSUME DiskTypes, DragStarts \/ DragEnds PROVE DiskTypes'
<1> USE DEF DiskTypes, DiskTypeOK, receiptVars, mountVars, toolVars
<1>1. CASE DragStarts
  <2>1. PICK d \in Download, f \in Folder :
          /\ drag' = <<<<f, d.name>>, d>>
          /\ shelf' = [shelf EXCEPT ![<<f, d.name>>].iso = Torn]
    BY <1>1 DEF DragStarts
  <2>2. <<f, d.name>> \in Place
    BY DataPartitionAssumption DEF Place
  <2>3. shelf' \in [Place -> Files]
    BY <2>1, <2>2, FilesStay DEF Bytes
  <2> QED
    BY <1>1, <2>1, <2>2, <2>3 DEF DragStarts
<1>2. CASE DragEnds
  <2> DEFINE p == drag[1]
             d == drag[2]
             arrived == [shelf[p] EXCEPT !.iso = d.iso]
             new == [arrived EXCEPT !.sha = IF d.sha = None THEN @ ELSE d.sha,
                                    !.sig = IF d.sig = None THEN @ ELSE d.sig,
                                    !.listed = IF d.bulk = None THEN @ ELSE d.bulk,
                                    !.sums = @ \/ d.sums]
  <2>1. p \in Place /\ d \in Download /\ shelf[p] \in Files
    BY <1>2 DEF DragEnds
  <2>2. /\ d.iso \in Body /\ d.bulk \in Body \cup {None} /\ d.sha \in Body \cup {Garbled, None}
        /\ d.sums \in BOOLEAN /\ d.sig \in Signature \cup {None}
    BY <2>1, DataPartitionAssumption
  <2>3. arrived \in Files
    BY <2>1, <2>2, FilesStay DEF Bytes
  <2>4. new \in Files
    <3> DEFINE a == IF d.sha = None THEN arrived.sha ELSE d.sha
               b == IF d.sig = None THEN arrived.sig ELSE d.sig
               l == IF d.bulk = None THEN arrived.listed ELSE d.bulk
               c == arrived.sums \/ d.sums
    <3>1. /\ a \in Bytes \cup {Garbled, None} /\ b \in Signature \cup {Garbled, None}
          /\ l \in Body \cup {None} /\ c \in BOOLEAN
      BY <2>2, <2>3 DEF Files, Bytes
    <3>2. new = [arrived EXCEPT !.sha = a, !.sig = b, !.listed = l, !.sums = c]
      BY <2>3 DEF Files
    <3> HIDE DEF a, b, l, c, arrived
    <3>3. [arrived EXCEPT !.sha = a, !.sig = b, !.listed = l, !.sums = c] \in Files
      BY <2>3, <3>1 DEF Files
    <3> QED
      BY <3>2, <3>3
  <2>5. shelf' = [shelf EXCEPT ![p] = new]
    BY <1>2 DEF DragEnds
  <2>6. shelf' \in [Place -> Files]
    BY <2>1, <2>4, <2>5
  <2> QED
    BY <1>2, <2>6 DEF DragEnds
<1> QED
  BY <1>1, <1>2

(* A step touches the files of one name in one folder at most. *)
LEMMA OneNameWritten ==
  ASSUME DiskTypes, DiskNext
  PROVE \E x : \A p \in Place : p # x => shelf'[p] = shelf[p]
<1> USE DEF DiskTypes, DiskTypeOK
<1>1. CASE UNCHANGED shelf
  BY <1>1
<1>2. CASE CopyIso \/ CopyEnds \/ ScanAttest \/ ScanAttestFails
  BY <1>2 DEF CopyIso, CopyEnds, ScanAttest, ScanAttestFails
<1>3. CASE CopySidecars
  BY <1>3 DEF CopySidecars
<1>4. CASE DragStarts
  <2>1. PICK d \in Download, f \in Folder : shelf' = [shelf EXCEPT ![<<f, d.name>>].iso = Torn]
    BY <1>4 DEF DragStarts
  <2>2. \A p \in Place : p # <<f, d.name>> => shelf'[p] = shelf[p]
    BY <2>1
  <2> QED
    BY <2>2
<1>5. CASE DragEnds
  <2>1. \A p \in Place : p # drag[1] => shelf'[p] = shelf[p]
    BY <1>5 DEF DragEnds
  <2> QED
    BY <2>1
<1> QED
  BY <1>1, <1>2, <1>3, <1>4, <1>5
     DEF DiskNext, StartAdd, StartScan, StartList, StartVerify, Begin, Release, Kill,
         AddNext, ScanNext, RecordNext, AddRefused, CopyFails, ScanExisting, ScanHash,
         ScanAttestFails, ReadReceipt, NoReceipt, TruncateReceipt, WriteReceipt, VerifyOne,
         ListingEnds, OtherAdd

LEMMA IsosStayFinite ==
  ASSUME DiskTypes, IsFiniteSet(Isos), DiskNext PROVE IsFiniteSet(Isos')
<1>1. PICK x : \A p \in Place : p # x => shelf'[p] = shelf[p]
  BY OneNameWritten
<1>2. Isos' \subseteq Isos \cup {x}
  BY <1>1 DEF Isos
<1> QED
  BY <1>2, FS_AddElement, FS_Subset

LEMMA DiskStepInv == ASSUME DiskInv, DiskNext PROVE DiskInv'
<1>1. MountsCounted' /\ RedIsListed' /\ HeldExtends'
  BY MountsStep, RedStep, HeldStep DEF DiskInv
<1>2. DiskTypes'
  BY <1>1, TypesAtEnds, TypesOfAdd, TypesOfScan, TypesOfRecord, TypesOfDrag
     DEF DiskInv, DiskNext
<1>3. IsFiniteSet(Isos)'
  BY IsosStayFinite DEF DiskInv
<1> QED
  BY <1>1, <1>2, <1>3 DEF DiskInv

(* What --scan writes is beside an ISO that was not red. *)
LEMMA ScanKeepsRed ==
  ASSUME DiskInv, DiskNext, tool = "scan", drag' = drag, NEW p \in red
  PROVE shelf'[p] = shelf[p]
<1>1. p \in Place /\ shelf \in [Place -> Files]
  BY DEF DiskInv, DiskTypes, DiskTypeOK
<1>2. CASE ScanAttest \/ ScanAttestFails
  <2>1. /\ p # place
        /\ \E a : shelf' \in {shelf, [shelf EXCEPT ![place].sha = a]}
    BY <1>2 DEF ScanAttest, ScanAttestFails, DiskInv, RedIsListed
  <2> QED
    BY <1>1, <2>1
<1>3. ~ DragStarts /\ ~ DragEnds
  <2>1. \A d \in Download, f \in Folder : <<<<f, d.name>>, d>> # None
    BY DataPartitionAssumption DEF Place
  <2> QED
    BY <2>1 DEF DragStarts, DragEnds
<1> QED
  BY <1>2, <1>3
     DEF DiskNext, StartAdd, StartScan, StartList, StartVerify, Begin, Release, Kill,
         AddNext, ScanNext, RecordNext, AddRefused, CopyIso, CopyEnds, CopyFails,
         CopySidecars, ScanExisting, ScanHash, ScanAttestFails, ReadReceipt, NoReceipt,
         TruncateReceipt, WriteReceipt, VerifyOne, ListingEnds, OtherAdd

(* What a receipt holds when it is whole again. *)
LEMMA ReceiptGrowsByOne ==
  ASSUME DiskInv, DiskNext, NEW r \in Receipts, ~ overlapped,
         receipts'[r] \notin {None, Torn, receipts[r]}
  PROVE \E n \in Name : receipts'[r] = Append(whole[r], n)
<1> USE DEF DiskInv, DiskTypes, DiskTypeOK, HeldExtends, receiptVars
<1>1. CASE WriteReceipt
  <2>1. /\ held[1] \in Receipts /\ receipts' = [receipts EXCEPT ![held[1]] = held[2]]
        /\ \E n \in Name : held[2] = Append(whole[held[1]], n)
    BY <1>1 DEF WriteReceipt
  <2> QED
    BY <2>1
<1>2. CASE OtherAdd
  <2>1. PICK x \in Receipts, n \in Name :
          /\ receipts[x] \notin {None, Torn}
          /\ receipts' = [receipts EXCEPT ![x] = Append(@, n)]
    BY <1>2 DEF OtherAdd
  <2> QED
    BY <2>1
<1>3. CASE TruncateReceipt
  BY <1>3 DEF TruncateReceipt
<1> QED
  BY <1>1, <1>2, <1>3
     DEF DiskNext, StartAdd, StartScan, StartList, StartVerify, Begin, Release, Kill,
         AddNext, ScanNext, RecordNext, AddRefused, CopyIso, CopyEnds, CopyFails,
         CopySidecars, ScanExisting, ScanHash, ScanAttest, ScanAttestFails, ReadReceipt,
         NoReceipt, VerifyOne, ListingEnds, DragStarts, DragEnds

-----------------------------------------------------------------------------
(* IsoScan *)

Occupied == {"mounted", "prepared", "end"}

(* Types, with what the walk and the mount points refer to: ISOs that are  *)
(* there. *)
ScanTypes ==
  /\ DiscoverTypeOK
  /\ stack \in [Name -> Seq(Isos)] /\ walk \in Seq(Isos) /\ ahead \in Seq(Isos)
  /\ found \in Seq([from : Place, distro : Distribution]) /\ rows \in Seq(Row)
  /\ device \in BOOLEAN
  /\ phase = "off" => /\ root = 1 /\ walk = <<>> /\ ahead = <<>>
                      /\ stack = [n \in Name |-> <<>>] /\ found = <<>> /\ rows = <<>>
  /\ phase \in {"mount", "mounted"} => root \in 1 .. 2
  /\ phase \in Occupied => current \in Isos
  /\ phase = "end" => stack[current[2]] # <<>>
  /\ phase \in {"mounted", "prepared"} /\ device => loops >= 1

(* Unless an unmount failed nothing is mounted but the ISO at hand, if that *)
(* is. *)
OneMounted ==
  ~ stale => \A n \in Name :
    stack[n] = <<>> \/ (phase \in Occupied /\ current[2] = n /\ stack[n] = <<current>>)

ScanCore == ScanTypes /\ OneMounted

LEMMA CoreInit == ASSUME DiscoverInit PROVE ScanCore
<1>1. loops \in 0 .. MaxLoops
  BY IsoScanAssumption DEF DiscoverInit
<1>2. stack \in [Name -> Seq(Isos)]
  BY DEF DiscoverInit
<1>3. /\ walk \in Seq(Isos) /\ ahead \in Seq(Isos) /\ rows \in Seq(Row)
      /\ found \in Seq([from : Place, distro : Distribution])
  BY DEF DiscoverInit
<1>4. DiscoverTypeOK
  BY <1>1 DEF DiscoverInit, DiscoverTypeOK
<1>5. OneMounted
  BY DEF DiscoverInit, OneMounted, Occupied
<1> QED
  BY <1>1, <1>2, <1>3, <1>4, <1>5 DEF DiscoverInit, ScanCore, ScanTypes, Occupied

(* While the environment is off the files of the partition may change. *)
LEMMA CoreOff ==
  ASSUME ScanCore, phase = "off",
         UNCHANGED <<phase, root, walk, ahead, current, device, stack, loops, found, rows,
                     failed, skipped, prepares, stale>>
  PROVE ScanCore'
<1>1. stack' \in [Name -> Seq(Isos')] /\ walk' \in Seq(Isos') /\ ahead' \in Seq(Isos')
  BY DEF ScanCore, ScanTypes
<1> QED
  BY <1>1 DEF ScanCore, ScanTypes, DiscoverTypeOK, OneMounted, Occupied

LEMMA CoreRest == ASSUME ScanCore, UNCHANGED discoverVars PROVE ScanCore'
BY DEF discoverVars, ScanCore, ScanTypes, DiscoverTypeOK, OneMounted, Occupied, Isos

(* What an ISO that is there is named and holds. *)
LEMMA IsoValues ==
  ASSUME shelf \in [Place -> Files], NEW p \in Isos
  PROVE p \in Place /\ p[2] \in Name /\ shelf[p].iso \in Bytes /\ Size[shelf[p].iso] \in Nat
BY IsoScanAssumption DEF Isos, Place, Files

LEMMA SequencesOfTypes ==
  /\ \A s \in [Name -> Seq(Isos)] : \A n \in Name : \A i \in DOMAIN s[n] : s[n][i] \in Place
  /\ \A s \in Seq(Row) : \A i \in DOMAIN s : s[i] \in Row
<1>1. ASSUME NEW S, NEW s \in Seq(S), NEW i \in DOMAIN s PROVE s[i] \in S
  BY ElementOfSeq, LenProperties
<1>2. \A s \in Seq(Row) : \A i \in DOMAIN s : s[i] \in Row
  BY <1>1
<1>3. \A s \in Seq(Isos) : \A i \in DOMAIN s : s[i] \in Place
  BY <1>1 DEF Isos
<1> QED
  BY <1>2, <1>3

(* Ok leaves the ISO itself or nothing where nothing was mounted before.  *)
Pushed(p) ==
  /\ stack' \in [Name -> Seq(Isos)] /\ current' = p
  /\ device' \in BOOLEAN /\ loops' \in 0 .. MaxLoops
  /\ device' => loops' >= 1
  /\ stack[p[2]] = <<>> => stack'[p[2]] \in {<<>>, <<p>>}
  /\ \A n \in Name : n # p[2] => stack'[n] = stack[n]

LEMMA DetachedRange == ASSUME ScanTypes, NEW n \in Detached PROVE n \in 0 .. MaxLoops
BY IsoScanAssumption DEF ScanTypes, DiscoverTypeOK, Detached

LEMMA MountPushes ==
  ASSUME ScanTypes, shelf \in [Place -> Files], NEW p \in Isos, Mount(p)
  PROVE Pushed(p)
<1>1. p[2] \in Name /\ stack[p[2]] \in Seq(Isos)
  BY IsoValues DEF ScanTypes
<1>2. /\ Mounted(p) \in Seq(Isos)
      /\ stack[p[2]] = <<>> => Mounted(p) = <<p>>
  <2>1. Append(stack[p[2]], p) \in Seq(Isos)
    BY <1>1, AppendProperties
  <2>2. Append(<<>>, p) = <<p>>
    OBVIOUS
  <2> QED
    BY <2>1, <2>2 DEF Mounted
<1>3. PICK m \in MountIso(p) :
        /\ stack' = [stack EXCEPT ![p[2]] = m.stack]
        /\ device' = m.device /\ loops' = m.loops
        /\ current' = p
  BY DEF Mount
<1>4. loops \in 0 .. MaxLoops /\ MaxLoops \in Nat
  BY IsoScanAssumption DEF ScanTypes, DiscoverTypeOK
<1> DEFINE Fine(x) == /\ x.stack \in {Mounted(p), stack[p[2]]} /\ x.device \in BOOLEAN
                      /\ x.loops \in 0 .. MaxLoops /\ (x.device => x.loops >= 1)
<1>5. \A x \in LoopMount(p) : \E s \in {Mounted(p), stack[p[2]]} : x = Outcome(s, FALSE, loops)
  BY DEF LoopMount
<1>6. \A x \in DeviceMount(p) :
        loops < MaxLoops /\ \E s \in {Mounted(p), stack[p[2]]} : x = Outcome(s, TRUE, loops + 1)
  BY DEF DeviceMount
<1>7. \A x \in FuseMount(p) :
        \E s \in {Mounted(p), stack[p[2]]}, n \in Detached : x = Outcome(s, FALSE, n)
  BY <1>5 DEF FuseMount, Outcome
<1>8. \A s \in {Mounted(p), stack[p[2]]} :
        /\ \A n \in 0 .. MaxLoops : Fine(Outcome(s, FALSE, n))
        /\ loops < MaxLoops => Fine(Outcome(s, TRUE, loops + 1))
  BY <1>4 DEF Outcome
<1> HIDE DEF Fine
<1>9. Fine(m)
  <2>1. CASE m \in LoopMount(p)
    BY <1>4, <1>5, <1>8, <2>1
  <2>2. CASE m \in DeviceMount(p)
    BY <1>6, <1>8, <2>2
  <2>3. CASE m \in FuseMount(p)
    BY <1>7, <1>8, <2>3, DetachedRange
  <2> QED
    BY <1>3, <2>1, <2>2, <2>3 DEF MountIso
<1> QED
  BY <1>1, <1>2, <1>3, <1>9 DEF ScanTypes, Pushed, Fine

(* An unmount takes the top away, or leaves everything as it was. *)
LEMMA UnmountPops ==
  ASSUME ScanCore, shelf \in [Place -> Files], phase \in {"mounted", "prepared"}, Unmount
  PROVE /\ stack' \in [Name -> Seq(Isos)] /\ loops' \in 0 .. MaxLoops
        /\ ~ stale' => ~ stale /\ \A n \in Name : stack'[n] = <<>>
<1> DEFINE top == current[2]
<1>1. top \in Name /\ stack[top] \in Seq(Isos)
  BY IsoValues DEF ScanCore, ScanTypes, Occupied
<1>2. loops \in 0 .. MaxLoops /\ (device => loops >= 1) /\ device \in BOOLEAN /\ MaxLoops \in Nat
  BY IsoScanAssumption DEF ScanCore, ScanTypes, DiscoverTypeOK
<1>3. CASE stale' = (stale \/ Populated(top)) /\ UNCHANGED <<stack, loops>>
  <2>1. ASSUME ~ stale', NEW n \in Name PROVE ~ stale /\ stack'[n] = <<>>
    BY <1>1, <1>3, <2>1 DEF ScanCore, OneMounted, Populated
  <2>2. stale' \in BOOLEAN => stale' \/ ~ stale'
    OBVIOUS
  <2> QED
    BY <1>1, <1>2, <1>3, <2>1 DEF ScanCore, ScanTypes
<1>4. CASE /\ Populated(top)
           /\ stack' = [stack EXCEPT ![top] = SubSeq(@, 1, Len(@) - 1)]
           /\ loops' \in {loops, loops - IF device THEN 1 ELSE 0}
           /\ UNCHANGED stale
  <2>1. SubSeq(stack[top], 1, Len(stack[top]) - 1) \in Seq(Isos)
    BY <1>1, SubSeqProperties
  <2>2. stack' \in [Name -> Seq(Isos)]
    BY <1>1, <1>4, <2>1 DEF ScanCore, ScanTypes
  <2>3. loops' \in 0 .. MaxLoops
    BY <1>2, <1>4
  <2>4. ASSUME ~ stale, NEW n \in Name PROVE stack'[n] = <<>>
    <3>1. stack[top] = <<current>> /\ (n # top => stack[n] = <<>>)
      BY <1>1, <1>4, <2>4 DEF ScanCore, OneMounted, Occupied, Populated
    <3>2. Len(<<current>>) = 1 /\ SubSeq(<<current>>, 1, 0) = <<>>
      OBVIOUS
    <3> QED
      BY <1>1, <1>4, <3>1, <3>2 DEF ScanCore, ScanTypes
  <2> QED
    BY <1>4, <2>2, <2>3, <2>4
<1> QED
  BY <1>3, <1>4 DEF Unmount

-----------------------------------------------------------------------------
(* IsoLayouts.  Which entries an image yields, whatever lies on it. *)

LEMMA JoinTwo ==
  ASSUME NEW S, NEW a \in Seq(S), NEW b \in Seq(S)
  PROVE  a \o b \in Seq(S) /\ Range(a \o b) = Range(a) \cup Range(b)
<1>1. a \o b \in Seq(S)
  BY ConcatProperties
<1>2. Range(a \o b) = Range(a) \cup Range(b)
  BY RangeConcatenation
<1> QED
  BY <1>1, <1>2

LEMMA JoinThree ==
  ASSUME NEW S, NEW a \in Seq(S), NEW b \in Seq(S), NEW c \in Seq(S)
  PROVE  /\ a \o b \o c \in Seq(S)
         /\ Range(a \o b \o c) = Range(a) \cup Range(b) \cup Range(c)
<1> DEFINE ab == a \o b
<1>1. ab \in Seq(S) /\ Range(ab) = Range(a) \cup Range(b)
  BY JoinTwo
<1> HIDE DEF ab
<1>2. ab \o c \in Seq(S) /\ Range(ab \o c) = Range(ab) \cup Range(c)
  BY <1>1, JoinTwo
<1> QED
  BY <1>1, <1>2 DEF ab

LEMMA NothingInRange == ASSUME NEW S, NEW s \in Seq(S) PROVE s = <<>> <=> Range(s) = {}
<1>1. DOMAIN s = 1 .. Len(s) /\ Len(s) \in Nat
  BY LenProperties
<1>2. CASE s = <<>>
  BY <1>2 DEF Range
<1>3. CASE s # <<>>
  <2>1. Len(s) # 0
    BY <1>3, EmptySeq
  <2>2. 1 \in DOMAIN s
    BY <1>1, <2>1
  <2> QED
    BY <1>3, <2>2 DEF Range
<1> QED
  BY <1>2, <1>3

Vmlinuz == {"vmlinuz", "vmlinuz-lts"}

LEMMA KernelsType == ASSUME NEW t, IsImage(t), NEW d PROVE KernelsIn(t, d) \in Seq(Vmlinuz)
<1>1. <<>> \in Seq(Vmlinuz)
  OBVIOUS
<1> QED
  BY <1>1 DEF KernelsIn, IsImage, Vmlinuz

LEMMA RangeOfAll ==
  ASSUME NEW ks \in Seq(Vmlinuz), NEW distro
  PROVE  Range(All(ks, distro)) = IF ks = <<>> THEN {} ELSE {distro}
<1>1. DOMAIN ks = {} <=> ks = <<>>
  BY NothingInRange DEF Range
<1> QED
  BY <1>1 DEF All, Range

(* The entries of an image, layout by layout. *)
LEMMA LayoutTypes ==
  ASSUME NEW t, IsImage(t)
  PROVE  /\ ArchLayout(t) \in Seq(Distribution) /\ DebianLayout(t) \in Seq(Distribution)
         /\ FedoraLayout(t) \in Seq(Distribution) /\ WindowsLayout(t) \in Seq(Distribution)
<1>1. \A d : KernelsIn(t, d) \in Seq(Vmlinuz)
  BY KernelsType
<1>2. ASSUME NEW ks \in Seq(Vmlinuz), NEW distro \in Distribution
      PROVE All(ks, distro) \in Seq(Distribution)
  <2>1. DOMAIN ks = 1 .. Len(ks) /\ Len(ks) \in Nat
    BY LenProperties
  <2> QED
    BY <2>1 DEF All
<1>3. ArchLayout(t) \in Seq(Distribution)
  <2> DEFINE ks == KernelsIn(t, "boot")
  <2>1. DOMAIN ks = 1 .. Len(ks) /\ Len(ks) \in Nat
    BY <1>1, LenProperties
  <2>2. \A i \in DOMAIN ks : FromPaths(ks[i]) \in Distribution
    BY DEF FromPaths, Distribution
  <2> HIDE DEF ks
  <2>3. [i \in 1 .. Len(ks) |-> FromPaths(ks[i])] \in Seq(Distribution)
    BY <2>1, <2>2
  <2> QED
    BY <2>1, <2>3 DEF ks, ArchLayout
<1>4. DebianLayout(t) \in Seq(Distribution)
  <2>1. KernelsIn(t, "install") \o KernelsIn(t, "casper") \o KernelsIn(t, "boot") \in Seq(Vmlinuz)
    <3>1. KernelsIn(t, "install") \o KernelsIn(t, "casper") \in Seq(Vmlinuz)
      BY <1>1, ConcatProperties
    <3> QED
      BY <1>1, <3>1, ConcatProperties
  <2>2. "Debian" \in Distribution /\ <<>> \in Seq(Distribution)
    BY DEF Distribution
  <2> QED
    BY <1>2, <2>1, <2>2 DEF DebianLayout
<1>5. FedoraLayout(t) \in Seq(Distribution)
  <2>1. "Fedora" \in Distribution
    BY DEF Distribution
  <2> QED
    BY <1>1, <1>2, <2>1 DEF FedoraLayout
<1>6. WindowsLayout(t) \in Seq(Distribution)
  <2>1. <<>> \in Seq(Distribution) /\ <<"Windows">> \in Seq(Distribution)
    BY DEF Distribution
  <2> QED
    BY <2>1 DEF WindowsLayout
<1> QED
  BY <1>3, <1>4, <1>5, <1>6

LEMMA EntriesAreDistributions ==
  ASSUME NEW t, IsImage(t) PROVE BootEntries(t) \in Seq(Distribution)
<1>1. ArchLayout(t) \o DebianLayout(t) \in Seq(Distribution)
  BY LayoutTypes, ConcatProperties
<1>2. ArchLayout(t) \o DebianLayout(t) \o FedoraLayout(t) \in Seq(Distribution)
  BY <1>1, LayoutTypes, ConcatProperties
<1> QED
  BY <1>2, LayoutTypes, ConcatProperties DEF BootEntries

(* What extract_boot_entries finds on an image: a kernel of /boot, read by *)
(* its file name; /boot again for Debian when the image has any of its     *)
(* marks; /isolinux only where there is no /images/pxeboot, be that empty; *)
(* and Windows by its marks alone.  Nothing else is found, so that no      *)
(* entry is ever called NixOS, RedHat or Unknown by its layout.            *)
THEOREM LayoutsFind ==
  ASSUME NEW t, IsImage(t)
  PROVE LET listed == Range(BootEntries(t))
            debian == t.marks \cap DebianMarks # {} \/ DOMAIN t.kernels \cap {"install", "casper"} # {}
            fedora == IF "images/pxeboot" \in DOMAIN t.kernels THEN "images/pxeboot" ELSE "isolinux"
        IN  /\ listed \subseteq {"Arch", "Alpine", "Debian", "Fedora", "Windows"}
            /\ listed \cap {"Arch", "Alpine"} # {} <=> KernelsIn(t, "boot") # <<>>
            /\ "Debian" \in listed <=>
                 debian /\ \E d \in {"install", "casper", "boot"} : KernelsIn(t, d) # <<>>
            /\ "Fedora" \in listed <=> KernelsIn(t, fedora) # <<>>
            /\ "Windows" \in listed <=> t.marks \cap WindowsMarks # {}
<1> DEFINE arch == Range(ArchLayout(t))
           deb == Range(DebianLayout(t))
           fed == Range(FedoraLayout(t))
           win == Range(WindowsLayout(t))
           debian == t.marks \cap DebianMarks # {} \/ DOMAIN t.kernels \cap {"install", "casper"} # {}
           fedora == IF "images/pxeboot" \in DOMAIN t.kernels THEN "images/pxeboot" ELSE "isolinux"
<1>1. Range(BootEntries(t)) = arch \cup deb \cup fed \cup win
  <2>1. /\ ArchLayout(t) \in Seq(Distribution) /\ DebianLayout(t) \in Seq(Distribution)
        /\ FedoraLayout(t) \in Seq(Distribution) /\ WindowsLayout(t) \in Seq(Distribution)
    BY LayoutTypes
  <2> DEFINE a == ArchLayout(t)
             b == DebianLayout(t)
             c == FedoraLayout(t)
             w == WindowsLayout(t)
             abc == a \o b \o c
  <2>2. a \in Seq(Distribution) /\ b \in Seq(Distribution) /\ c \in Seq(Distribution) /\ w \in Seq(Distribution)
    BY <2>1
  <2>3. BootEntries(t) = abc \o w
    BY DEF BootEntries
  <2> HIDE DEF a, b, c, w
  <2>4. abc \in Seq(Distribution) /\ Range(abc) = Range(a) \cup Range(b) \cup Range(c)
    BY <2>2, JoinThree
  <2> HIDE DEF abc
  <2>5. Range(abc \o w) = Range(abc) \cup Range(w)
    BY <2>2, <2>4, JoinTwo
  <2>6. Range(BootEntries(t)) = Range(a) \cup Range(b) \cup Range(c) \cup Range(w)
    BY <2>3, <2>4, <2>5
  <2> QED
    BY <2>6 DEF a, b, c, w
<1>2. arch \subseteq {"Arch", "Alpine"} /\ (arch # {} <=> KernelsIn(t, "boot") # <<>>)
  <2>1. DOMAIN KernelsIn(t, "boot") = {} <=> KernelsIn(t, "boot") = <<>>
    BY KernelsType, NothingInRange DEF Range
  <2> QED
    BY <2>1 DEF ArchLayout, Range, FromPaths
<1>3. deb = IF debian /\ \E d \in {"install", "casper", "boot"} : KernelsIn(t, d) # <<>>
            THEN {"Debian"} ELSE {}
  <2> DEFINE ks == KernelsIn(t, "install") \o KernelsIn(t, "casper") \o KernelsIn(t, "boot")
  <2>1. \A d : KernelsIn(t, d) \in Seq(Vmlinuz) /\ (KernelsIn(t, d) = <<>> <=> Range(KernelsIn(t, d)) = {})
    BY KernelsType, NothingInRange
  <2>3. /\ ks \in Seq(Vmlinuz)
        /\ Range(ks) = Range(KernelsIn(t, "install")) \cup Range(KernelsIn(t, "casper"))
                            \cup Range(KernelsIn(t, "boot"))
    <3> DEFINE k(d) == KernelsIn(t, d)
    <3>1. k("install") \in Seq(Vmlinuz) /\ k("casper") \in Seq(Vmlinuz) /\ k("boot") \in Seq(Vmlinuz)
      BY <2>1
    <3> HIDE DEF k
    <3>2. /\ k("install") \o k("casper") \o k("boot") \in Seq(Vmlinuz)
          /\ Range(k("install") \o k("casper") \o k("boot"))
               = Range(k("install")) \cup Range(k("casper")) \cup Range(k("boot"))
      BY <3>1, JoinThree
    <3> QED
      BY <3>2 DEF k
  <2>4. ks = <<>> <=> Range(ks) = {}
    BY <2>3, NothingInRange
  <2>5. ks # <<>> <=> \E d \in {"install", "casper", "boot"} : KernelsIn(t, d) # <<>>
    BY <2>1, <2>3, <2>4
  <2>6. DebianLayout(t) = IF debian THEN All(ks, "Debian") ELSE <<>>
    BY DEF DebianLayout
  <2>7. Range(<<>>) = {}
    BY DEF Range
  <2> HIDE DEF ks, debian
  <2> QED
    BY <2>3, <2>5, <2>6, <2>7, RangeOfAll
<1>4. fed = IF KernelsIn(t, fedora) # <<>> THEN {"Fedora"} ELSE {}
  <2>1. FedoraLayout(t) = All(KernelsIn(t, fedora), "Fedora")
    BY DEF FedoraLayout, KernelsIn
  <2> HIDE DEF fedora
  <2>2. KernelsIn(t, fedora) \in Seq(Vmlinuz)
    BY KernelsType
  <2>3. Range(All(KernelsIn(t, fedora), "Fedora")) = IF KernelsIn(t, fedora) = <<>> THEN {} ELSE {"Fedora"}
    BY <2>2, RangeOfAll
  <2> QED
    BY <2>1, <2>3
<1>5. win = IF t.marks \cap WindowsMarks # {} THEN {"Windows"} ELSE {}
  BY DEF WindowsLayout, Range
<1> HIDE DEF arch, deb, fed, win, debian, fedora
<1>6. LET listed == arch \cup deb \cup fed \cup win
      IN  /\ listed \subseteq {"Arch", "Alpine", "Debian", "Fedora", "Windows"}
          /\ listed \cap {"Arch", "Alpine"} # {} <=> KernelsIn(t, "boot") # <<>>
          /\ "Debian" \in listed <=>
               debian /\ \E d \in {"install", "casper", "boot"} : KernelsIn(t, d) # <<>>
          /\ "Fedora" \in listed <=> KernelsIn(t, fedora) # <<>>
          /\ "Windows" \in listed <=> t.marks \cap WindowsMarks # {}
  BY <1>2, <1>3, <1>4, <1>5
<1> QED
  BY <1>1, <1>6 DEF debian, fedora

-----------------------------------------------------------------------------
(* What the search of an image may say of it. *)

LEMMA EntriesType == ASSUME NEW b \in Bytes PROVE \A ks \in EntriesOf(b) : ks \in Seq(Distribution)
<1>1. \A c \in Body : BootEntries(Image[c]) \in Seq(Distribution)
  BY EntriesAreDistributions, IsoScanAssumption
<1>2. <<>> \in Seq(Distribution)
  OBVIOUS
<1> QED
  BY <1>1, <1>2 DEF EntriesOf, Bytes

LEMMA ExtractedTypes ==
  ASSUME ScanTypes, shelf \in [Place -> Files], phase = "mounted"
  PROVE \A ks \in Extracted : ks \in Seq(Distribution)
<1>1. current[2] \in Name /\ stack[current[2]] \in Seq(Isos)
  BY IsoValues DEF ScanTypes, Occupied
<1>2. CASE Populated(current[2])
  <2>1. Visible(current[2]) \in Isos
    BY <1>1, <1>2 DEF Visible, Populated
  <2>2. shelf[Visible(current[2])].iso \in Bytes
    BY <2>1, IsoValues
  <2> QED
    BY <1>2, <2>2, EntriesType DEF Extracted
<1>3. CASE ~ Populated(current[2])
  <2>1. <<>> \in Seq(Distribution)
    OBVIOUS
  <2> QED
    BY <1>3, <2>1 DEF Extracted
<1> QED
  BY <1>2, <1>3

(* The walk. *)
LEMMA CoreDiscover ==
  ASSUME ScanCore, IsFiniteSet(Isos), Discover PROVE ScanCore'
<1>1. Cardinality(Isos) \in Nat
  BY FS_CardinalityType
<1>2. walk' \in Seq(Isos) /\ ahead' = walk'
  BY <1>1 DEF Discover, Orders
<1>3. Isos' = Isos
  BY DEF Discover, Isos
<1> QED
  BY <1>2, <1>3 DEF Discover, ScanCore, ScanTypes, DiscoverTypeOK, OneMounted, Occupied

LEMMA MountStep ==
  ASSUME ScanCore, shelf \in [Place -> Files], NEW p \in Isos, Mount(p),
         phase \in {"mount", "menu"}, phase' \in {"mounted", "prepared"},
         phase' = "mounted" => root \in 1 .. 2,
         ahead' \in Seq(Isos), UNCHANGED <<shelf, root, walk, found, rows, failed, stale>>
  PROVE ScanCore'
<1>1. Pushed(p)
  BY MountPushes DEF ScanCore
<1>2. p \in Place /\ p[2] \in Name /\ Isos' = Isos
  BY IsoValues DEF Isos
<1>3. stack' \in [Name -> Seq(Isos)] /\ current' = p /\ loops' \in 0 .. MaxLoops
  BY <1>1 DEF Pushed
<1>4. DiscoverTypeOK'
  <2>1. \A n \in Name : \A i \in DOMAIN stack'[n] : stack'[n][i] \in Place
    BY <1>3, SequencesOfTypes
  <2> QED
    BY <1>2, <1>3, <2>1 DEF ScanCore, ScanTypes, DiscoverTypeOK
<1>5. OneMounted'
  <2> SUFFICES ASSUME ~ stale', NEW n \in Name
               PROVE stack'[n] = <<>> \/ (current'[2] = n /\ stack'[n] = <<current'>>)
    BY DEF OneMounted, Occupied
  <2>1. \A m \in Name : stack[m] = <<>>
    BY DEF ScanCore, OneMounted, Occupied
  <2>2. CASE p[2] = n
    BY <1>1, <1>2, <2>1, <2>2 DEF Pushed
  <2>3. CASE p[2] # n
    BY <1>1, <1>2, <2>1, <2>3 DEF Pushed
  <2> QED
    BY <1>3, <2>2, <2>3
<1>6. ScanTypes'
  <2>1. /\ stack' \in [Name -> Seq(Isos')] /\ walk' \in Seq(Isos') /\ ahead' \in Seq(Isos')
        /\ found' \in Seq([from : Place, distro : Distribution]) /\ rows' \in Seq(Row)
    BY <1>2, <1>3 DEF ScanCore, ScanTypes
  <2>2. current' \in Isos'
    BY <1>2, <1>3
  <2>3. device' \in BOOLEAN /\ (device' => loops' >= 1)
    BY <1>1 DEF Pushed
  <2> QED
    BY <1>4, <2>1, <2>2, <2>3 DEF ScanTypes
<1> QED
  BY <1>5, <1>6 DEF ScanCore

LEMMA WalkStep ==
  ASSUME ScanCore, shelf \in [Place -> Files],
         MountNext \/ MountNextFails \/ Extract \/ ExtractFails
  PROVE ScanCore'
<1> USE DEF ScanCore, ScanTypes, DiscoverTypeOK, OneMounted, Occupied
<1>1. Isos' = Isos
  BY DEF MountNext, MountNextFails, Extract, ExtractFails, Isos
<1>2. CASE MountNext \/ MountNextFails
  <2>1. Head(ahead) \in Isos /\ Tail(ahead) \in Seq(Isos)
    BY <1>2, HeadTailProperties DEF MountNext, MountNextFails
  <2>2. CASE MountNext
    BY <1>1, <2>1, <2>2, MountStep DEF MountNext
  <2>3. CASE MountNextFails
    BY <1>1, <2>1, <2>3, DetachedRange DEF MountNextFails, MountFails, Isos
  <2> QED
    BY <1>2, <2>2, <2>3
<1>3. CASE Extract \/ ExtractFails
  <2>1. /\ stack' \in [Name -> Seq(Isos)] /\ loops' \in 0 .. MaxLoops
        /\ ~ stale' => ~ stale /\ \A n \in Name : stack'[n] = <<>>
    BY <1>3, UnmountPops DEF Extract, ExtractFails
  <2>2. found' \in Seq([from : Place, distro : Distribution])
    <3>1. CASE Extract
      <4>1. PICK ks \in Extracted :
              found' = found \o [i \in DOMAIN ks |-> [from |-> current, distro |-> ks[i]]]
        BY <3>1 DEF Extract
      <4>2. ks \in Seq(Distribution) /\ current \in Place
        BY <3>1, ExtractedTypes DEF Extract, Isos
      <4>3. DOMAIN ks = 1 .. Len(ks) /\ Len(ks) \in Nat
        BY <4>2, LenProperties
      <4>4. [i \in DOMAIN ks |-> [from |-> current, distro |-> ks[i]]]
              \in Seq([from : Place, distro : Distribution])
        BY <4>2, <4>3
      <4> QED
        BY <4>1, <4>4, ConcatProperties
    <3>2. CASE ExtractFails
      BY <3>2 DEF ExtractFails
    <3> QED
      BY <1>3, <3>1, <3>2
  <2>3. failed' \subseteq Place /\ phase' = "mount" /\ root' \in 1 .. 2
    BY <1>3 DEF Extract, ExtractFails, Isos
  <2>4. OneMounted'
    BY <2>1, <2>3
  <2>5. /\ UNCHANGED <<walk, ahead, device, rows, current, root>>
    BY <1>3 DEF Extract, ExtractFails
  <2>6. DiscoverTypeOK'
    BY <1>1, <2>1, <2>3, <2>5, SequencesOfTypes
  <2> QED
    BY <1>1, <2>1, <2>2, <2>3, <2>4, <2>5, <2>6
<1> QED
  BY <1>2, <1>3

LEMMA RowTypes ==
  ASSUME ScanTypes, shelf \in [Place -> Files], NEW e \in [from : Place, distro : Distribution],
         NEW size \in SizesOf(root, e.from[2])
  PROVE AddRow(e, size) \in Seq(Row)
<1>1. e.from \in Place /\ e.from[2] \in Name /\ e.distro \in Distribution
  BY DEF Place
<1> DEFINE path == PathOf(root, e.from[2])
<1>2. path \in Place \cup {None}
  BY <1>1, IsoShelfAssumption DEF PathOf, Place
<1>3. FilesAt(path) \in Files
  BY <1>2, NoFilesAreFiles DEF FilesAt
<1>4. size \in Nat
  <2>1. \E p \in Isos : size = Size[shelf[p].iso]
    BY DEF SizesOf
  <2> QED
    BY <2>1, IsoValues
<1> DEFINE row == [from |-> e.from, path |-> path, distro |-> e.distro, size |-> size,
                   files |-> FilesAt(path)]
<1> HIDE DEF path
<1>5. row \in Row
  BY <1>1, <1>2, <1>3, <1>4 DEF Row
<1> HIDE DEF row
<1>6. rows \in Seq(Row) /\ Append(rows, row) \in Seq(Row)
  BY <1>5, AppendProperties DEF ScanTypes
<1> QED
  BY <1>6 DEF AddRow, row, path

LEMMA RootStep ==
  ASSUME ScanCore, shelf \in [Place -> Files], MakeRow \/ RootEnds PROVE ScanCore'
<1> USE DEF ScanCore, ScanTypes, DiscoverTypeOK, OneMounted, Occupied
<1>1. Isos' = Isos
  BY DEF MakeRow, RootEnds, Isos
<1>2. CASE MakeRow
  <2>1. Head(found) \in [from : Place, distro : Distribution]
        /\ Tail(found) \in Seq([from : Place, distro : Distribution])
    BY <1>2, HeadTailProperties DEF MakeRow
  <2>2. rows' \in Seq(Row)
    BY <1>2, <2>1, RowTypes DEF MakeRow
  <2> QED
    BY <1>1, <1>2, <2>1, <2>2 DEF MakeRow
<1>3. CASE RootEnds
  <2>1. /\ root' \in 1 .. 3 /\ ahead' \in {ahead, walk} /\ phase' \in {"mount", "menu"}
        /\ phase' = "mount" => root' = 2
        /\ UNCHANGED <<walk, current, device, stack, loops, found, rows, failed, stale>>
    BY <1>3 DEF RootEnds
  <2>2. phase = "mount"
    BY <1>3 DEF RootEnds
  <2>3. DiscoverTypeOK' /\ OneMounted'
    BY <2>1, <2>2
  <2> QED
    BY <1>1, <2>1, <2>2, <2>3
<1> QED
  BY <1>2, <1>3

LEMMA KexecStep ==
  ASSUME ScanCore, shelf \in [Place -> Files],
         Prepare \/ PrepareFails \/ DropPrepared \/ Kexec
  PROVE ScanCore'
<1> USE DEF ScanCore, ScanTypes, DiscoverTypeOK, OneMounted, Occupied
<1>1. Isos' = Isos
  BY DEF Prepare, PrepareFails, DropPrepared, Kexec, Isos
<1>2. CASE Prepare
  <2>1. PICK p \in Offers \cap Isos : Mount(p)
    BY <1>2 DEF Prepare
  <2> QED
    BY <1>1, <1>2, <2>1, MountStep DEF Prepare
<1>3. CASE PrepareFails
  BY <1>1, <1>3, DetachedRange DEF PrepareFails, MountFails
<1>4. CASE DropPrepared
  <2>1. /\ stack' \in [Name -> Seq(Isos)] /\ loops' \in 0 .. MaxLoops
        /\ ~ stale' => ~ stale /\ \A n \in Name : stack'[n] = <<>>
    BY <1>4, UnmountPops DEF DropPrepared
  <2>2. OneMounted'
    BY <1>4, <2>1 DEF DropPrepared
  <2>3. DiscoverTypeOK'
    BY <1>1, <1>4, <2>1, SequencesOfTypes DEF DropPrepared
  <2> QED
    BY <1>1, <1>4, <2>1, <2>2, <2>3 DEF DropPrepared
<1>5. CASE Kexec
  BY <1>1, <1>5 DEF Kexec, Populated
<1> QED
  BY <1>2, <1>3, <1>4, <1>5

LEMMA CoreStep ==
  ASSUME ScanCore, shelf \in [Place -> Files], IsFiniteSet(Isos), DiscoverNext PROVE ScanCore'
BY CoreDiscover, WalkStep, RootStep, KexecStep DEF DiscoverNext

-----------------------------------------------------------------------------
(* What the rows tell. *)

TrueEntry == {e \in [from : Place, distro : Distribution] : Tells(e.from, e.distro)}
TrueRow == {r \in Row : Tells(r.from, r.distro)}

(* Unless an unmount failed every entry was found on the file it names. *)
RowsTell == ~ stale => found \in Seq(TrueEntry) /\ rows \in Seq(TrueRow)

ScanInv == ScanCore /\ RowsTell

LEMMA ScanInitInv == ASSUME DiscoverInit PROVE ScanInv
<1>1. found \in Seq(TrueEntry) /\ rows \in Seq(TrueRow)
  BY DEF DiscoverInit
<1> QED
  BY <1>1, CoreInit DEF ScanInv, RowsTell

LEMMA ScanOffInv ==
  ASSUME ScanInv, phase = "off",
         UNCHANGED <<phase, root, walk, ahead, current, device, stack, loops, found, rows,
                     failed, skipped, prepares, stale>>
  PROVE ScanInv'
<1>1. found' = <<>> /\ rows' = <<>>
  BY DEF ScanInv, ScanCore, ScanTypes
<1>2. found' \in Seq(TrueEntry') /\ rows' \in Seq(TrueRow')
  BY <1>1
<1> QED
  BY <1>2, CoreOff DEF ScanInv, RowsTell

LEMMA TruthStays == ASSUME UNCHANGED shelf PROVE TrueEntry' = TrueEntry /\ TrueRow' = TrueRow
BY DEF TrueEntry, TrueRow, Tells, EntriesOf

LEMMA ScanRestInv == ASSUME ScanInv, UNCHANGED discoverVars PROVE ScanInv'
BY CoreRest, TruthStays DEF discoverVars, ScanInv, RowsTell

(* The entries found on what is seen are those of the ISO at hand. *)
LEMMA ExtractTells == ASSUME ScanInv, shelf \in [Place -> Files], Extract PROVE RowsTell'
<1> SUFFICES ASSUME ~ stale' PROVE found' \in Seq(TrueEntry') /\ rows' \in Seq(TrueRow')
  BY DEF RowsTell
<1>1. TrueEntry' = TrueEntry /\ TrueRow' = TrueRow /\ rows' = rows
  BY TruthStays DEF Extract
<1>2. ~ stale /\ phase = "mounted"
  BY UnmountPops DEF Extract, ScanInv
<1>3. found \in Seq(TrueEntry) /\ rows \in Seq(TrueRow)
  BY <1>2 DEF ScanInv, RowsTell
<1>4. PICK ks \in Extracted :
        found' = found \o [i \in DOMAIN ks |-> [from |-> current, distro |-> ks[i]]]
  BY DEF Extract
<1>5. ks \in Seq(Distribution) /\ current \in Place /\ current[2] \in Name
  BY <1>2, ExtractedTypes, IsoValues DEF ScanInv, ScanCore, ScanTypes, Occupied
<1>6. ks = <<>> \/ ks \in EntriesOf(shelf[current].iso)
  <2>1. CASE Populated(current[2])
    <3>1. stack[current[2]] = <<current>>
      BY <1>2, <1>5, <2>1 DEF ScanInv, ScanCore, OneMounted, Populated
    <3>2. Visible(current[2]) = current
      BY <3>1 DEF Visible
    <3> QED
      BY <1>4, <2>1, <3>2 DEF Extracted
  <2>2. CASE ~ Populated(current[2])
    BY <1>4, <2>2 DEF Extracted
  <2> QED
    BY <2>1, <2>2
<1>7. DOMAIN ks = 1 .. Len(ks) /\ Len(ks) \in Nat /\ \A i \in DOMAIN ks : ks[i] \in Distribution
  BY <1>5, LenProperties, ElementOfSeq
<1>8. \A i \in DOMAIN ks : [from |-> current, distro |-> ks[i]] \in TrueEntry
  BY <1>5, <1>6, <1>7 DEF TrueEntry, Tells
<1>9. [i \in DOMAIN ks |-> [from |-> current, distro |-> ks[i]]] \in Seq(TrueEntry)
  BY <1>7, <1>8
<1>10. found' \in Seq(TrueEntry)
  BY <1>3, <1>4, <1>9, ConcatProperties
<1> QED
  BY <1>1, <1>3, <1>10

(* A row is made of an entry. *)
LEMMA RowTells == ASSUME ScanInv, shelf \in [Place -> Files], MakeRow PROVE RowsTell'
<1> SUFFICES ASSUME ~ stale' PROVE found' \in Seq(TrueEntry') /\ rows' \in Seq(TrueRow')
  BY DEF RowsTell
<1>1. TrueEntry' = TrueEntry /\ TrueRow' = TrueRow /\ ~ stale
  BY TruthStays DEF MakeRow
<1>2. found \in Seq(TrueEntry) /\ rows \in Seq(TrueRow) /\ found # <<>>
  BY <1>1 DEF ScanInv, RowsTell, MakeRow
<1>3. Head(found) \in TrueEntry /\ Tail(found) \in Seq(TrueEntry)
  BY <1>2, HeadTailProperties
<1> DEFINE e == Head(found)
<1> HIDE DEF e
<1>4. e \in [from : Place, distro : Distribution] /\ Tells(e.from, e.distro)
  BY <1>3 DEF e, TrueEntry
<1>5. PICK size \in SizesOf(root, e.from[2]) : rows' = AddRow(e, size)
  BY DEF MakeRow, e
<1>6. AddRow(e, size) \in Seq(Row)
  BY <1>4, RowTypes DEF ScanInv, ScanCore
<1>7. AddRow(e, size) \in Seq(TrueRow)
  <2> DEFINE row == [from |-> e.from, path |-> PathOf(root, e.from[2]), distro |-> e.distro,
                     size |-> size, files |-> FilesAt(PathOf(root, e.from[2]))]
  <2>1. AddRow(e, size) \in {rows, Append(rows, row)}
    BY DEF AddRow
  <2>2. row.from = e.from /\ row.distro = e.distro
    OBVIOUS
  <2> HIDE DEF row
  <2>3. CASE AddRow(e, size) = Append(rows, row)
    <3>0. rows \in Seq(Row)
      BY DEF ScanInv, ScanCore, ScanTypes
    <3>1. /\ Append(rows, row) \in Seq(Row) /\ Len(rows) \in Nat
          /\ Len(rows) + 1 \in DOMAIN Append(rows, row)
          /\ Append(rows, row)[Len(rows) + 1] = row
      BY <1>6, <2>3, <3>0
    <3>2. row \in Row
      BY <3>1, ElementOfSeq, LenProperties
    <3>3. row \in TrueRow
      BY <1>4, <2>2, <3>2 DEF TrueRow
    <3> QED
      BY <1>2, <2>3, <3>3, AppendProperties
  <2> QED
    BY <1>2, <2>1, <2>3
<1>8. found' = Tail(found)
  BY DEF MakeRow
<1> QED
  BY <1>1, <1>3, <1>5, <1>7, <1>8

LEMMA RowsTellStep ==
  ASSUME ScanInv, shelf \in [Place -> Files], DiscoverNext PROVE RowsTell'
<1>1. CASE Extract \/ MakeRow
  BY <1>1, ExtractTells, RowTells
<1>2. CASE Discover \/ MountNext \/ MountNextFails \/ RootEnds \/ Prepare \/ PrepareFails \/ Kexec
  <2>1. UNCHANGED <<shelf, found, rows, stale>>
    BY <1>2 DEF Discover, MountNext, MountNextFails, RootEnds, Prepare, PrepareFails, Kexec
  <2> QED
    BY <2>1, TruthStays DEF ScanInv, RowsTell
<1>3. CASE ExtractFails \/ DropPrepared
  <2>1. UNCHANGED <<shelf, found, rows>> /\ (~ stale' => ~ stale)
    BY <1>3, UnmountPops DEF ExtractFails, DropPrepared, ScanInv
  <2> QED
    BY <2>1, TruthStays DEF ScanInv, RowsTell
<1> QED
  BY <1>1, <1>2, <1>3 DEF DiscoverNext

LEMMA ScanStepInv ==
  ASSUME ScanInv, shelf \in [Place -> Files], IsFiniteSet(Isos), DiscoverNext PROVE ScanInv'
BY CoreStep, RowsTellStep DEF ScanInv

LEMMA DiscoverStarts ==
  ASSUME ScanInv, shelf \in [Place -> Files], IsFiniteSet(Isos), Discover PROVE ScanInv'
BY ScanStepInv DEF DiscoverNext

LEMMA IsoIsSeen == ASSUME ScanInv PROVE OnlyTheIsoIsSeen
<1> SUFFICES ASSUME ~ stale PROVE OnlyTheIsoIsSeen
  BY DEF OnlyTheIsoIsSeen
<1>1. ASSUME phase \in Occupied, Populated(current[2]) PROVE Visible(current[2]) = current
  <2>1. current[2] \in Name
    BY <1>1 DEF ScanInv, ScanCore, ScanTypes, Isos, Place
  <2>2. stack[current[2]] = <<current>>
    BY <1>1, <2>1 DEF ScanInv, ScanCore, OneMounted, Populated
  <2> QED
    BY <2>2 DEF Visible
<1>2. phase = "end" => Populated(current[2])
  BY DEF ScanInv, ScanCore, ScanTypes, Populated
<1>3. \A i \in DOMAIN rows : Tells(rows[i].from, rows[i].distro)
  <2>1. rows \in Seq(TrueRow)
    BY DEF ScanInv, RowsTell
  <2>2. \A i \in DOMAIN rows : rows[i] \in TrueRow
    BY <2>1, ElementOfSeq, LenProperties
  <2> QED
    BY <2>2 DEF TrueRow
<1> QED
  BY <1>1, <1>2, <1>3 DEF OnlyTheIsoIsSeen, Occupied
=============================================================================
