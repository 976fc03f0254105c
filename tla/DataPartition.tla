---------------------------- MODULE DataPartition ----------------------------
(***************************************************************************)
(* The data partition AEGIS_ISOS as the host's commands see it: `add',     *)
(* `add --scan', `list' and `verify' (inventory.rs, verify.rs), which      *)
(* may mount it themselves, and the receipts `add' keeps of what it put    *)
(* there (attest.rs).  Meanwhile the operator drags files onto the stick,  *)
(* and an `add' to another stick writes receipts too.  A command runs      *)
(* alone on this stick and may be killed between any two steps.            *)
(***************************************************************************)
EXTENDS IsoShelf, Sequences

CONSTANTS
  Download,    \* what the operator has: an ISO file, its sidecars, and the
               \* multi-ISO sums file beside it (field `bulk')
  MaxTools,    \* bound: commands run
  MaxDrags,    \* bound: desktop copies
  MaxRecords   \* bound: records of a receipt that another add still extends

ASSUME DataPartitionAssumption ==
  /\ MaxTools \in Nat /\ MaxDrags \in Nat /\ MaxRecords \in Nat
  /\ None \notin Place \X Download /\ None \notin {"own", "other"} \X Seq(Name)
  /\ \A d \in Download :
       /\ d.name \in Name /\ d.iso \in Body /\ d.bulk \in Body \cup {None}
       /\ d.sha \in Body \cup {Garbled, None} /\ d.sums \in BOOLEAN
       /\ d.sig \in Signature \cup {None} /\ d.other \in BOOLEAN

VARIABLES
  tool, step,     \* the command that runs and where it is
  place,          \* the ISO it works on
  parcel,         \* `add': the download it copies
  todo,           \* the entries of its listing still to look at
  digest,         \* --scan: the sum it has computed
  flawed,         \* has it met an error (--scan) or a failed verdict (verify)?
  mounting,       \* did it mount the partition itself?
  mounts,         \* temporary mounts the host has
  receipts,       \* the receipt of this stick and that of another
  latest,         \* the receipt with the newest modification time
  held,           \* the receipt being rewritten, as it was read
  drag,           \* the desktop copy that runs: <<place, download>>
  tools, drags,   \* counters behind the bounds
  killed,         \* history: a command was killed
  umount_failed,  \* history: an umount of a temporary mount failed
  overlapped,     \* history: another add wrote the receipt held
  whole,          \* history: what each receipt last held in full
  red             \* history: the ISOs that were RED when --scan listed them

toolVars == <<tool, step, place, parcel, todo, digest, flawed>>
mountVars == <<mounting, mounts, umount_failed>>
receiptVars == <<receipts, latest, held, overlapped, whole>>
dragVars == <<drag, drags>>
diskVars ==
  <<shelf, toolVars, mountVars, receiptVars, dragVars, tools, killed, red>>

Receipts == {"own", "other"}
Entry == [at : Place, sha : BOOLEAN]   \* of scan_isos: has_sha256

DiskTypeOK ==
  /\ shelf \in [Place -> Files]
  /\ tool \in {"none", "add", "scan", "list", "verify"}
  /\ step \in {"idle", "check", "copy", "sidecars", "next", "hashed", "record",
               "held", "writing", "release"}
  /\ place \in Place \cup {None} /\ parcel \in Download \cup {None}
  /\ todo \subseteq Entry /\ digest \in Bytes \cup {None}
  /\ mounts \in 0..MaxTools
  /\ \A r \in Receipts : receipts[r] \in {None, Torn} \/ receipts[r] \in Seq(Name)
  /\ latest \in Receipts

DiskInit ==
  /\ shelf = [p \in Place |-> NoFiles]
  /\ tool = "none" /\ step = "idle" /\ place = None /\ parcel = None
  /\ todo = {} /\ digest = None /\ flawed = FALSE
  /\ mounting = FALSE /\ mounts = 0 /\ umount_failed = FALSE
  /\ receipts \in [Receipts -> {None, <<>>}] /\ latest \in Receipts
  /\ receipts[latest] = None => \A r \in Receipts : receipts[r] = None
  /\ held = None /\ overlapped = FALSE /\ whole = [r \in Receipts |-> <<>>]
  /\ drag = None /\ drags = 0
  /\ tools = 0 /\ killed = FALSE /\ red = {}

-----------------------------------------------------------------------------
(* A command begins: resolve_mount finds the partition mounted, or mounts  *)
(* it for the command. *)
Begin(t) ==
  /\ tool = "none" /\ tools < MaxTools
  /\ tools' = tools + 1 /\ tool' = t
  /\ mounting' \in BOOLEAN
  /\ mounts' = mounts + IF mounting' THEN 1 ELSE 0
  /\ digest' = None /\ flawed' = FALSE
  /\ UNCHANGED <<receiptVars, dragVars, shelf, umount_failed, killed>>

StartAdd ==
  /\ Begin("add") /\ step' = "check"
  /\ \E d \in Download, f \in Folder : parcel' = d /\ place' = <<f, d.name>>
  /\ todo' = {} /\ UNCHANGED red

(* scan_isos: whether an ISO has a sum is what its folder's listing says.  *)
Listing == {[at |-> p, sha |-> shelf[p].sha # None \/ shelf[p].sums] : p \in Isos}

StartScan ==
  /\ Begin("scan") /\ step' = "next"
  /\ todo' = Listing /\ place' = None /\ parcel' = None
  /\ red' = {p \in Isos : shelf[p].sha # None /\ VerifyHash(shelf[p]) = "Mismatch"}

StartList ==
  /\ Begin("list") /\ step' = "release"
  /\ todo' = {} /\ place' = None /\ parcel' = None /\ UNCHANGED red

(* scan_iso_files does not look into folders. *)
StartVerify ==
  /\ Begin("verify") /\ step' = "next"
  /\ todo' = {e \in Listing : e.at[1] = Root}
  /\ place' = None /\ parcel' = None /\ UNCHANGED red

(* unmount_temp: the result of umount is not looked at. *)
Release ==
  /\ tool # "none" /\ step = "release"
  /\ tool' = "none" /\ step' = "idle" /\ place' = None /\ parcel' = None
  /\ mounting' = FALSE
  /\ IF mounting
     THEN \/ mounts' = mounts - 1 /\ UNCHANGED umount_failed
          \/ UNCHANGED mounts /\ umount_failed' = TRUE
     ELSE UNCHANGED <<mounts, umount_failed>>
  /\ todo' = {} /\ digest' = None /\ flawed' = FALSE /\ red' = {}
  /\ UNCHANGED <<shelf, receiptVars, dragVars, tools, killed>>

(* SIGKILL or a power cut: a mount, a receipt cut short or a torn ISO stay *)
(* (or sidecars: the outcomes of CopySidecars and ScanAttestFails). *)
Kill ==
  /\ tool # "none"
  /\ tool' = "none" /\ step' = "idle" /\ place' = None /\ parcel' = None
  /\ mounting' = FALSE /\ killed' = TRUE
  /\ todo' = {} /\ digest' = None /\ flawed' = FALSE /\ red' = {} /\ held' = None
  /\ UNCHANGED <<shelf, mounts, umount_failed, receipts, latest, overlapped, whole,
                 dragVars, tools>>

Continue(l) ==
  /\ step' = l
  /\ UNCHANGED <<tool, place, parcel, todo, digest, mountVars, dragVars,
                 tools, killed, red>>

-----------------------------------------------------------------------------
(* A faulty variant: an error exit forgets the mount. *)
AddRefusedForgets ==
  /\ tool = "add" /\ step = "check" /\ flawed' = TRUE
  /\ tool' = "none" /\ step' = "idle" /\ mounting' = FALSE
  /\ UNCHANGED <<place, parcel, todo, digest, mounts, umount_failed, dragVars,
                 tools, killed, red, shelf, receiptVars>>

(* check_fat32_ceiling, free_bytes, resolve_add_dest_dir refuse. *)
AddRefused ==
  /\ tool = "add" /\ step = "check" /\ flawed' = TRUE
  /\ Continue("release") /\ UNCHANGED <<shelf, receiptVars>>

(* cp truncates the destination first. *)
CopyIso ==
  /\ tool = "add" /\ step = "check" /\ (drag # None => drag[1] # place)
  /\ shelf' = [shelf EXCEPT ![place].iso = Torn]
  /\ Continue("copy") /\ UNCHANGED <<flawed, receiptVars>>

CopyEnds ==
  /\ tool = "add" /\ step = "copy"
  /\ shelf' = [shelf EXCEPT ![place].iso = parcel.iso]
  /\ Continue("sidecars") /\ UNCHANGED <<flawed, receiptVars>>

(* The stick is full or gone; nothing removes what was copied. *)
CopyFails ==
  /\ tool = "add" /\ step = "copy" /\ flawed' = TRUE
  /\ Continue("release") /\ UNCHANGED <<shelf, receiptVars>>

(* Pass 1 of copy_classic_sidecars: cp of each sidecar the download has    *)
(* arrives, leaves what was there, or leaves it cut short. *)
SidecarsOf(d) ==
  {s \in {"sha", "sig"} : d[s] # None} \cup {s \in {"sums", "other"} : d[s]}

Sidecar(f, d, s, copied) ==
  IF s \notin SidecarsOf(d) THEN {f[s]}
  ELSE IF s \in copied THEN {d[s]}
  ELSE {f[s], IF s = "sums" THEN TRUE ELSE Garbled}

(* Pass 2, when nothing was copied: the line of the sums file beside the   *)
(* ISO becomes a sidecar, in one rename. *)
CopySidecars ==
  /\ tool = "add" /\ step = "sidecars"
  /\ \E copied \in SUBSET SidecarsOf(parcel) :
       \E a \in Sidecar(shelf[place], parcel, "sha", copied),
          b \in Sidecar(shelf[place], parcel, "sig", copied),
          c \in Sidecar(shelf[place], parcel, "sums", copied),
          synthesized \in BOOLEAN :
         /\ synthesized => copied = {} /\ parcel.bulk # None
         /\ shelf' = [shelf EXCEPT ![place].sha = IF synthesized THEN parcel.bulk ELSE a,
                                   ![place].sig = b, ![place].sums = c]
  /\ Continue("record") /\ UNCHANGED <<flawed, receiptVars>>

-----------------------------------------------------------------------------
(* scan_for_upgrades, an ISO that was listed with a sum: it is compared    *)
(* (check_existing_sha256) and never written. *)
ScanExisting ==
  /\ tool = "scan" /\ step = "next"
  /\ \E e \in todo :
       /\ e.sha /\ todo' = todo \ {e}
       /\ flawed' = (flawed \/ shelf[e.at].sha \in {None, Garbled} \/ shelf[e.at].iso = None)
  /\ UNCHANGED <<shelf, tool, step, place, parcel, digest, mountVars,
                 receiptVars, dragVars, tools, killed, red>>

(* A faulty variant: the listing is not asked for a sum. *)
ScanHashAnyway ==
  /\ tool = "scan" /\ step = "next"
  /\ \E e \in todo :
       /\ shelf[e.at].iso # None
       /\ todo' = todo \ {e} /\ place' = e.at /\ digest' = shelf[e.at].iso
  /\ step' = "hashed"
  /\ UNCHANGED <<shelf, tool, parcel, flawed, mountVars, receiptVars,
                 dragVars, tools, killed, red>>

(* One listed without: write_generated_sha256 reads it to its end... *)
ScanHash ==
  /\ tool = "scan" /\ step = "next"
  /\ \E e \in todo :
       /\ ~e.sha /\ shelf[e.at].iso # None
       /\ todo' = todo \ {e} /\ place' = e.at /\ digest' = shelf[e.at].iso
  /\ step' = "hashed"
  /\ UNCHANGED <<shelf, tool, parcel, flawed, mountVars, receiptVars,
                 dragVars, tools, killed, red>>

(* ... and puts the sum beside it, over whatever is there by now. *)
ScanAttest ==
  /\ tool = "scan" /\ step = "hashed"
  /\ shelf' = [shelf EXCEPT ![place].sha = digest]
  /\ Continue("record") /\ UNCHANGED <<flawed, receiptVars>>

(* The tempfile and the rename leave the sidecar as it was; where the      *)
(* operator's own write is refused, `sudo cp' writes it in place instead,  *)
(* and one that fails or is killed leaves it cut short. *)
ScanAttestFails ==
  /\ tool = "scan" /\ step = "hashed" /\ flawed' = TRUE
  /\ shelf' \in {shelf, [shelf EXCEPT ![place].sha = Garbled]}
  /\ Continue("next") /\ UNCHANGED receiptVars

(* verify: one verdict of verify_iso_hash after the other. *)
VerifyOne ==
  /\ tool = "verify" /\ step = "next"
  /\ \E e \in todo :
       /\ todo' = todo \ {e}
       /\ flawed' = (flawed \/ VerifyHash(shelf[e.at]) \in {"Mismatch", "Unreadable"})
  /\ UNCHANGED <<shelf, tool, step, place, parcel, digest, mountVars,
                 receiptVars, dragVars, tools, killed, red>>

ListingEnds ==
  /\ step = "next" /\ todo = {}
  /\ Continue("release") /\ UNCHANGED <<shelf, flawed, receiptVars>>

-----------------------------------------------------------------------------
(* locate_attestation_for_mount: the stick's receipt, when sgdisk tells    *)
(* its GUID and there is one; the newest of all otherwise. *)
Located == {latest} \cup {r \in {"own"} : receipts[r] # None}

(* A faulty variant: the record replaces those before it. *)
ReadReceiptFresh ==
  /\ step = "record"
  /\ \E r \in Located :
       /\ receipts[r] \notin {None, Torn}
       /\ held' = <<r, <<place[2]>>>>
  /\ overlapped' = FALSE
  /\ Continue("held") /\ UNCHANGED <<shelf, flawed, receipts, latest, whole>>

AfterRecord == IF tool = "add" THEN "release" ELSE "next"

ReadReceipt ==
  /\ step = "record"
  /\ \E r \in Located :
       /\ receipts[r] \notin {None, Torn}
       /\ held' = <<r, Append(receipts[r], place[2])>>
  /\ overlapped' = FALSE
  /\ Continue("held") /\ UNCHANGED <<shelf, flawed, receipts, latest, whole>>

(* No receipt, or one that does not parse: a warning, and the add is done. *)
NoReceipt ==
  /\ step = "record"
  /\ \E r \in Located : receipts[r] \in {None, Torn}
  /\ Continue(AfterRecord) /\ UNCHANGED <<shelf, flawed, receiptVars>>

(* fs::write: the file is truncated, then written. *)
TruncateReceipt ==
  /\ step = "held"
  /\ receipts' = [receipts EXCEPT ![held[1]] = Torn]
  /\ latest' = held[1]
  /\ Continue("writing") /\ UNCHANGED <<shelf, flawed, held, overlapped, whole>>

WriteReceipt ==
  /\ step = "writing"
  /\ receipts' = [receipts EXCEPT ![held[1]] = held[2]]
  /\ latest' = held[1] /\ held' = None /\ overlapped' = FALSE
  /\ whole' = [whole EXCEPT ![held[1]] = held[2]]
  /\ Continue(AfterRecord) /\ UNCHANGED <<shelf, flawed>>

(* An add to another stick, in another terminal, writes the receipt it     *)
(* located. *)
OtherAdd ==
  /\ \E r \in Receipts, n \in Name :
       /\ receipts[r] \notin {None, Torn} /\ Len(receipts[r]) < MaxRecords
       /\ receipts' = [receipts EXCEPT ![r] = Append(@, n)]
       /\ latest' = r
       /\ whole' = [whole EXCEPT ![r] = receipts'[r]]
       /\ overlapped' = (overlapped \/ (held # None /\ held[1] = r))
  /\ UNCHANGED <<shelf, toolVars, mountVars, held, dragVars, tools, killed, red>>

-----------------------------------------------------------------------------
(* The operator copies files onto the mounted stick: the ISO first, then   *)
(* its sidecars; never the ISO that an add is copying. *)
DragStarts ==
  /\ drag = None /\ drags < MaxDrags
  /\ \E d \in Download, f \in Folder :
       /\ tool = "add" => place # <<f, d.name>>
       /\ drag' = <<<<f, d.name>>, d>>
       /\ shelf' = [shelf EXCEPT ![<<f, d.name>>].iso = Torn]
  /\ drags' = drags + 1
  /\ UNCHANGED <<toolVars, mountVars, receiptVars, tools, killed, red>>

DragEnds ==
  /\ drag # None
  /\ LET p == drag[1]
         d == drag[2]
         arrived == [shelf[p] EXCEPT !.iso = d.iso]
     IN  shelf' = [shelf EXCEPT ![p] =
           [arrived EXCEPT !.sha = IF d.sha = None THEN @ ELSE d.sha,
                           !.sig = IF d.sig = None THEN @ ELSE d.sig,
                           !.listed = IF d.bulk = None THEN @ ELSE d.bulk,
                           !.sums = @ \/ d.sums]]
  /\ drag' = None
  /\ UNCHANGED <<toolVars, mountVars, receiptVars, drags, tools, killed, red>>

AddNext == AddRefused \/ CopyIso \/ CopyEnds \/ CopyFails \/ CopySidecars
ScanNext == ScanExisting \/ ScanHash \/ ScanAttest \/ ScanAttestFails
RecordNext == ReadReceipt \/ NoReceipt \/ TruncateReceipt \/ WriteReceipt

DiskNext ==
  \/ StartAdd \/ StartScan \/ StartList \/ StartVerify
  \/ AddNext \/ ScanNext \/ RecordNext \/ VerifyOne \/ ListingEnds
  \/ Release \/ Kill \/ OtherAdd \/ DragStarts \/ DragEnds

DiskSpec == DiskInit /\ [][DiskNext]_diskVars

-----------------------------------------------------------------------------
(* A scan never turns RED to GREEN: an ISO that did not match its own sum  *)
(* when --scan listed the stick still does not while the scan runs, unless *)
(* the operator copied something over it (scan_for_upgrades: "a mismatch   *)
(* is surfaced as a tamper signal rather than a write"). *)
RedStaysRed ==
  [][ (tool = "scan" /\ drag' = drag) =>
        \A p \in red : VerifyHash(shelf[p]) = "Mismatch"
                         => VerifyHash(shelf'[p]) = "Mismatch" ]_diskVars

(* Whatever the way a command ends, refusals and errors included, the      *)
(* partition it mounted for itself is released: only a kill or an umount   *)
(* that fails leaves a mount (try_run_add, run_scan_mode, try_run). *)
TemporaryMountReleased ==
  tool = "none" /\ mounts > 0 => killed \/ umount_failed

(* What a receipt records is not lost: whenever one is whole again, it has *)
(* the records of the whole one before it and one more, except where an    *)
(* add overlaps with another, which forgets the other's record             *)
(* (record_iso_added reads, appends and writes without a lock). *)
RecordsKept ==
  [][ \A r \in Receipts :
        (receipts'[r] \notin {None, Torn, receipts[r]} /\ ~overlapped) =>
          \E n \in Name : receipts'[r] = Append(whole[r], n) ]_diskVars
=============================================================================
