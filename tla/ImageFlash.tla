----------------------------- MODULE ImageFlash -----------------------------
(***************************************************************************)
(* `aegis-boot flash' without --direct-install, seen from the device:      *)
(* find or build an image, write it with dd under a progress bar, read its *)
(* start back, and grow AEGIS_ISOS to the end of the stick.  Meanwhile the *)
(* desktop mounts what it finds on the device, and file systems mounted    *)
(* before the write still hold old blocks.  What the boot files become is  *)
(* StickFlash's.                                                           *)
(***************************************************************************)
EXTENDS Naturals, Sequences, FiniteSets

CONSTANT MaxLines    \* lines of dd that the pipe to the bar holds

ASSUME ImageFlashAssumption == MaxLines \in Nat \ {0}

VARIABLES
    todoStep,   \* the next call of flash()
    opts,       \* the command line and the host it runs on
    disk,       \* what the device holds: the image's start, both tables, AEGIS_ISOS
    mounts,     \* the mounted partitions, <<partition, "old" or "new">>
    event,      \* the kernel has announced a change the desktop has not looked at
    hashed,     \* expected_prefix_hash is there
    lines,      \* what dd wrote to stderr and the reader thread has not read
    bar,        \* "none", "shown", "spinner" after a line nobody understands
    exit,       \* of dd: "none", "zero", "nonzero"
    did,        \* history: the planned operations that were carried out
    told,       \* the operations a warning spoke of
    verdict     \* "none", "installed", or the class of the error

imageVars == <<todoStep, opts, disk, mounts, event, hashed, lines, bar, exit, did, told, verdict>>

Operations == {"source", "removable", "write", "readback", "expand", "attest"}
Classes == {"image_build", "dd_failed", "readback_mismatch", "short_readback",
            "no_image_source", "other"}
Tables == {"old", "image", "moved", "full"}    \* moved: sgdisk -e alone
DdLines == {"progress", "summary", "garbled"}

\* Every option, and hosts with and without macOS.
Options == [mac : BOOLEAN, built : BOOLEAN, progress : BOOLEAN, expand : BOOLEAN]

FoundDisk == [start |-> "old", table |-> "old", kernel |-> "old", isos |-> "old", span |-> "old"]

ImageTypeOK ==
    /\ todoStep \in {"rest", "source", "unmount", "hash", "sudo", "spawn", "dd", "drain", "sync",
                     "readback", "move", "recreate", "probe", "free", "mkfs", "record"}
    /\ opts \in Options
    /\ disk \in [start : {"old", "part", "good", "bad"}, table : Tables, kernel : Tables,
                 isos : {"old", "image", "fresh", "torn"}, span : Tables]
    /\ mounts \subseteq {1, 2} \X {"old", "new"}
    /\ {event, hashed} \subseteq BOOLEAN
    /\ lines \in Seq(DdLines) /\ Len(lines) <= MaxLines
    /\ bar \in {"none", "shown", "spinner"} /\ exit \in {"none", "zero", "nonzero"}
    /\ did \subseteq Operations /\ told \subseteq Operations
    /\ verdict \in Classes \cup {"none", "installed"}

ImageAtRest ==
    /\ todoStep = "rest" /\ disk = FoundDisk
    /\ event = FALSE /\ hashed = FALSE /\ lines = <<>> /\ bar = "none" /\ exit = "none"
    /\ did = {} /\ told = {} /\ verdict = "none"

ImageInit == ImageAtRest /\ opts \in Options /\ mounts \in SUBSET ({1, 2} \X {"old"})

-----------------------------------------------------------------------------
(* FlashError::classify *)

\* The phrases of its rules that the message of a failure holds, with
\* underscores for spaces ("mkusb" stands for mkusb.sh).
Phrases(failure) ==
    CASE failure = "no_source"       -> {"no_image_source_available"}
      [] failure = "mkusb"           -> {"mkusb"}
      [] failure = "dd_exec"         -> {"dd_exec_failed"}
      [] failure = "dd_status"       -> {"dd_exited"}
      [] failure = "readback_exec"   -> {"readback_verification"}
      [] failure = "readback_status" -> {"readback_verification", "dd_exited"}
      [] failure = "short"           -> {"readback_verification", "readback_short"}
      [] failure = "mismatch"        -> {"readback_verification", "sha256_mismatch"}
      [] OTHER                       -> {}

\* The rules, in order.
Rules == <<
    [class |-> "no_image_source",   any |-> {"no_image_source_available"}],
    [class |-> "image_build",       any |-> {"mkusb", "image_build"}],
    [class |-> "dd_failed",         any |-> {"dd_exited", "dd_exec_failed"}],
    [class |-> "readback_mismatch", any |-> {"sha256_mismatch", "readback_verification"}],
    [class |-> "short_readback",    any |-> {"readback_short", "short_readback"}] >>

classify(failure) ==
    LET Fits(i) == Rules[i].any \cap Phrases(failure) # {}
    IN IF \E i \in DOMAIN Rules : Fits(i)
       THEN Rules[CHOOSE i \in DOMAIN Rules : Fits(i) /\ \A j \in 1..i - 1 : ~Fits(j)].class
       ELSE "other"

\* What the operator is told to do about it (suggestion, suggestions).
Advice(class) ==
    CASE class = "no_image_source" -> "get_image"
      [] class = "image_build" -> "mend_build"
      [] class = "dd_failed" -> "replug"
      [] class \in {"readback_mismatch", "short_readback"} -> "other_stick"
      [] OTHER -> "report"

\* build_flash_plan: the same whatever --no-expand and the host say.
Plan == Operations

-----------------------------------------------------------------------------
At(l) == todoStep = l
Turn(l) == todoStep' = l
Keep == UNCHANGED <<opts, bar, exit, lines>>
Intact == UNCHANGED <<disk, mounts, event>>

FlashFails(failure) == Turn("rest") /\ verdict' = classify(failure)
OrFails(failures) == \E f \in failures : FlashFails(f) /\ UNCHANGED <<did, told, hashed>>
GoOn(l, done) == Turn(l) /\ did' = did \cup done /\ UNCHANGED <<verdict, told, hashed>>

\* try_run: the drive is removable, the plan is built, the operator agreed.
StartImage ==
    /\ At("rest")
    /\ Turn("source") /\ opts' \in Options
    /\ disk' = FoundDisk /\ mounts' = {<<m[1], "old">> : m \in mounts} /\ event' = FALSE
    /\ hashed' = FALSE /\ lines' = <<>> /\ bar' = "none" /\ exit' = "none"
    /\ did' = {"removable"} /\ told' = {} /\ verdict' = "none"

\* --image and its size, or build_image_via_mkusb, which needs Linux and a checkout.
GetImage ==
    /\ At("source")
    /\ \/ ~(opts.built /\ opts.mac) /\ GoOn("unmount", {"source"})
       \/ OrFails(CASE ~opts.built -> {"stat"} [] opts.mac -> {"not_linux"}
                    [] OTHER -> {"no_source", "mkusb", "stat"})
    /\ Intact /\ Keep

\* macos_unmount_disk; Linux writes under what is mounted.
UnmountDisk ==
    /\ At("unmount")
    /\ \/ GoOn("hash", {}) /\ mounts' = IF opts.mac THEN {} ELSE mounts
       \/ opts.mac /\ OrFails({"unmount"}) /\ UNCHANGED mounts
    /\ UNCHANGED <<disk, event>> /\ Keep

\* precompute_image_prefix_hash: an image that cannot be read or is shorter
\* than the window is written all the same.
Precompute ==
    /\ At("hash")
    /\ Turn(IF opts.progress /\ ~opts.mac THEN "sudo" ELSE "spawn")
    /\ \/ hashed' = TRUE /\ UNCHANGED told
       \/ hashed' = FALSE /\ told' = told \cup {"readback"}
    /\ UNCHANGED <<did, verdict>> /\ Intact /\ Keep

\* `sudo -v' asks for the password while the terminal is still the operator's.
Credentials ==
    /\ At("sudo")
    /\ GoOn("spawn", {}) \/ OrFails({"sudo"})
    /\ Intact /\ Keep

\* run_dd, run_dd_with_progress.
SpawnDd ==
    /\ At("spawn")
    /\ \/ /\ GoOn("dd", {})
          /\ bar' = IF opts.progress /\ ~opts.mac THEN "shown" ELSE "none"
       \/ OrFails({"dd_exec"}) /\ UNCHANGED bar
    /\ UNCHANGED <<opts, exit, lines>> /\ Intact

\* dd writes a block and, for the bar, a line; a full pipe makes it wait.
DdWrites ==
    /\ At("dd")
    /\ disk' = [disk EXCEPT !.start = "part"]
    /\ IF bar = "none" THEN UNCHANGED lines
       ELSE Len(lines) < MaxLines /\ \E l \in DdLines : lines' = Append(lines, l)
    /\ UNCHANGED <<todoStep, opts, mounts, event, hashed, bar, exit, did, told, verdict>>

\* dd ends; the device need not hold what dd was told to write.
DdEnds ==
    /\ At("dd") /\ GoOn("drain", {})
    /\ \/ /\ exit' = "zero"
          /\ \E s \in {"good", "bad"} :
               disk' = [disk EXCEPT !.start = s, !.table = "image", !.isos = "image", !.span = "image"]
       \/ exit' = "nonzero" /\ disk' \in {disk, [disk EXCEPT !.start = "part", !.table = "image"]}
    /\ event' = TRUE /\ UNCHANGED <<mounts, opts, bar, lines>>

\* The reader thread: parse_dd_progress_line, one warning, then a spinner.
ReadLine ==
    /\ lines # <<>>
    /\ lines' = Tail(lines)
    /\ bar' = IF Head(lines) = "garbled" THEN "spinner" ELSE bar
    /\ UNCHANGED <<todoStep, opts, disk, mounts, event, hashed, exit, did, told, verdict>>

\* wait, then join: the thread ends when the pipe is empty.
JoinReader ==
    /\ At("drain") /\ lines = <<>>
    /\ IF exit = "zero" THEN GoOn("sync", {"write"}) ELSE OrFails({"dd_status"})
    /\ bar' = "none" /\ Intact /\ UNCHANGED <<opts, lines, exit>>

\* The kernel takes the table of the disk unless one of its partitions is in
\* use, and then perhaps.
Reread(d) ==
    disk' \in {[d EXCEPT !.kernel = d.table]} \cup (IF mounts = {} THEN {} ELSE {d})

\* sync and partprobe; what they return is not looked at.
SyncDevice ==
    /\ At("sync") /\ GoOn("readback", {})
    /\ Reread(disk) \/ UNCHANGED disk
    /\ event' = TRUE /\ UNCHANGED mounts /\ Keep

\* readback_verify_device.
ReadBackStart ==
    /\ At("readback")
    /\ LET onward == IF opts.expand /\ ~opts.mac THEN "move" ELSE "record"
       IN IF ~hashed THEN GoOn(onward, {})
          ELSE \/ disk.start = "good" /\ GoOn(onward, {"readback"})
               \/ disk.start = "bad" /\ OrFails({"mismatch"})
               \/ OrFails({"readback_exec", "readback_status", "short"})
    /\ Intact /\ Keep

-----------------------------------------------------------------------------
(* expand_data_partition: an error is a warning *)

NotExpanded == Turn("record") /\ told' = told \cup {"expand"} /\ UNCHANGED <<did, verdict, hashed>>

\* sgdisk -e
MoveBackup ==
    /\ At("move")
    /\ \/ GoOn("recreate", {}) /\ Reread([disk EXCEPT !.table = "moved"]) /\ event' = TRUE
       \/ NotExpanded /\ UNCHANGED <<disk, event>>
    /\ UNCHANGED mounts /\ Keep

\* sgdisk -d 2 -n 2:0:0: the file system of the image stays where it was.
Recreate ==
    /\ At("recreate")
    /\ \/ GoOn("probe", {}) /\ Reread([disk EXCEPT !.table = "full"]) /\ event' = TRUE
       \/ NotExpanded /\ UNCHANGED <<disk, event>>
    /\ UNCHANGED mounts /\ Keep

\* partprobe, which may be missing, and udevadm settle.
Probe ==
    /\ At("probe") /\ GoOn("free", {})
    /\ Reread(disk) \/ UNCHANGED disk
    /\ event' = TRUE /\ UNCHANGED mounts /\ Keep

\* unmount_if_mounted(partition 2); an error is ignored.
FreePartition ==
    /\ At("free") /\ GoOn("mkfs", {})
    /\ mounts' \in {mounts, {m \in mounts : m[1] # 2}}
    /\ UNCHANGED <<disk, event>> /\ Keep

\* A faulty variant: the exit status of mkfs.exfat is not looked at.
FormatsBlindly ==
    /\ At("mkfs") /\ GoOn("record", {"expand"})
    /\ disk' \in {disk, [disk EXCEPT !.isos = "fresh", !.span = disk.kernel]}
    /\ UNCHANGED <<mounts, event>> /\ Keep

\* mkfs.exfat formats the partition the kernel knows; not a mounted one.
FormatIsos ==
    /\ At("mkfs")
    /\ \/ /\ \A m \in mounts : m[1] # 2
          /\ GoOn("record", {"expand"})
          /\ disk' = [disk EXCEPT !.isos = "fresh", !.span = disk.kernel]
       \/ /\ NotExpanded
          /\ disk' \in {disk, [disk EXCEPT !.isos = "torn"]}
    /\ UNCHANGED <<mounts, event>> /\ Keep

\* record_flash; a failure is a warning.  Then print_post_flash_next_steps.
RecordImage ==
    /\ At("record") /\ Turn("rest") /\ verdict' = "installed"
    /\ \/ did' = did \cup {"attest"} /\ UNCHANGED told
       \/ told' = told \cup {"attest"} /\ UNCHANGED did
    /\ UNCHANGED hashed /\ Intact /\ Keep

-----------------------------------------------------------------------------
(* The desktop *)

\* It mounts a partition it can read once the kernel has announced it.
DesktopLooks ==
    /\ event /\ disk.kernel # "old"
    /\ \E p \in {1, 2} :
         /\ p = 2 => disk.isos # "torn"
         /\ mounts' \in {mounts, mounts \cup {<<p, "new">>}}
    /\ event' \in BOOLEAN
    /\ UNCHANGED <<todoStep, opts, disk, hashed, lines, bar, exit, did, told, verdict>>

\* A file system mounted before the write flushes a block of its own.
StaleFlush ==
    /\ <<1, "old">> \in mounts /\ disk.start = "good"
    /\ disk' = [disk EXCEPT !.start = "bad"]
    /\ UNCHANGED <<todoStep, opts, mounts, event, hashed, lines, bar, exit, did, told, verdict>>

ImageNext ==
    \/ StartImage \/ GetImage \/ UnmountDisk \/ Precompute \/ Credentials \/ SpawnDd
    \/ DdWrites \/ DdEnds \/ ReadLine \/ JoinReader \/ SyncDevice \/ ReadBackStart
    \/ MoveBackup \/ Recreate \/ Probe \/ FreePartition \/ FormatIsos \/ RecordImage
    \/ DesktopLooks \/ StaleFlush

-----------------------------------------------------------------------------
\* Success means that every operation of the plan the operator agreed to was
\* carried out, that a warning named it, or that --no-expand or macOS left
\* AEGIS_ISOS as the image has it (build_flash_plan, flash).  "Spans the full
\* stick" is a fresh file system of that size if the kernel knows the table,
\* and what was read back is still there unless an old mount was left.
PlanIsCarriedOut ==
    /\ verdict = "installed" =>
         /\ Plan \subseteq did \cup told \cup (IF opts.mac \/ ~opts.expand THEN {"expand"} ELSE {})
         /\ "readback" \in did => disk.start = "good" \/ <<1, "old">> \in mounts
    /\ "expand" \in did => disk.isos = "fresh" /\ (disk.kernel = "full" => disk.span = "full")

\* A failure formats nothing that was written; one of the source leaves the
\* stick alone, and a bad chip is blamed only after dd had succeeded
\* (FlashError::classify and its suggestions).
AdviceFitsTheStick ==
    verdict \in Classes =>
        /\ disk.isos \in {"old", "image"} /\ disk.table \in {"old", "image"}
        /\ Advice(verdict) \in {"get_image", "mend_build"} => disk.start = "old"
        /\ Advice(verdict) = "other_stick" => "write" \in did /\ hashed

\* What `flash' says of an image fits the stick, when it succeeded and when not.
FlashReportFits == PlanIsCarriedOut /\ AdviceFitsTheStick
=============================================================================
