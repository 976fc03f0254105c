----------------------------- MODULE StickFlash -----------------------------
(***************************************************************************)
(* `aegis-boot flash': choose the drive, ask, then either partition,       *)
(* format and fill the stick in place (--direct-install) or write a whole  *)
(* image with dd.  Every external tool is a step that may fail; nothing is *)
(* undone on a failure, and the host hears of the stick only at the end.   *)
(***************************************************************************)
EXTENDS Stick

CONSTANT InReadback    \* slots whose bytes lie in the part of the image that is read back

ASSUME InReadbackAssumption == InReadback \subseteq Slots

VARIABLES
    flashes,    \* flashes confirmed so far (bound: MaxFlashes)
    draft,      \* the manifest that is being written
    checked     \* the prefix of the image could be hashed before dd

flashVars == <<flashes, draft, checked>>

FlashTypeOK ==
    /\ flashes \in 0..MaxFlashes
    /\ draft \in Manifests \cup {None}
    /\ checked \in BOOLEAN

FlashInit == flashes = 0 /\ draft = None /\ checked = FALSE

\* The command ends; what it held in memory is gone.
FlashExit(o) == End(o) /\ draft' = None /\ checked' = FALSE /\ UNCHANGED flashes

-----------------------------------------------------------------------------
\* try_run up to select_drive: --image excludes --direct-install.
StartFlash ==
    /\ cmd = "none"
    /\ cmd' \in {"flash", "image"}
    /\ pc' = "select" /\ at' = 0 /\ outcome' = "none" /\ src' = Nothing
    /\ draft' = None /\ checked' = FALSE
    /\ UNCHANGED <<stickVars, store, host, flashes>>

Flashing(l) == cmd \in {"flash", "image"} /\ pc = l

\* No drive, --dry-run, anything but `flash' typed at the prompt, a missing
\* tool (check_direct_install_deps), no image: the stick was not touched.
Refuse ==
    /\ Flashing("select")
    /\ FlashExit("failed")
    /\ UNCHANGED <<stickVars, store, host>>

\* --yes or confirm_destructive, and the tools are there.
Confirm ==
    /\ cmd = "flash" /\ pc = "select"
    /\ Goto("zap")
    /\ flashes < MaxFlashes /\ flashes' = flashes + 1
    /\ UNCHANGED <<stickVars, store, host, draft, checked>>

\* --yes or confirm_destructive, and an image: mkusb.sh builds it from the
\* host's files, a prebuilt one is older.  The hash of its first 64 MB may
\* fail, and then nothing is read back.
ConfirmImage ==
    /\ cmd = "image" /\ pc = "select"
    /\ src' \in {host, [s \in Slots |-> 1]}
    /\ checked' \in BOOLEAN
    /\ pc' = "dd"
    /\ flashes < MaxFlashes /\ flashes' = flashes + 1
    /\ UNCHANGED <<stickVars, store, host, cmd, at, outcome, draft>>

\* A step that reads, or fails before it changed anything.
Fruitless == {"render", "resolve", "mmd", "identity", "hash", "sign"}

StepFails ==
    /\ cmd = "flash" /\ pc \in Fruitless
    /\ FlashExit("failed")
    /\ UNCHANGED <<stickVars, store, host>>

MmdOk ==
    /\ Flashing("mmd")
    /\ pc' = "stage" /\ at' = 1
    /\ UNCHANGED <<stickVars, store, host, src, cmd, outcome, flashVars>>

-----------------------------------------------------------------------------
(* partition_stick *)

Table(g, t) ==
    /\ guid' = g /\ table' = t
    /\ UNCHANGED <<espFs, file, manifest, store, host>>

\* sgdisk -Z, sgdisk -o, sgdisk -n.  The old file system is still where it was.
Zap == Flashing("zap") /\ Table(0, "none") /\ Goto("gpt") /\ UNCHANGED flashVars

\* A faulty variant: the new table keeps the disk GUID it had.
KeepsGuid ==
    /\ Flashing("gpt")
    /\ Table(EarlierGuid, "empty")
    /\ Goto("entries")
    /\ UNCHANGED flashVars

NewTable ==
    /\ Flashing("gpt")
    /\ Table(flashes, "empty")
    /\ Goto("entries")
    /\ UNCHANGED flashVars

Entries == Flashing("entries") /\ Table(guid, "ready") /\ Goto("mkfs") /\ UNCHANGED flashVars

PartitionFails ==
    /\ cmd = "flash" /\ pc \in {"zap", "gpt", "entries"}
    /\ \/ Table(guid, table)
       \/ Table(0, "none")
    /\ FlashExit("failed")

\* What a new file system leaves.
EspErased(fs) ==
    /\ espFs' = fs
    /\ file' = [s \in Slots |-> EmptySlot]
    /\ manifest' = None
    /\ UNCHANGED <<guid, table, store, host>>

\* mkfs.fat on partition 1; mkfs.exfat on partition 2 may still fail after it.
FormatEsp ==
    /\ Flashing("mkfs")
    /\ EspErased(TRUE)
    /\ \/ Goto("render") /\ UNCHANGED flashVars
       \/ FlashExit("failed")

FormatFails ==
    /\ Flashing("mkfs")
    /\ \/ UNCHANGED <<stickVars, store, host>>
       \/ EspErased(FALSE)
    /\ FlashExit("failed")

-----------------------------------------------------------------------------
(* render_grub_cfg, resolve_signed_chain_sources, combine_initrd, stage_esp *)

RenderOk ==
    /\ Flashing("render") /\ Goto("resolve")
    /\ UNCHANGED <<stickVars, store, host, flashVars>>

\* The sources are found; initrd and grub.cfg now exist as built files.
ResolveOk ==
    /\ Flashing("resolve")
    /\ BuildSources
    /\ pc' = "mmd"
    /\ UNCHANGED <<stickVars, store, host, cmd, at, outcome, flashVars>>

\* One of the mcopy calls of stage_esp.
StageFile ==
    /\ cmd = "flash" /\ pc = "stage" /\ at \in Slots
    /\ Mcopy(at, "main", SourceFor(at))
    /\ at' = at + 1
    /\ pc' = IF at = NSlots THEN "identity" ELSE "stage"
    /\ UNCHANGED <<guid, table, espFs, manifest, store, host, src, cmd, outcome, flashVars>>

StageFileFails ==
    /\ cmd = "flash" /\ pc = "stage" /\ at \in Slots
    /\ McopyFails(at, "main")
    /\ FlashExit("failed")
    /\ UNCHANGED <<guid, table, espFs, manifest, store, host>>

(* write_manifest_stage *)

\* read_device_identity: the disk GUID as it is now.
IdentityOk ==
    /\ Flashing("identity") /\ Goto("hash")
    /\ UNCHANGED <<stickVars, store, host, flashVars>>

\* compute_esp_file_hashes reads the sources again, not the stick.
HashOk ==
    /\ Flashing("hash")
    /\ draft' = [guid |-> guid, seq |-> 1, sum |-> [s \in Slots |-> SourceFor(s)]]
    /\ Goto("manifest")
    /\ UNCHANGED <<stickVars, store, host, flashes, checked>>

WriteManifest ==
    /\ Flashing("manifest")
    /\ manifest' \in {draft, Torn}
    /\ Goto("sign")
    /\ UNCHANGED <<guid, table, espFs, file, store, host, flashVars>>

WriteManifestFails ==
    /\ Flashing("manifest")
    /\ manifest' \in {manifest, Torn}
    /\ FlashExit("failed")
    /\ UNCHANGED <<guid, table, espFs, file, store, host>>

\* Without AEGIS_BOOT_SIGNING_KEY the manifest stays unsigned; a signature is a
\* file of its own that nothing modelled here reads.
Sign ==
    /\ Flashing("sign") /\ Goto("mirror")
    /\ UNCHANGED <<stickVars, store, host, flashVars>>

\* write_host_side_attestation; a failure is a warning.
Mirror ==
    /\ Flashing("mirror")
    /\ store' \in {store, store \cup {[guid |-> guid, body |-> draft]}}
    /\ FlashExit("flashed")
    /\ UNCHANGED <<stickVars, host>>

-----------------------------------------------------------------------------
(* flash: dd, read back, expand, record *)

\* The stick holds the image, with any of its files torn.
ImageWritten ==
    /\ guid' = ImageGuid /\ table' = "ready" /\ espFs' = TRUE
    /\ \E torn \in SUBSET Slots :
         file' = [s \in Slots |->
                    [EmptySlot EXCEPT !["main"] = IF s \in torn THEN Torn ELSE src[s]]]
    /\ manifest' = None
    /\ UNCHANGED <<store, host>>

Dd == Flashing("dd") /\ ImageWritten /\ Goto("readback") /\ UNCHANGED flashVars

DdFails ==
    /\ Flashing("dd")
    /\ UNCHANGED <<stickVars, store, host>> \/ ImageWritten
    /\ FlashExit("failed")

\* readback_verify_device: the prefix on the stick is the image's.
ReadbackMatches == \A s \in InReadback : file[s]["main"] = src[s]

\* Expanding the data partition may fail with a warning only.
Readback ==
    /\ Flashing("readback")
    /\ IF checked => ReadbackMatches
       THEN Goto("record") /\ UNCHANGED flashVars
       ELSE FlashExit("failed")
    /\ UNCHANGED <<stickVars, store, host>>

ReadbackFails ==
    /\ Flashing("readback") /\ checked
    /\ FlashExit("failed")
    /\ UNCHANGED <<stickVars, store, host>>

\* record_flash: a receipt, whose text holds the disk GUID; a failure is a warning.
Record ==
    /\ Flashing("record")
    /\ store' \in {store, store \cup {[guid |-> guid, body |-> Receipt]}}
    /\ FlashExit("flashed")
    /\ UNCHANGED <<stickVars, host>>

-----------------------------------------------------------------------------
\* A kill, power loss or a pulled stick: what was in flight is done in part.
FlashDies ==
    /\ cmd \in {"flash", "image"}
    /\ CASE pc = "mkfs"     -> EspErased(FALSE) \/ UNCHANGED <<stickVars, store, host>>
         [] pc = "stage"    -> /\ McopyFails(at, "main")
                               /\ UNCHANGED <<guid, table, espFs, manifest, store, host>>
         [] pc = "manifest" -> /\ manifest' \in {manifest, Torn}
                               /\ UNCHANGED <<guid, table, espFs, file, store, host>>
         [] pc = "dd"       -> ImageWritten \/ UNCHANGED <<stickVars, store, host>>
         [] OTHER           -> UNCHANGED <<stickVars, store, host>>
    /\ FlashExit("failed")

FlashNext ==
    \/ StartFlash \/ Refuse \/ Confirm \/ ConfirmImage \/ StepFails
    \/ Zap \/ NewTable \/ Entries \/ PartitionFails \/ FormatEsp \/ FormatFails
    \/ RenderOk \/ ResolveOk \/ MmdOk \/ StageFile \/ StageFileFails
    \/ IdentityOk \/ HashOk \/ WriteManifest \/ WriteManifestFails
    \/ Sign \/ Mirror
    \/ Dd \/ DdFails \/ Readback \/ ReadbackFails \/ Record
    \/ FlashDies
=============================================================================
