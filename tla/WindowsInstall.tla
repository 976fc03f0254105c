--------------------------- MODULE WindowsInstall ---------------------------
(***************************************************************************)
(* `flash --direct-install' on Windows: elevation, BitLocker, diskpart,    *)
(* Format-Volume twice, then the boot files through the file system        *)
(* driver, each flushed before the next one starts.                        *)
(***************************************************************************)
EXTENDS InstallTarget

\* filter_flashable_drives.
Flashable == {d \in Disks \ {HostDisk} : ~trait[d].system /\ trait[d].large}

\* No drive was named: the dispatcher lists the candidates and stops.
ListDrives ==
    /\ step = "idle"
    /\ shown' = Flashable /\ step' = "over" /\ result' = "listed"
    /\ UNCHANGED <<system, trait, diskVars, named, next, dest, receipt>>

\* parse_drive_id takes any number; only --yes stands before this.
NameDrive == \E d \in Disks : StartOn(d, "elevation")

Elevated == Passed("elevation", "bitlocker") /\ UNCHANGED diskVars

\* Not an administrator, or nobody could tell.
NotElevated == step = "elevation" /\ Failed("elevation") /\ UNCHANGED diskVars

\* A faulty variant: an answer that cannot be classified passes.
UnknownPasses(readable) == readable => ~trait[named].sealed

\* classify_bitlocker_status: FullyDecrypted only when manage-bde's answer could
\* be read and no volume of the drive is in another state.
FullyDecrypted(readable) == readable /\ ~trait[named].sealed

Decrypted ==
    /\ \E readable \in BOOLEAN : FullyDecrypted(readable)
    /\ Passed("bitlocker", "partition")
    /\ UNCHANGED diskVars

Protected ==
    /\ step = "bitlocker"
    /\ \E readable \in BOOLEAN : ~FullyDecrypted(readable)
    /\ Failed("bitlocker")
    /\ UNCHANGED diskVars

\* build_diskpart_script and build_format_ps_command refuse drive 0.
NotBootDrive == named # HostDisk

Diskpart ==
    /\ NotBootDrive
    /\ Passed("partition", "format_esp")
    /\ NewLayout(named) /\ UNCHANGED mountedAt

DiskpartFails ==
    /\ step = "partition"
    /\ IF NotBootDrive THEN PartlyLaidOut(named) ELSE UNCHANGED <<layout, content>>
    /\ Failed("partition")
    /\ UNCHANGED mountedAt

\* Format-Volume, once the partition has the GPT type this target expects.
FormatVolume(stage, v, then) ==
    /\ layout[named] = "aegis"
    /\ Passed(stage, then)
    /\ content' = [content EXCEPT ![named][v] = Filled("absent")]
    /\ UNCHANGED <<layout, mountedAt>>

FormatVolumes ==
    \/ FormatVolume("format_esp", "esp", "format_data")
    \/ FormatVolume("format_data", "isos", "stage_esp")

FormatVolumeFails ==
    /\ step \in {"format_esp", "format_data"}
    /\ Failed(step)
    /\ UNCHANGED diskVars

\* find_esp_volume_guid: the first volume Windows lists that lies on the drive.
\* Nothing asks which partition it is, so it may be AEGIS_ISOS.
FindVolume ==
    /\ step = "stage_esp"
    /\ dest' \in {<<named, v>> : v \in Volumes}
    /\ step' = "copy"
    /\ UNCHANGED <<system, trait, diskVars, named, shown, next, receipt, result>>

\* A source went away, or no volume of the drive was found.
NoVolumeFound == step = "stage_esp" /\ Failed("stage_esp") /\ UNCHANGED diskVars

\* A faulty variant: write_all without sync_all.
WrittenOnly == Written("cached")

\* copy_file_to_volume: create, write, sync_all.
WrittenThrough == Written("durable")

CopyToVolume ==
    /\ step = "copy" /\ system = "windows"
    /\ WrittenThrough
    /\ IF next < NFiles
       THEN /\ next' = next + 1
            /\ UNCHANGED <<step, receipt, result>>
       ELSE /\ step' = "over" /\ receipt' = receipt \cup {"stage_esp"} /\ result' = "installed"
            /\ UNCHANGED next
    /\ UNCHANGED <<system, trait, layout, mountedAt, named, shown, dest>>

CopyToVolumeFails ==
    /\ step = "copy" /\ system = "windows"
    /\ PartlyWritten
    /\ Failed("stage_esp")
    /\ UNCHANGED <<layout, mountedAt>>

WindowsNext ==
    \/ ListDrives \/ NameDrive \/ RefusedAtStart
    \/ Elevated \/ NotElevated \/ Decrypted \/ Protected
    \/ Diskpart \/ DiskpartFails \/ FormatVolumes \/ FormatVolumeFails
    \/ FindVolume \/ NoVolumeFound \/ CopyToVolume \/ CopyToVolumeFails
    \/ RunAgain \/ Pull
=============================================================================
