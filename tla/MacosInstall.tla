---------------------------- MODULE MacosInstall ----------------------------
(***************************************************************************)
(* `flash --direct-install' on macOS: diskutil info, diskutil              *)
(* partitionDisk, copies into /Volumes/AEGIS_ESP, one sync, unmount.  The  *)
(* path is fixed; which volume is mounted there is up to the system.       *)
(***************************************************************************)
EXTENDS InstallTarget

\* parse_device_id takes every diskN.
NameDisk == \E d \in Disks : StartOn(d, "preflight")

\* classify: not disk0, removable or external, and large enough.
Classify ==
    /\ named # HostDisk
    /\ trait[named].external
    /\ trait[named].large

Preflight == Classify /\ Passed("preflight", "partition") /\ UNCHANGED diskVars

\* Refused, or diskutil's answer could not be read (parse_diskutil_info).
PreflightFails == step = "preflight" /\ Failed("preflight") /\ UNCHANGED diskVars

\* diskutil partitionDisk.  The system mounts the new ESP by its label, unless
\* another stick's ESP already holds that name, and maybe a moment later.
PartitionDisk ==
    /\ named # HostDisk
    /\ Passed("partition", "stage_esp")
    /\ NewLayout(named)
    /\ mountedAt' \in IF mountedAt \in {named, Nowhere} THEN {named, Nowhere} ELSE {mountedAt}

PartitionDiskFails ==
    /\ step = "partition"
    /\ Failed("partition")
    /\ PartlyLaidOut(named)
    /\ mountedAt' = IF mountedAt = named THEN Nowhere ELSE mountedAt

AutoMount ==
    /\ mountedAt = Nowhere /\ layout[named] = "aegis" /\ step = "stage_esp"
    /\ mountedAt' = named
    /\ UNCHANGED <<system, trait, layout, content, runVarsOf>>

\* mkdir -p of EFI/BOOT under the mount point.  With nothing mounted there it
\* makes a folder on the host's own disk when it may, and the copies go there.
MakeFolders ==
    /\ step = "stage_esp"
    /\ dest' = IF mountedAt = Nowhere THEN Nowhere ELSE <<mountedAt, "esp">>
    /\ step' = "copy"
    /\ UNCHANGED <<system, trait, diskVars, named, shown, next, receipt, result>>

MakeFoldersFails == step = "stage_esp" /\ Failed("stage_esp") /\ UNCHANGED diskVars

\* fs::copy of one file.
CopyFile ==
    /\ step = "copy" /\ system = "macos"
    /\ IF dest = Nowhere THEN UNCHANGED content ELSE Written("cached")
    /\ next' = next + 1
    /\ step' = IF next = NFiles THEN "sync" ELSE "copy"
    /\ UNCHANGED <<system, trait, layout, mountedAt, named, shown, dest, receipt, result>>

CopyFileFails ==
    /\ step = "copy" /\ system = "macos"
    /\ IF dest = Nowhere THEN UNCHANGED content ELSE PartlyWritten
    /\ Failed("stage_esp")
    /\ UNCHANGED <<layout, mountedAt>>

Flushed(c) == [f \in EspFiles |-> IF c[f] = "cached" THEN "durable" ELSE c[f]]

\* /bin/sync.
Sync ==
    /\ step = "sync"
    /\ content' = [d \in Disks |-> [v \in Volumes |-> Flushed(content[d][v])]]
    /\ step' = "unmount" /\ receipt' = receipt \cup {"stage_esp"}
    /\ UNCHANGED <<system, trait, layout, mountedAt, named, shown, next, dest, result>>

SyncFails == step = "sync" /\ Failed("stage_esp") /\ UNCHANGED diskVars

\* diskutil unmount /Volumes/AEGIS_ESP; a plain folder is no volume.
Unmount ==
    /\ step = "unmount" /\ mountedAt # Nowhere /\ dest # Nowhere
    /\ mountedAt' = Nowhere
    /\ step' = "over" /\ receipt' = receipt \cup {"unmount"} /\ result' = "installed"
    /\ UNCHANGED <<system, trait, layout, content, named, shown, next, dest>>

UnmountFails == step = "unmount" /\ Failed("unmount") /\ UNCHANGED diskVars

MacosNext ==
    \/ NameDisk \/ RefusedAtStart
    \/ Preflight \/ PreflightFails \/ PartitionDisk \/ PartitionDiskFails \/ AutoMount
    \/ MakeFolders \/ MakeFoldersFails \/ CopyFile \/ CopyFileFails
    \/ Sync \/ SyncFails \/ Unmount \/ UnmountFails
    \/ RunAgain \/ Pull
=============================================================================
