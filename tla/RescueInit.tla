----------------------------- MODULE RescueInit -----------------------------
(***************************************************************************)
(* The /init of the rescue initramfs (scripts/build-initramfs.sh): it      *)
(* waits for the disks, mounts the partition labelled AEGIS_ISOS on        *)
(* /run/media/aegis-isos ("main") and every other partition read-only      *)
(* under /run/media ("own"), leaves its log, and runs rescue-tui.          *)
(*                                                                         *)
(* A write-protected stick mounts with a warning on stderr; a resolver of  *)
(* labels may not know a file system.                                      *)
(***************************************************************************)
EXTENDS TornFiles, Naturals, Sequences, FiniteSets

CONSTANTS
  Partition,  \* the partitions of the machine's disks and sticks
  Labelled,   \* those labelled AEGIS_ISOS
  FileSystem, \* FileSystem[p]
  Protected   \* the partitions of write-protected sticks

ASSUME RescueInitAssumption ==
  /\ Labelled \subseteq Partition /\ Protected \subseteq Partition
  /\ DOMAIN FileSystem = Partition
  /\ None \notin Partition \cup {"main", "own"}

VARIABLES
  initStep,   \* "dev", "disks", "mount", "others", "log", "tui", "shell"
  devices,    \* is /dev the kernel's, or an empty tmpfs?
  nodes,      \* partitions with a node in /dev
  aegis_dev,  \* AEGIS_DEV
  spec,       \* the next of MountSpecs
  mount_ok,   \* what the script believes of the main mount
  mountedAs,  \* partition -> "main", "own" or None
  initLog,    \* where the script has left its log
  inTime      \* history: the nodes when the label was resolved

initVars == <<initStep, devices, nodes, aegis_dev, spec, mount_ok, mountedAs, initLog, inTime>>

(* The file systems tried on the labelled partition, vfat twice. *)
MountSpecs == <<"exfat", "ext4", "vfat", "vfat">>

InitTypeOK ==
  /\ initStep \in {"dev", "disks", "mount", "others", "log", "tui", "shell"}
  /\ devices \in BOOLEAN /\ mount_ok \in BOOLEAN
  /\ nodes \subseteq Partition /\ inTime \subseteq Partition
  /\ aegis_dev \in Labelled \cup {None}
  /\ spec \in 1..Len(MountSpecs) + 1
  /\ mountedAs \in [Partition -> {"main", "own", None}]
  /\ initLog \in {None, "ram", "stick"}

InitInit ==
  /\ initStep = "dev" /\ devices = TRUE
  /\ nodes = {} /\ aegis_dev = None /\ spec = 1 /\ mount_ok = FALSE
  /\ mountedAs = [p \in Partition |-> None] /\ initLog = None /\ inTime = {}

(* devtmpfs, or a tmpfs in which no device ever shows. *)
MountDev ==
  /\ initStep = "dev" /\ initStep' = "disks"
  /\ devices' \in BOOLEAN
  /\ UNCHANGED <<nodes, aegis_dev, spec, mount_ok, mountedAs, initLog, inTime>>

(* The drivers find the disks while the script runs; it waits 3 seconds. *)
DiskAppears ==
  /\ devices /\ initStep \in {"disks", "mount", "others", "log", "tui"}
  /\ \E p \in Partition \ nodes : nodes' = nodes \cup {p}
  /\ UNCHANGED <<initStep, devices, aegis_dev, spec, mount_ok, mountedAs, initLog, inTime>>

(* findfs, blkid, by-label: the first that names a block device. *)
ResolveLabel ==
  /\ initStep = "disks"
  /\ aegis_dev' \in (Labelled \cap nodes) \cup {None}
  /\ initStep' = IF aegis_dev' = None THEN "others" ELSE "mount"
  /\ inTime' = nodes
  /\ UNCHANGED <<devices, nodes, spec, mount_ok, mountedAs, initLog>>

(* A faulty variant: the script trusts the label and tries one file system. *)
MountMainOnce ==
  /\ initStep = "mount" /\ spec = 1
  /\ mountedAs' = IF FileSystem[aegis_dev] = MountSpecs[spec]
                  THEN [mountedAs EXCEPT ![aegis_dev] = "main"] ELSE mountedAs
  /\ mount_ok' = (mountedAs' # mountedAs)
  /\ spec' = spec + 1 /\ initStep' = "others"
  /\ UNCHANGED <<devices, nodes, aegis_dev, initLog, inTime>>

(* A mount counts if it says nothing: after a warning the partition is     *)
(* mounted, the script goes on, and the later attempts fail.               *)
MountMain ==
  /\ initStep = "mount" /\ spec <= Len(MountSpecs)
  /\ LET fits == FileSystem[aegis_dev] = MountSpecs[spec] /\ mountedAs[aegis_dev] = None
     IN  /\ mountedAs' = IF fits THEN [mountedAs EXCEPT ![aegis_dev] = "main"] ELSE mountedAs
         /\ mount_ok' = (fits /\ aegis_dev \notin Protected)
         /\ initStep' = IF mount_ok' \/ spec = Len(MountSpecs) THEN "others" ELSE "mount"
  /\ spec' = spec + 1
  /\ UNCHANGED <<devices, nodes, aegis_dev, initLog, inTime>>

(* Every other partition with a node by now whose file system the kernel   *)
(* knows; the labelled one is passed over even if its mounts failed.       *)
MountOthers ==
  /\ initStep = "others" /\ initStep' = "log"
  /\ mountedAs' = [p \in Partition |->
       IF p \in nodes /\ p # aegis_dev /\ FileSystem[p] # "unknown" THEN "own"
       ELSE mountedAs[p]]
  /\ UNCHANGED <<devices, nodes, aegis_dev, spec, mount_ok, initLog, inTime>>

(* cp into the mount point, which exists with nothing mounted on it too. *)
WriteInitLog ==
  /\ initStep = "log" /\ initStep' = "tui"
  /\ initLog' = IF \A p \in Partition : mountedAs[p] # "main" THEN "ram"
                ELSE IF aegis_dev \in Protected THEN None ELSE "stick"
  /\ UNCHANGED <<devices, nodes, aegis_dev, spec, mount_ok, mountedAs, inTime>>

InitNext ==
  MountDev \/ DiskAppears \/ ResolveLabel \/ MountMain \/ MountOthers \/ WriteInitLog

(* Whatever the resolvers miss, in whatever order the disks appear, and    *)
(* write-protected or not: a partition labelled AEGIS_ISOS that was there  *)
(* when the label was resolved, with one of the file systems a stick is    *)
(* made with, is mounted under one of rescue-tui's two roots when          *)
(* rescue-tui starts, and at most one on the mount point it writes to.     *)
ShelfIsSeen ==
  initStep = "tui" =>
    /\ \A p \in Labelled \cap inTime :
         FileSystem[p] \in {"exfat", "ext4", "vfat"} => mountedAs[p] # None
    /\ Cardinality({p \in Partition : mountedAs[p] = "main"}) <= 1
=============================================================================
