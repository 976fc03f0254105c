----------------------------- MODULE EjectStick -----------------------------
(***************************************************************************)
(* `eject': sync, flush the block device, power the drive off.  What the   *)
(* system tools do is external: fsync on the node of a whole disk does not *)
(* write what the file systems on its partitions still hold, udisksctl     *)
(* refuses while one is mounted, eject(1) unmounts them first.             *)
(***************************************************************************)
CONSTANT Devices  \* the nodes of whole disks

ASSUME EjectAssumption == Devices # {}

VARIABLES
    attached,    \* attached[d]: the partitions of d that are mounted
    unwritten,   \* unwritten[d]: those with bytes the stick does not have yet
    ejecting,    \* the drive of the run
    ejectStep, said

ejectVars == <<attached, unwritten, ejecting, ejectStep, said>>
Ready(s) == ejectStep = s

EjectTypeOK ==
    /\ ejecting \in Devices /\ attached \in [Devices -> SUBSET {1, 2}]
    /\ unwritten \in [Devices -> SUBSET {1, 2}]
    /\ \A d \in Devices : unwritten[d] \subseteq attached[d]
    /\ ejectStep \in {"rest", "sync", "flushbufs", "udisks", "eject", "over"}
    /\ said \in {"nothing", "refused", "safe", "synced"}

\* No command runs.
EjectAtRest ==
    /\ ejecting = CHOOSE d \in Devices : TRUE
    /\ ejectStep = "rest" /\ said = "nothing"

EjectInit ==
    /\ attached \in [Devices -> SUBSET {1, 2}]
    /\ unwritten = [d \in Devices |-> {}]
    /\ EjectAtRest

\* The desktop mounts a drive that is there, a program writes to it, and the
\* kernel writes it out.
OwnerMounts ==
    /\ \E d \in Devices, p \in {1, 2} :
         /\ ~(said = "safe" /\ d = ejecting)
         /\ attached' = [attached EXCEPT ![d] = @ \cup {p}]
    /\ UNCHANGED <<unwritten, ejecting, ejectStep, said>>

OwnerWrites ==
    /\ \E d \in Devices : \E p \in attached[d] :
         unwritten' = [unwritten EXCEPT ![d] = @ \cup {p}]
    /\ UNCHANGED <<attached, ejecting, ejectStep, said>>

WriteBack ==
    /\ \E d \in Devices : \E p \in unwritten[d] :
         unwritten' = [unwritten EXCEPT ![d] = @ \ {p}]
    /\ UNCHANGED <<attached, ejecting, ejectStep, said>>

\* select_drive: any device that is named, even one that is not listed as
\* removable, or the only removable drive.
StartEject ==
    /\ Ready("rest") /\ ejecting' \in Devices
    /\ ejectStep' = "sync"
    /\ UNCHANGED <<attached, unwritten, said>>

\* A wrong argument, no such device, none or several to choose from.
EjectRefused ==
    /\ Ready("rest") /\ ejectStep' = "over" /\ said' = "refused"
    /\ UNCHANGED <<attached, ejecting, unwritten>>

\* `sync <device>' is an fsync of the node, which needs to be opened; a user who
\* may not open it gets the bare sync of everything.
SyncStick ==
    /\ Ready("sync") /\ ejectStep' = "flushbufs"
    /\ \/ UNCHANGED unwritten
       \/ unwritten' = [d \in Devices |-> {}]
    /\ UNCHANGED <<attached, ejecting, said>>

\* blockdev works on the whole disk, or not at all without sudo.
FlushBuffers ==
    /\ Ready("flushbufs") /\ ejectStep' \in {"udisks", "eject"}
    /\ UNCHANGED <<attached, ejecting, unwritten, said>>

Says(w) == ejectStep' = "over" /\ said' = w

PowerOff ==
    /\ Ready("udisks") /\ attached[ejecting] = {} /\ Says("safe")
    /\ UNCHANGED <<attached, ejecting, unwritten>>

PowerOffFails ==
    /\ Ready("udisks") /\ ejectStep' = "eject"
    /\ UNCHANGED <<attached, ejecting, unwritten, said>>

\* Each umount writes what its file system held.
Freed(ps) ==
    /\ attached' = [attached EXCEPT ![ejecting] = @ \ ps]
    /\ unwritten' = [unwritten EXCEPT ![ejecting] = @ \ ps]

EjectDevice ==
    /\ Ready("eject") /\ Freed(attached[ejecting]) /\ Says("safe")
    /\ UNCHANGED ejecting

\* No eject(1), no right to use it, a busy mount: "The stick IS synced".
EjectDeviceFails ==
    /\ Ready("eject") /\ \E ps \in SUBSET attached[ejecting] : Freed(ps)
    /\ Says("synced")
    /\ UNCHANGED ejecting

EjectNext ==
    \/ StartEject \/ EjectRefused \/ SyncStick \/ FlushBuffers
    \/ PowerOff \/ PowerOffFails \/ EjectDevice \/ EjectDeviceFails
    \/ OwnerMounts \/ OwnerWrites \/ WriteBack

-----------------------------------------------------------------------------
\* `Done. Safe to remove' is true of the drive it names, whatever was being
\* written meanwhile (try_udisksctl_power_off, try_eject_command).
SafeToRemove == said = "safe" => unwritten[ejecting] = {}
=============================================================================
