----------------------------- MODULE StickHosts -----------------------------
(***************************************************************************)
(* A stick is made on one host: on Linux by StickLife's commands or, seen  *)
(* as a whole, by `init'; by dd, seen from the device; on Windows or macOS *)
(* by that system's pipeline.  `eject' works on any stick.                 *)
(***************************************************************************)
EXTENDS StickLife, WindowsInstall, MacosInstall, RescueKit, ImageFlash, EjectStick

hostVars == <<vars, installVars, kitVars, imageVars, ejectVars>>

HostsTypeOK == TypeOK /\ InstallTypeOK /\ KitTypeOK /\ ImageTypeOK /\ EjectTypeOK

\* A host uses the state of its own commands; the rest stays as it is for a
\* blank stick, for a pipeline that is not run, for no drives and no image.
LifeAside == Init /\ Blank

InstallAside ==
    /\ trait = [d \in Disks |-> CHOOSE k \in Kinds : TRUE]
    /\ layout = [d \in Disks |-> "other"] /\ content = [d \in Disks |-> Empty]
    /\ mountedAt = Nowhere /\ named = HostDisk /\ shown = {} /\ step = "idle" /\ next = 1
    /\ dest = Nowhere /\ receipt = {} /\ result = "none"

KitAside ==
    /\ plug = [p \in Paths |-> NoDrive] /\ part = [d \in Drives |-> "other"]
    /\ kit = [d \in Drives |-> NoIsos] /\ mounted = <<>> /\ cached = {}
    /\ facts = CHOOSE h \in Facts : TRUE
    /\ AtRest

ImageAside == ImageAtRest /\ mounts = {} /\ opts = CHOOSE o \in Options : TRUE

EjectAside ==
    /\ attached = [d \in Devices |-> {}] /\ unwritten = [d \in Devices |-> {}] /\ EjectAtRest

HostsInit ==
    \/ system = "linux" /\ Init /\ InstallAside /\ KitAside /\ ImageAside /\ EjectAside
    \/ system = "kit" /\ LifeAside /\ InstallAside /\ KitInit /\ ImageAside /\ EjectAside
    \/ system \in {"windows", "macos"} /\ LifeAside /\ InstallInit /\ KitAside /\ ImageAside
         /\ EjectAside
    \/ system = "dd" /\ LifeAside /\ InstallAside /\ KitAside /\ ImageInit /\ EjectAside
    \/ system = "eject" /\ LifeAside /\ InstallAside /\ KitAside /\ ImageAside /\ EjectInit

\* flash's try_run hands over to the pipeline of the system it was built for:
\* on Windows with --yes (without it, no drive is touched), on macOS at once.
OnWindows == WindowsNext /\ UNCHANGED <<vars, kitVars, imageVars, ejectVars>>
OnMacos == MacosNext /\ UNCHANGED <<vars, kitVars, imageVars, ejectVars>>

\* main dispatches the command.
HostsNext ==
    \/ system = "linux" /\ Next /\ UNCHANGED <<installVars, kitVars, imageVars, ejectVars>>
    \/ system = "windows" /\ OnWindows
    \/ system = "macos" /\ OnMacos
    \/ system = "kit" /\ KitNext /\ UNCHANGED <<vars, installVars, imageVars, ejectVars>>
    \/ system = "dd" /\ ImageNext /\ UNCHANGED <<vars, installVars, kitVars, ejectVars>>
    \/ system = "eject" /\ EjectNext /\ UNCHANGED <<vars, installVars, kitVars, imageVars>>

HostsSpec == HostsInit /\ [][HostsNext]_hostVars

-----------------------------------------------------------------------------
Erased(d) ==
    \/ layout'[d] # layout[d]
    \/ \E v \in Volumes, f \in EspFiles :
         content[d][v][f] \in {"old", "durable"} /\ content'[d][v][f] = "absent"

\* The pipelines erase one disk, the named one, and only after every check of
\* theirs passed on it in the same run: never the host's disk 0, on Windows no
\* disk with a BitLocker volume, on macOS no internal and no small one
\* (pipeline::run, classify_bitlocker_status, classify).  `init' on Linux
\* erases what was agreed to, see KitErasesOnlyApproved.
ErasesOnlyApproved ==
    [][ /\ \A d \in Disks : Erased(d) =>
             /\ d = named /\ d # HostDisk
             /\ system = "windows" => {"elevation", "bitlocker"} \subseteq receipt /\ ~trait[d].sealed
             /\ system = "macos" => "preflight" \in receipt /\ trait[d].external /\ trait[d].large
        /\ KitErasesOnlyApproved ]_hostVars

\* When a pipeline reports success, every boot file is whole on one volume and
\* stays so when the stick is pulled.  On macOS it is the new ESP when no other
\* stick is plugged in; on Windows no more is sure than that it is a volume of
\* the named disk, which may be AEGIS_ISOS (stage_esp, copy_file_to_volume,
\* execute_copy_plan, unmount_esp).  And when `eject' says so, nothing is left
\* to write.
InstalledIsDurable ==
  /\ SafeToRemove
  /\ result = "installed" =>
       /\ dest # Nowhere
       /\ \A f \in EspFiles : content[dest[1]][dest[2]][f] = "durable"
       /\ system = "windows" => dest[1] = named
       /\ (system = "macos" /\ \A d \in Disks \ {named} : layout[d] # "aegis")
            => dest = <<named, "esp">>
=============================================================================
