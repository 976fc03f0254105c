---------------------------- MODULE InstallTarget ----------------------------
(***************************************************************************)
(* What `flash --direct-install' works on when the host runs Windows or    *)
(* macOS: the disks the host sees, and one run of the command.  The two    *)
(* pipelines are WindowsInstall and MacosInstall; both call system tools   *)
(* stage by stage, stop at the first error and undo nothing.               *)
(***************************************************************************)
EXTENDS Naturals

CONSTANTS Disks,     \* the disks of the host, by number
          HostDisk,  \* disk 0, which the host booted from
          Kinds,     \* the kinds of disks there are, as records of Traits
          NFiles,    \* files of the boot chain (six in the code)
          Nowhere    \* no volume

Volumes == {"esp", "isos"}
Traits == [external : BOOLEAN, large : BOOLEAN, sealed : BOOLEAN, system : BOOLEAN]

ASSUME InstallAssumption ==
    /\ HostDisk \in Disks /\ Nowhere \notin Disks \cup (Disks \X Volumes)
    /\ Kinds \subseteq Traits /\ (\E k \in Kinds : k.system) /\ NFiles \in Nat \ {0}

EspFiles == 1..NFiles

\* "old" is left by an earlier flash; "cached" has been written and not flushed.
FileStates == {"absent", "old", "torn", "cached", "durable"}

VARIABLES
    system,     \* the host's system; "kit" for `init', "dd" for an image seen from the
                \* device, "eject" for that command
    trait,      \* trait[d]: what the host tells about disk d
    layout,     \* layout[d]: "other", "blank", or "aegis" (ESP and AEGIS_ISOS)
    content,    \* content[d][v][f]: the boot file f on volume v of disk d
    mountedAt,  \* macOS: the disk whose ESP is /Volumes/AEGIS_ESP
    named,      \* the disk the operator named
    shown,      \* the disks offered when none was named
    step,       \* the stage that runs
    next,       \* the file that is copied
    dest,       \* the volume the files go to: <<disk, volume>>
    receipt,    \* DirectInstallReceipt: the stages that ran
    result

diskVars == <<layout, content, mountedAt>>
runVarsOf == <<named, shown, step, next, dest, receipt, result>>
installVars == <<system, trait, diskVars, runVarsOf>>

Stages == {"elevation", "bitlocker", "preflight", "partition", "format_esp",
           "format_data", "stage_esp", "unmount"}
Results == {"none", "listed", "refused", "failed", "installed"}

InstallTypeOK ==
    /\ system \in {"linux", "windows", "macos", "kit", "dd", "eject"}
    /\ trait \in [Disks -> Traits]
    /\ layout \in [Disks -> {"other", "blank", "aegis"}]
    /\ content \in [Disks -> [Volumes -> [EspFiles -> FileStates]]]
    /\ mountedAt \in Disks \cup {Nowhere}
    /\ named \in Disks /\ shown \subseteq Disks
    /\ step \in Stages \cup {"idle", "copy", "sync", "over"}
    /\ next \in 1..NFiles + 1
    /\ dest \in (Disks \X Volumes) \cup {Nowhere}
    /\ receipt \subseteq Stages
    /\ result \in Results

Filled(s) == [f \in EspFiles |-> s]
Empty == [v \in Volumes |-> Filled("absent")]

\* A disk that is no aegis stick, or one that an earlier flash made.
FoundAs(d) ==
    IF layout[d] = "aegis" THEN [Empty EXCEPT !.esp = Filled("old")] ELSE Empty

InstallInit ==
    /\ trait \in [Disks -> Kinds] /\ trait[HostDisk].system
    /\ layout \in [Disks -> {"other", "aegis"}] /\ layout[HostDisk] = "other"
    /\ content = [d \in Disks |-> FoundAs(d)]
    /\ mountedAt \in {d \in Disks : layout[d] = "aegis"} \cup {Nowhere}
    /\ named = HostDisk /\ shown = {} /\ step = "idle" /\ next = 1 /\ dest = Nowhere
    /\ receipt = {} /\ result = "none"

-----------------------------------------------------------------------------
\* build_staging_sources found every file, and the operator named disk d.
StartOn(d, stage) ==
    /\ step = "idle"
    /\ named' = d /\ step' = stage
    /\ UNCHANGED <<system, trait, diskVars, shown, next, dest, receipt, result>>

\* An argument that names no disk, a missing source (build_staging_sources
\* collects them all), --dry-run: nothing was touched.
RefusedAtStart ==
    /\ step = "idle"
    /\ step' = "over" /\ result' = "refused"
    /\ UNCHANGED <<system, trait, diskVars, named, shown, next, dest, receipt>>

\* A stage ends well and the next one starts.
Passed(stage, then) ==
    /\ step = stage
    /\ step' = then /\ receipt' = receipt \cup {stage}
    /\ UNCHANGED <<system, trait, named, shown, next, dest, result>>

\* A stage fails; the receipt lists it all the same.
Failed(stage) ==
    /\ step' = "over" /\ result' = "failed" /\ receipt' = receipt \cup {stage}
    /\ UNCHANGED <<system, trait, named, shown, next, dest>>

\* The partitioner cleaned the disk and made both partitions, formatted.
NewLayout(d) ==
    /\ layout' = [layout EXCEPT ![d] = "aegis"]
    /\ content' = [content EXCEPT ![d] = Empty]

\* It stopped on its way.
PartlyLaidOut(d) ==
    /\ layout' \in {layout, [layout EXCEPT ![d] = "blank"], [layout EXCEPT ![d] = "aegis"]}
    /\ content' = IF layout' = layout THEN content ELSE [content EXCEPT ![d] = Empty]

\* The next file reaches the destination in state s.
Written(s) == content' = [content EXCEPT ![dest[1]][dest[2]][next] = s]

\* The copy stopped before, while or after it wrote the file.
PartlyWritten == content' = content \/ \E s \in {"torn", "cached"} : Written(s)

\* Bytes the system still held when disk d went away.
Settled(d) ==
    \E c \in [Volumes -> [EspFiles -> FileStates]] :
        /\ \A v \in Volumes, f \in EspFiles :
             IF content[d][v][f] = "cached" THEN c[v][f] \in {"absent", "torn", "durable"}
                                            ELSE c[v][f] = content[d][v][f]
        /\ content' = [content EXCEPT ![d] = c]

\* The command is run again.
RunAgain ==
    /\ step = "over"
    /\ step' = "idle" /\ next' = 1 /\ receipt' = {} /\ result' = "none"
    /\ named' = HostDisk /\ shown' = {} /\ dest' = Nowhere
    /\ UNCHANGED <<system, trait, diskVars>>

\* The stick is pulled once the command has ended.
Pull ==
    /\ step = "over" /\ \E v \in Volumes, f \in EspFiles : content[named][v][f] = "cached"
    /\ Settled(named)
    /\ UNCHANGED <<system, trait, layout, mountedAt, runVarsOf>>
=============================================================================
