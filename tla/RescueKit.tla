------------------------------ MODULE RescueKit ------------------------------
(***************************************************************************)
(* `aegis-boot init' (and `quickstart', which forwards to it) on Linux:    *)
(* the serial-confirmation wizard or an explicit device, the doctor as     *)
(* preflight, flash, then fetch and add for every slug of a profile.       *)
(* Drives come and go at the prompts, and the desktop mounts what it       *)
(* finds.                                                                  *)
(***************************************************************************)
EXTENDS Doctor, SequencesExt

CONSTANTS
    Paths,     \* device nodes /dev/sdX
    Drives,    \* drives: records of what sysfs and lsblk tell, see Usable
    NoDrive,
    NoPath,    \* no device argument
    NSlugs,    \* slugs of the catalog
    Profiles,  \* profiles: sequences of slugs
    Requests,  \* command lines, as records of Request
    Facts,     \* what the doctor may find on the host
    Worlds     \* what is plugged in, on the drives and mounted when it starts

Slugs == 1..NSlugs
Request == [yes : BOOLEAN, named : Paths \cup {NoPath}, noDoctor : BOOLEAN,
            force : BOOLEAN, direct : BOOLEAN, profile : Profiles]

Trust == {"absent", "yellow", "red"}
Mount == [drive : Drives, stale : BOOLEAN]
Plugged == [plug : [Paths -> Drives \cup {NoDrive}],
            part : [Drives -> {"aegis", "esp", "raw", "other"}],
            kit : [Drives -> [Slugs -> Trust]], mounted : Seq(Mount)]

ASSUME KitAssumption ==
    /\ NSlugs \in Nat \ {0} /\ Profiles \subseteq Seq(Slugs) \ {<<>>}
    /\ Requests \subseteq Request /\ Requests # {}
    /\ NoDrive \notin Drives /\ NoPath \notin Paths /\ IsFiniteSet(Paths)
    /\ Worlds \subseteq Plugged
    /\ Facts # {} /\ Facts \subseteq HostFacts

VARIABLES
    plug,      \* plug[p]: the drive that is /dev/p
    part,      \* part[d]: its partitions: "aegis", "esp" (an ESP alone), "raw"
               \* (one file system on the whole disk, mounted), "other"
    kit,       \* kit[d][s]: the ISO of slug s on its AEGIS_ISOS and its trust
    mounted,   \* the AEGIS_ISOS mounts in the order of /proc/mounts; `stale'
               \* when the file system below has been replaced
    facts, ask,
    stage, target,
    report,    \* what the preflight said
    nth,       \* the slug of the profile it works on
    cached,    \* slugs whose verified ISO is in the cache
    ending,
    agreed,    \* how the operator agreed to the erasure
    sighted,   \* history: the drive they were shown then
    swapped,   \* history: a drive was plugged in or out during the run
    wiped,     \* history: drives whose contents this run touched
    alone      \* history: no AEGIS_ISOS was mounted when the flash ended, and none
               \* but the new one could be when an ISO was added

kitVars == <<plug, part, kit, mounted, facts, ask, stage, target, report, nth,
             cached, ending, agreed, sighted, swapped, wiped, alone>>
worldVars == <<plug, part, kit, mounted, facts>>
choiceVars == <<ask, target, agreed, sighted>>
marks == <<swapped, wiped, alone>>

NoIsos == [s \in Slugs |-> "absent"]
NoReport == [failed |-> FALSE, band |-> "EXCELLENT", advice |-> "none"]

KitTypeOK ==
    /\ plug \in [Paths -> Drives \cup {NoDrive}]
    /\ part \in [Drives -> {"aegis", "esp", "raw", "other"}]
    /\ kit \in [Drives -> [Slugs -> Trust]]
    /\ mounted \in Seq(Mount)
    /\ facts \in Facts /\ ask \in Requests
    /\ stage \in {"idle", "pick", "type", "doctor", "flash", "typed", "erase", "fetch", "add", "over"}
    /\ target \in Paths \cup {NoPath}
    /\ report.failed \in BOOLEAN /\ nth \in Nat \ {0}
    /\ cached \subseteq Slugs
    /\ ending \in {"none", "refused", "failed", "done"}
    /\ agreed \in {"none", "yes", "typed", "serial"}
    /\ sighted \in Drives \cup {NoDrive} /\ wiped \subseteq Drives

\* No run has begun.
AtRest ==
    /\ ask = CHOOSE r \in Requests : TRUE
    /\ stage = "idle" /\ target = NoPath /\ report = NoReport /\ nth = 1
    /\ ending = "none" /\ agreed = "none" /\ sighted = NoDrive
    /\ swapped = FALSE /\ wiped = {} /\ alone = FALSE

KitInit ==
    /\ \E w \in Worlds : plug = w.plug /\ part = w.part /\ kit = w.kit /\ mounted = w.mounted
    /\ facts \in Facts /\ cached = {}
    /\ AtRest

-----------------------------------------------------------------------------
(* Drives. *)

\* drive_passes_filter: the removable flag, or a USB disk of at most 2 TiB.
DrivePassesFilter(d) == d.removable \/ (d.bus = "usb" /\ d.size = "fits")

\* list_removable_drives.
Removables == {p \in Paths : plug[p] # NoDrive /\ DrivePassesFilter(plug[p])}

\* parse_lsblk_removable_usb: lsblk's own word for the transport.
WizardDrives == {p \in Paths : plug[p] # NoDrive /\ plug[p].removable /\ plug[p].tran = "usb"}

\* is_target_mounted: findmnt is asked about the whole disk, so it sees only a
\* file system that has no partition.
IsTargetMounted(p) == part[plug[p]] = "raw"

\* serial_token.
HasToken(d) == d.serial \notin {"none", "short"}

IsMounted(d) == \E i \in DOMAIN mounted : mounted[i].drive = d

\* Mounts without drive d, which is mounted once.
Unmounted(d) ==
    IF IsMounted(d) THEN RemoveAt(mounted, CHOOSE i \in DOMAIN mounted : mounted[i].drive = d)
    ELSE mounted

\* The operator pulls a drive, or another one takes its device node.
Replug ==
    /\ stage \notin {"idle", "over"} /\ ~swapped
    /\ \E p \in Paths, d \in Drives \cup {NoDrive} :
         /\ d # plug[p] /\ (d = NoDrive \/ \A q \in Paths : plug[q] # d)
         /\ plug' = [plug EXCEPT ![p] = d]
         /\ mounted' = Unmounted(plug[p])
    /\ swapped' = TRUE
    /\ UNCHANGED <<part, kit, facts, choiceVars, stage, report, nth, cached, ending, wiped, alone>>

\* The desktop mounts an AEGIS_ISOS partition.
DesktopMounts ==
    /\ stage \notin {"idle", "over"}
    /\ \E p \in Paths :
         /\ plug[p] # NoDrive /\ part[plug[p]] = "aegis" /\ ~IsMounted(plug[p])
         /\ mounted' = Append(mounted, [drive |-> plug[p], stale |-> FALSE])
    /\ UNCHANGED <<plug, part, kit, facts, choiceVars, stage, report, nth, cached, ending, marks>>

-----------------------------------------------------------------------------
(* run *)

Ends(e) ==
    /\ stage' = "over" /\ ending' = e
    /\ UNCHANGED <<choiceVars, nth>>

Proceed(from, to) ==
    /\ stage = from /\ stage' = to
    /\ UNCHANGED <<cached, ending>>

\* The profile and its slugs are known.
StartInit ==
    /\ stage = "idle"
    /\ ask' \in Requests /\ target' = ask'.named
    /\ stage' = IF ask'.named = NoPath /\ ~ask'.yes THEN "pick"
                ELSE IF ask'.noDoctor THEN "flash" ELSE "doctor"
    /\ UNCHANGED <<worldVars, report, nth, cached, ending, agreed, sighted, marks>>

\* An unknown profile or option.
InitRefused ==
    /\ stage = "idle" /\ Ends("refused")
    /\ UNCHANGED <<worldVars, report, cached, marks>>

\* run_init_wizard up to the serial prompt.
PickDrive ==
    /\ Proceed("pick", "type")
    /\ \E p \in WizardDrives :
         /\ ~ask.force => ~IsTargetMounted(p)
         /\ HasToken(plug[p])
         /\ target' = p /\ sighted' = plug[p]
    /\ UNCHANGED <<worldVars, ask, agreed, report, nth, marks>>

\* The operator types the token of the drive they were shown.
ConfirmSerial ==
    /\ Proceed("type", IF ask.noDoctor THEN "flash" ELSE "doctor")
    /\ agreed' = "serial"
    /\ UNCHANGED <<worldVars, ask, target, sighted, report, nth, marks>>

\* No drive, a declined prompt, a mounted target, no serial, a wrong token.
WizardRefuses ==
    /\ stage \in {"pick", "type"} /\ Ends("refused")
    /\ UNCHANGED <<worldVars, report, cached, marks>>

-----------------------------------------------------------------------------
(* doctor_preflight *)

\* The drive the doctor looks at: the target, or the only removable one.
DoctorsStick ==
    IF target # NoPath THEN target
    ELSE IF Cardinality(Removables) = 1 THEN CHOOSE p \in Removables : TRUE ELSE NoPath

\* The trust of each ISO on drive d.
IsosOn(d) ==
    LET there == {s \in Slugs : kit[d][s] # "absent"}
    IN  [i \in 1..Cardinality(there) |-> kit[d][SetToSeq(there)[i]]]

\* What the doctor finds on it.  The ISOs are those of the first mount.
StickFacts(p) ==
    [table    |-> IF plug[p] = NoDrive THEN "error"
                  ELSE IF part[plug[p]] = "raw" THEN "other" ELSE part[plug[p]],
     mounted  |-> mounted # <<>>,
     isos     |-> IF mounted = <<>> THEN <<>> ELSE IsosOn(mounted[1].drive),
     manifest |-> "missing"]

Checkup ==
    LET plugged == {p \in Paths : plug[p] # NoDrive}
        seen == [facts EXCEPT !.removable = Cardinality(Removables),
                              !.disks = facts.disks + Cardinality(plugged)]
    IN  HostRows(seen) \o IF DoctorsStick = NoPath THEN NoStickRows ELSE StickRows(StickFacts(DoctorsStick))

\* --yes overrides a failed preflight.
DoctorPasses ==
    /\ report' = ReportOf(Checkup)
    /\ report'.failed => ask.yes
    /\ Proceed("doctor", "flash")
    /\ UNCHANGED <<worldVars, choiceVars, nth, marks>>

DoctorRefuses ==
    /\ stage = "doctor" /\ report' = ReportOf(Checkup)
    /\ report'.failed /\ ~ask.yes
    /\ Ends("refused")
    /\ UNCHANGED <<worldVars, cached, marks>>

-----------------------------------------------------------------------------
(* flash_step *)

\* flash's own select_drive lists the drives anew.  Without a device it asks,
\* --yes or not.  `Paths' are the nodes of drives: the loop devices that
\* AEGIS_ALLOW_LOOP_DEVICE admits in tests are left out.
SelectDrive ==
    /\ \E p \in Removables :
         /\ target # NoPath => p = target
         /\ target' = p
         /\ sighted' = IF agreed = "serial" THEN sighted ELSE plug[p]
    /\ agreed' = IF agreed = "none" /\ ask.yes THEN "yes" ELSE agreed
    /\ Proceed("flash", IF ask.yes \/ agreed = "serial" THEN "erase" ELSE "typed")
    /\ UNCHANGED <<worldVars, ask, report, nth, marks>>

SelectFails ==
    /\ stage = "flash" /\ Ends("failed")
    /\ UNCHANGED <<worldVars, report, cached, marks>>

TypeFlash ==
    /\ Proceed("typed", "erase")
    /\ agreed' = "typed"
    /\ UNCHANGED <<worldVars, ask, target, sighted, report, nth, marks>>

\* "Cancelled." is a success of flash, and init goes on.
Decline ==
    /\ Proceed("typed", "fetch")
    /\ UNCHANGED <<worldVars, choiceVars, report, nth, marks>>

DirectDeps == {"sgdisk", "partprobe", "mkfs.fat", "mkfs.exfat", "mmd", "mcopy"}

\* --direct-install makes file systems and finds a mounted partition busy; dd
\* writes below it, and the expansion unmounts it or fails with a warning.
Erase ==
    LET d == plug[target] IN
    /\ Proceed("erase", "fetch") /\ d # NoDrive
    /\ ask.direct => DirectDeps \subseteq facts.tools /\ ~IsMounted(d)
    /\ part' = [part EXCEPT ![d] = "aegis"] /\ kit' = [kit EXCEPT ![d] = NoIsos]
    /\ \/ mounted' = Unmounted(d)
       \/ mounted' = [i \in DOMAIN mounted |->
                        IF mounted[i].drive = d THEN [mounted[i] EXCEPT !.stale = TRUE] ELSE mounted[i]]
    /\ wiped' = wiped \cup {d} /\ alone' = (mounted = <<>>)
    /\ UNCHANGED <<plug, facts, choiceVars, report, nth, swapped>>

\* A missing tool leaves the stick alone; any later failure leaves it half made.
EraseFails ==
    LET d == plug[target] IN
    /\ stage = "erase"
    /\ \/ UNCHANGED <<part, kit, wiped>>
       \/ /\ d # NoDrive /\ (ask.direct => DirectDeps \subseteq facts.tools)
          /\ \E t \in {"other", "esp", "aegis"} : part' = [part EXCEPT ![d] = t]
          /\ kit' = [kit EXCEPT ![d] = NoIsos] /\ wiped' = wiped \cup {d}
    /\ mounted' = IF wiped' = wiped \/ d = NoDrive THEN mounted ELSE Unmounted(d)
    /\ Ends("failed")
    /\ UNCHANGED <<plug, facts, report, cached, swapped, alone>>

-----------------------------------------------------------------------------
(* fetch_and_add_step *)

Slug == ask.profile[nth]

\* The ISO is verified and lies where cached_iso_path looks for it.
Fetch ==
    /\ stage = "fetch" /\ stage' = "add"
    /\ cached' = cached \cup {Slug}
    /\ UNCHANGED <<worldVars, choiceVars, report, nth, ending, marks>>

FetchFails ==
    /\ stage = "fetch" /\ Ends("failed")
    /\ UNCHANGED <<worldVars, report, cached, marks>>

\* The next slug, or the end of the profile.
NextSlug ==
    IF nth < Len(ask.profile)
    THEN nth' = nth + 1 /\ stage' = "fetch" /\ UNCHANGED ending
    ELSE stage' = "over" /\ ending' = "done" /\ UNCHANGED nth

\* try_run_add is not told the stick: resolve_mount takes the first AEGIS_ISOS
\* in /proc/mounts.  The sidecar copies are best effort.
Add ==
    /\ stage = "add" /\ mounted # <<>>
    /\ LET m == mounted[1] IN
       IF m.stale THEN UNCHANGED kit
       ELSE \E t \in {"yellow", "red"} : kit' = [kit EXCEPT ![m.drive][Slug] = t]
    /\ alone' = (alone /\ \A p \in Paths : (plug[p] # NoDrive /\ part[plug[p]] = "aegis") => p = target)
    /\ NextSlug
    /\ UNCHANGED <<plug, part, mounted, facts, choiceVars, report, cached, swapped, wiped>>

\* A faulty variant: a failed add is a warning.
AddFailureGoesOn ==
    /\ stage = "add" /\ NextSlug
    /\ UNCHANGED <<worldVars, choiceVars, report, cached, marks>>

AddFails ==
    /\ stage = "add" /\ Ends("failed")
    /\ UNCHANGED <<worldVars, report, cached, marks>>

\* The command is run another time, on drives and a host as they are then.
InitAgain ==
    /\ stage = "over"
    /\ \E w \in Worlds :
         plug' = w.plug /\ part' = w.part /\ kit' = w.kit /\ mounted' = w.mounted
    /\ facts' \in Facts /\ UNCHANGED cached
    /\ stage' = "idle" /\ ask' = CHOOSE r \in Requests : TRUE
    /\ target' = NoPath /\ report' = NoReport /\ nth' = 1
    /\ ending' = "none" /\ agreed' = "none" /\ sighted' = NoDrive
    /\ swapped' = FALSE /\ wiped' = {} /\ alone' = FALSE

KitNext ==
    \/ Replug \/ DesktopMounts
    \/ StartInit \/ InitRefused \/ PickDrive \/ ConfirmSerial \/ WizardRefuses
    \/ DoctorPasses \/ DoctorRefuses
    \/ SelectDrive \/ SelectFails \/ TypeFlash \/ Decline \/ Erase \/ EraseFails
    \/ Fetch \/ FetchFails \/ Add \/ AddFails \/ InitAgain

-----------------------------------------------------------------------------
\* What init erases was agreed to: by --yes, by the typed word or by the
\* serial; unless drives were swapped meanwhile it is the drive that was shown
\* and one that counts as removable; and without --yes or --no-doctor a
\* preflight passed: its report reads well, and the drive had an ESP already
\* (run, run_init_wizard, doctor_preflight, select_drive).
KitErasesOnlyApproved ==
    \A d \in wiped' \ wiped :
        /\ d = plug[target] /\ agreed # "none"
        /\ ~swapped => d = sighted /\ DrivePassesFilter(d)
        /\ ~swapped /\ agreed = "serial" => HasToken(d) /\ d.tran = "usb"
        /\ ~ask.yes /\ ~ask.noDoctor =>
             /\ ~report.failed /\ report.band \in {"OK", "EXCELLENT"}
             /\ ~swapped => part[d] \in {"aegis", "esp"}

\* When init says the stick is ready, every slug of the profile was fetched
\* and verified, and all of them are on the drive it has just flashed, unless
\* the operator declined the flash or another AEGIS_ISOS could be taken for the
\* new one (fetch_and_add_step).
DoneMeansComplete ==
    (ending = "done") =>
        \A i \in DOMAIN ask.profile :
            /\ ask.profile[i] \in cached
            /\ (agreed # "none" /\ alone /\ ~swapped) => kit[plug[target]][ask.profile[i]] # "absent"
=============================================================================
