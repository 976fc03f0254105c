-------------------------- MODULE StickHostsProofs --------------------------
(***************************************************************************)
(* Proofs about the hosts a stick is made on (StickHosts), for any disks,  *)
(* drives, profiles and files: the pipelines of Windows and macOS, `init', *)
(* an image written with dd, `eject'.  What is proved of the commands on   *)
(* Linux comes from StickProofs.                                           *)
(***************************************************************************)
EXTENDS StickHosts, StickProofs, FiniteSetTheorems, SequenceTheorems, WellFoundedInduction

-----------------------------------------------------------------------------
(* eject *)

EjectInv ==
    /\ EjectTypeOK
    /\ said = "safe" => ejectStep = "over" /\ attached[ejecting] = {}

LEMMA EjectInitInv ==
    ASSUME \/ EjectInit
           \/ EjectAside
    PROVE EjectInv
<1> EjectAtRest /\ ejecting \in Devices
    BY EjectAssumption DEF EjectInit, EjectAside, EjectAtRest
<1> QED
    BY DEF EjectInit, EjectAside, EjectAtRest, EjectInv, EjectTypeOK

LEMMA EjectStepInv == ASSUME EjectInv, [EjectNext]_ejectVars PROVE EjectInv'
<1> USE DEF EjectInv, EjectTypeOK, Ready, Says
<1>1. CASE UNCHANGED ejectVars
    BY <1>1 DEF ejectVars
<1>2. CASE StartEject \/ EjectRefused \/ SyncStick \/ FlushBuffers
    BY <1>2 DEF StartEject, EjectRefused, SyncStick, FlushBuffers
<1>3. CASE PowerOff \/ PowerOffFails
    BY <1>3 DEF PowerOff, PowerOffFails
<1>4. CASE EjectDevice
    BY <1>4 DEF EjectDevice, Freed
<1>5. CASE EjectDeviceFails
    BY <1>5 DEF EjectDeviceFails, Freed
<1>6. CASE OwnerMounts
    BY <1>6 DEF OwnerMounts
<1>7. CASE OwnerWrites
    BY <1>7 DEF OwnerWrites
<1>8. CASE WriteBack
    BY <1>8 DEF WriteBack
<1> QED
    BY <1>1, <1>2, <1>3, <1>4, <1>5, <1>6, <1>7, <1>8 DEF EjectNext

LEMMA EjectSafe == EjectInv => SafeToRemove
BY DEF EjectInv, EjectTypeOK, SafeToRemove

-----------------------------------------------------------------------------
(* An image, seen from the device *)

BeforeWrite == {"source", "unmount", "hash", "sudo", "spawn"}
BeforeReadback == BeforeWrite \cup {"dd", "drain", "sync", "readback"}
Expanding == {"move", "recreate", "probe", "free", "mkfs"}

\* What is done, or warned of, by the time each step is reached.
DoneBy ==
    /\ todoStep # "rest" => verdict = "none"
    /\ todoStep \notin {"rest", "source"} => {"source", "removable"} \subseteq did
    /\ todoStep = "source" => "removable" \in did
    /\ todoStep \in {"sync", "readback", "record"} \cup Expanding => "write" \in did
    /\ todoStep \in {"record"} \cup Expanding => "readback" \in did \cup told
    /\ todoStep = "record" => "expand" \in did \cup told \/ opts.mac \/ ~opts.expand
    /\ todoStep \in BeforeReadback => did \cap {"readback", "expand"} = {}
    /\ todoStep \in Expanding => "expand" \notin did
    /\ todoStep \notin {"rest", "source", "unmount", "hash"} /\ ~hashed => "readback" \in told
    /\ "readback" \in did => disk.start = "good" \/ <<1, "old">> \in mounts

\* What the device may hold while the command can still fail.
Untouched ==
    /\ todoStep \in BeforeWrite => disk.start = "old"
    /\ todoStep \in BeforeReadback =>
         disk.isos \in {"old", "image"} /\ disk.table \in {"old", "image"}

DdInv == ImageTypeOK /\ DoneBy /\ Untouched /\ FlashReportFits

\* Rule i applies to a failure.
RuleFits(i, f) == Rules[i].any \cap Phrases(f) # {}

\* How FlashError::classify reads each failure.
LEMMA Classified ==
    /\ \A f \in {"stat", "not_linux", "unmount", "sudo"} : classify(f) = "other"
    /\ classify("no_source") = "no_image_source" /\ classify("mkusb") = "image_build"
    /\ \A f \in {"dd_exec", "dd_status", "readback_status"} : classify(f) = "dd_failed"
    /\ \A f \in {"mismatch", "readback_exec", "short"} : classify(f) = "readback_mismatch"
<1>1. DOMAIN Rules = 1..5
    BY DEF Rules
<1>2. ASSUME NEW f, NEW i \in 1..5, RuleFits(i, f), \A j \in 1..5 : j < i => ~RuleFits(j, f)
      PROVE classify(f) = Rules[i].class
  <2> DEFINE First(k) == k \in 1..5 /\ RuleFits(k, f) /\ \A j \in 1..k - 1 : ~RuleFits(j, f)
  <2>1. First(i)
    BY <1>2
  <2>2. \A k : First(k) => k = i
    BY <1>2
  <2>3. (CHOOSE k \in 1..5 : RuleFits(k, f) /\ \A j \in 1..k - 1 : ~RuleFits(j, f)) = i
    BY <2>1, <2>2
  <2> QED
    BY <1>1, <1>2, <2>3 DEF classify, RuleFits
<1>3. ASSUME NEW f, \A i \in 1..5 : ~RuleFits(i, f) PROVE classify(f) = "other"
    BY <1>1, <1>3 DEF classify, RuleFits
<1>4. /\ Rules[1].class = "no_image_source" /\ Rules[1].any = {"no_image_source_available"}
      /\ Rules[2].class = "image_build" /\ Rules[2].any = {"mkusb", "image_build"}
      /\ Rules[3].class = "dd_failed" /\ Rules[3].any = {"dd_exited", "dd_exec_failed"}
      /\ Rules[4].class = "readback_mismatch"
      /\ Rules[4].any = {"sha256_mismatch", "readback_verification"}
      /\ Rules[5].class = "short_readback" /\ Rules[5].any = {"readback_short", "short_readback"}
    BY DEF Rules
<1>5. \A f \in {"stat", "not_linux", "unmount", "sudo"} : classify(f) = "other"
    BY <1>3 DEF Phrases, RuleFits
<1>6. /\ Phrases("no_source") = {"no_image_source_available"} /\ Phrases("mkusb") = {"mkusb"}
      /\ Phrases("dd_exec") = {"dd_exec_failed"} /\ Phrases("dd_status") = {"dd_exited"}
      /\ Phrases("readback_exec") = {"readback_verification"}
      /\ Phrases("readback_status") = {"readback_verification", "dd_exited"}
      /\ Phrases("short") = {"readback_verification", "readback_short"}
      /\ Phrases("mismatch") = {"readback_verification", "sha256_mismatch"}
    BY DEF Phrases
<1>7. classify("no_source") = "no_image_source" /\ classify("mkusb") = "image_build"
  <2>1. /\ RuleFits(1, "no_source")
        /\ RuleFits(2, "mkusb") /\ ~RuleFits(1, "mkusb")
    BY <1>4, <1>6 DEF RuleFits
  <2> QED
    BY <1>2, <1>4, <2>1
<1>8. \A f \in {"dd_exec", "dd_status", "readback_status"} : classify(f) = "dd_failed"
  <2> TAKE f \in {"dd_exec", "dd_status", "readback_status"}
  <2>1. RuleFits(3, f) /\ ~RuleFits(1, f) /\ ~RuleFits(2, f)
    BY <1>4, <1>6 DEF RuleFits
  <2> QED
    BY <1>2, <1>4, <2>1
<1>9. \A f \in {"mismatch", "readback_exec", "short"} : classify(f) = "readback_mismatch"
  <2> TAKE f \in {"mismatch", "readback_exec", "short"}
  <2>1. RuleFits(4, f) /\ ~RuleFits(1, f) /\ ~RuleFits(2, f) /\ ~RuleFits(3, f)
    BY <1>4, <1>6 DEF RuleFits
  <2> QED
    BY <1>2, <1>4, <2>1
<1> QED
    BY <1>5, <1>7, <1>8, <1>9

\* Where each verdict leaves the advice.
LEMMA AdviceOf ==
    /\ \A f \in {"stat", "not_linux", "unmount", "sudo"} :
         classify(f) \in Classes /\ Advice(classify(f)) = "report"
    /\ \A f \in {"no_source", "mkusb"} :
         classify(f) \in Classes /\ Advice(classify(f)) \in {"get_image", "mend_build"}
    /\ \A f \in {"dd_exec", "dd_status", "readback_status"} :
         classify(f) \in Classes /\ Advice(classify(f)) = "replug"
    /\ \A f \in {"mismatch", "readback_exec", "short"} :
         classify(f) \in Classes /\ Advice(classify(f)) = "other_stick"
BY Classified DEF Advice, Classes

LEMMA DdInitInv ==
    ASSUME \/ ImageInit
           \/ ImageAside
    PROVE DdInv
<1>1. opts \in Options
  <2>1. [mac |-> TRUE, built |-> TRUE, progress |-> TRUE, expand |-> TRUE] \in Options
    BY DEF Options
  <2> QED
    BY <2>1 DEF ImageInit, ImageAside
<1>2. ImageAtRest /\ mounts \in SUBSET ({1, 2} \X {"old"})
  BY DEF ImageInit, ImageAside
<1>3. mounts \subseteq {1, 2} \X {"old", "new"}
  BY <1>2
<1>4. lines \in Seq(DdLines) /\ Len(lines) <= MaxLines
  BY <1>2, ImageFlashAssumption DEF ImageAtRest
<1>5. disk \in [start : {"old", "part", "good", "bad"}, table : Tables, kernel : Tables,
                isos : {"old", "image", "fresh", "torn"}, span : Tables]
  BY <1>2 DEF ImageAtRest, FoundDisk, Tables
<1>6. ImageTypeOK
  BY <1>1, <1>2, <1>3, <1>4, <1>5 DEF ImageAtRest, ImageTypeOK
<1> QED
  BY <1>2, <1>6 DEF ImageAtRest, FoundDisk, DdInv, DoneBy, Untouched, FlashReportFits,
         PlanIsCarriedOut,
                    AdviceFitsTheStick, BeforeWrite, BeforeReadback, Expanding, Classes

\* The step changes the verdict only where it gives up, or at the end.
LEMMA DdTypes == ASSUME DdInv, [ImageNext]_imageVars PROVE ImageTypeOK'
<1> USE ImageFlashAssumption DEF DdInv, ImageTypeOK, At, Turn, Keep, Intact, GoOn, OrFails,
        FlashFails, NotExpanded
<1>1. CASE UNCHANGED imageVars
  BY <1>1 DEF imageVars
<1>2. CASE StartImage
  <2>1. ASSUME NEW m \in mounts PROVE <<m[1], "old">> \in {1, 2} \X {"old", "new"}
    OBVIOUS
  <2>2. mounts' \subseteq {1, 2} \X {"old", "new"}
    BY <1>2, <2>1 DEF StartImage
  <2>3. lines' \in Seq(DdLines) /\ Len(lines') <= MaxLines
    BY <1>2 DEF StartImage
  <2> QED
    BY <1>2, <2>2, <2>3 DEF StartImage, FoundDisk, Tables, Operations
<1>3. CASE GetImage
  BY <1>3, AdviceOf DEF GetImage, Operations
<1>4. CASE UnmountDisk \/ Credentials \/ SpawnDd
  BY <1>4, AdviceOf DEF UnmountDisk, Credentials, SpawnDd
<1>5. CASE Precompute
  BY <1>5 DEF Precompute, Operations
<1>6. CASE DdWrites
  <2>1. lines' \in Seq(DdLines) /\ Len(lines') <= MaxLines
    BY <1>6 DEF DdWrites
  <2>2. disk' = [disk EXCEPT !.start = "part"]
    BY <1>6 DEF DdWrites
  <2> QED
    BY <1>6, <2>1, <2>2 DEF DdWrites
<1>7. CASE DdEnds
  BY <1>7 DEF DdEnds, Tables
<1>8. CASE ReadLine
  BY <1>8 DEF ReadLine
<1>9. CASE JoinReader
  BY <1>9, AdviceOf DEF JoinReader, Operations
<1>10. CASE SyncDevice
  BY <1>10 DEF SyncDevice, Reread
<1>11. CASE ReadBackStart
  BY <1>11, AdviceOf DEF ReadBackStart, Operations
<1>12. CASE MoveBackup \/ Recreate
  BY <1>12 DEF MoveBackup, Recreate, Reread, Tables, Operations
<1>13. CASE Probe \/ FreePartition
  BY <1>13 DEF Probe, FreePartition, Reread
<1>14. CASE FormatIsos
  BY <1>14 DEF FormatIsos, Operations, Tables
<1>15. CASE RecordImage
  BY <1>15 DEF RecordImage, Operations
<1>16. CASE DesktopLooks \/ StaleFlush
  BY <1>16 DEF DesktopLooks, StaleFlush
<1> QED
  BY <1>1, <1>2, <1>3, <1>4, <1>5, <1>6, <1>7, <1>8, <1>9, <1>10, <1>11, <1>12, <1>13, <1>14,
         <1>15, <1>16
     DEF ImageNext

LEMMA DdStepDone == ASSUME DdInv, [ImageNext]_imageVars PROVE DoneBy' /\ Untouched'
<1> USE DEF DdInv, ImageTypeOK, DoneBy, Untouched, BeforeWrite, BeforeReadback, Expanding,
            At, Turn, Keep, Intact, GoOn, OrFails, FlashFails, NotExpanded
<1>1. CASE UNCHANGED imageVars
  BY <1>1 DEF imageVars
<1>2. CASE StartImage
  BY <1>2 DEF StartImage, FoundDisk
<1>3. CASE GetImage
  BY <1>3 DEF GetImage
<1>4. CASE UnmountDisk
  BY <1>4 DEF UnmountDisk
<1>5. CASE Precompute \/ Credentials \/ SpawnDd
  BY <1>5 DEF Precompute, Credentials, SpawnDd
<1>6. CASE DdWrites \/ ReadLine
  BY <1>6 DEF DdWrites, ReadLine
<1>7. CASE DdEnds
  BY <1>7 DEF DdEnds
<1>8. CASE JoinReader
  BY <1>8 DEF JoinReader
<1>9. CASE SyncDevice
  BY <1>9 DEF SyncDevice, Reread
<1>10. CASE ReadBackStart
  BY <1>10 DEF ReadBackStart
<1>11. CASE MoveBackup \/ Recreate
  BY <1>11 DEF MoveBackup, Recreate, Reread
<1>12. CASE Probe
  BY <1>12 DEF Probe, Reread
<1>13. CASE FreePartition
  BY <1>13 DEF FreePartition
<1>14. CASE FormatIsos
  BY <1>14 DEF FormatIsos
<1>15. CASE RecordImage
  BY <1>15 DEF RecordImage
<1>16. CASE DesktopLooks
  BY <1>16 DEF DesktopLooks
<1>17. CASE StaleFlush
  BY <1>17 DEF StaleFlush
<1> QED
  BY <1>1, <1>2, <1>3, <1>4, <1>5, <1>6, <1>7, <1>8, <1>9, <1>10, <1>11, <1>12, <1>13, <1>14,
         <1>15, <1>16, <1>17
     DEF ImageNext

\* What the verdict says is still true when nobody works on the device.
LEMMA DdRestReports ==
    ASSUME DdInv, UNCHANGED <<did, told, verdict, opts, hashed>>,
           disk' = disk \/ StaleFlush, mounts \subseteq mounts'
    PROVE FlashReportFits'
BY DEF DdInv, FlashReportFits, PlanIsCarriedOut, AdviceFitsTheStick, StaleFlush, ImageTypeOK

\* A step that comes to no verdict and carries no expansion out.
LEMMA DdQuietReports ==
    ASSUME DdInv, verdict' = "none", "expand" \notin did'
    PROVE FlashReportFits'
BY DEF FlashReportFits, PlanIsCarriedOut, AdviceFitsTheStick, Classes

\* A failure before the device is written to, and one of dd or the read-back.
LEMMA DdFailureReports ==
    ASSUME DdInv, UNCHANGED <<disk, did, told>>, hashed' = hashed, todoStep \in BeforeReadback,
           NEW f, FlashFails(f),
           \/ f \in {"stat", "not_linux", "unmount", "sudo", "dd_exec", "dd_status", "readback_status"}
           \/ f \in {"no_source", "mkusb"} /\ todoStep \in BeforeWrite
           \/ f \in {"mismatch", "readback_exec", "short"} /\ "write" \in did /\ hashed
    PROVE FlashReportFits'
<1>1. verdict' = classify(f) /\ verdict' \in Classes
  BY AdviceOf DEF FlashFails
<1>2. "expand" \notin did'
  BY DEF DdInv, DoneBy
<1>3. PlanIsCarriedOut'
  BY <1>1, <1>2 DEF PlanIsCarriedOut, Classes
<1>4. disk'.isos \in {"old", "image"} /\ disk'.table \in {"old", "image"}
  BY DEF DdInv, Untouched
<1>5. Advice(verdict') \in {"get_image", "mend_build"} => disk'.start = "old"
  BY <1>1, AdviceOf DEF DdInv, Untouched
<1>6. Advice(verdict') = "other_stick" => "write" \in did' /\ hashed'
  BY <1>1, AdviceOf
<1> QED
  BY <1>3, <1>4, <1>5, <1>6 DEF FlashReportFits, AdviceFitsTheStick

LEMMA DdStepReports == ASSUME DdInv, [ImageNext]_imageVars PROVE FlashReportFits'
<1> USE DEF At, Turn, Keep, Intact, GoOn, OrFails, NotExpanded
<1>0. DoneBy /\ ImageTypeOK
  BY DEF DdInv
<1>1. CASE UNCHANGED imageVars
  BY <1>1, DdRestReports DEF imageVars
<1>2. CASE StartImage
  BY <1>2, DdQuietReports DEF StartImage
<1>3. CASE GetImage
  BY <1>0, <1>3, DdQuietReports, DdFailureReports DEF GetImage, DoneBy, BeforeWrite, BeforeReadback
<1>4. CASE UnmountDisk \/ Credentials \/ SpawnDd
  BY <1>0, <1>4, DdQuietReports, DdFailureReports DEF UnmountDisk, Credentials, SpawnDd, DoneBy,
     BeforeWrite, BeforeReadback
<1>5. CASE Precompute \/ DdWrites \/ DdEnds \/ SyncDevice
  BY <1>0, <1>5, DdQuietReports DEF Precompute, DdWrites, DdEnds, SyncDevice, DoneBy, BeforeWrite,
     BeforeReadback
<1>6. CASE ReadLine
  BY <1>6, DdRestReports DEF ReadLine
<1>7. CASE JoinReader
  BY <1>0, <1>7, DdQuietReports, DdFailureReports DEF JoinReader, DoneBy, BeforeWrite,
         BeforeReadback
<1>8. CASE ReadBackStart
  BY <1>0, <1>8, DdQuietReports, DdFailureReports DEF ReadBackStart, DoneBy, BeforeWrite,
         BeforeReadback
<1>9. CASE MoveBackup \/ Recreate \/ Probe \/ FreePartition
  BY <1>0, <1>9, DdQuietReports DEF MoveBackup, Recreate, Probe, FreePartition, DoneBy, Expanding
<1>10. CASE FormatIsos
  BY <1>0, <1>10, DdQuietReports DEF FormatIsos, DoneBy, Expanding, ImageTypeOK, FlashReportFits,
     PlanIsCarriedOut, AdviceFitsTheStick, Classes
<1>11. CASE RecordImage
  BY <1>0, <1>11 DEF RecordImage, DdInv, DoneBy, ImageTypeOK, FlashReportFits, PlanIsCarriedOut,
     AdviceFitsTheStick, Classes, Plan, Operations
<1>12. CASE DesktopLooks \/ StaleFlush
  BY <1>12, DdRestReports DEF DesktopLooks, StaleFlush
<1> QED
  BY <1>1, <1>2, <1>3, <1>4, <1>5, <1>6, <1>7, <1>8, <1>9, <1>10, <1>11, <1>12 DEF ImageNext

-----------------------------------------------------------------------------
(* The pipelines of Windows and macOS *)

Files(d, v) == content[d][v]

\* The checks that stand before each stage that erases.
CheckedFirst ==
    /\ system = "windows" /\ step = "bitlocker" => "elevation" \in receipt
    /\ system = "windows" /\ step \in {"partition", "format_esp", "format_data"} =>
         {"elevation", "bitlocker"} \subseteq receipt /\ ~trait[named].sealed
    /\ system = "windows" /\ step \in {"format_esp", "format_data"} => named # HostDisk
    /\ system = "macos" /\ step = "partition" =>
         "preflight" \in receipt /\ Classify
    /\ system = "macos" => step \notin {"format_esp", "format_data"}

\* The files before the next one are on the volume they go to; after the sync
\* they are on the stick.
CopiedSoFar ==
    /\ step \notin {"copy", "sync", "unmount", "over"} => next = 1
    /\ step = "copy" => next \in EspFiles
    /\ step \notin {"copy", "sync", "unmount", "over"} => dest = Nowhere
    /\ system = "windows" /\ step = "copy" =>
         /\ dest \in Disks \X Volumes /\ dest[1] = named
         /\ \A f \in EspFiles : f < next => Files(dest[1], dest[2])[f] = "durable"
    /\ system = "macos" /\ dest # Nowhere =>
         /\ dest[2] = "esp" /\ layout[dest[1]] = "aegis"
         /\ step = "copy" => \A f \in EspFiles : f < next =>
              Files(dest[1], dest[2])[f] \in {"cached", "durable"}
         /\ step = "sync" => \A f \in EspFiles :
              Files(dest[1], dest[2])[f] \in {"cached", "durable"}
         /\ step = "unmount" => \A f \in EspFiles : Files(dest[1], dest[2])[f] = "durable"

\* What is mounted under macOS's fixed path is the ESP of a stick.
MountedEsp == system = "macos" /\ mountedAt # Nowhere => layout[mountedAt] = "aegis"

\* Every file is on the volume when a pipeline says so.
AllDurable ==
    result = "installed" =>
       /\ step = "over" /\ dest \in Disks \X Volumes
       /\ \A f \in EspFiles : Files(dest[1], dest[2])[f] = "durable"
       /\ system = "windows" => dest[1] = named
       /\ system = "macos" => dest[2] = "esp" /\ layout[dest[1]] = "aegis"

PipelineInv == InstallTypeOK /\ CheckedFirst /\ CopiedSoFar /\ MountedEsp /\ AllDurable

LEMMA PipelineSafe == PipelineInv /\ SafeToRemove => InstalledIsDurable
<1> SUFFICES ASSUME PipelineInv, SafeToRemove, result = "installed"
             PROVE /\ dest # Nowhere
                   /\ \A f \in EspFiles : content[dest[1]][dest[2]][f] = "durable"
                   /\ system = "windows" => dest[1] = named
                   /\ (system = "macos" /\ \A d \in Disks \ {named} : layout[d] # "aegis")
                        => dest = <<named, "esp">>
    BY DEF InstalledIsDurable
<1>1. dest \in Disks \X Volumes /\ AllDurable
  BY DEF PipelineInv, AllDurable
<1>2. dest # Nowhere
  BY <1>1, InstallAssumption
<1>3. ASSUME system = "macos", \A d \in Disks \ {named} : layout[d] # "aegis"
      PROVE dest = <<named, "esp">>
  <2>1. dest[1] \in Disks /\ layout[dest[1]] = "aegis" /\ dest[2] = "esp" /\ dest = <<dest[1], dest[2]>>
    BY <1>1, <1>3 DEF AllDurable
  <2>2. dest[1] = named
    BY <1>3, <2>1
  <2> QED
    BY <2>1, <2>2
<1> QED
  BY <1>1, <1>2, <1>3 DEF AllDurable, Files

Contents == [Disks -> [Volumes -> [EspFiles -> FileStates]]]

LEMMA EmptyTypes ==
    /\ \A s \in FileStates : Filled(s) \in [EspFiles -> FileStates]
    /\ Empty \in [Volumes -> [EspFiles -> FileStates]]
    /\ \A d \in Disks : FoundAs(d) \in [Volumes -> [EspFiles -> FileStates]]
<1>1. \A s \in FileStates : Filled(s) \in [EspFiles -> FileStates]
  BY DEF Filled
<1>2. Filled("absent") \in [EspFiles -> FileStates] /\ Filled("old") \in [EspFiles -> FileStates]
  BY <1>1 DEF FileStates
<1>3. Empty \in [Volumes -> [EspFiles -> FileStates]]
  BY <1>2 DEF Empty
<1>4. [Empty EXCEPT !.esp = Filled("old")] \in [Volumes -> [EspFiles -> FileStates]]
  BY <1>2, <1>3
<1> QED
  BY <1>1, <1>3, <1>4 DEF FoundAs

\* What the ways to change the files of a disk leave as it was.
LEMMA OnlyDisk ==
    ASSUME content \in Contents, NEW d \in Disks, NEW c \in [Volumes -> [EspFiles -> FileStates]],
           content' = [content EXCEPT ![d] = c]
    PROVE content' \in Contents /\ Files(d, "esp")' = c["esp"] /\ Files(d, "isos")' = c["isos"]
          /\ \A e \in Disks : e # d => content'[e] = content[e]
BY DEF Contents, Files, Volumes

LEMMA NewLayoutEffect ==
    ASSUME InstallTypeOK, NEW d \in Disks, NewLayout(d) \/ PartlyLaidOut(d)
    PROVE /\ content' \in Contents /\ layout' \in [Disks -> {"other", "blank", "aegis"}]
          /\ \A e \in Disks : e # d => layout'[e] = layout[e] /\ content'[e] = content[e]
          /\ NewLayout(d) => layout'[d] = "aegis"
BY EmptyTypes, OnlyDisk DEF InstallTypeOK, NewLayout, PartlyLaidOut, Contents

LEMMA WrittenEffect ==
    ASSUME InstallTypeOK, dest \in Disks \X Volumes, dest' = dest, NEW s \in FileStates, Written(s)
    PROVE /\ content' \in Contents
          /\ \A f \in EspFiles :
               Files(dest[1], dest[2])'[f] = IF f = next THEN s ELSE Files(dest[1], dest[2])[f]
          /\ \A d \in Disks, v \in Volumes, f \in EspFiles :
               content'[d][v][f] = content[d][v][f] \/ content'[d][v][f] = s
<1> DEFINE D == dest[1]
           V == dest[2]
           c == [content[D][V] EXCEPT ![next] = s]
           e == [content[D] EXCEPT ![V] = c]
<1>1. D \in Disks /\ V \in Volumes /\ content \in Contents
  BY DEF InstallTypeOK, Contents
<1>2. content' = [content EXCEPT ![D] = e]
  BY <1>1 DEF Written, Contents
<1>3. content[D][V] \in [EspFiles -> FileStates] /\ content[D] \in [Volumes -> [EspFiles -> FileStates]]
  BY <1>1 DEF Contents
<1>4. c \in [EspFiles -> FileStates] /\ \A f \in EspFiles : c[f] = IF f = next THEN s ELSE content[D][V][f]
  BY <1>3
<1> HIDE DEF c
<1>5. e \in [Volumes -> [EspFiles -> FileStates]] /\ e[V] = c
      /\ \A v \in Volumes : v # V => e[v] = content[D][v]
  BY <1>1, <1>3, <1>4
<1> HIDE DEF e
<1>6. content' \in Contents /\ content'[D] = e /\ \A d \in Disks : d # D => content'[d] = content[d]
  BY <1>1, <1>2, <1>5 DEF Contents
<1>7. Files(dest[1], dest[2])' = c
  BY <1>5, <1>6 DEF Files
<1> QED
  BY <1>1, <1>4, <1>5, <1>6, <1>7 DEF Files

LEMMA SettledEffect ==
    ASSUME InstallTypeOK, NEW d \in Disks, Settled(d)
    PROVE /\ content' \in Contents
          /\ \A e \in Disks, v \in Volumes, f \in EspFiles :
               content[e][v][f] # "cached" => content'[e][v][f] = content[e][v][f]
<1>1. PICK c \in [Volumes -> [EspFiles -> FileStates]] :
        /\ \A v \in Volumes, f \in EspFiles :
             IF content[d][v][f] = "cached" THEN c[v][f] \in {"absent", "torn", "durable"}
                                            ELSE c[v][f] = content[d][v][f]
        /\ content' = [content EXCEPT ![d] = c]
  BY DEF Settled
<1> QED
  BY <1>1 DEF InstallTypeOK, Contents

\* Steps of a run that leave the disks alone.
LEMMA QuietPipeline ==
    ASSUME PipelineInv, UNCHANGED <<system, trait, layout, content, mountedAt>>,
           \/ UNCHANGED installVars
           \/ RefusedAtStart \/ RunAgain
           \/ system = "windows" /\ (ListDrives \/ NameDrive \/ Elevated \/ NotElevated \/ Decrypted
                \/ Protected \/ FormatVolumeFails \/ FindVolume \/ NoVolumeFound)
           \/ system = "macos" /\ (NameDisk \/ Preflight \/ PreflightFails \/ MakeFolders
                \/ MakeFoldersFails \/ SyncFails \/ UnmountFails)
    PROVE PipelineInv'
<1> USE InstallAssumption DEF StartOn, Passed, Failed, PipelineInv
<1>1. InstallTypeOK'
  <2>1. named' \in Disks
    BY DEF InstallTypeOK, Stages, Results, Flashable, Volumes,
           RefusedAtStart, RunAgain, ListDrives, NameDrive, Elevated, NotElevated, Decrypted,
           Protected,
           FormatVolumeFails, FindVolume, NoVolumeFound, NameDisk, Preflight, PreflightFails,
           MakeFolders, MakeFoldersFails, SyncFails, UnmountFails, installVars, runVarsOf
  <2>2. shown' \subseteq Disks
    BY DEF InstallTypeOK, Stages, Results, Flashable, Volumes,
           RefusedAtStart, RunAgain, ListDrives, NameDrive, Elevated, NotElevated, Decrypted,
           Protected,
           FormatVolumeFails, FindVolume, NoVolumeFound, NameDisk, Preflight, PreflightFails,
           MakeFolders, MakeFoldersFails, SyncFails, UnmountFails, installVars, runVarsOf
  <2>3. step' \in Stages \cup {"idle", "copy", "sync", "over"}
    BY DEF InstallTypeOK, Stages, Results, Flashable, Volumes,
           RefusedAtStart, RunAgain, ListDrives, NameDrive, Elevated, NotElevated, Decrypted,
           Protected,
           FormatVolumeFails, FindVolume, NoVolumeFound, NameDisk, Preflight, PreflightFails,
           MakeFolders, MakeFoldersFails, SyncFails, UnmountFails, installVars, runVarsOf
  <2>4. next' \in 1..NFiles + 1
    BY DEF InstallTypeOK, Stages, Results, Flashable, Volumes,
           RefusedAtStart, RunAgain, ListDrives, NameDrive, Elevated, NotElevated, Decrypted,
           Protected,
           FormatVolumeFails, FindVolume, NoVolumeFound, NameDisk, Preflight, PreflightFails,
           MakeFolders, MakeFoldersFails, SyncFails, UnmountFails, installVars, runVarsOf
  <2>5. dest' \in (Disks \X Volumes) \cup {Nowhere}
    BY DEF InstallTypeOK, Stages, Results, Flashable, Volumes,
           RefusedAtStart, RunAgain, ListDrives, NameDrive, Elevated, NotElevated, Decrypted,
           Protected,
           FormatVolumeFails, FindVolume, NoVolumeFound, NameDisk, Preflight, PreflightFails,
           MakeFolders, MakeFoldersFails, SyncFails, UnmountFails, installVars, runVarsOf
  <2>6. receipt' \subseteq Stages
    BY DEF InstallTypeOK, Stages, Results, Flashable, Volumes,
           RefusedAtStart, RunAgain, ListDrives, NameDrive, Elevated, NotElevated, Decrypted,
           Protected,
           FormatVolumeFails, FindVolume, NoVolumeFound, NameDisk, Preflight, PreflightFails,
           MakeFolders, MakeFoldersFails, SyncFails, UnmountFails, installVars, runVarsOf
  <2>7. result' \in Results
    BY DEF InstallTypeOK, Stages, Results, Flashable, Volumes,
           RefusedAtStart, RunAgain, ListDrives, NameDrive, Elevated, NotElevated, Decrypted,
           Protected,
           FormatVolumeFails, FindVolume, NoVolumeFound, NameDisk, Preflight, PreflightFails,
           MakeFolders, MakeFoldersFails, SyncFails, UnmountFails, installVars, runVarsOf
  <2> QED
    BY <2>1, <2>2, <2>3, <2>4, <2>5, <2>6, <2>7 DEF InstallTypeOK
<1>2. CheckedFirst'
  BY DEF CheckedFirst, Classify, RefusedAtStart, RunAgain, ListDrives, NameDrive, Elevated,
         NotElevated, Decrypted,
         Protected, FormatVolumeFails, FindVolume, NoVolumeFound, NameDisk, Preflight,
         PreflightFails,
         MakeFolders, MakeFoldersFails, SyncFails, UnmountFails, FullyDecrypted, installVars,
         runVarsOf
<1>3. CopiedSoFar'
  BY DEF InstallTypeOK, CopiedSoFar, MountedEsp, RefusedAtStart, RunAgain, ListDrives, NameDrive,
         Elevated, NotElevated, Decrypted,
         Protected, FormatVolumeFails, FindVolume, NoVolumeFound, NameDisk, Preflight,
         PreflightFails,
         MakeFolders, MakeFoldersFails, SyncFails, UnmountFails, Files, EspFiles, Volumes,
         installVars, runVarsOf
<1>4. MountedEsp'
  BY DEF MountedEsp
<1>5. AllDurable'
  BY DEF AllDurable, RefusedAtStart, RunAgain, ListDrives, NameDrive, Elevated, NotElevated,
         Decrypted,
         Protected, FormatVolumeFails, FindVolume, NoVolumeFound, NameDisk, Preflight,
         PreflightFails,
         MakeFolders, MakeFoldersFails, SyncFails, UnmountFails, Files, installVars, runVarsOf
<1> QED
  BY <1>1, <1>2, <1>3, <1>4, <1>5

\* The partitioner works, well or not, or a volume is formatted.
LEMMA LaidOutPipeline ==
    ASSUME PipelineInv,
           \/ system = "windows" /\ (Diskpart \/ DiskpartFails \/ FormatVolumes)
           \/ system = "macos" /\ (PartitionDisk \/ PartitionDiskFails)
    PROVE PipelineInv'
<1> USE DEF Passed, Failed
<1>0. /\ PipelineInv /\ InstallTypeOK /\ named \in Disks /\ result # "installed"
      /\ step \in {"partition", "format_esp", "format_data"}
  BY DEF PipelineInv, InstallTypeOK, AllDurable, Diskpart, DiskpartFails, FormatVolumes,
         FormatVolume,
         PartitionDisk, PartitionDiskFails
<1>1. /\ content' \in Contents /\ layout' \in [Disks -> {"other", "blank", "aegis"}]
      /\ \A e \in Disks : e # named => layout'[e] = layout[e]
      /\ mountedAt' \in Disks \cup {Nowhere}
  <2>1. CASE Diskpart \/ PartitionDisk \/ DiskpartFails \/ PartitionDiskFails
    <3>1. NewLayout(named) \/ PartlyLaidOut(named) \/ UNCHANGED <<layout, content>>
      BY <2>1 DEF Diskpart, PartitionDisk, DiskpartFails, PartitionDiskFails
    <3>2. mountedAt' \in Disks \cup {Nowhere}
      BY <1>0, <2>1 DEF Diskpart, PartitionDisk, DiskpartFails, PartitionDiskFails, InstallTypeOK
    <3> QED
      BY <1>0, <3>1, <3>2, NewLayoutEffect DEF InstallTypeOK, Contents
  <2>2. CASE FormatVolumes
    <3>1. PICK v \in Volumes : content' = [content EXCEPT ![named][v] = Filled("absent")]
      BY <2>2 DEF FormatVolumes, FormatVolume, Volumes
    <3>2. Filled("absent") \in [EspFiles -> FileStates]
      BY EmptyTypes DEF FileStates
    <3>3. content' \in Contents
      BY <1>0, <3>1, <3>2 DEF InstallTypeOK, Contents
    <3> QED
      BY <1>0, <2>2, <3>3 DEF FormatVolumes, FormatVolume, InstallTypeOK
  <2> QED
    BY <2>1, <2>2
<1>2. /\ UNCHANGED <<system, trait, named, shown, next, dest>>
      /\ \/ step' = "over" /\ result' = "failed"
         \/ step' \in {"format_esp", "format_data", "stage_esp"} /\ UNCHANGED result
      /\ receipt \subseteq receipt' /\ receipt' \subseteq receipt \cup {step}
  BY <1>0 DEF Diskpart, DiskpartFails, FormatVolumes, FormatVolume, PartitionDisk,
         PartitionDiskFails
<1>3. InstallTypeOK'
  BY <1>0, <1>1, <1>2 DEF InstallTypeOK, Contents, Stages, Results
<1>4. CheckedFirst'
  BY <1>0, <1>2 DEF PipelineInv, CheckedFirst, Diskpart, DiskpartFails, FormatVolumes, FormatVolume,
                    PartitionDisk, PartitionDiskFails, NotBootDrive
<1>5. CopiedSoFar'
  BY <1>0, <1>2 DEF PipelineInv, CopiedSoFar
<1>6. MountedEsp'
  BY <1>0, <1>1, <1>2, NewLayoutEffect
     DEF PipelineInv, MountedEsp, InstallTypeOK, PartitionDisk, PartitionDiskFails
<1>7. AllDurable'
  BY <1>0, <1>2 DEF AllDurable
<1> QED
  BY <1>3, <1>4, <1>5, <1>6, <1>7 DEF PipelineInv

\* A boot file is copied, on either system, or the copy fails on its way.
LEMMA CopyPipeline ==
    ASSUME PipelineInv,
           \/ system = "windows" /\ (CopyToVolume \/ CopyToVolumeFails)
           \/ system = "macos" /\ (CopyFile \/ CopyFileFails)
    PROVE PipelineInv'
<1> USE DEF Failed
<1>0. /\ InstallTypeOK /\ CopiedSoFar /\ result # "installed" /\ step = "copy"
      /\ next \in EspFiles /\ NFiles \in Nat
  BY InstallAssumption DEF PipelineInv, AllDurable, CopiedSoFar, CopyToVolume, CopyToVolumeFails,
                           CopyFile, CopyFileFails
<1>1. UNCHANGED <<system, trait, layout, mountedAt, named, shown, dest>>
  BY DEF CopyToVolume, CopyToVolumeFails, CopyFile, CopyFileFails
<1>2. dest # Nowhere => dest \in Disks \X Volumes
  BY <1>0 DEF InstallTypeOK
<1>3. \/ UNCHANGED content
      \/ dest \in Disks \X Volumes /\ \E w \in FileStates : Written(w)
  BY <1>0, <1>2 DEF CopyToVolume, CopyToVolumeFails, CopyFile, CopyFileFails, WrittenThrough,
     PartlyWritten, CopiedSoFar, FileStates
<1>4. content' \in Contents
  BY <1>0, <1>1, <1>3, WrittenEffect DEF InstallTypeOK, Contents
<1>5. InstallTypeOK'
  <2>1. next' \in 1..NFiles + 1
    BY <1>0 DEF EspFiles, CopyToVolume, CopyToVolumeFails, CopyFile, CopyFileFails
  <2>2. step' \in {"copy", "sync", "over"} /\ result' \in {result, "failed", "installed"}
        /\ receipt' \subseteq receipt \cup {"stage_esp"}
    BY <1>0 DEF CopyToVolume, CopyToVolumeFails, CopyFile, CopyFileFails
  <2> QED
    BY <1>0, <1>1, <1>4, <2>1, <2>2 DEF InstallTypeOK, Contents, Stages, Results
<1>6. CheckedFirst' /\ MountedEsp'
  BY <1>0, <1>1 DEF PipelineInv, CheckedFirst, MountedEsp, CopyToVolume, CopyToVolumeFails,
     CopyFile, CopyFileFails
<1>7. CASE CopyToVolume
  <2>1. dest \in Disks \X Volumes /\ dest[1] = named /\ system = "windows"
    BY <1>0, <1>7 DEF CopiedSoFar, CopyToVolume
  <2>2. \A f \in EspFiles : f <= next => Files(dest[1], dest[2])'[f] = "durable"
    BY <1>0, <1>1, <1>7, <2>1, WrittenEffect
       DEF CopiedSoFar, CopyToVolume, WrittenThrough, FileStates, EspFiles
  <2>3. CopiedSoFar'
    BY <1>0, <1>1, <1>7, <2>1, <2>2 DEF CopiedSoFar, CopyToVolume, EspFiles, Files
  <2>4. AllDurable'
    BY <1>0, <1>1, <1>7, <2>1, <2>2 DEF AllDurable, CopyToVolume, EspFiles, Files
  <2> QED
    BY <1>5, <1>6, <2>3, <2>4 DEF PipelineInv
<1>8. CASE CopyToVolumeFails \/ CopyFileFails
  <2>1. step' = "over" /\ result' = "failed"
    BY <1>8 DEF CopyToVolumeFails, CopyFileFails
  <2> QED
    BY <1>0, <1>1, <1>5, <1>6, <2>1 DEF PipelineInv, CopiedSoFar, AllDurable
<1>9. CASE CopyFile
  <2>1. system = "macos" /\ result' = result /\ next' = next + 1
        /\ step' = IF next = NFiles THEN "sync" ELSE "copy"
    BY <1>9 DEF CopyFile
  <2>2. ASSUME dest # Nowhere
        PROVE \A f \in EspFiles : f <= next => Files(dest[1], dest[2])'[f] \in {"cached", "durable"}
    <3>1. Written("cached") /\ dest \in Disks \X Volumes
      BY <1>2, <1>9, <2>2 DEF CopyFile
    <3>2. \A f \in EspFiles : f < next => Files(dest[1], dest[2])[f] \in {"cached", "durable"}
      BY <1>0, <2>1, <2>2 DEF CopiedSoFar
    <3> QED
      BY <1>0, <1>1, <3>1, <3>2, WrittenEffect DEF FileStates, EspFiles
  <2>3. CopiedSoFar'
    BY <1>0, <1>1, <2>1, <2>2 DEF CopiedSoFar, EspFiles, Files
  <2>4. AllDurable'
    BY <1>0, <2>1 DEF AllDurable
  <2> QED
    BY <1>5, <1>6, <2>3, <2>4 DEF PipelineInv
<1> QED
  BY <1>7, <1>8, <1>9

\* The stick is pulled: what is on it stays on it.
LEMMA PullPipeline == ASSUME PipelineInv, Pull PROVE PipelineInv'
<1>0. /\ InstallTypeOK /\ named \in Disks /\ step = "over"
      /\ UNCHANGED <<system, trait, layout, mountedAt, named, shown, step, next, dest, receipt, result>>
  BY DEF PipelineInv, InstallTypeOK, Pull, runVarsOf
<1>1. /\ content' \in Contents
      /\ \A e \in Disks, v \in Volumes, f \in EspFiles :
           content[e][v][f] # "cached" => content'[e][v][f] = content[e][v][f]
  BY <1>0, SettledEffect DEF Pull
<1>2. InstallTypeOK' /\ CheckedFirst' /\ MountedEsp'
  BY <1>0, <1>1 DEF PipelineInv, InstallTypeOK, CheckedFirst, MountedEsp, Contents
<1>3. CopiedSoFar'
  BY <1>0 DEF PipelineInv, CopiedSoFar
<1>4. AllDurable'
  BY <1>0, <1>1 DEF PipelineInv, AllDurable, Files
<1> QED
  BY <1>2, <1>3, <1>4 DEF PipelineInv

\* macOS mounts and unmounts the ESP, and writes out what it holds.
LEMMA MountPipeline ==
    ASSUME PipelineInv, system = "macos", AutoMount \/ Unmount
    PROVE PipelineInv'
<1>0. InstallTypeOK /\ CopiedSoFar /\ MountedEsp /\ AllDurable /\ CheckedFirst
  BY DEF PipelineInv
<1>1. CASE AutoMount
  BY <1>0, <1>1 DEF AutoMount, runVarsOf, PipelineInv, InstallTypeOK, CheckedFirst, CopiedSoFar,
         MountedEsp,
                    AllDurable, Files
<1>2. CASE Unmount
  <2>1. /\ UNCHANGED <<system, trait, layout, content, named, shown, next, dest>>
        /\ mountedAt' = Nowhere /\ step = "unmount" /\ dest # Nowhere
        /\ step' = "over" /\ receipt' = receipt \cup {"unmount"} /\ result' = "installed"
    BY <1>2 DEF Unmount
  <2>2. dest \in Disks \X Volumes
    BY <1>0, <2>1 DEF InstallTypeOK
  <2>3. InstallTypeOK' /\ MountedEsp' /\ CheckedFirst'
    BY <1>0, <2>1 DEF InstallTypeOK, MountedEsp, CheckedFirst, Stages, Results
  <2>4. CopiedSoFar' /\ AllDurable'
    BY <1>0, <2>1, <2>2 DEF CopiedSoFar, AllDurable, Files
  <2> QED
    BY <2>3, <2>4 DEF PipelineInv
<1> QED
  BY <1>1, <1>2

LEMMA SyncPipeline == ASSUME PipelineInv, system = "macos", Sync PROVE PipelineInv'
<1>0. /\ InstallTypeOK /\ CopiedSoFar /\ result # "installed" /\ step = "sync" /\ result' = result
      /\ UNCHANGED <<system, trait, layout, mountedAt, named, shown, next, dest>>
      /\ step' = "unmount" /\ receipt' = receipt \cup {"stage_esp"}
  BY DEF PipelineInv, AllDurable, Sync
<1>1. \A d \in Disks, v \in Volumes : Flushed(content[d][v]) \in [EspFiles -> FileStates]
  BY <1>0 DEF InstallTypeOK, Flushed, FileStates
<1>2. /\ content' \in Contents
      /\ \A d \in Disks, v \in Volumes : content'[d][v] = Flushed(content[d][v])
  BY <1>1 DEF Sync, Contents
<1>3. InstallTypeOK' /\ CheckedFirst' /\ MountedEsp' /\ AllDurable'
  BY <1>0, <1>2 DEF PipelineInv, InstallTypeOK, CheckedFirst, MountedEsp, AllDurable, Contents,
         Stages
<1>4. CopiedSoFar'
  <2>1. ASSUME dest # Nowhere
        PROVE \A f \in EspFiles : Files(dest[1], dest[2])'[f] = "durable"
    <3>1. dest[1] \in Disks /\ dest[2] \in Volumes
      BY <1>0, <2>1 DEF InstallTypeOK
    <3>2. \A f \in EspFiles : Files(dest[1], dest[2])[f] \in {"cached", "durable"}
      BY <1>0, <2>1 DEF CopiedSoFar
    <3>3. Files(dest[1], dest[2])' = Flushed(Files(dest[1], dest[2]))
      BY <1>0, <1>2, <3>1 DEF Files
    <3> QED
      BY <3>2, <3>3 DEF Flushed
  <2> QED
    BY <1>0, <2>1 DEF CopiedSoFar, Files
<1> QED
  BY <1>3, <1>4 DEF PipelineInv

LEMMA PipelineStepInv ==
    ASSUME PipelineInv,
           UNCHANGED installVars \/ (system = "windows" /\ WindowsNext) \/ (system = "macos" /\ MacosNext)
    PROVE PipelineInv'
<1> USE DEF StartOn, Passed, diskVars
<1>1. CASE UNCHANGED installVars
  BY <1>1, QuietPipeline DEF installVars
<1>2. CASE system = "windows" /\ WindowsNext
  BY <1>2, QuietPipeline, LaidOutPipeline, CopyPipeline, PullPipeline
     DEF WindowsNext, RefusedAtStart, RunAgain, ListDrives, NameDrive, Elevated, NotElevated,
         Decrypted,
         Protected, FormatVolumeFails, FindVolume, NoVolumeFound, Failed
<1>3. CASE system = "macos" /\ MacosNext
  BY <1>3, QuietPipeline, LaidOutPipeline, CopyPipeline, PullPipeline, MountPipeline, SyncPipeline
     DEF MacosNext, RefusedAtStart, RunAgain, NameDisk, Preflight, PreflightFails, MakeFolders,
         MakeFoldersFails, SyncFails, UnmountFails, Failed
<1> QED
  BY <1>1, <1>2, <1>3

LEMMA PipelineInitInv ==
    ASSUME system \in {"linux", "windows", "macos", "kit", "dd", "eject"},
           InstallInit \/ InstallAside
    PROVE PipelineInv
<1>1. trait \in [Disks -> Traits] /\ layout \in [Disks -> {"other", "blank", "aegis"}]
  <2>1. (CHOOSE k \in Kinds : TRUE) \in Traits
    BY InstallAssumption
  <2> QED
    BY <2>1, InstallAssumption DEF InstallInit, InstallAside
<1>2. content \in Contents
  BY EmptyTypes DEF InstallInit, InstallAside, Contents
<1>3. InstallTypeOK
  BY <1>1, <1>2, InstallAssumption DEF InstallInit, InstallAside, InstallTypeOK, Contents,
         Stages, Results
<1> QED
  BY <1>3 DEF InstallInit, InstallAside, PipelineInv, CheckedFirst, CopiedSoFar, MountedEsp,
         AllDurable

\* A disk that is erased is the named one, and a partitioner is at work on it.
LEMMA ErasedAt ==
    ASSUME PipelineInv, NEW d \in Disks, Erased(d),
           UNCHANGED installVars \/ (system = "windows" /\ WindowsNext) \/ (system = "macos" /\ MacosNext)
    PROVE /\ d = named
          /\ \/ system = "windows" /\ step = "partition" /\ NotBootDrive
             \/ system = "windows" /\ step \in {"format_esp", "format_data"}
             \/ system = "macos" /\ step = "partition"
<1>0. InstallTypeOK /\ CopiedSoFar
  BY DEF PipelineInv
<1>1. ~UNCHANGED <<layout, content>>
  BY DEF Erased
<1>2. ASSUME layout' = layout,
             \A v \in Volumes, f \in EspFiles :
               content[d][v][f] \in {"old", "durable"} => content'[d][v][f] # "absent"
      PROVE FALSE
  BY <1>2 DEF Erased
<1>3. ~(CopyToVolume \/ CopyToVolumeFails \/ CopyFile \/ CopyFileFails)
  <2> SUFFICES ASSUME CopyToVolume \/ CopyToVolumeFails \/ CopyFile \/ CopyFileFails
               PROVE FALSE
    OBVIOUS
  <2>1. dest # Nowhere => dest \in Disks \X Volumes
    BY <1>0 DEF InstallTypeOK
  <2>2. UNCHANGED <<dest, layout>> /\ step = "copy"
    BY DEF CopyToVolume, CopyToVolumeFails, CopyFile, CopyFileFails, Failed
  <2>3. content' # content
    BY <1>1, <2>2
  <2>4. dest \in Disks \X Volumes
    BY <1>0, <2>1, <2>2, <2>3 DEF CopyToVolume, CopyToVolumeFails, CopyFile, CopyFileFails,
           CopiedSoFar
  <2>5. Written("torn") \/ Written("cached") \/ Written("durable")
    BY <2>3, <2>4, InstallAssumption
       DEF CopyToVolume, CopyToVolumeFails, CopyFile, CopyFileFails, WrittenThrough, PartlyWritten
  <2>6. PICK w \in {"torn", "cached", "durable"} : dest \in Disks \X Volumes /\ Written(w)
    BY <2>4, <2>5
  <2>7. \A v \in Volumes, f \in EspFiles : content'[d][v][f] = content[d][v][f] \/ content'[d][v][f] = w
    BY <1>0, <2>6, <2>2, WrittenEffect DEF FileStates
  <2> QED
    BY <1>2, <2>6, <2>2, <2>7
<1>4. ~Pull
  BY <1>0, <1>2, SettledEffect DEF Pull, InstallTypeOK
<1>5. ~Sync
  <2> SUFFICES ASSUME Sync PROVE FALSE
    OBVIOUS
  <2>1. \A v \in Volumes : content'[d][v] = Flushed(content[d][v])
    BY DEF Sync
  <2>2. \A v \in Volumes, f \in EspFiles :
          content[d][v][f] \in {"old", "durable"} => content'[d][v][f] = content[d][v][f]
    BY <2>1 DEF Flushed
  <2> QED
    BY <1>2, <2>2 DEF Sync
<1>6. \/ system = "windows" /\ (Diskpart \/ DiskpartFails \/ FormatVolumes)
      \/ system = "macos" /\ (PartitionDisk \/ PartitionDiskFails)
  <2>1. CASE UNCHANGED installVars
    BY <1>1, <2>1 DEF installVars, diskVars
  <2>2. CASE system = "windows" /\ WindowsNext
    BY <1>1, <1>3, <1>4, <2>2
       DEF WindowsNext, ListDrives, NameDrive, RefusedAtStart, Elevated, NotElevated, Decrypted,
           Protected,
           FormatVolumeFails, FindVolume, NoVolumeFound, RunAgain, StartOn, Passed, Failed, diskVars
  <2>3. CASE system = "macos" /\ MacosNext
    BY <1>1, <1>3, <1>4, <1>5, <2>3
       DEF MacosNext, NameDisk, RefusedAtStart, Preflight, PreflightFails, AutoMount, MakeFolders,
           MakeFoldersFails, SyncFails, Unmount, UnmountFails, RunAgain, StartOn, Passed, Failed,
           diskVars
  <2> QED
    BY <2>1, <2>2, <2>3
<1>7. layout'[d] = layout[d] /\ content'[d] = content[d] => FALSE
  BY DEF Erased
<1>8. d = named
  <2>1. CASE Diskpart \/ DiskpartFails \/ PartitionDisk \/ PartitionDiskFails
    BY <1>0, <1>1, <1>7, <2>1, NewLayoutEffect
       DEF Diskpart, DiskpartFails, PartitionDisk, PartitionDiskFails, InstallTypeOK
  <2>2. CASE FormatVolumes
    BY <1>0, <1>7, <2>2 DEF FormatVolumes, FormatVolume, InstallTypeOK
  <2> QED
    BY <1>6, <2>1, <2>2
<1> QED
  BY <1>1, <1>6, <1>8
     DEF Diskpart, DiskpartFails, FormatVolumes, FormatVolume, PartitionDisk, PartitionDiskFails,
         Passed

LEMMA PipelineErases ==
    ASSUME PipelineInv,
           UNCHANGED installVars \/ (system = "windows" /\ WindowsNext) \/ (system = "macos" /\ MacosNext)
    PROVE \A d \in Disks : Erased(d) =>
            /\ d = named /\ d # HostDisk
            /\ system = "windows" => {"elevation", "bitlocker"} \subseteq receipt /\ ~trait[d].sealed
            /\ system = "macos" => "preflight" \in receipt /\ trait[d].external /\ trait[d].large
<1>1. CheckedFirst
  BY DEF PipelineInv
<1> QED
  BY <1>1, ErasedAt DEF CheckedFirst, Classify, NotBootDrive

-----------------------------------------------------------------------------
(* init: the doctor's report *)

Verdicts == {"pass", "warn", "fail", "skip"}

\* A sequence of rows, of whatever checks.
IsReport(rows) ==
    /\ rows \in Seq({rows[i] : i \in 1..Len(rows)})
    /\ \A i \in 1..Len(rows) : rows[i].verdict \in Verdicts

LEMMA IsReportFrom ==
    ASSUME NEW S, NEW rows \in Seq(S), \A i \in 1..Len(rows) : rows[i].verdict \in Verdicts
    PROVE IsReport(rows)
<1>1. Len(rows) \in Nat /\ rows = [i \in 1..Len(rows) |-> rows[i]]
  OBVIOUS
<1>2. rows \in Seq({rows[i] : i \in 1..Len(rows)})
  BY <1>1
<1> QED
  BY <1>2 DEF IsReport

LEMMA RowIsReport ==
    ASSUME NEW c, NEW v \in Verdicts
    PROVE /\ IsReport(Row(c, v)) /\ Len(Row(c, v)) = 1 /\ Row(c, v)[1].verdict = v
          /\ IsReport(Advised(c, v)) /\ Len(Advised(c, v)) = 1 /\ Advised(c, v)[1].verdict = v
<1> DEFINE r(a) == [check |-> c, verdict |-> v, advised |-> a]
<1>1. \A a : <<r(a)>> \in Seq({r(a)}) /\ Len(<<r(a)>>) = 1 /\ <<r(a)>>[1].verdict = v
  OBVIOUS
<1>2. ASSUME NEW a PROVE IsReport(<<r(a)>>)
  <2>1. \A i \in 1..Len(<<r(a)>>) : <<r(a)>>[i].verdict \in Verdicts
    BY <1>1
  <2>2. <<r(a)>> \in Seq({r(a)})
    BY <1>1
  <2> HIDE DEF r
  <2> QED
    BY <2>1, <2>2, IsReportFrom
<1> QED
  BY <1>1, <1>2 DEF Row, Advised

LEMMA JoinedReport ==
    ASSUME NEW a, NEW b, IsReport(a), IsReport(b)
    PROVE /\ IsReport(a \o b) /\ Len(a \o b) = Len(a) + Len(b)
          /\ \A i \in 1..Len(a) : (a \o b)[i] = a[i]
          /\ \A i \in 1..Len(b) : (a \o b)[Len(a) + i] = b[i]
<1> DEFINE S == {a[i] : i \in 1..Len(a)} \cup {b[i] : i \in 1..Len(b)}
<1>1. a \in Seq(S) /\ b \in Seq(S)
  BY DEF IsReport
<1>2. Len(a) \in Nat /\ Len(b) \in Nat
  BY <1>1
<1>3. a \o b \in Seq(S) /\ Len(a \o b) = Len(a) + Len(b)
  BY <1>1
<1>4. /\ \A i \in 1..Len(a) : (a \o b)[i] = a[i]
      /\ \A i \in 1..Len(b) : (a \o b)[Len(a) + i] = b[i]
  BY <1>1, <1>2
<1>5. \A i \in 1..Len(a \o b) : (a \o b)[i].verdict \in Verdicts
  <2> TAKE i \in 1..Len(a \o b)
  <2>1. CASE i \in 1..Len(a)
    BY <1>4, <2>1 DEF IsReport
  <2>2. CASE i \notin 1..Len(a)
    <3>1. i - Len(a) \in 1..Len(b) /\ i = Len(a) + (i - Len(a))
      BY <1>2, <1>3, <2>2
    <3> QED
      BY <1>4, <3>1 DEF IsReport
  <2> QED
    BY <2>1, <2>2
<1> HIDE DEF S
<1>6. IsReport(a \o b)
  BY <1>3, <1>5, IsReportFrom
<1> QED
  BY <1>3, <1>4, <1>6

LEMMA ReportOfThree ==
    ASSUME NEW a, NEW b, NEW c, IsReport(a), IsReport(b), IsReport(c), Len(a) = 1
    PROVE IsReport(a \o b \o c) /\ 0 < Len(a \o b \o c) /\ (a \o b \o c)[1] = a[1]
<1> DEFINE ab == a \o b
<1>1. Len(a) \in Nat /\ Len(b) \in Nat /\ Len(c) \in Nat
  BY DEF IsReport
<1>2. IsReport(ab) /\ Len(ab) = 1 + Len(b) /\ ab[1] = a[1]
  <2>1. IsReport(ab) /\ Len(ab) = Len(a) + Len(b) /\ \A i \in 1..Len(a) : ab[i] = a[i]
    BY JoinedReport
  <2> HIDE DEF ab
  <2> QED
    BY <1>1, <2>1
<1> HIDE DEF ab
<1>3. IsReport(ab \o c) /\ Len(ab \o c) = Len(ab) + Len(c) /\ \A i \in 1..Len(ab) : (ab \o c)[i] = ab[i]
  BY <1>2, JoinedReport
<1>4. (ab \o c)[1] = ab[1]
  BY <1>1, <1>2, <1>3
<1>5. 0 < Len(ab \o c)
  BY <1>1, <1>2, <1>3
<1> QED
  BY <1>2, <1>3, <1>4, <1>5 DEF ab

LEMMA InventoryIsReport ==
    ASSUME NEW c, NEW n \in Nat, NEW v \in Verdicts PROVE IsReport(Inventory(c, n, v))
<1>1. CASE n = 0
  BY <1>1, RowIsReport DEF Inventory
<1>2. CASE n # 0
  <2> DEFINE r == Row(c, "pass")[1]
             rows == [i \in 1..n + 1 |-> r]
  <2>1. r.verdict \in Verdicts
    BY RowIsReport DEF Verdicts
  <2>2. rows \in Seq({r}) /\ Len(rows) = n + 1 /\ \A i \in 1..n + 1 : rows[i] = r
    OBVIOUS
  <2>3. Inventory(c, n, v) = rows
    BY <1>2 DEF Inventory
  <2>4. \A i \in 1..Len(rows) : rows[i].verdict \in Verdicts
    BY <2>1, <2>2
  <2> HIDE DEF r, rows
  <2> QED
    BY <2>2, <2>3, <2>4, IsReportFrom
<1> QED
  BY <1>1, <1>2

LEMMA HostIsReport == ASSUME NEW h \in HostFacts PROVE IsReport(HostRows(h))
<1> USE DEF Verdicts, HostFacts
<1>1. IsReport(HostCommands(h))
  <2> DEFINE r(i) == Must(Checked[i], Checked[i] \in h.tools)[1]
  <2>1. DOMAIN Checked = 1..10
    BY DEF Checked
  <2>2. \A i \in 1..10 : r(i).verdict \in Verdicts
    BY RowIsReport DEF Must
  <2>3. /\ HostCommands(h) \in Seq({r(i) : i \in 1..10}) /\ Len(HostCommands(h)) = 10
        /\ \A i \in 1..10 : HostCommands(h)[i] = r(i)
    BY <2>1 DEF HostCommands
  <2>4. \A i \in 1..Len(HostCommands(h)) : HostCommands(h)[i].verdict \in Verdicts
    BY <2>2, <2>3
  <2> HIDE DEF r
  <2> QED
    BY <2>3, <2>4, IsReportFrom
<1>2. IsReport(Identity(h))
  BY RowIsReport, JoinedReport DEF Identity
<1>3. IsReport(TrustAnchor(h))
  BY RowIsReport, JoinedReport DEF TrustAnchor
<1>4. IsReport(Cosign(h)) /\ IsReport(SecureBoot(h)) /\ IsReport(BootMode(h)) /\ IsReport(Tpm(h))
  BY RowIsReport DEF Cosign, SecureBoot, BootMode, Tpm
<1>5. IsReport(Smart(h)) /\ IsReport(Memory(h)) /\ IsReport(Removable(h))
  BY RowIsReport DEF Smart, Memory, Removable
<1>6. IsReport(Inventory("nic", h.nics, "warn")) /\ IsReport(Inventory("disk", h.disks, "skip"))
  BY InventoryIsReport
<1>7. IsReport(Row("os", "pass"))
  BY RowIsReport
<1> QED
  BY <1>1, <1>2, <1>3, <1>4, <1>5, <1>6, <1>7, JoinedReport DEF HostRows

\* What a stick adds to the report: a failure unless it has an ESP.
LEMMA StickIsReport ==
    ASSUME NEW s, NEW n \in Nat, NEW f, s.isos = <<>> \/ s.isos = [i \in 1..n |-> f[i]]
    PROVE /\ IsReport(StickRows(s)) /\ 0 < Len(StickRows(s))
          /\ s.table \notin {"aegis", "esp"} => StickRows(s)[1].verdict = "fail"
<1> USE DEF Verdicts
<1>1. /\ IsReport(Partitions(s)) /\ Len(Partitions(s)) = 1
      /\ s.table \notin {"aegis", "esp"} => Partitions(s)[1].verdict = "fail"
  BY RowIsReport DEF Partitions
<1>2. IsReport(TrustCoverage(s))
  <2>1. CASE s.isos = <<>>
    BY <2>1, RowIsReport DEF TrustCoverage
  <2>2. CASE s.isos # <<>>
    <3> DEFINE r(i) == Row("iso", IsoVerdict(s.isos[i]))[1]
               rows == [i \in 1..n |-> r(i)]
    <3>1. DOMAIN s.isos = 1..n
      BY <2>2
    <3>2. \A i \in 1..n : r(i).verdict \in Verdicts
      BY RowIsReport DEF IsoVerdict
    <3>3. rows \in Seq({r(i) : i \in 1..n}) /\ Len(rows) = n /\ \A i \in 1..n : rows[i] = r(i)
      OBVIOUS
    <3>4. IsReport(rows)
      <4>1. \A i \in 1..Len(rows) : rows[i].verdict \in Verdicts
        BY <3>2, <3>3
      <4> HIDE DEF r, rows
      <4> QED
        BY <3>3, <4>1, IsReportFrom
    <3>5. \E first : IsReport(first) /\ TrustCoverage(s) = first \o rows
      <4> HIDE DEF rows
      <4>1. rows = [i \in DOMAIN s.isos |-> Row("iso", IsoVerdict(s.isos[i]))[1]]
        BY <3>1 DEF rows
      <4> DEFINE first == IF \A i \in DOMAIN s.isos : s.isos[i] = "green"
                          THEN Row("coverage", "pass") ELSE Advised("coverage", "warn")
      <4>2. TrustCoverage(s) = first \o rows
        BY <2>2, <4>1 DEF TrustCoverage
      <4>3. IsReport(first)
        BY RowIsReport
      <4> QED
        BY <4>2, <4>3
    <3> QED
      BY <3>4, <3>5, JoinedReport
  <2> QED
    BY <2>1, <2>2
<1>3. IsReport(IsosMount(s)) /\ IsReport(ManifestRow(s))
  BY <1>2, RowIsReport DEF IsosMount, ManifestRow
<1> QED
  BY <1>1, <1>3, ReportOfThree DEF StickRows

-----------------------------------------------------------------------------
(* init: what a report without a failure says *)

LEMMA CountIsNat ==
    ASSUME NEW rows, IsReport(rows), NEW v
    PROVE /\ Count(rows, v) \in Nat
          /\ Count(rows, v) = 0 <=> \A i \in 1..Len(rows) : rows[i].verdict # v
<1> DEFINE S == {i \in 1..Len(rows) : rows[i].verdict = v}
<1>1. Len(rows) \in Nat /\ DOMAIN rows = 1..Len(rows)
  BY DEF IsReport
<1>2. IsFiniteSet(1..Len(rows))
  BY <1>1, FS_Interval
<1>3. IsFiniteSet(S)
  BY <1>2, FS_Subset
<1>4. Cardinality(S) \in Nat /\ (Cardinality(S) = 0 <=> S = {})
  BY <1>3, FS_CardinalityType, FS_EmptySet
<1>5. Count(rows, v) = Cardinality(S)
  <2>1. {i \in DOMAIN rows : rows[i].verdict = v} = S
    BY <1>1
  <2>2. Count(rows, v) = Cardinality({i \in DOMAIN rows : rows[i].verdict = v})
    BY DEF Count
  <2> HIDE DEF S
  <2> QED
    BY <2>1, <2>2
<1>6. S = {} <=> \A i \in 1..Len(rows) : rows[i].verdict # v
  OBVIOUS
<1> HIDE DEF S
<1> QED
  BY <1>4, <1>5, <1>6

LEMMA Quotient ==
    ASSUME NEW a \in Int, NEW b \in Nat, b > 0, a >= 70 * b
    PROVE a \div b \in Int /\ a \div b >= 70
OBVIOUS

\* Warnings alone weigh seven tenths: the rounded score stays in a band that
\* init goes on with (score, band_for_score).
LEMMA WarningsScoreWell ==
    ASSUME NEW rows, IsReport(rows), ~HasAnyFail(rows)
    PROVE BandForScore(Score(rows)) \in {"OK", "EXCELLENT"}
<1> DEFINE p == Count(rows, "pass")
           w == Count(rows, "warn")
           total == 10 * (p + w)
           weight == 10 * p + 7 * w
<1>1. p \in Nat /\ w \in Nat /\ Count(rows, "fail") = 0
  BY CountIsNat DEF HasAnyFail
<1>2. Score(rows) = IF total = 0 THEN 100 ELSE (weight * 100 + total \div 2) \div total
  BY <1>1 DEF Score
<1>3. CASE total = 0
  BY <1>2, <1>3 DEF BandForScore
<1>4. CASE total # 0
  <2>1. total \div 2 \in Nat
    BY <1>1
  <2>2. total \in Nat /\ total > 0 /\ weight * 100 + total \div 2 \in Int
        /\ weight * 100 + total \div 2 >= 70 * total
    BY <1>1, <1>4, <2>1
  <2>3. (weight * 100 + total \div 2) \div total >= 70
        /\ (weight * 100 + total \div 2) \div total \in Int
    BY <2>2, Quotient
  <2> QED
    BY <1>2, <1>4, <2>3 DEF BandForScore
<1> QED
  BY <1>3, <1>4

\* The rows of the doctor in the world as it is.
LEMMA CheckupIsReport ==
    ASSUME facts \in Facts
    PROVE /\ IsReport(Checkup)
          /\ ~HasAnyFail(Checkup) /\ DoctorsStick # NoPath =>
               plug[DoctorsStick] # NoDrive /\ part[plug[DoctorsStick]] \in {"aegis", "esp"}
<1> DEFINE plugged == {p \in Paths : plug[p] # NoDrive}
           seen == [facts EXCEPT !.removable = Cardinality(Removables),
                                 !.disks = facts.disks + Cardinality(plugged)]
           hosts == HostRows(seen)
           s == StickFacts(DoctorsStick)
<1>1. seen \in HostFacts
  <2>1. facts \in HostFacts
    BY KitAssumption
  <2>2. IsFiniteSet(Removables) /\ IsFiniteSet(plugged)
    BY KitAssumption, FS_Subset DEF Removables
  <2>3. Cardinality(Removables) \in Nat /\ Cardinality(plugged) \in Nat
    BY <2>2, FS_CardinalityType
  <2>4. ASSUME NEW r \in Nat, NEW n \in Nat
        PROVE [facts EXCEPT !.removable = r, !.disks = facts.disks + n] \in HostFacts
    <3>1. facts.disks + n \in Nat
      BY <2>1 DEF HostFacts
    <3> DEFINE k == facts.disks + n
    <3> HIDE DEF k
    <3>2. [facts EXCEPT !.removable = r] \in HostFacts
      BY <2>1 DEF HostFacts
    <3>3. [[facts EXCEPT !.removable = r] EXCEPT !.disks = k] \in HostFacts
      BY <3>1, <3>2 DEF HostFacts, k
    <3> QED
      BY <3>3 DEF k
  <2> HIDE DEF plugged
  <2> QED
    BY <2>3, <2>4
<1>2. IsReport(hosts)
  BY <1>1, HostIsReport
<1>3. Checkup = hosts \o (IF DoctorsStick = NoPath THEN NoStickRows ELSE StickRows(s))
  BY DEF Checkup
<1> HIDE DEF hosts
<1>4. CASE DoctorsStick = NoPath
  <2>1. IsReport(NoStickRows)
    BY RowIsReport DEF NoStickRows, Verdicts
  <2> QED
    BY <1>2, <1>3, <1>4, <2>1, JoinedReport
<1>5. CASE DoctorsStick # NoPath
  <2> DEFINE rows == StickRows(s)
  <2>1. \E n \in Nat : \E f : s.isos = <<>> \/ s.isos = [i \in 1..n |-> f[i]]
    <3>1. CASE mounted = <<>>
      BY <3>1 DEF StickFacts
    <3>2. CASE mounted # <<>>
      <4> DEFINE d == mounted[1].drive
                 there == {t \in Slugs : kit[d][t] # "absent"}
                 f == [i \in 1..Cardinality(there) |-> kit[d][SetToSeq(there)[i]]]
      <4>1. IsFiniteSet(there)
        <5>1. IsFiniteSet(1..NSlugs)
          BY KitAssumption, FS_Interval
        <5> QED
          BY <5>1, FS_Subset DEF Slugs
      <4>2. Cardinality(there) \in Nat
        BY <4>1, FS_CardinalityType
      <4>3. s.isos = f
        BY <3>2 DEF StickFacts, IsosOn
      <4>4. f = [i \in 1..Cardinality(there) |-> f[i]]
        OBVIOUS
      <4> HIDE DEF f
      <4> QED
        BY <4>2, <4>3, <4>4
    <3> QED
      BY <3>1, <3>2
  <2>2. /\ IsReport(rows) /\ 0 < Len(rows)
        /\ s.table \notin {"aegis", "esp"} => rows[1].verdict = "fail"
    <3>1. PICK n \in Nat : \E f : s.isos = <<>> \/ s.isos = [i \in 1..n |-> f[i]]
      BY <2>1
    <3>2. PICK f : s.isos = <<>> \/ s.isos = [i \in 1..n |-> f[i]]
      BY <3>1
    <3> HIDE DEF s
    <3> QED
      BY <3>2, StickIsReport
  <2>3. Checkup = hosts \o rows
    BY <1>3, <1>5
  <2> HIDE DEF rows
  <2>4. IsReport(Checkup) /\ Len(Checkup) = Len(hosts) + Len(rows)
        /\ \A i \in 1..Len(rows) : Checkup[Len(hosts) + i] = rows[i]
    BY <1>2, <2>2, <2>3, JoinedReport
  <2>5. ASSUME ~HasAnyFail(Checkup) PROVE s.table \in {"aegis", "esp"}
    <3>1. Count(Checkup, "fail") = 0
      BY <2>4, <2>5, CountIsNat DEF HasAnyFail
    <3>2. \A i \in 1..Len(Checkup) : Checkup[i].verdict # "fail"
      BY <2>4, <3>1, CountIsNat
    <3>3. Len(hosts) \in Nat /\ Len(rows) \in Nat
      BY <1>2, <2>2 DEF IsReport
    <3>4. 1 \in 1..Len(rows) /\ Len(hosts) + 1 \in 1..Len(Checkup)
      BY <2>2, <2>4, <3>3
    <3>5. rows[1].verdict # "fail"
      BY <2>4, <3>2, <3>4
    <3> QED
      BY <2>2, <3>5
  <2>6. s.table \in {"aegis", "esp"} =>
          plug[DoctorsStick] # NoDrive /\ part[plug[DoctorsStick]] \in {"aegis", "esp"}
    BY DEF StickFacts
  <2> QED
    BY <1>5, <2>4, <2>5, <2>6
<1> QED
  BY <1>4, <1>5

-----------------------------------------------------------------------------
(* doctor: the score, and which advice a failure gets *)

LEMMA QuotientBound ==
    ASSUME NEW a \in Nat, NEW b \in Nat, b > 0, a < 101 * b
    PROVE a \div b \in 0..100
OBVIOUS

\* The score is a percentage, whatever the number of rows: the rounding cannot lift it
\* over 100, and a report with nothing to judge has 100 (score).
THEOREM ScoreIsPercentage == ASSUME NEW rows, IsReport(rows) PROVE Score(rows) \in 0..100
<1> DEFINE p == Count(rows, "pass")
           w == Count(rows, "warn")
           f == Count(rows, "fail")
           total == 10 * (p + w + f)
           weight == 10 * p + 7 * w
<1>1. p \in Nat /\ w \in Nat /\ f \in Nat
  BY CountIsNat
<1>2. Score(rows) = IF total = 0 THEN 100 ELSE (weight * 100 + total \div 2) \div total
  BY DEF Score
<1> HIDE DEF p, w, f
<1>3. CASE total = 0
  BY <1>2, <1>3
<1>4. CASE total # 0
  <2>1. total \in Nat /\ total > 0 /\ weight \in Nat /\ weight <= total
    BY <1>1, <1>4
  <2>2. total \div 2 \in Nat /\ total \div 2 < total
    BY <2>1
  <2> HIDE DEF total, weight
  <2>3. weight * 100 + total \div 2 \in Nat /\ weight * 100 + total \div 2 < 101 * total
    BY <2>1, <2>2
  <2> QED
    BY <1>2, <1>4, <2>1, <2>3, QuotientBound
<1> QED
  BY <1>3, <1>4

\* Every failure has an advice, or is that of an ISO.
Helpful(rows) ==
    /\ IsReport(rows)
    /\ \A i \in 1..Len(rows) : rows[i].verdict = "fail" =>
         IF rows[i].advised THEN rows[i].check # "none" ELSE rows[i].check = "iso"

LEMMA RowsHelpful ==
    ASSUME NEW c, NEW v \in Verdicts
    PROVE /\ v # "fail" \/ c = "iso" => Helpful(Row(c, v))
          /\ c # "none" => Helpful(Advised(c, v))
<1>1. /\ Row(c, v)[1] = [check |-> c, verdict |-> v, advised |-> FALSE]
      /\ Advised(c, v)[1] = [check |-> c, verdict |-> v, advised |-> TRUE]
  BY DEF Row, Advised
<1>2. \A i \in 1..1 : i = 1
  OBVIOUS
<1> QED
  BY <1>1, <1>2, RowIsReport DEF Helpful

LEMMA JoinedHelpful ==
    ASSUME NEW a, NEW b, Helpful(a), Helpful(b)
    PROVE Helpful(a \o b)
<1>1. IsReport(a) /\ IsReport(b)
  BY DEF Helpful
<1>2. Len(a) \in Nat /\ Len(b) \in Nat
  BY <1>1 DEF IsReport
<1>3. /\ IsReport(a \o b) /\ Len(a \o b) = Len(a) + Len(b)
      /\ \A i \in 1..Len(a) : (a \o b)[i] = a[i]
      /\ \A i \in 1..Len(b) : (a \o b)[Len(a) + i] = b[i]
  BY <1>1, JoinedReport
<1>4. \A i \in 1..Len(a \o b) :
        \/ i \in 1..Len(a) /\ (a \o b)[i] = a[i]
        \/ \E j \in 1..Len(b) : (a \o b)[i] = b[j]
  <2> TAKE i \in 1..Len(a \o b)
  <2>1. CASE i \in 1..Len(a)
    BY <1>3, <2>1
  <2>2. CASE i \notin 1..Len(a)
    <3>1. i - Len(a) \in 1..Len(b) /\ i = Len(a) + (i - Len(a))
      BY <1>2, <1>3, <2>2
    <3> QED
      BY <1>3, <3>1
  <2> QED
    BY <2>1, <2>2
<1> DEFINE ab == a \o b
<1>5. \A i \in 1..Len(ab) :
        (\E j \in 1..Len(a) : ab[i] = a[j]) \/ (\E j \in 1..Len(b) : ab[i] = b[j])
  BY <1>4
<1>6. IsReport(ab)
  BY <1>3
<1> HIDE DEF ab
<1>7. Helpful(ab)
  BY <1>5, <1>6 DEF Helpful
<1> QED
  BY <1>7 DEF ab

\* A row for each of some things, as many as they are.
LEMMA MappedHelpful ==
    ASSUME NEW n \in Nat, NEW f, \A i \in 1..n : Helpful(<<f[i]>>)
    PROVE Helpful([i \in 1..n |-> f[i]])
<1> DEFINE rows == [i \in 1..n |-> f[i]]
<1>1. rows \in Seq({f[i] : i \in 1..n}) /\ Len(rows) = n /\ \A i \in 1..n : rows[i] = f[i]
  OBVIOUS
<1>2. \A i \in 1..n : Len(<<f[i]>>) = 1 /\ <<f[i]>>[1] = f[i] /\ 1 \in 1..1
  OBVIOUS
<1>3. \A i \in 1..n :
        /\ f[i].verdict \in Verdicts
        /\ f[i].verdict = "fail" =>
             IF f[i].advised THEN f[i].check # "none" ELSE f[i].check = "iso"
  BY <1>2 DEF Helpful, IsReport
<1> HIDE DEF rows
<1>4. IsReport(rows)
  BY <1>1, <1>3, IsReportFrom
<1>5. Helpful(rows)
  BY <1>1, <1>3, <1>4 DEF Helpful
<1> QED
  BY <1>5 DEF rows

LEMMA HostHelpful == ASSUME NEW h \in HostFacts PROVE Helpful(HostRows(h))
<1> USE DEF Verdicts, HostFacts
<1>1. Helpful(HostCommands(h))
  <2> DEFINE f == [i \in 1..10 |-> Must(Checked[i], Checked[i] \in h.tools)[1]]
  <2>1. DOMAIN Checked = 1..10 /\ \A i \in 1..10 : Checked[i] # "none"
    BY DEF Checked
  <2>2. \A i \in 1..10 : Helpful(Must(Checked[i], Checked[i] \in h.tools))
    BY <2>1, RowsHelpful DEF Must
  <2>3. \A c, ok : Must(c, ok) = <<Must(c, ok)[1]>>
    BY DEF Must, Row, Advised
  <2>4. \A i \in 1..10 : Helpful(<<f[i]>>)
    BY <2>2, <2>3
  <2>5. HostCommands(h) = [i \in 1..10 |-> f[i]]
    BY <2>1 DEF HostCommands
  <2> HIDE DEF f
  <2>6. Helpful([i \in 1..10 |-> f[i]])
    BY <2>4, MappedHelpful
  <2> QED
    BY <2>5, <2>6
<1>2. Helpful(Identity(h))
  BY RowsHelpful, JoinedHelpful DEF Identity
<1>3. Helpful(TrustAnchor(h))
  BY RowsHelpful, JoinedHelpful DEF TrustAnchor
<1>4. Helpful(Cosign(h)) /\ Helpful(SecureBoot(h)) /\ Helpful(BootMode(h)) /\ Helpful(Tpm(h))
  BY RowsHelpful DEF Cosign, SecureBoot, BootMode, Tpm
<1>5. Helpful(Smart(h)) /\ Helpful(Memory(h)) /\ Helpful(Removable(h)) /\ Helpful(Row("os", "pass"))
  BY RowsHelpful DEF Smart, Memory, Removable
<1>6. ASSUME NEW c, NEW n \in Nat, NEW v \in Verdicts, v # "fail" PROVE Helpful(Inventory(c, n, v))
  <2>1. CASE n = 0
    BY <1>6, <2>1, RowsHelpful DEF Inventory
  <2>2. CASE n # 0
    <3> DEFINE f == [i \in 1..n + 1 |-> Row(c, "pass")[1]]
    <3>1. Row(c, "pass") = <<Row(c, "pass")[1]>> /\ Helpful(Row(c, "pass"))
      BY RowsHelpful DEF Row
    <3>2. \A i \in 1..n + 1 : Helpful(<<f[i]>>)
      BY <3>1
    <3>3. Inventory(c, n, v) = [i \in 1..n + 1 |-> f[i]] /\ n + 1 \in Nat
      BY <2>2 DEF Inventory
    <3> HIDE DEF f
    <3> QED
      BY <3>2, <3>3, MappedHelpful
  <2> QED
    BY <2>1, <2>2
<1>7. Helpful(Inventory("nic", h.nics, "warn")) /\ Helpful(Inventory("disk", h.disks, "skip"))
  BY <1>6
<1> QED
  BY <1>1, <1>2, <1>3, <1>4, <1>5, <1>7, JoinedHelpful DEF HostRows

LEMMA StickHelpful ==
    ASSUME NEW s, NEW n \in Nat, NEW f, s.isos = <<>> \/ s.isos = [i \in 1..n |-> f[i]]
    PROVE Helpful(StickRows(s))
<1> USE DEF Verdicts
<1>1. Helpful(Partitions(s)) /\ Helpful(ManifestRow(s)) /\ Helpful(Row("contents", "skip"))
  BY RowsHelpful DEF Partitions, ManifestRow
<1>2. Helpful(TrustCoverage(s))
  <2>1. CASE s.isos = <<>>
    BY <2>1, RowsHelpful DEF TrustCoverage
  <2>2. CASE s.isos # <<>>
    <3> DEFINE g == [i \in 1..n |-> Row("iso", IsoVerdict(s.isos[i]))[1]]
               rows == [i \in 1..n |-> g[i]]
               first == IF \A i \in DOMAIN s.isos : s.isos[i] = "green"
                        THEN Row("coverage", "pass") ELSE Advised("coverage", "warn")
    <3>1. DOMAIN s.isos = 1..n
      BY <2>2
    <3>2. \A v : Row("iso", v) = <<Row("iso", v)[1]>>
      BY DEF Row
    <3>3. \A t : IsoVerdict(t) \in Verdicts
      BY DEF IsoVerdict
    <3>4. \A i \in 1..n : Helpful(<<g[i]>>)
      BY <3>2, <3>3, RowsHelpful
    <3>5. TrustCoverage(s) = first \o rows
      BY <2>2, <3>1 DEF TrustCoverage
    <3>6. Helpful(first)
      BY RowsHelpful
    <3> HIDE DEF g
    <3>7. Helpful(rows)
      BY <3>4, MappedHelpful
    <3> QED
      BY <3>5, <3>6, <3>7, JoinedHelpful
  <2> QED
    BY <2>1, <2>2
<1> QED
  BY <1>1, <1>2, JoinedHelpful DEF StickRows, IsosMount

\* A set of numbers has a least one.
LEMMA LeastNumber ==
    ASSUME NEW S \in SUBSET Nat, S # {}
    PROVE \E m \in S : \A k \in S : m <= k
<1> DEFINE less == {ss \in Nat \X Nat : ss[1] < ss[2]}
<1>1. IsWellFoundedOn(less, Nat)
  BY NatLessThanWellFounded DEF OpToRel
<1>2. \A k, m \in S : k < m => <<k, m>> \in less
  OBVIOUS
<1> HIDE DEF less
<1>3. PICK m \in S : \A k \in S : ~(<<k, m>> \in less)
  BY <1>1, WFMin, Zenon
<1>4. \A k \in S : ~(k < m)
  BY <1>2, <1>3, Zenon
<1>5. \A k \in S : m <= k
  BY <1>4
<1> QED
  BY <1>5

\* The advice of a failing doctor is that of the first failure which is not an ISO's; there
\* is none when only ISOs failed, tampered ones, of which it says nothing more (add,
\* add_with_next, next_action, check_stick).
THEOREM AdviceIsForTheFirstFailure ==
    ASSUME NEW h \in HostFacts,
           NEW s, NEW n \in Nat, NEW f, s.isos = <<>> \/ s.isos = [i \in 1..n |-> f[i]]
    PROVE LET rows == HostRows(h) \o StickRows(s)
              fails(i) == rows[i].verdict = "fail"
          IN  \/ /\ NextAction(rows) = "none"
                 /\ \A i \in 1..Len(rows) : fails(i) => rows[i].check = "iso"
              \/ \E i \in 1..Len(rows) :
                   /\ fails(i) /\ rows[i].check = NextAction(rows) /\ NextAction(rows) # "none"
                   /\ \A j \in 1..i - 1 : fails(j) => rows[j].check = "iso"
<1> DEFINE rows == HostRows(h) \o StickRows(s)
           advised == {i \in DOMAIN rows : rows[i].verdict = "fail" /\ rows[i].advised}
<1>1. Helpful(rows)
  BY HostHelpful, StickHelpful, JoinedHelpful
<1> HIDE DEF rows
<1>2. Len(rows) \in Nat /\ DOMAIN rows = 1..Len(rows)
  BY <1>1 DEF Helpful, IsReport
<1>3. \A i \in 1..Len(rows) : i \notin advised /\ rows[i].verdict = "fail" => rows[i].check = "iso"
  BY <1>1, <1>2 DEF Helpful
<1>4. CASE advised = {}
  BY <1>2, <1>3, <1>4 DEF NextAction, rows
<1>5. CASE advised # {}
  <2>1. advised \in SUBSET Nat
    BY <1>2
  <2>2. \E m \in advised : \A k \in advised : m <= k
    BY <1>5, <2>1, LeastNumber
  <2> DEFINE m == CHOOSE i \in advised : \A j \in advised : i <= j
  <2>3. m \in advised /\ \A k \in advised : m <= k
    BY <2>2
  <2>4. NextAction(rows) = rows[m].check
    BY <1>5 DEF NextAction
  <2> HIDE DEF m
  <2>5. m \in 1..Len(rows) /\ rows[m].verdict = "fail" /\ rows[m].check # "none"
    BY <1>1, <1>2, <2>3 DEF Helpful
  <2>6. \A j \in 1..m - 1 : j \in 1..Len(rows) /\ j \notin advised
    BY <1>2, <2>1, <2>3, <2>5
  <2>7. \A j \in 1..m - 1 : rows[j].verdict = "fail" => rows[j].check = "iso"
    BY <1>3, <2>6
  <2> QED
    BY <2>4, <2>5, <2>7 DEF rows
<1> QED
  BY <1>4, <1>5

-----------------------------------------------------------------------------
(* init *)

\* Which drive the operator has agreed to, and how.
AgreedTo ==
    /\ stage \in {"idle", "pick"} => target \in {NoPath, ask.named}
    /\ stage \in {"idle", "pick", "typed"} => agreed = "none"
    /\ stage = "erase" => agreed # "none"
    /\ stage \in {"doctor", "flash"} /\ ~ask.yes => target # NoPath
    /\ stage \in {"doctor", "flash"} => agreed \in {"none", "serial"}
    /\ stage \in {"type", "typed", "erase"} => target \in Paths
    /\ stage = "type" \/ agreed = "serial" =>
         /\ target \in Paths
         /\ ~swapped => sighted = plug[target] /\ sighted \in Drives
                        /\ HasToken(sighted) /\ sighted.tran = "usb"
    /\ stage \in {"typed", "erase"} /\ ~swapped =>
         sighted = plug[target] /\ sighted \in Drives /\ DrivePassesFilter(sighted)

\* The preflight of a run that could not go on without one.
PreflightPassed ==
    stage \in {"flash", "typed", "erase"} /\ ~ask.yes /\ ~ask.noDoctor =>
        /\ ~report.failed /\ report.band \in {"OK", "EXCELLENT"}
        /\ ~swapped => plug[target] # NoDrive /\ part[plug[target]] \in {"aegis", "esp"}

\* The slugs it is done with are verified.
FetchedSoFar ==
    /\ nth \in 1..Len(ask.profile)
    /\ stage \notin {"fetch", "add", "over"} => nth = 1
    /\ \A i \in 1..Len(ask.profile) : i < nth => ask.profile[i] \in cached
    /\ stage = "add" => Slug \in cached
    /\ ending = "done" =>
         stage = "over" /\ \A i \in 1..Len(ask.profile) : ask.profile[i] \in cached

\* While no other AEGIS_ISOS can be taken for the new one, they are on it.
OnlyStick == agreed # "none" /\ alone /\ ~swapped

AddedSoFar ==
    OnlyStick =>
        /\ stage \in {"fetch", "add"} =>
             /\ target \in Paths /\ plug[target] \in Drives
             /\ \A i \in 1..Len(ask.profile) :
                  i < nth => kit[plug[target]][ask.profile[i]] # "absent"
             /\ \A i \in 1..Len(mounted) :
                  /\ ~mounted[i].stale
                  /\ \E p \in Paths : plug[p] = mounted[i].drive /\ part[plug[p]] = "aegis"
        /\ ending = "done" =>
             \A i \in 1..Len(ask.profile) : kit[plug[target]][ask.profile[i]] # "absent"

KitInv == KitTypeOK /\ AgreedTo /\ PreflightPassed /\ FetchedSoFar /\ AddedSoFar

\* A command line names slugs of the catalog, one at least.
LEMMA ProfileTypes ==
    ASSUME NEW r \in Requests
    PROVE /\ r.profile \in Seq(Slugs) /\ Len(r.profile) \in Nat \ {0}
          /\ r.named \in Paths \cup {NoPath}
<1>1. r \in Request /\ r.profile \in Profiles
  BY KitAssumption DEF Request
<1>2. r.profile \in Seq(Slugs) /\ r.profile # <<>>
  BY <1>1, KitAssumption
<1>3. Len(r.profile) # 0
  BY <1>2, EmptySeq
<1> QED
  BY <1>1, <1>2, <1>3, LenProperties DEF Request

LEMMA UnmountedIsSeq ==
    ASSUME mounted \in Seq(Mount), NEW d
    PROVE /\ Unmounted(d) \in Seq(Mount)
          /\ mounted = <<>> => Unmounted(d) = <<>>
<1>1. CASE ~IsMounted(d)
  BY <1>1 DEF Unmounted
<1>2. CASE IsMounted(d)
  <2> DEFINE k == CHOOSE i \in DOMAIN mounted : mounted[i].drive = d
  <2>1. k \in 1..Len(mounted)
    BY <1>2 DEF IsMounted
  <2> HIDE DEF k
  <2>2. SubSeq(mounted, 1, k - 1) \in Seq(Mount) /\ SubSeq(mounted, k + 1, Len(mounted)) \in Seq(Mount)
    BY <2>1
  <2>3. Unmounted(d) = SubSeq(mounted, 1, k - 1) \o SubSeq(mounted, k + 1, Len(mounted))
    BY <1>2 DEF Unmounted, RemoveAt, k
  <2> QED
    BY <2>1, <2>2, <2>3
<1> QED
  BY <1>1, <1>2

LEMMA KitInitInv ==
    ASSUME \/ KitInit
           \/ KitAside
    PROVE KitInv
<1>1. AtRest /\ ask \in Requests
  BY KitAssumption DEF KitInit, KitAside, AtRest
<1>2. facts \in Facts /\ cached = {}
  BY KitAssumption DEF KitInit, KitAside
<1>3. /\ plug \in [Paths -> Drives \cup {NoDrive}]
      /\ part \in [Drives -> {"aegis", "esp", "raw", "other"}]
      /\ kit \in [Drives -> [Slugs -> Trust]]
      /\ mounted \in Seq(Mount)
  <2>1. CASE KitInit
    <3>1. PICK w \in Worlds : plug = w.plug /\ part = w.part /\ kit = w.kit /\ mounted = w.mounted
      BY <2>1 DEF KitInit
    <3>2. w \in Plugged
      BY KitAssumption
    <3> QED
      BY <3>1, <3>2 DEF Plugged
  <2>2. CASE KitAside
    BY <2>2 DEF KitAside, NoIsos, Trust
  <2> QED
    BY <2>1, <2>2
<1>4. KitTypeOK
  BY <1>1, <1>2, <1>3 DEF KitTypeOK, AtRest, NoReport
<1>5. Len(ask.profile) \in Nat \ {0}
  BY <1>1, ProfileTypes
<1> QED
  BY <1>1, <1>2, <1>4, <1>5
     DEF KitInv, AgreedTo, PreflightPassed, FetchedSoFar, AddedSoFar, OnlyStick, AtRest

LEMMA KitTypes == ASSUME KitInv, [KitNext]_kitVars PROVE KitTypeOK'
<1> USE DEF KitTypeOK, choiceVars, worldVars, marks, Proceed, Ends
<1>0. KitTypeOK /\ AgreedTo /\ FetchedSoFar
  BY DEF KitInv
<1>a. \A d : Unmounted(d) \in Seq(Mount)
  BY <1>0, UnmountedIsSeq
<1>b. target \in Paths => plug[target] \in Drives \cup {NoDrive}
  BY <1>0
<1>c. Slug \in Slugs
  <2>1. nth \in 1..Len(ask.profile)
    BY <1>0 DEF FetchedSoFar
  <2> QED
    BY <1>0, <2>1, ProfileTypes DEF Slug
<1>1. CASE UNCHANGED kitVars
  BY <1>0, <1>1 DEF kitVars
<1>2. CASE Replug
  BY <1>0, <1>2, <1>a DEF Replug
<1>3. CASE DesktopMounts
  <2>1. PICK p \in Paths : plug[p] # NoDrive
                           /\ mounted' = Append(mounted, [drive |-> plug[p], stale |-> FALSE])
    BY <1>3 DEF DesktopMounts
  <2>2. [drive |-> plug[p], stale |-> FALSE] \in Mount
    BY <1>0, <2>1 DEF Mount
  <2>3. mounted' \in Seq(Mount)
    BY <1>0, <2>1, <2>2
  <2> QED
    BY <1>0, <1>3, <2>3 DEF DesktopMounts
<1>4. CASE StartInit
  <2>1. target' \in Paths \cup {NoPath}
    BY <1>4, ProfileTypes DEF StartInit
  <2> QED
    BY <1>0, <1>4, <2>1 DEF StartInit
<1>5. CASE InitRefused \/ WizardRefuses \/ SelectFails \/ FetchFails \/ AddFails
  BY <1>0, <1>5 DEF InitRefused, WizardRefuses, SelectFails, FetchFails, AddFails
<1>6. CASE PickDrive
  BY <1>0, <1>6 DEF PickDrive, WizardDrives
<1>7. CASE ConfirmSerial \/ TypeFlash \/ Decline
  BY <1>0, <1>7 DEF ConfirmSerial, TypeFlash, Decline
<1>8. CASE DoctorPasses \/ DoctorRefuses
  <2>1. report'.failed = HasAnyFail(Checkup)
    BY <1>8 DEF DoctorPasses, DoctorRefuses, ReportOf
  <2>2. report'.failed \in BOOLEAN
    BY <2>1 DEF HasAnyFail
  <2> QED
    BY <1>0, <1>8, <2>2 DEF DoctorPasses, DoctorRefuses
<1>9. CASE SelectDrive
  BY <1>0, <1>9 DEF SelectDrive, Removables
<1>10. CASE Erase
  <2>1. target \in Paths /\ plug[target] \in Drives
    BY <1>0, <1>10, <1>b DEF Erase, AgreedTo
  <2>2. part' \in [Drives -> {"aegis", "esp", "raw", "other"}] /\ kit' \in [Drives -> [Slugs -> Trust]]
    BY <1>0, <1>10 DEF Erase, NoIsos, Trust
  <2>3. mounted' \in Seq(Mount)
    <3>1. CASE mounted' = Unmounted(plug[target])
      BY <1>a, <3>1
    <3>2. CASE mounted' = [i \in DOMAIN mounted |->
                             IF mounted[i].drive = plug[target] THEN [mounted[i] EXCEPT !.stale = TRUE]
                             ELSE mounted[i]]
      <4>1. \A i \in 1..Len(mounted) : mounted[i] \in Mount
        BY <1>0
      <4>2. \A m \in Mount : [m EXCEPT !.stale = TRUE] \in Mount
        BY DEF Mount
      <4>3. mounted' \in [1..Len(mounted) -> Mount] /\ Len(mounted) \in Nat
        BY <1>0, <3>2, <4>1, <4>2
      <4> QED
        BY <4>3
    <3> QED
      BY <1>10, <3>1, <3>2 DEF Erase
  <2> QED
    BY <1>0, <1>10, <2>1, <2>2, <2>3 DEF Erase
<1>11. CASE EraseFails
  <2>1. target \in Paths
    BY <1>0, <1>11 DEF EraseFails, AgreedTo
  <2>2. part' \in [Drives -> {"aegis", "esp", "raw", "other"}] /\ kit' \in [Drives -> [Slugs -> Trust]]
    <3>1. NoIsos \in [Slugs -> Trust]
      BY DEF NoIsos, Trust
    <3>2. CASE UNCHANGED <<part, kit, wiped>>
      BY <1>0, <3>2
    <3>3. CASE \E t \in {"other", "esp", "aegis"} :
                 /\ part' = [part EXCEPT ![plug[target]] = t]
                 /\ kit' = [kit EXCEPT ![plug[target]] = NoIsos]
      BY <1>0, <3>1, <3>3
    <3> QED
      BY <1>11, <3>2, <3>3 DEF EraseFails
  <2>3. mounted' \in Seq(Mount)
    BY <1>0, <1>11, <1>a DEF EraseFails
  <2>4. wiped' \subseteq Drives
    BY <1>0, <1>11, <1>b, <2>1 DEF EraseFails
  <2> QED
    BY <1>0, <1>11, <2>2, <2>3, <2>4 DEF EraseFails
<1>12. CASE Fetch
  BY <1>0, <1>12, <1>c DEF Fetch
<1>13. CASE Add
  <2>1. kit' \in [Drives -> [Slugs -> Trust]]
    BY <1>0, <1>13 DEF Add, Trust
  <2> QED
    BY <1>0, <1>13, <2>1 DEF Add, NextSlug
<1>14. CASE InitAgain
  <2>1. PICK w \in Worlds : plug' = w.plug /\ part' = w.part /\ kit' = w.kit /\ mounted' = w.mounted
    BY <1>14 DEF InitAgain
  <2>2. w \in Plugged
    BY KitAssumption
  <2>3. ask' \in Requests
    BY <1>14, KitAssumption DEF InitAgain
  <2> QED
    BY <1>0, <1>14, <2>1, <2>2, <2>3 DEF InitAgain, Plugged, NoReport
<1> QED
  BY <1>1, <1>2, <1>3, <1>4, <1>5, <1>6, <1>7, <1>8, <1>9, <1>10, <1>11, <1>12, <1>13,
         <1>14 DEF KitNext

LEMMA KitAgreed == ASSUME KitInv, [KitNext]_kitVars PROVE AgreedTo'
<1> USE DEF choiceVars, worldVars, marks, Proceed, Ends, AgreedTo
<1>0. KitTypeOK /\ AgreedTo
  BY DEF KitInv
<1>1. CASE UNCHANGED kitVars
  BY <1>0, <1>1 DEF kitVars
<1>2. CASE Replug
  BY <1>0, <1>2 DEF Replug
<1>3. CASE DesktopMounts
  BY <1>0, <1>3 DEF DesktopMounts
<1>4. CASE StartInit
  BY <1>0, <1>4, ProfileTypes DEF StartInit
<1>5. CASE InitRefused \/ WizardRefuses \/ SelectFails \/ FetchFails \/ AddFails
  BY <1>0, <1>5 DEF InitRefused, WizardRefuses, SelectFails, FetchFails, AddFails
<1>6. CASE PickDrive
  BY <1>0, <1>6 DEF PickDrive, WizardDrives, KitTypeOK
<1>7. CASE ConfirmSerial \/ TypeFlash \/ Decline
  BY <1>0, <1>7, KitAssumption DEF ConfirmSerial, TypeFlash, Decline
<1>8. CASE DoctorPasses \/ DoctorRefuses
  BY <1>0, <1>8 DEF DoctorPasses, DoctorRefuses
<1>9. CASE SelectDrive
  <2>1. /\ stage = "flash" /\ stage' \in {"erase", "typed"}
        /\ stage' = "typed" <=> ~(ask.yes \/ agreed = "serial")
        /\ agreed' = IF agreed = "none" /\ ask.yes THEN "yes" ELSE agreed
        /\ UNCHANGED <<plug, ask, swapped>>
    BY <1>9 DEF SelectDrive
  <2>2. PICK p \in Removables :
          /\ target # NoPath => p = target
          /\ target' = p
          /\ sighted' = IF agreed = "serial" THEN sighted ELSE plug[p]
    BY <1>9 DEF SelectDrive
  <2>3. p \in Paths /\ plug[p] \in Drives /\ DrivePassesFilter(plug[p])
    BY <1>0, <2>2 DEF Removables, KitTypeOK
  <2>4. agreed \in {"none", "serial"}
    BY <1>0, <2>1
  <2>5. CASE agreed = "none"
    BY <2>1, <2>2, <2>3, <2>5
  <2>6. CASE agreed = "serial"
    <3>1. target \in Paths /\ p = target
      BY <1>0, <2>2, <2>6, KitAssumption
    <3>2. ~swapped => sighted = plug[target] /\ sighted \in Drives
                      /\ HasToken(sighted) /\ sighted.tran = "usb"
      BY <1>0, <2>6
    <3>3. stage' = "erase" /\ agreed' = "serial" /\ target' = target /\ sighted' = sighted
      BY <2>1, <2>2, <2>6, <3>1
    <3> QED
      BY <2>1, <2>3, <3>1, <3>2, <3>3
  <2> QED
    BY <2>4, <2>5, <2>6
<1>10. CASE Erase
  BY <1>0, <1>10 DEF Erase
<1>11. CASE EraseFails
  BY <1>0, <1>11 DEF EraseFails
<1>12. CASE Fetch
  BY <1>0, <1>12 DEF Fetch
<1>13. CASE Add
  BY <1>0, <1>13 DEF Add, NextSlug
<1>14. CASE InitAgain
  BY <1>0, <1>14 DEF InitAgain
<1> QED
  BY <1>1, <1>2, <1>3, <1>4, <1>5, <1>6, <1>7, <1>8, <1>9, <1>10, <1>11, <1>12, <1>13,
         <1>14 DEF KitNext

LEMMA KitPreflight == ASSUME KitInv, [KitNext]_kitVars PROVE PreflightPassed'
<1> USE DEF choiceVars, worldVars, marks, Proceed, Ends, PreflightPassed
<1>0. KitTypeOK /\ AgreedTo /\ PreflightPassed
  BY DEF KitInv
<1>1. CASE UNCHANGED kitVars
  BY <1>0, <1>1 DEF kitVars
<1>2. CASE Replug
  BY <1>0, <1>2 DEF Replug
<1>3. CASE DesktopMounts
  BY <1>0, <1>3 DEF DesktopMounts
<1>4. CASE StartInit
  BY <1>4 DEF StartInit
<1>5. CASE InitRefused \/ WizardRefuses \/ SelectFails \/ FetchFails \/ AddFails
  BY <1>5 DEF InitRefused, WizardRefuses, SelectFails, FetchFails, AddFails
<1>6. CASE PickDrive
  BY <1>6 DEF PickDrive
<1>7. CASE ConfirmSerial \/ TypeFlash \/ Decline
  BY <1>0, <1>7 DEF ConfirmSerial, TypeFlash, Decline
<1>8. CASE DoctorPasses
  <2>1. SUFFICES ASSUME ~ask.yes
                 PROVE  /\ ~report'.failed /\ report'.band \in {"OK", "EXCELLENT"}
                        /\ plug[target] # NoDrive /\ part[plug[target]] \in {"aegis", "esp"}
    BY <1>8 DEF DoctorPasses
  <2>2. ~HasAnyFail(Checkup) /\ report' = ReportOf(Checkup)
    BY <1>8, <2>1 DEF DoctorPasses, ReportOf
  <2>3. target # NoPath
    BY <1>0, <1>8, <2>1 DEF DoctorPasses, AgreedTo
  <2>4. DoctorsStick = target
    BY <2>3 DEF DoctorsStick
  <2>5. facts \in Facts
    BY <1>0 DEF KitTypeOK
  <2>6. BandForScore(Score(Checkup)) \in {"OK", "EXCELLENT"}
    BY <2>2, <2>5, CheckupIsReport, WarningsScoreWell
  <2>7. plug[target] # NoDrive /\ part[plug[target]] \in {"aegis", "esp"}
    BY <2>2, <2>3, <2>4, <2>5, CheckupIsReport
  <2> QED
    BY <2>2, <2>6, <2>7 DEF ReportOf
<1>9. CASE DoctorRefuses
  BY <1>9 DEF DoctorRefuses
<1>10. CASE SelectDrive
  <2>1. CASE target = NoPath
    BY <1>0, <1>10, <2>1 DEF SelectDrive, AgreedTo
  <2>2. CASE target # NoPath
    BY <1>0, <1>10, <2>2 DEF SelectDrive
  <2> QED
    BY <2>1, <2>2
<1>11. CASE Erase
  BY <1>11 DEF Erase
<1>12. CASE EraseFails
  BY <1>12 DEF EraseFails
<1>13. CASE Fetch
  BY <1>13 DEF Fetch
<1>14. CASE Add
  BY <1>14 DEF Add, NextSlug
<1>15. CASE InitAgain
  BY <1>15 DEF InitAgain
<1> QED
  BY <1>1, <1>2, <1>3, <1>4, <1>5, <1>6, <1>7, <1>8, <1>9, <1>10, <1>11, <1>12, <1>13, <1>14, <1>15
     DEF KitNext

LEMMA KitFetched == ASSUME KitInv, [KitNext]_kitVars PROVE FetchedSoFar'
<1> USE DEF choiceVars, worldVars, marks, Proceed, Ends, FetchedSoFar
<1>0. KitTypeOK /\ FetchedSoFar
  BY DEF KitInv
<1>a. Len(ask.profile) \in Nat \ {0}
  BY <1>0, ProfileTypes DEF KitTypeOK
<1>1. CASE UNCHANGED kitVars
  BY <1>0, <1>1 DEF kitVars, Slug
<1>2. CASE Replug
  BY <1>0, <1>2 DEF Replug, Slug
<1>3. CASE DesktopMounts
  BY <1>0, <1>3 DEF DesktopMounts, Slug
<1>4. CASE StartInit
  <2>1. Len(ask'.profile) \in Nat \ {0}
    BY <1>4, ProfileTypes DEF StartInit
  <2> QED
    BY <1>0, <1>4, <2>1 DEF StartInit
<1>5. CASE InitRefused \/ WizardRefuses \/ SelectFails \/ FetchFails \/ AddFails
  BY <1>0, <1>5 DEF InitRefused, WizardRefuses, SelectFails, FetchFails, AddFails
<1>6. CASE PickDrive
  BY <1>0, <1>6 DEF PickDrive
<1>7. CASE ConfirmSerial \/ TypeFlash \/ Decline
  BY <1>0, <1>7 DEF ConfirmSerial, TypeFlash, Decline
<1>8. CASE DoctorPasses \/ DoctorRefuses
  BY <1>0, <1>8 DEF DoctorPasses, DoctorRefuses
<1>9. CASE SelectDrive
  BY <1>0, <1>9 DEF SelectDrive
<1>10. CASE Erase \/ EraseFails
  BY <1>0, <1>10 DEF Erase, EraseFails
<1>11. CASE Fetch
  BY <1>0, <1>11 DEF Fetch, Slug
<1>12. CASE Add
  <2>1. Slug \in cached /\ stage = "add" /\ UNCHANGED <<ask, cached>>
    BY <1>0, <1>12 DEF Add
  <2>2. \A i \in 1..Len(ask.profile) : i <= nth => ask.profile[i] \in cached
    BY <1>0, <1>a, <2>1 DEF Slug
  <2> QED
    BY <1>0, <1>a, <1>12, <2>1, <2>2 DEF Add, NextSlug
<1>13. CASE InitAgain
  <2>1. ask' \in Requests
    BY <1>13, KitAssumption DEF InitAgain
  <2>2. Len(ask'.profile) \in Nat \ {0}
    BY <2>1, ProfileTypes
  <2> QED
    BY <1>13, <2>2 DEF InitAgain
<1> QED
  BY <1>1, <1>2, <1>3, <1>4, <1>5, <1>6, <1>7, <1>8, <1>9, <1>10, <1>11, <1>12, <1>13 DEF KitNext

\* Steps after which the new stick is still on no list, or the run has failed.
LEMMA KitAddedQuiet ==
    ASSUME KitInv,
           \/ UNCHANGED kitVars
           \/ Replug \/ StartInit \/ InitRefused \/ PickDrive \/ ConfirmSerial \/ WizardRefuses
           \/ DoctorPasses \/ DoctorRefuses \/ SelectDrive \/ SelectFails \/ TypeFlash \/ Decline
           \/ EraseFails \/ Fetch \/ FetchFails \/ AddFails \/ InitAgain
    PROVE AddedSoFar'
<1> USE DEF choiceVars, worldVars, marks, Proceed, Ends, AddedSoFar, OnlyStick
<1>0. AddedSoFar /\ ending \in {"none", "refused", "failed", "done"}
      /\ (ending = "done" => stage = "over")
      /\ (stage = "typed" => agreed = "none")
  BY DEF KitInv, KitTypeOK, FetchedSoFar, AgreedTo
<1>1. CASE UNCHANGED kitVars
  BY <1>0, <1>1 DEF kitVars
<1>2. CASE Replug
  BY <1>2 DEF Replug
<1>3. CASE StartInit
  BY <1>0, <1>3 DEF StartInit
<1>4. CASE InitRefused \/ WizardRefuses \/ SelectFails \/ FetchFails \/ AddFails \/ DoctorRefuses
           \/ EraseFails
  BY <1>4 DEF InitRefused, WizardRefuses, SelectFails, FetchFails, AddFails, DoctorRefuses,
         EraseFails
<1>5. CASE PickDrive \/ ConfirmSerial \/ DoctorPasses \/ SelectDrive \/ TypeFlash
  BY <1>0, <1>5 DEF PickDrive, ConfirmSerial, DoctorPasses, SelectDrive, TypeFlash
<1>6. CASE Decline
  BY <1>0, <1>6 DEF Decline
<1>7. CASE Fetch
  BY <1>0, <1>7 DEF Fetch
<1>8. CASE InitAgain
  BY <1>8 DEF InitAgain
<1> QED
  BY <1>1, <1>2, <1>3, <1>4, <1>5, <1>6, <1>7, <1>8

\* What the desktop mounts while the new stick is filled is not stale.
LEMMA KitAddedMount == ASSUME KitInv, DesktopMounts PROVE AddedSoFar'
<1> USE DEF choiceVars, worldVars, marks, AddedSoFar, OnlyStick
<1>0. AddedSoFar /\ KitTypeOK /\ (ending = "done" => stage = "over")
  BY DEF KitInv, FetchedSoFar
<1>1. PICK p \in Paths : /\ part[plug[p]] = "aegis"
                         /\ mounted' = Append(mounted, [drive |-> plug[p], stale |-> FALSE])
  BY DEF DesktopMounts
<1>2. UNCHANGED <<plug, part, kit, ask, target, agreed, stage, nth, ending, swapped, alone>>
      /\ stage # "over"
  BY DEF DesktopMounts
<1>3. Len(mounted') = Len(mounted) + 1 /\ Len(mounted) \in Nat
  BY <1>0, <1>1 DEF KitTypeOK
<1>4. ASSUME NEW i \in 1..Len(mounted'), OnlyStick, stage \in {"fetch", "add"}
      PROVE ~mounted'[i].stale /\ \E q \in Paths : plug[q] = mounted'[i].drive /\ part[plug[q]] = "aegis"
  <2>1. CASE i \in 1..Len(mounted)
    <3>1. mounted'[i] = mounted[i]
      BY <1>0, <1>1, <2>1 DEF KitTypeOK
    <3> QED
      BY <1>0, <1>4, <2>1, <3>1
  <2>2. CASE i = Len(mounted) + 1
    <3>1. mounted'[i] = [drive |-> plug[p], stale |-> FALSE]
      BY <1>0, <1>1, <2>2 DEF KitTypeOK
    <3> QED
      BY <1>1, <3>1
  <2> QED
    BY <1>3, <2>1, <2>2
<1> QED
  BY <1>0, <1>2, <1>4

\* The flash ends with no AEGIS_ISOS mounted, or others may be taken for it.
LEMMA KitAddedErase == ASSUME KitInv, Erase PROVE AddedSoFar'
<1> USE DEF choiceVars, Proceed
<1>0. KitTypeOK /\ AgreedTo /\ FetchedSoFar
  BY DEF KitInv
<1>1. stage = "erase" /\ nth = 1 /\ ending # "done" /\ stage' = "fetch"
  BY <1>0 DEF Erase, FetchedSoFar
<1>2. target \in Paths /\ plug[target] \in Drives
  BY <1>0, <1>1 DEF Erase, AgreedTo, KitTypeOK
<1>3. UNCHANGED <<plug, ask, target, nth, ending>>
  BY DEF Erase
<1>4. OnlyStick' => mounted' = <<>>
  <2>1. SUFFICES ASSUME mounted = <<>> PROVE mounted' = <<>>
    BY DEF Erase, OnlyStick
  <2>2. CASE mounted' = Unmounted(plug[target])
    BY <1>0, <2>1, <2>2, UnmountedIsSeq DEF KitTypeOK
  <2>3. CASE mounted' = [i \in DOMAIN mounted |->
                           IF mounted[i].drive = plug[target] THEN [mounted[i] EXCEPT !.stale = TRUE]
                           ELSE mounted[i]]
    BY <2>1, <2>3
  <2> QED
    BY <2>2, <2>3 DEF Erase
<1> QED
  BY <1>1, <1>2, <1>3, <1>4 DEF AddedSoFar

\* What is added goes to the first mount, which can only be the new stick.
LEMMA KitAddedAdd == ASSUME KitInv, Add PROVE AddedSoFar'
<1>0. KitTypeOK /\ FetchedSoFar /\ AddedSoFar /\ stage = "add"
  BY DEF KitInv, Add
<1>1. SUFFICES ASSUME OnlyStick'
               PROVE /\ stage' \in {"fetch", "add"} =>
                          /\ target' \in Paths /\ plug'[target'] \in Drives
                          /\ \A i \in 1..Len(ask'.profile) :
                               i < nth' => kit'[plug'[target']][ask'.profile[i]] # "absent"
                          /\ \A i \in 1..Len(mounted') :
                               /\ ~mounted'[i].stale
                               /\ \E p \in Paths : plug'[p] = mounted'[i].drive /\ part'[plug'[p]] = "aegis"
                     /\ ending' = "done" =>
                          \A i \in 1..Len(ask'.profile) : kit'[plug'[target']][ask'.profile[i]] # "absent"
  BY DEF AddedSoFar
<1>2. UNCHANGED <<plug, part, mounted, ask, target, agreed, swapped>>
  BY DEF Add, choiceVars
<1>3. OnlyStick /\ \A p \in Paths : (plug[p] # NoDrive /\ part[plug[p]] = "aegis") => p = target
  <2> DEFINE lone == \A p \in Paths : (plug[p] # NoDrive /\ part[plug[p]] = "aegis") => p = target
  <2>1. alone' /\ agreed' # "none" /\ ~swapped'
    BY <1>1 DEF OnlyStick
  <2>2. alone' = (alone /\ lone)
    BY DEF Add
  <2> HIDE DEF lone
  <2>3. alone /\ lone
    BY <2>1, <2>2, Zenon
  <2> QED
    BY <1>2, <2>1, <2>3 DEF OnlyStick, lone
<1>4. /\ target \in Paths /\ plug[target] \in Drives
      /\ \A i \in 1..Len(ask.profile) : i < nth => kit[plug[target]][ask.profile[i]] # "absent"
      /\ \A i \in 1..Len(mounted) :
           ~mounted[i].stale /\ \E p \in Paths : plug[p] = mounted[i].drive /\ part[plug[p]] = "aegis"
  BY <1>0, <1>3 DEF AddedSoFar
<1>5. 1 \in 1..Len(mounted) /\ mounted[1].drive \in Drives
  <2>1. mounted \in Seq(Mount) /\ mounted # <<>>
    BY <1>0 DEF Add, KitTypeOK
  <2>2. 1 \in 1..Len(mounted)
    BY <2>1, EmptySeq, LenProperties
  <2>3. mounted[1] \in Mount
    BY <2>1, <2>2
  <2> QED
    BY <2>2, <2>3 DEF Mount
<1>6. ~mounted[1].stale /\ mounted[1].drive = plug[target]
  BY <1>3, <1>4, <1>5, KitAssumption
<1>7. PICK t \in {"yellow", "red"} : kit' = [kit EXCEPT ![plug[target]][Slug] = t]
  BY <1>6 DEF Add
<1>8. nth \in 1..Len(ask.profile) /\ Len(ask.profile) \in Nat /\ ask.profile \in Seq(Slugs)
  BY <1>0, ProfileTypes DEF KitTypeOK, FetchedSoFar
<1>9. \A i \in 1..Len(ask.profile) : i <= nth => kit'[plug[target]][ask.profile[i]] # "absent"
  <2> TAKE i \in 1..Len(ask.profile)
  <2>1. ask.profile[i] \in Slugs /\ Slug \in Slugs
    BY <1>8 DEF Slug
  <2>2. kit'[plug[target]] = [kit[plug[target]] EXCEPT ![Slug] = t]
        /\ kit[plug[target]] \in [Slugs -> Trust]
    BY <1>0, <1>4, <1>7 DEF KitTypeOK
  <2>3. CASE ask.profile[i] = Slug
    BY <2>1, <2>2, <2>3
  <2>4. CASE ask.profile[i] # Slug
    BY <1>4, <1>8, <2>1, <2>2, <2>4 DEF Slug
  <2> QED
    BY <2>3, <2>4
<1>10. /\ \A i \in 1..Len(ask.profile) : i < nth' => kit'[plug[target]][ask.profile[i]] # "absent"
       /\ ending' = "done" =>
            \A i \in 1..Len(ask.profile) : kit'[plug[target]][ask.profile[i]] # "absent"
  <2>1. CASE nth < Len(ask.profile) /\ nth' = nth + 1 /\ ending' = ending
    BY <1>0, <1>8, <1>9, <2>1 DEF FetchedSoFar
  <2>2. CASE nth >= Len(ask.profile) /\ nth' = nth
    BY <1>8, <1>9, <2>2
  <2> QED
    BY <1>8, <2>1, <2>2 DEF Add, NextSlug
<1> QED
  BY <1>2, <1>4, <1>10

LEMMA KitStepInv == ASSUME KitInv, [KitNext]_kitVars PROVE KitInv'
<1>1. AddedSoFar'
  BY KitAddedQuiet, KitAddedMount, KitAddedErase, KitAddedAdd DEF KitNext
<1> QED
  BY <1>1, KitTypes, KitAgreed, KitPreflight, KitFetched DEF KitInv

LEMMA KitDone == KitInv => DoneMeansComplete
<1> SUFFICES ASSUME KitInv, ending = "done" PROVE DoneMeansComplete
  BY DEF DoneMeansComplete
<1>1. ask.profile \in Seq(Slugs)
  BY ProfileTypes DEF KitInv, KitTypeOK
<1>2. DOMAIN ask.profile = 1..Len(ask.profile)
  BY <1>1
<1> QED
  BY <1>2 DEF KitInv, FetchedSoFar, AddedSoFar, OnlyStick, DoneMeansComplete

\* init touches drives only in the two steps of its flash.
LEMMA KitErases == ASSUME KitInv, [KitNext]_kitVars PROVE KitErasesOnlyApproved
<1> SUFFICES ASSUME NEW d \in wiped' \ wiped
             PROVE  /\ d = plug[target] /\ agreed # "none"
                    /\ ~swapped => d = sighted /\ DrivePassesFilter(d)
                    /\ ~swapped /\ agreed = "serial" => HasToken(d) /\ d.tran = "usb"
                    /\ ~ask.yes /\ ~ask.noDoctor =>
                         /\ ~report.failed /\ report.band \in {"OK", "EXCELLENT"}
                         /\ ~swapped => part[d] \in {"aegis", "esp"}
  BY DEF KitErasesOnlyApproved
<1>1. Erase \/ EraseFails
  <2>1. ~UNCHANGED wiped /\ wiped' # {}
    OBVIOUS
  <2>2. KitNext
    BY <2>1 DEF kitVars
  <2>3. ~(Replug \/ DesktopMounts \/ StartInit \/ InitRefused \/ PickDrive \/ ConfirmSerial
          \/ WizardRefuses \/ DoctorPasses \/ DoctorRefuses)
    BY <2>1 DEF Replug, DesktopMounts, StartInit, InitRefused, PickDrive, ConfirmSerial,
           WizardRefuses,
        DoctorPasses, DoctorRefuses, marks
  <2>4. ~(SelectDrive \/ SelectFails \/ TypeFlash \/ Decline \/ Fetch \/ FetchFails \/ Add
          \/ AddFails \/ InitAgain)
    BY <2>1 DEF SelectDrive, SelectFails, TypeFlash, Decline, Fetch, FetchFails, Add, AddFails,
        InitAgain, marks
  <2> QED
    BY <2>2, <2>3, <2>4 DEF KitNext
<1>2. d = plug[target] /\ stage = "erase"
  BY <1>1 DEF Erase, EraseFails, Proceed
<1> QED
  BY <1>2 DEF KitInv, AgreedTo, PreflightPassed

-----------------------------------------------------------------------------
(* The hosts together *)

HostsInv == IInv /\ PipelineInv /\ KitInv /\ DdInv /\ EjectInv

LEMMA HostsInitInv == ASSUME HostsInit PROVE HostsInv
<1>1. IInv
  BY InitInv DEF HostsInit, LifeAside
<1>2. PipelineInv
  BY PipelineInitInv DEF HostsInit
<1>3. KitInv
  BY KitInitInv DEF HostsInit
<1>4. DdInv
  BY DdInitInv DEF HostsInit
<1>5. EjectInv
  BY EjectInitInv DEF HostsInit
<1> QED
  BY <1>1, <1>2, <1>3, <1>4, <1>5 DEF HostsInv

\* A step of one host is a step of its commands and leaves the others alone.
LEMMA HostsProject ==
    ASSUME [HostsNext]_hostVars
    PROVE /\ [Next]_vars /\ [KitNext]_kitVars /\ [ImageNext]_imageVars /\ [EjectNext]_ejectVars
          /\ \/ UNCHANGED installVars
             \/ system = "windows" /\ WindowsNext
             \/ system = "macos" /\ MacosNext
BY DEF HostsNext, OnWindows, OnMacos, hostVars

LEMMA HostsStepInv == ASSUME HostsInv, [HostsNext]_hostVars PROVE HostsInv'
<1>1. IInv'
  BY StepInv, HostsProject DEF HostsInv
<1>2. PipelineInv'
  BY PipelineStepInv, HostsProject DEF HostsInv
<1>3. KitInv'
  BY KitStepInv, HostsProject DEF HostsInv
<1>4. DdInv'
  BY DdTypes, DdStepDone, DdStepReports, HostsProject DEF HostsInv, DdInv
<1>5. EjectInv'
  BY EjectStepInv, HostsProject DEF HostsInv
<1> QED
  BY <1>1, <1>2, <1>3, <1>4, <1>5 DEF HostsInv

LEMMA HostsInvariant == HostsSpec => []HostsInv
BY HostsInitInv, HostsStepInv, PTL DEF HostsSpec

\* On every host the variables have their types.
THEOREM HostsTypeCorrect == HostsSpec => []HostsTypeOK
<1>1. HostsInv => HostsTypeOK
  BY DEF HostsInv, HostsTypeOK, IInv, PipelineInv, KitInv, DdInv, EjectInv
<1> QED
  BY <1>1, HostsInvariant, PTL

\* When a pipeline of Windows or macOS reports success, every boot file is whole on one
\* volume (on Windows one of the named disk, which need not be its ESP) and stays so when
\* the stick is pulled; when `eject' says so, nothing is left to
\* write (stage_esp, execute_copy_plan, unmount_esp, eject::run).
THEOREM InstalledDurable == HostsSpec => []InstalledIsDurable
<1>1. HostsInv => InstalledIsDurable
  BY PipelineSafe, EjectSafe DEF HostsInv
<1> QED
  BY <1>1, HostsInvariant, PTL

\* When init says the stick is ready, every slug of the profile was verified, and all are
\* on the drive it flashed unless another could be taken for it (fetch_and_add_step).
THEOREM DoneComplete == HostsSpec => []DoneMeansComplete
<1>1. HostsInv => DoneMeansComplete
  BY KitDone DEF HostsInv
<1> QED
  BY <1>1, HostsInvariant, PTL

\* What `flash' tells about an image fits what was done with the device (try_run,
\* classify_flash_error).
THEOREM ReportFits == HostsSpec => []FlashReportFits
<1>1. HostsInv => FlashReportFits
  BY DEF HostsInv, DdInv
<1> QED
  BY <1>1, HostsInvariant, PTL

\* What a pipeline or init erases was named or agreed to, and passed the checks that come
\* before (pipeline::run, doctor_preflight, select_drive).
THEOREM ErasesApproved == HostsSpec => ErasesOnlyApproved
<1> DEFINE A == /\ \A d \in Disks : Erased(d) =>
                     /\ d = named /\ d # HostDisk
                     /\ system = "windows" => {"elevation", "bitlocker"} \subseteq receipt /\ ~trait[d].sealed
                     /\ system = "macos" => "preflight" \in receipt /\ trait[d].external /\ trait[d].large
                /\ KitErasesOnlyApproved
<1>1. ASSUME HostsInv, [HostsNext]_hostVars PROVE [A]_hostVars
  BY <1>1, HostsProject, PipelineErases, KitErases DEF HostsInv
<1> QED
  BY <1>1, HostsInvariant, PTL DEF HostsSpec, ErasesOnlyApproved

\* The Linux commands behave among the hosts as they do alone.
LEMMA LifeAlone == HostsSpec => Spec
<1>1. HostsInit => Init
  BY DEF HostsInit, LifeAside
<1>2. [HostsNext]_hostVars => [Next]_vars
  BY HostsProject
<1> QED
  BY <1>1, <1>2, PTL DEF HostsSpec, Spec

\* What is proved of flash, update and rollback on one stick holds beside the other hosts:
\* a boot file or its spare goes only while the other is there, and what the host
\* knows of a stick is true (execute_rotation, execute_rollback, refresh_manifest_after_rotate).
THEOREM HostsKeepSticks ==
    HostsSpec => /\ []RotatedIsVerified /\ []KnownMeansStaged
                 /\ OldBytesSurvive /\ RefreshedManifestTruthful /\ SparedSlotsImplemented
BY LifeAlone, RotatedVerified, KnownStaged, OldBytes, ManifestTruthful, Implements
=============================================================================
