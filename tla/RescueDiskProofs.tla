--------------------------- MODULE RescueDiskProofs ---------------------------
(***************************************************************************)
(* Proofs about what a booted machine does with the stick: the remembered  *)
(* choice (LastChoice), the failure reports (RescueLogs) and the way from  *)
(* /init to the operator's kernel (RescueInit, Handoff), for any ISOs,     *)
(* overrides, clocks, partitions and bounds; and, with the proofs of       *)
(* DataPartitionProofs, the theorems of RescueDisk as a whole.             *)
(***************************************************************************)
EXTENDS RescueDisk, DataPartitionProofs

-----------------------------------------------------------------------------
(* LastChoice *)

InSave(steps) == proc \in {"save"} \X steps
InMigrate(steps) == proc \in {"migrate"} \X steps

(* A choice about to be written is the confirmed one; what a migration     *)
(* carries is the tmpfs file, and once it is renamed it is there twice.    *)
BodyFits ==
  /\ InSave({"tmpfs", "tmp", "rename"}) => body \in Choice /\ body.iso = newest
  /\ InMigrate({"tmp", "rename", "sync"}) => body = tmpfs /\ tmpfs # None
  /\ InMigrate({"sync", "remove"}) => AegisFile = tmpfs

(* The choice to be retried is on tmpfs, or migrated away from there; until *)
(* a save has left the AEGIS_ISOS copy alone again it is on tmpfs.         *)
Retryable ==
  replay # None =>
    /\ tmpfs = replay \/ (tmpfs = None /\ AegisFile = replay)
    /\ InSave({"tmp", "rename", "sync"}) => tmpfs = replay

(* The tmpfs file is whole and of the ISO last confirmed, but while that   *)
(* confirmation is being written. *)
TmpfsIsNewest ==
  ~ tmpfs_failed /\ proc # <<"save", "tmpfs">>
    => tmpfs = None \/ (tmpfs \in Choice /\ tmpfs.iso = newest)

ChoiceInv == ChoiceTypeOK /\ SyncedCopySurvives /\ BodyFits /\ Retryable /\ TmpfsIsNewest

LEMMA ChoiceValues ==
  /\ None \notin Choice /\ Torn \notin Choice /\ None # Torn
  /\ \A c \in Choice : c.iso \in Iso /\ Strip(c) \in Choice /\ Strip(c).iso = c.iso
  /\ \A i \in Iso, o \in Override \cup {None} :
       [iso |-> i, override |-> o] \in Choice
BY LastChoiceAssumption, TornFilesAssumption DEF Choice, Strip

LEMMA ChoiceInitInv == ASSUME ChoiceInit PROVE ChoiceInv
BY DEF ChoiceInit, ChoiceInv, ChoiceTypeOK, Contents, Procs, Off, NoOverrides,
       SyncedCopySurvives, BodyFits, Retryable, TmpfsIsNewest, InSave, InMigrate

(* The start of the TUI, up to the restored choice. *)
LEMMA MigrationInv ==
  ASSUME ChoiceInv, StartTui \/ MigrateStart \/ MigrateRemove \/ Restore
  PROVE ChoiceInv'
<1> USE ChoiceValues DEF ChoiceInv, ChoiceTypeOK, SyncedCopySurvives, BodyFits, Retryable,
        TmpfsIsNewest, InSave, InMigrate, AegisFile, Contents, Procs, Off, Running, files,
        session, history
<1>1. CASE StartTui
  BY <1>1 DEF StartTui, NoOverrides
<1>2. CASE MigrateStart
  BY <1>2 DEF MigrateStart
<1>3. CASE MigrateRemove
  BY <1>3 DEF MigrateRemove
<1>4. CASE Restore
  BY <1>4 DEF Restore, Load, NoOverrides, Choice
<1> QED
  BY <1>1, <1>2, <1>3, <1>4

(* atomic_write, for either caller. *)
LEMMA AtomicWriteInv ==
  ASSUME ChoiceInv, WriteTmp \/ Rename \/ SyncDir \/ WriteFails
  PROVE ChoiceInv'
<1> USE ChoiceValues DEF ChoiceInv, ChoiceTypeOK, SyncedCopySurvives, BodyFits, Retryable,
        TmpfsIsNewest, InSave, InMigrate, AegisFile, Contents, Procs, Off, Running, files,
        session, history
<1>1. CASE WriteTmp
  BY <1>1 DEF WriteTmp
<1>2. CASE Rename
  <2>1. proc = <<"save", "rename">> \/ proc = <<"migrate", "rename">>
    BY <1>2 DEF Rename
  <2>2. proc' = [proc EXCEPT ![2] = "sync"]
    BY <1>2 DEF Rename
  <2>3. \/ proc = <<"save", "rename">> /\ proc' = <<"save", "sync">>
        \/ proc = <<"migrate", "rename">> /\ proc' = <<"migrate", "sync">>
    BY ONLY <2>1, <2>2
  <2>4. ChoiceTypeOK'
    <3>1. {tmpfs', ramdir', stick', body'} \subseteq Contents
      BY <1>2 DEF Rename
    <3>2. flash' \in SUBSET Contents
      BY <1>2 DEF Rename
    <3>3. proc' \in Procs
      BY <2>3
    <3> QED
      BY <1>2, <3>1, <3>2, <3>3 DEF Rename
  <2>5. AegisFile' = body
    BY <1>2 DEF Rename
  <2>6. BodyFits'
    BY <1>2, <2>3, <2>5 DEF Rename
  <2>7. Retryable' /\ TmpfsIsNewest' /\ SyncedCopySurvives'
    BY <1>2, <2>3, <2>5 DEF Rename
  <2> QED
    BY <2>4, <2>6, <2>7
<1>3. CASE SyncDir
  BY <1>3 DEF SyncDir, Return
<1>4. CASE WriteFails
  BY <1>4 DEF WriteFails, Return
<1> QED
  BY <1>1, <1>2, <1>3, <1>4

(* The session, and its end. *)
LEMMA SessionInv ==
  ASSUME ChoiceInv, CommitCmdlineEdit \/ Confirm \/ SaveTmpfs \/ AttemptFails \/ Exit \/ Dies
  PROVE ChoiceInv'
<1> USE ChoiceValues DEF ChoiceInv, ChoiceTypeOK, SyncedCopySurvives, BodyFits, Retryable,
        TmpfsIsNewest, InSave, InMigrate, AegisFile, Contents, Procs, Off, Running, files,
        session, history
<1>1. CASE CommitCmdlineEdit
  BY <1>1 DEF CommitCmdlineEdit
<1>2. CASE Confirm
  BY <1>2 DEF Confirm
<1>3. CASE SaveTmpfs
  BY <1>3 DEF SaveTmpfs
<1>4. CASE AttemptFails
  BY <1>4 DEF AttemptFails
<1>5. CASE Exit
  BY <1>5 DEF Exit
<1>6. CASE Dies
  BY <1>6 DEF Dies
<1> QED
  BY <1>1, <1>2, <1>3, <1>4, <1>5, <1>6

LEMMA MachineInv ==
  ASSUME ChoiceInv, WriteBack \/ MountLate \/ Reboot
  PROVE ChoiceInv'
<1> USE ChoiceValues DEF ChoiceInv, ChoiceTypeOK, SyncedCopySurvives, BodyFits, Retryable,
        TmpfsIsNewest, InSave, InMigrate, AegisFile, Contents, Procs, Off, Running, files,
        session, history
<1>1. CASE WriteBack
  BY <1>1 DEF WriteBack
<1>2. CASE MountLate
  BY <1>2 DEF MountLate
<1>3. CASE Reboot
  BY <1>3 DEF Reboot, NoOverrides
<1> QED
  BY <1>1, <1>2, <1>3

LEMMA ChoiceStepInv == ASSUME ChoiceInv, ChoiceNext PROVE ChoiceInv'
BY MigrationInv, AtomicWriteInv, SessionInv, MachineInv DEF ChoiceNext

LEMMA ChoiceRestInv == ASSUME ChoiceInv, UNCHANGED choiceVars PROVE ChoiceInv'
BY DEF choiceVars, files, session, history, ChoiceInv, ChoiceTypeOK, SyncedCopySurvives,
       BodyFits, Retryable, TmpfsIsNewest, InSave, InMigrate, AegisFile

LEMMA ChoiceIsFresh ==
  ASSUME ChoiceInv
  PROVE /\ Restore /\ replay # None => restored' = replay
        /\ Rename /\ ~ tmpfs_failed => body \in Choice /\ body.iso = newest
<1> USE ChoiceValues DEF ChoiceInv, ChoiceTypeOK, BodyFits, Retryable, TmpfsIsNewest, InSave,
        InMigrate, Procs, Off, Running
<1>1. Restore /\ replay # None => restored' = replay
  BY DEF Restore, Load
<1>2. Rename /\ ~ tmpfs_failed => body \in Choice /\ body.iso = newest
  BY DEF Rename
<1> QED
  BY <1>1, <1>2
-----------------------------------------------------------------------------
(* RescueLogs *)

(* The names there are in a directory, or that a power cut may bring back, *)
(* have been recorded; one more record of such a name is a second one.     *)
NamesRecorded ==
  /\ repeated \in [ReportName -> 0 .. 2]
  /\ \A n \in Names(spool) \cup Names(aegis) \cup unsynced : repeated[n] # 0
  /\ doing \in {"write", "fallback"} =>
       /\ report \in ReportName /\ repeated[report] # 0
       /\ report \in Names(spool) \cup Whole(aegis) => repeated[report] = 2

(* What is torn on the spool is whole under AEGIS_ISOS only when two       *)
(* failures share the name, and what a migration has still to move is on   *)
(* the spool. *)
SpoolFits ==
  /\ \A n \in ReportName : spool[n] = Torn /\ aegis[n] = "whole" => repeated[n] = 2
  /\ moving \subseteq Names(spool)
  /\ doing = "copied" =>
       report \in ReportName \ moving /\ aegis[report] = spool[report]

NotOlder(dir, n) == {m \in dir : m[1] >= n[1]}

(* A doomed report has MaxRetained others to make way for. *)
DoomedHaveHeirs ==
  /\ IsFiniteSet(Names(aegis)) /\ IsFiniteSet(unsynced)
  /\ doing = "rotate" =>
       \A n \in doomed : Cardinality(NotOlder(Names(aegis) \ doomed, n)) >= MaxRetained

LogInv == LogTypeOK /\ NamesRecorded /\ SpoolFits /\ DoomedHaveHeirs

LEMMA LogValues == None # Torn /\ "whole" # None /\ "whole" # Torn
BY RescueLogsAssumption, TornFilesAssumption

LEMMA LogInitInv == ASSUME LogInit PROVE LogInv
<1>1. Names(spool) = {} /\ Names(aegis) = {}
  BY DEF LogInit, NoReports, Names
<1>2. LogTypeOK
  BY DEF LogInit, LogTypeOK, NoReports
<1>3. NamesRecorded
  BY <1>1 DEF LogInit, NamesRecorded
<1>4. SpoolFits
  BY <1>1, LogValues DEF LogInit, SpoolFits, NoReports
<1>5. DoomedHaveHeirs
  BY <1>1, FS_EmptySet DEF LogInit, DoomedHaveHeirs
<1> QED
  BY <1>2, <1>3, <1>4, <1>5 DEF LogInv

LEMMA OneMoreIsFinite ==
  ASSUME NEW S, IsFiniteSet(S), NEW x, NEW T, T \subseteq S \cup {x}
  PROVE IsFiniteSet(T)
BY FS_AddElement, FS_Subset

(* A step that leaves the names in a directory alone, but for one. *)
LEMMA NamesGrow ==
  ASSUME NEW dir, NEW new, NEW x \in ReportName, dir \in [ReportName -> {"whole", Torn, None}],
         \A n \in ReportName \ {x} : new[n] = dir[n]
  PROVE Names(new) \subseteq Names(dir) \cup {x} /\ Whole(new) \subseteq Whole(dir) \cup {x}
BY DEF Names, Whole

LEMMA RecordFailureInv == ASSUME LogInv, RecordFailure PROVE LogInv'
<1> USE DEF RecordFailure, LogInv
<1>1. LogTypeOK'
  BY DEF LogTypeOK
<1>2. UNCHANGED <<Names(spool), Names(aegis), Whole(aegis), unsynced>>
  BY DEF Names, Whole
<1>3. NamesRecorded'
  <2>1. repeated' = [repeated EXCEPT ![report'] = IF @ = 2 THEN 2 ELSE @ + 1]
    OBVIOUS
  <2>2. /\ repeated' \in [ReportName -> 0 .. 2] /\ repeated'[report'] # 0
        /\ \A n \in ReportName : repeated[n] # 0 => repeated'[n] # 0
        /\ repeated[report'] # 0 => repeated'[report'] = 2
    BY <2>1 DEF NamesRecorded
  <2>3. Names(spool) \cup Names(aegis) \cup unsynced \subseteq ReportName
    BY DEF Names, LogTypeOK
  <2>4. Whole(aegis) \subseteq Names(aegis)
    BY LogValues DEF Whole, Names
  <2> QED
    BY <1>2, <2>2, <2>3, <2>4 DEF NamesRecorded
<1>4. SpoolFits'
  <2>1. repeated' = [repeated EXCEPT ![report'] = IF @ = 2 THEN 2 ELSE @ + 1]
    OBVIOUS
  <2>2. \A n \in ReportName : repeated[n] = 2 => repeated'[n] = 2
    BY <2>1 DEF NamesRecorded
  <2> QED
    BY <1>2, <2>2 DEF SpoolFits
<1>5. DoomedHaveHeirs'
  BY <1>2 DEF DoomedHaveHeirs
<1> QED
  BY <1>1, <1>3, <1>4, <1>5

(* The write of a new report. *)
LEMMA WriteReportInv ==
  ASSUME LogInv, WriteReport \/ WriteReportFails PROVE LogInv'
<1> USE LogValues DEF LogInv
<1>1. report \in ReportName /\ repeated[report] # 0 /\ doing = "write"
  BY DEF WriteReport, WriteReportFails, NamesRecorded
<1>2. /\ \A n \in ReportName \ {report} : aegis'[n] = aegis[n]
      /\ aegis' \in [ReportName -> {"whole", Torn, None}]
      /\ spool' = spool /\ repeated' = repeated /\ report' = report
      /\ unsynced' \subseteq unsynced \cup {report}
      /\ doing' \in {"migrate", "fallback"} /\ moving' \in {moving, Names(spool)}
      /\ doing' = "fallback" => aegis'[report] \in {aegis[report], Torn}
  BY <1>1 DEF WriteReport, WriteReportFails, LogTypeOK
<1>3. Names(aegis') \subseteq Names(aegis) \cup {report} /\ Whole(aegis') \subseteq Whole(aegis) \cup {report}
  BY <1>1, <1>2, NamesGrow DEF LogTypeOK
<1>4. LogTypeOK'
  BY <1>1, <1>2 DEF WriteReport, WriteReportFails, LogTypeOK, Names
<1>5. NamesRecorded'
  <2>1. Names(aegis)' \cup unsynced' \subseteq Names(aegis) \cup unsynced \cup {report}
    BY <1>2, <1>3
  <2>2. doing' = "fallback" => (report \in Whole(aegis') => report \in Whole(aegis))
    BY <1>2 DEF Whole
  <2> QED
    BY <1>1, <1>2, <2>1, <2>2 DEF NamesRecorded
<1>6. SpoolFits'
  <2>1. \A n \in ReportName : spool'[n] = Torn /\ aegis'[n] = "whole" => repeated'[n] = 2
    BY <1>1, <1>2 DEF SpoolFits, NamesRecorded, Names
  <2> QED
    BY <1>2, <2>1 DEF SpoolFits
<1>7. DoomedHaveHeirs'
  BY <1>2, <1>3, OneMoreIsFinite DEF DoomedHaveHeirs
<1> QED
  BY <1>4, <1>5, <1>6, <1>7

LEMMA SpoolReportInv == ASSUME LogInv, SpoolReport PROVE LogInv'
<1> USE LogValues DEF LogInv
<1>1. report \in ReportName /\ repeated[report] # 0 /\ doing = "fallback"
  BY DEF SpoolReport, NamesRecorded
<1>2. /\ \A n \in ReportName \ {report} : spool'[n] = spool[n]
      /\ spool' \in [ReportName -> {"whole", Torn, None}]
      /\ UNCHANGED <<aegis, repeated, report, unsynced, doomed>>
      /\ doing' = "migrate" /\ moving' = Names(spool')
  BY <1>1 DEF SpoolReport, LogTypeOK
<1>3. Names(spool') \subseteq Names(spool) \cup {report}
  BY <1>1, <1>2, NamesGrow DEF LogTypeOK
<1>4. LogTypeOK'
  BY <1>2 DEF SpoolReport, LogTypeOK, Names
<1>5. NamesRecorded'
  BY <1>1, <1>2, <1>3 DEF NamesRecorded
<1>6. SpoolFits'
  BY <1>1, <1>2 DEF SpoolFits, NamesRecorded, Whole
<1>7. DoomedHaveHeirs'
  BY <1>2 DEF DoomedHaveHeirs
<1> QED
  BY <1>4, <1>5, <1>6, <1>7
(* The migration of one report. *)
LEMMA CopyReportInv ==
  ASSUME LogInv, CopyReport \/ CopyReportFails PROVE LogInv'
<1> USE LogValues DEF LogInv
<1>1. PICK n \in moving :
        /\ moving' = moving \ {n}
        /\ \A m \in ReportName \ {n} : aegis'[m] = aegis[m]
        /\ aegis' \in [ReportName -> {"whole", Torn, None}]
        /\ unsynced' \subseteq unsynced \cup {n}
        /\ aegis'[n] \in {spool[n], aegis[n], Torn}
        /\ doing' = "copied" => report' = n /\ aegis'[n] = spool[n]
        /\ doing' \in {"copied", "migrate"} /\ report' \in {report, n}
  <2>1. CASE CopyReport
    BY <2>1 DEF CopyReport, LogTypeOK
  <2>2. CASE CopyReportFails
    <3>1. PICK n \in moving : aegis' \in {aegis, [aegis EXCEPT ![n] = Torn]} /\ moving' = moving \ {n}
      BY <2>2 DEF CopyReportFails
    <3>2. n \in ReportName
      BY DEF LogTypeOK
    <3>3. aegis' \in [ReportName -> {"whole", Torn, None}]
          /\ \A m \in ReportName \ {n} : aegis'[m] = aegis[m]
      BY <3>1, <3>2 DEF LogTypeOK
    <3>4. unsynced' \subseteq unsynced \cup {n}
      BY <2>2, <3>3 DEF CopyReportFails, LogTypeOK
    <3> QED
      BY <2>2, <3>1, <3>2, <3>3, <3>4 DEF CopyReportFails, LogTypeOK
  <2> QED
    BY <2>1, <2>2
<1>2. /\ n \in ReportName /\ n \in Names(spool) /\ repeated[n] # 0
      /\ doing = "migrate" /\ UNCHANGED <<spool, repeated, doomed, reports, onStick>>
  BY DEF CopyReport, CopyReportFails, SpoolFits, NamesRecorded, Names
<1>3. Names(aegis') \subseteq Names(aegis) \cup {n}
  BY <1>1, <1>2, NamesGrow DEF LogTypeOK
<1>4. LogTypeOK'
  BY <1>1, <1>2 DEF LogTypeOK
<1>5. NamesRecorded'
  BY <1>1, <1>2, <1>3 DEF NamesRecorded
<1>6. SpoolFits'
  <2>1. \A m \in ReportName : spool'[m] = Torn /\ aegis'[m] = "whole" => repeated'[m] = 2
    BY <1>1, <1>2 DEF SpoolFits
  <2>2. moving' \subseteq Names(spool') /\ n \notin moving'
    BY <1>1, <1>2 DEF SpoolFits
  <2> QED
    BY <1>1, <1>2, <2>1, <2>2 DEF SpoolFits
<1>7. DoomedHaveHeirs'
  BY <1>1, <1>3, OneMoreIsFinite DEF DoomedHaveHeirs
<1> QED
  BY <1>4, <1>5, <1>6, <1>7

LEMMA RemoveSpooledInv == ASSUME LogInv, RemoveSpooled PROVE LogInv'
<1> USE LogValues DEF LogInv
<1>1. /\ report \in ReportName \ moving /\ doing' = "migrate"
      /\ spool' \in {spool, [spool EXCEPT ![report] = None]}
      /\ UNCHANGED <<unsynced, aegis, onStick, report, moving, doomed, reports, repeated>>
  BY DEF RemoveSpooled, SpoolFits
<1>2. /\ spool' \in [ReportName -> {"whole", Torn, None}]
      /\ \A n \in ReportName \ {report} : spool'[n] = spool[n]
      /\ spool'[report] \in {spool[report], None}
  BY <1>1 DEF LogTypeOK
<1>3. Names(spool') \subseteq Names(spool) /\ moving \subseteq Names(spool')
  BY <1>1, <1>2 DEF Names, SpoolFits
<1>4. LogTypeOK'
  BY <1>1, <1>2 DEF LogTypeOK
<1>5. NamesRecorded'
  BY <1>1, <1>3 DEF NamesRecorded
<1>6. SpoolFits'
  BY <1>1, <1>2, <1>3 DEF SpoolFits
<1>7. DoomedHaveHeirs'
  BY <1>1 DEF DoomedHaveHeirs
<1> QED
  BY <1>4, <1>5, <1>6, <1>7

(* Taking a part away leaves the difference. *)
LEMMA CardinalityOfRest ==
  ASSUME NEW S, IsFiniteSet(S), NEW T \in SUBSET S
  PROVE Cardinality(S \ T) = Cardinality(S) - Cardinality(T)
<1>1. IsFiniteSet(T) /\ IsFiniteSet(S \ T)
  BY FS_Subset
<1>2. (S \ T) \cup T = S /\ (S \ T) \cap T = {}
  OBVIOUS
<1>3. Cardinality(S) = Cardinality(S \ T) + Cardinality(T) - Cardinality({})
  BY <1>1, <1>2, FS_Union
<1>4. Cardinality({}) = 0
  BY FS_EmptySet
<1>5. Cardinality(S) \in Nat /\ Cardinality(T) \in Nat /\ Cardinality(S \ T) \in Nat
  BY <1>1, FS_CardinalityType
<1> QED
  BY <1>3, <1>4, <1>5

(* Rotation dooms the oldest, and leaves exactly MaxRetained others. *)
LEMMA StartRotationInv == ASSUME LogInv, StartRotation PROVE LogInv'
<1> USE DEF LogInv
<1>1. PICK d \in SUBSET Names(aegis) :
        /\ Cardinality(d) = IF Cardinality(Names(aegis)) > MaxRetained
                            THEN Cardinality(Names(aegis)) - MaxRetained ELSE 0
        /\ \A n \in d : \A m \in Names(aegis) \ d : n[1] <= m[1]
        /\ doomed' = d
  BY DEF StartRotation
<1>2. /\ UNCHANGED <<unsynced, spool, aegis, onStick, report, moving, reports, repeated>>
      /\ doing' = "rotate"
  BY DEF StartRotation
<1>3. LogTypeOK'
  BY <1>1, <1>2 DEF LogTypeOK, Names
<1>4. NamesRecorded' /\ SpoolFits'
  BY <1>2 DEF NamesRecorded, SpoolFits
<1>5. ASSUME NEW n \in d
      PROVE Cardinality(NotOlder(Names(aegis) \ d, n)) >= MaxRetained
  <2>1. IsFiniteSet(Names(aegis)) /\ IsFiniteSet(d)
    BY FS_Subset DEF DoomedHaveHeirs
  <2>2. Cardinality(d) # 0
    BY <2>1, FS_EmptySet
  <2>3. Cardinality(Names(aegis) \ d) = Cardinality(Names(aegis)) - Cardinality(d)
    BY <2>1, CardinalityOfRest
  <2>4. Cardinality(Names(aegis)) \in Nat /\ MaxRetained \in Nat
    BY <2>1, FS_CardinalityType, RescueLogsAssumption
  <2>5. Cardinality(Names(aegis) \ d) = MaxRetained
    BY <1>1, <2>2, <2>3, <2>4
  <2>6. \A m \in Names(aegis) : m[1] \in Nat
    BY RescueLogsAssumption DEF Names, ReportName
  <2>7. \A m \in Names(aegis) \ d : m[1] >= n[1]
    BY <1>1, <2>6
  <2>8. NotOlder(Names(aegis) \ d, n) = Names(aegis) \ d
    BY <2>7 DEF NotOlder
  <2> QED
    BY <2>4, <2>5, <2>8
<1>6. DoomedHaveHeirs'
  BY <1>1, <1>2, <1>5 DEF DoomedHaveHeirs
<1> QED
  BY <1>3, <1>4, <1>6

LEMMA DeleteOldestInv == ASSUME LogInv, DeleteOldest PROVE LogInv'
<1> USE LogValues DEF LogInv
<1>1. PICK n \in doomed :
        doomed' = doomed \ {n} /\ aegis' \in {aegis, [aegis EXCEPT ![n] = None]}
  BY DEF DeleteOldest
<1>2. /\ UNCHANGED <<unsynced, spool, onStick, doing, report, moving, reports, repeated>>
      /\ doing = "rotate" /\ n \in ReportName
  BY DEF DeleteOldest, LogTypeOK
<1>3. /\ aegis' \in [ReportName -> {"whole", Torn, None}]
      /\ \A m \in ReportName : aegis'[m] \in {aegis[m], None}
      /\ \A m \in ReportName \ {n} : aegis'[m] = aegis[m]
  BY <1>1, <1>2 DEF LogTypeOK
<1>4. Names(aegis') \subseteq Names(aegis) /\ Names(aegis) \ doomed \subseteq Names(aegis') \ doomed'
  BY <1>1, <1>3 DEF Names
<1>5. LogTypeOK'
  BY <1>1, <1>2, <1>3 DEF LogTypeOK
<1>6. NamesRecorded'
  BY <1>2, <1>4 DEF NamesRecorded
<1>7. SpoolFits'
  BY <1>2, <1>3 DEF SpoolFits
<1>8. DoomedHaveHeirs'
  <2>1. IsFiniteSet(Names(aegis')) /\ IsFiniteSet(Names(aegis') \ doomed')
    BY <1>4, FS_Subset DEF DoomedHaveHeirs
  <2>2. ASSUME NEW m \in doomed'
        PROVE Cardinality(NotOlder(Names(aegis') \ doomed', m)) >= MaxRetained
    <3>1. NotOlder(Names(aegis) \ doomed, m) \subseteq NotOlder(Names(aegis') \ doomed', m)
      BY <1>4 DEF NotOlder
    <3>2. IsFiniteSet(NotOlder(Names(aegis') \ doomed', m))
      BY <2>1, FS_Subset DEF NotOlder
    <3>3. Cardinality(NotOlder(Names(aegis) \ doomed, m)) <= Cardinality(NotOlder(Names(aegis') \ doomed', m))
      BY <3>1, <3>2, FS_Subset
    <3>4. /\ Cardinality(NotOlder(Names(aegis) \ doomed, m)) \in Nat
          /\ Cardinality(NotOlder(Names(aegis') \ doomed', m)) \in Nat
      BY <3>1, <3>2, FS_Subset, FS_CardinalityType
    <3>5. Cardinality(NotOlder(Names(aegis) \ doomed, m)) >= MaxRetained
      BY <1>1, <1>2 DEF DoomedHaveHeirs
    <3> QED
      BY <3>3, <3>4, <3>5, RescueLogsAssumption
  <2> QED
    BY <1>2, <2>1, <2>2 DEF DoomedHaveHeirs
<1> QED
  BY <1>5, <1>6, <1>7, <1>8
LEMMA RecordEndsInv == ASSUME LogInv, RecordEnds \/ KernelWritesBack PROVE LogInv'
<1>1. CASE RecordEnds
  BY <1>1 DEF RecordEnds, LogInv, LogTypeOK, NamesRecorded, SpoolFits, DoomedHaveHeirs, Names, Whole
<1>2. CASE KernelWritesBack
  BY <1>2, FS_EmptySet DEF KernelWritesBack, LogInv, LogTypeOK, NamesRecorded, SpoolFits,
     DoomedHaveHeirs, Names, Whole
<1> QED
  BY <1>1, <1>2

LEMMA RecorderDiesInv == ASSUME LogInv, RecorderDies PROVE LogInv'
<1> USE LogValues DEF LogInv
<1>1. /\ doing' = "idle" /\ report' = None /\ moving' = {} /\ doomed' = {}
      /\ UNCHANGED <<onStick, reports, repeated>>
  BY DEF RecorderDies, NoWork
<1>2. CASE UNCHANGED <<spool, aegis, unsynced>>
  BY <1>1, <1>2 DEF LogTypeOK, NamesRecorded, SpoolFits, DoomedHaveHeirs, Names, Whole
<1>3. CASE doing = "fallback" /\ spool' = [spool EXCEPT ![report] = Torn] /\ UNCHANGED <<aegis, unsynced>>
  <2>1. /\ report \in ReportName /\ repeated[report] # 0
        /\ report \in Whole(aegis) => repeated[report] = 2
    BY <1>3 DEF NamesRecorded
  <2>2. /\ spool' \in [ReportName -> {"whole", Torn, None}] /\ spool'[report] = Torn
        /\ \A n \in ReportName \ {report} : spool'[n] = spool[n]
    BY <1>3, <2>1 DEF LogTypeOK
  <2>3. Names(spool') \subseteq Names(spool) \cup {report}
    BY <2>1, <2>2, NamesGrow DEF LogTypeOK
  <2>4. LogTypeOK'
    BY <1>1, <1>3, <2>2 DEF LogTypeOK
  <2>5. NamesRecorded'
    BY <1>1, <1>3, <2>1, <2>3 DEF NamesRecorded
  <2>6. SpoolFits'
    BY <1>1, <1>3, <2>1, <2>2 DEF SpoolFits, Whole
  <2> QED
    BY <1>1, <1>3, <2>4, <2>5, <2>6 DEF DoomedHaveHeirs
<1>4. ASSUME NEW n \in IF doing = "write" THEN {report} ELSE IF doing = "migrate" THEN moving ELSE {},
             aegis' = [aegis EXCEPT ![n] = Torn], unsynced' = unsynced \cup {n}, spool' = spool
      PROVE LogInv'
  <2>1. n \in ReportName /\ repeated[n] # 0
    BY <1>4 DEF NamesRecorded, SpoolFits, Names
  <2>2. /\ aegis' \in [ReportName -> {"whole", Torn, None}] /\ aegis'[n] = Torn
        /\ \A m \in ReportName \ {n} : aegis'[m] = aegis[m]
    BY <1>4, <2>1 DEF LogTypeOK
  <2>3. Names(aegis') \subseteq Names(aegis) \cup {n}
    BY <2>1, <2>2, NamesGrow DEF LogTypeOK
  <2>4. LogTypeOK'
    BY <1>1, <1>4, <2>1, <2>2 DEF LogTypeOK
  <2>5. NamesRecorded'
    BY <1>1, <1>4, <2>1, <2>3 DEF NamesRecorded
  <2>6. SpoolFits'
    BY <1>1, <1>4, <2>1, <2>2 DEF SpoolFits
  <2>7. IsFiniteSet(Names(aegis')) /\ IsFiniteSet(unsynced')
    BY <1>4, <2>3, OneMoreIsFinite DEF DoomedHaveHeirs
  <2> QED
    BY <1>1, <2>4, <2>5, <2>6, <2>7 DEF DoomedHaveHeirs
<1> QED
  BY <1>2, <1>3, <1>4 DEF RecorderDies

LEMMA PowerCycleInv == ASSUME LogInv, PowerCycle PROVE LogInv'
<1> USE LogValues DEF LogInv
<1>1. /\ doing' = "idle" /\ report' = None /\ moving' = {} /\ doomed' = {}
      /\ spool' = NoReports /\ unsynced' = {}
      /\ UNCHANGED <<onStick, reports, repeated>>
  BY DEF PowerCycle, NoWork
<1>2. PICK lost \in SUBSET unsynced :
        aegis' = IF onStick THEN [n \in ReportName |-> IF n \in lost THEN Torn ELSE aegis[n]]
                 ELSE NoReports
  BY DEF PowerCycle
<1>3. /\ aegis' \in [ReportName -> {"whole", Torn, None}]
      /\ Names(aegis') \subseteq Names(aegis) \cup unsynced
      /\ Names(spool') = {}
  BY <1>1, <1>2 DEF LogTypeOK, Names, NoReports
<1>4. LogTypeOK'
  BY <1>1, <1>3 DEF LogTypeOK, NoReports
<1>5. NamesRecorded'
  BY <1>1, <1>3 DEF NamesRecorded
<1>6. SpoolFits'
  BY <1>1 DEF SpoolFits, NoReports
<1>7. IsFiniteSet(Names(aegis')) /\ IsFiniteSet(unsynced')
  BY <1>1, <1>3, FS_Union, FS_Subset, FS_EmptySet DEF DoomedHaveHeirs
<1> QED
  BY <1>1, <1>4, <1>5, <1>6, <1>7 DEF DoomedHaveHeirs

LEMMA LogStepInv == ASSUME LogInv, LogNext PROVE LogInv'
BY RecordFailureInv, WriteReportInv, SpoolReportInv, CopyReportInv, RemoveSpooledInv,
   StartRotationInv, DeleteOldestInv, RecordEndsInv, RecorderDiesInv, PowerCycleInv DEF LogNext

LEMMA LogRestInv == ASSUME LogInv, UNCHANGED logVars PROVE LogInv'
BY DEF logVars, LogInv, LogTypeOK, NamesRecorded, SpoolFits, DoomedHaveHeirs, Names, Whole

(* What becomes of a whole report, action by action. *)
LEMMA WholeStaysWhole ==
  ASSUME LogInv, LogNext, NEW n \in Whole(spool) \cup Whole(aegis)
  PROVE Kept(n)
<1> USE LogValues DEF LogInv
<1>0. n \in ReportName /\ repeated[n] # 0
  BY DEF Whole, Names, NamesRecorded
<1>1. CASE RecordFailure \/ StartRotation \/ RecordEnds \/ KernelWritesBack
  BY <1>1 DEF RecordFailure, StartRotation, RecordEnds, KernelWritesBack, Kept, Whole
<1>2. CASE WriteReport \/ WriteReportFails \/ SpoolReport
  <2>1. /\ report \in ReportName
        /\ report \in Whole(spool) \cup Whole(aegis) => repeated[report] = 2
    BY <1>2 DEF WriteReport, WriteReportFails, SpoolReport, NamesRecorded, Names, Whole
  <2>2. CASE n = report
    BY <2>1, <2>2 DEF Kept
  <2>3. CASE n # report
    <3>1. spool'[n] = spool[n] /\ aegis'[n] = aegis[n]
      BY <1>0, <1>2, <2>1, <2>3 DEF WriteReport, WriteReportFails, SpoolReport, LogTypeOK
    <3> QED
      BY <1>0, <3>1 DEF Kept, Whole
  <2> QED
    BY <2>2, <2>3
<1>3. CASE CopyReport \/ CopyReportFails
  <2>1. spool' = spool /\ (aegis'[n] # aegis[n] => n \in Names(spool))
    BY <1>0, <1>3 DEF CopyReport, CopyReportFails, LogTypeOK, SpoolFits
  <2>2. n \in Names(spool) => spool[n] = "whole" \/ repeated[n] = 2
    BY <1>0 DEF Names, Whole, LogTypeOK, SpoolFits
  <2> QED
    BY <1>0, <2>1, <2>2 DEF Kept, Whole
<1>4. CASE RemoveSpooled
  <2>1. aegis' = aegis /\ (spool'[n] # spool[n] => n = report)
    BY <1>0, <1>4 DEF RemoveSpooled, LogTypeOK, SpoolFits
  <2>2. aegis[report] = spool[report]
    BY <1>4 DEF RemoveSpooled, SpoolFits
  <2> QED
    BY <1>0, <2>1, <2>2 DEF Kept, Whole
<1>5. CASE DeleteOldest
  <2>1. PICK x \in doomed :
          doomed' = doomed \ {x} /\ aegis' \in {aegis, [aegis EXCEPT ![x] = None]}
    BY <1>5 DEF DeleteOldest
  <2>2. spool' = spool /\ doing = "rotate"
    BY <1>5 DEF DeleteOldest
  <2>3. CASE aegis'[n] = aegis[n]
    BY <1>0, <2>2, <2>3 DEF Kept, Whole
  <2>4. CASE aegis'[n] # aegis[n]
    <3>1. n = x
      BY <1>0, <2>1, <2>4 DEF LogTypeOK
    <3>2. NotOlder(Names(aegis) \ doomed, n) \subseteq NotOlder(Names(aegis'), n)
      BY <2>1, <3>1 DEF NotOlder, Names, LogTypeOK
    <3>3. Names(aegis') \subseteq Names(aegis)
      BY <2>1 DEF Names, LogTypeOK
    <3>4. IsFiniteSet(NotOlder(Names(aegis'), n))
      BY <3>3, FS_Subset DEF NotOlder, DoomedHaveHeirs
    <3>5. Cardinality(NotOlder(Names(aegis) \ doomed, n)) <= Cardinality(NotOlder(Names(aegis'), n))
      BY <3>2, <3>4, FS_Subset
    <3>6. /\ Cardinality(NotOlder(Names(aegis) \ doomed, n)) \in Nat
          /\ Cardinality(NotOlder(Names(aegis'), n)) \in Nat
      BY <3>2, <3>4, FS_Subset, FS_CardinalityType
    <3>7. Cardinality(NotOlder(Names(aegis) \ doomed, n)) >= MaxRetained
      BY <2>1, <2>2, <3>1 DEF DoomedHaveHeirs
    <3>8. Cardinality(NotOlder(Names(aegis'), n)) >= MaxRetained
      BY <3>5, <3>6, <3>7, RescueLogsAssumption
    <3> QED
      BY <3>8 DEF Kept, NotOlder
  <2> QED
    BY <2>3, <2>4
<1>6. CASE RecorderDies
  <2>1. CASE UNCHANGED <<spool, aegis, unsynced>>
    BY <1>0, <2>1 DEF Kept, Whole
  <2>2. CASE doing = "fallback" /\ spool' = [spool EXCEPT ![report] = Torn] /\ UNCHANGED <<aegis, unsynced>>
    BY <1>0, <2>2 DEF Kept, Whole, NamesRecorded, Names, LogTypeOK
  <2>3. ASSUME NEW x \in IF doing = "write" THEN {report} ELSE IF doing = "migrate" THEN moving ELSE {},
               aegis' = [aegis EXCEPT ![x] = Torn], spool' = spool
        PROVE Kept(n)
    <3>1. CASE n # x
      BY <1>0, <2>3, <3>1 DEF Kept, Whole, LogTypeOK
    <3>2. CASE n = x
      BY <1>0, <2>3, <3>2 DEF Kept, Whole, Names, LogTypeOK, NamesRecorded, SpoolFits
    <3> QED
      BY <3>1, <3>2
  <2> QED
    BY <1>6, <2>1, <2>2, <2>3 DEF RecorderDies
<1>7. CASE PowerCycle
  <2>1. onStick /\ n \in Whole(aegis) /\ n \notin unsynced => n \in Whole(aegis')
    BY <1>0, <1>7 DEF PowerCycle, Whole
  <2> QED
    BY <1>7, <2>1 DEF Kept
<1> QED
  BY <1>1, <1>2, <1>3, <1>4, <1>5, <1>6, <1>7 DEF LogNext

-----------------------------------------------------------------------------
(* RescueInit *)

LabelledFs == {"exfat", "ext4", "vfat"}

(* Only AEGIS_DEV is ever mounted on the main mount point, and what the    *)
(* script has passed by is mounted if it could be. *)
InitInv ==
  /\ InitTypeOK
  /\ inTime \subseteq nodes
  /\ \A p \in Partition : mountedAs[p] = "main" => p = aegis_dev
  /\ initStep \in {"dev", "disks"} => spec = 1 /\ \A p \in Partition : mountedAs[p] = None
  /\ initStep \in {"dev", "disks"} => aegis_dev = None
  /\ initStep = "mount" =>
       /\ aegis_dev # None /\ spec <= 4 /\ mountedAs[aegis_dev] # "own"
       /\ \A j \in 1 .. spec - 1 :
            FileSystem[aegis_dev] = MountSpecs[j] => mountedAs[aegis_dev] = "main"
  /\ initStep \in {"others", "log", "tui"} /\ aegis_dev # None =>
       (FileSystem[aegis_dev] \in LabelledFs => mountedAs[aegis_dev] = "main")
  /\ initStep \in {"log", "tui"} =>
       \A p \in inTime \ {aegis_dev} : FileSystem[p] # "unknown" => mountedAs[p] = "own"

LEMMA SpecsTried ==
  /\ Len(MountSpecs) = 4
  /\ \A x \in LabelledFs : \E j \in 1 .. 4 : x = MountSpecs[j]
<1>1. /\ Len(MountSpecs) = 4 /\ MountSpecs[1] = "exfat" /\ MountSpecs[2] = "ext4"
      /\ MountSpecs[3] = "vfat" /\ MountSpecs[4] = "vfat"
  BY DEF MountSpecs
<1> QED
  BY <1>1 DEF LabelledFs

LEMMA PartitionValues ==
  /\ None \notin Partition /\ None # "main" /\ None # "own" /\ Labelled \subseteq Partition
BY RescueInitAssumption

LEMMA InitInitInv == ASSUME InitInit PROVE InitInv
<1>1. InitTypeOK
  <2>1. mountedAs \in [Partition -> {"main", "own", None}]
    BY DEF InitInit
  <2>2. spec \in 1 .. Len(MountSpecs) + 1
    BY SpecsTried DEF InitInit
  <2> QED
    BY <2>1, <2>2 DEF InitInit, InitTypeOK
<1> QED
  BY <1>1, PartitionValues DEF InitInit, InitInv

LEMMA InitStepInv == ASSUME InitInv, InitNext PROVE InitInv'
<1> USE PartitionValues, SpecsTried DEF InitInv
<1>1. CASE MountDev
  BY <1>1 DEF MountDev, InitTypeOK
<1>2. CASE DiskAppears
  BY <1>2 DEF DiskAppears, InitTypeOK
<1>3. CASE ResolveLabel
  BY <1>3 DEF ResolveLabel, InitTypeOK
<1>4. CASE MountMain
  <2>1. /\ aegis_dev \in Partition /\ mountedAs[aegis_dev] \in {"main", "own", None}
        /\ spec \in 1 .. 4 /\ spec' = spec + 1
    BY <1>4 DEF MountMain, InitTypeOK
  <2>2. /\ mountedAs' \in {mountedAs, [mountedAs EXCEPT ![aegis_dev] = "main"]}
        /\ FileSystem[aegis_dev] = MountSpecs[spec] /\ mountedAs[aegis_dev] = None
             => mountedAs' = [mountedAs EXCEPT ![aegis_dev] = "main"]
        /\ mount_ok' => mountedAs' = [mountedAs EXCEPT ![aegis_dev] = "main"]
        /\ mount_ok' \in BOOLEAN /\ initStep' = IF mount_ok' \/ spec = 4 THEN "others" ELSE "mount"
        /\ UNCHANGED <<devices, nodes, aegis_dev, initLog, inTime>>
    BY <1>4 DEF MountMain
  <2>3. /\ mountedAs' \in [Partition -> {"main", "own", None}]
        /\ \A p \in Partition : mountedAs'[p] = "main" => p = aegis_dev
        /\ mountedAs[aegis_dev] = "main" => mountedAs'[aegis_dev] = "main"
        /\ mountedAs' = [mountedAs EXCEPT ![aegis_dev] = "main"] => mountedAs'[aegis_dev] = "main"
    BY <2>1, <2>2 DEF InitTypeOK
  <2>4. InitTypeOK'
    BY <2>1, <2>2, <2>3 DEF InitTypeOK
  <2>5. ASSUME NEW j \in 1 .. spec, FileSystem[aegis_dev] = MountSpecs[j]
        PROVE mountedAs'[aegis_dev] = "main"
    <3>1. CASE j < spec
      BY <1>4, <2>1, <2>3, <2>5, <3>1 DEF MountMain
    <3>2. CASE j = spec
      BY <1>4, <2>1, <2>2, <2>3, <2>5, <3>2 DEF MountMain, InitTypeOK
    <3> QED
      BY <2>1, <3>1, <3>2
  <2>6. initStep' = "others" => (FileSystem[aegis_dev] \in LabelledFs => mountedAs'[aegis_dev] = "main")
    BY <2>1, <2>2, <2>3, <2>5
  <2>7. initStep' = "mount" => spec' <= 4 /\ mountedAs'[aegis_dev] # "own"
    BY <1>4, <2>1, <2>2 DEF MountMain, InitTypeOK
  <2> QED
    BY <1>4, <2>1, <2>2, <2>3, <2>4, <2>5, <2>6, <2>7 DEF MountMain
<1>5. CASE MountOthers
  <2>1. /\ mountedAs' \in [Partition -> {"main", "own", None}]
        /\ \A p \in Partition : mountedAs'[p] \in {mountedAs[p], "own"}
        /\ \A p \in nodes \ {aegis_dev} : FileSystem[p] # "unknown" => mountedAs'[p] = "own"
        /\ aegis_dev # None => mountedAs'[aegis_dev] = mountedAs[aegis_dev]
    BY <1>5 DEF MountOthers, InitTypeOK
  <2> QED
    BY <1>5, <2>1 DEF MountOthers, InitTypeOK
<1>6. CASE WriteInitLog
  BY <1>6 DEF WriteInitLog, InitTypeOK
<1> QED
  BY <1>1, <1>2, <1>3, <1>4, <1>5, <1>6 DEF InitNext

LEMMA LeaveInv ==
  ASSUME InitInv,
         initStep' \in {initStep, "shell"},
         UNCHANGED <<devices, nodes, aegis_dev, spec, mount_ok, mountedAs, initLog, inTime>>
  PROVE InitInv'
BY DEF InitInv, InitTypeOK

LEMMA MountedAreSeen == ASSUME InitInv PROVE ShelfIsSeen
<1> SUFFICES ASSUME initStep = "tui"
             PROVE /\ \A p \in Labelled \cap inTime :
                        FileSystem[p] \in LabelledFs => mountedAs[p] # None
                   /\ Cardinality({p \in Partition : mountedAs[p] = "main"}) <= 1
  BY DEF ShelfIsSeen, LabelledFs
<1>1. \A p \in Labelled \cap inTime : FileSystem[p] \in LabelledFs => mountedAs[p] # None
  BY PartitionValues DEF InitInv, LabelledFs
<1>2. {p \in Partition : mountedAs[p] = "main"} \subseteq {aegis_dev}
  BY DEF InitInv
<1>3. IsFiniteSet({aegis_dev}) /\ Cardinality({aegis_dev}) = 1
  BY FS_Singleton
<1> QED
  BY <1>1, <1>2, <1>3, FS_Subset

-----------------------------------------------------------------------------
(* Handoff *)

Going == {"save", "prepare", "measure", "load", "exec"}

(* The ISO of an attempt is one of the stock; in the text mode it is the   *)
(* one shown, it is not blocked, it goes on after a word that is accepted  *)
(* for it, and it is the last choice once that has been saved, if it was. *)
AskedAndSaved ==
  /\ prompt # "menu" => chosen \in Stocked
  /\ mode = "text" /\ prompt \in {"confirm"} \cup Going =>
       /\ ~ Blocked(chosen)
       /\ shown = [request |-> Request(chosen), measures |-> Measurement(Request(chosen)),
                   verdict |-> TextVerdict(FilesOf(chosen), Stock[chosen].distro)]
       /\ prompt # "confirm" => word \in Accepted(chosen)
       /\ prompt \in Going \ {"save"} => choice \in {chosen, None}

(* What is staged for the jump is what the kernel took of that request. *)
StagedAsRequested ==
  /\ mode = None => prompt = "menu" /\ booted = None
  /\ mode = "text" /\ prompt = "exec" => image = Request(chosen) /\ KernelAccepts(chosen)
  /\ mode = "text" /\ booted # None => prompt = "exec" /\ booted = image

(* Whatever was measured is the request of some ISO. *)
MeasuresRequests == pcr \in Seq({Request(i) : i \in Stocked})

HandoffInv ==
  InitInv /\ HandoffTypeOK /\ AskedAndSaved /\ StagedAsRequested /\ MeasuresRequests

LEMMA InitRestInv == ASSUME InitInv, UNCHANGED initVars PROVE InitInv'
BY DEF initVars, InitInv, InitTypeOK

LEMMA ErrorsKnown == "Io" \in KexecErrors
<1>1. ClassifyErrno("EIO") = "Io"
  BY DEF ClassifyErrno
<1> QED
  BY <1>1 DEF KexecErrors, Errno

LEMMA HandoffInitInv == ASSUME HandoffInit PROVE HandoffInv
BY InitInitInv, HandoffAssumption DEF HandoffInit, HandoffInv, HandoffTypeOK, AskedAndSaved,
   StagedAsRequested, MeasuresRequests, InitInv, Stocked, Going

(* The boot up to rescue-tui, and the menu. *)
LEMMA MenuInv ==
  ASSUME HandoffInv,
         BootRescue \/ StartRescueTui \/ TextQuit \/ TextPick \/ TextReturn \/ TextAccept
           \/ AutoStart \/ AutoFails
  PROVE HandoffInv'
<1> USE HandoffAssumption DEF HandoffInv, AskedAndSaved, StagedAsRequested, MeasuresRequests,
        Going, line, target, At, AtText
<1>1. CASE BootRescue
  BY <1>1, InitStepInv DEF BootRescue, HandoffTypeOK, InitInv
<1>2. CASE StartRescueTui
  BY <1>2, InitRestInv DEF StartRescueTui, HandoffTypeOK, InitInv
<1>3. CASE TextQuit
  BY <1>3, LeaveInv DEF TextQuit, Leave, HandoffTypeOK, InitInv
<1>4. CASE TextPick
  BY <1>4, InitRestInv DEF TextPick, HandoffTypeOK, InitInv
<1>5. CASE TextReturn
  BY <1>5, InitRestInv DEF TextReturn, HandoffTypeOK, InitInv
<1>6. CASE TextAccept
  BY <1>6, InitRestInv DEF TextAccept, HandoffTypeOK, InitInv
<1>7. CASE AutoStart
  BY <1>7, InitRestInv DEF AutoStart, HandoffTypeOK, InitInv
<1>8. CASE AutoFails
  BY <1>8, LeaveInv DEF AutoFails, Leave, HandoffTypeOK, InitInv
<1> QED
  BY <1>1, <1>2, <1>3, <1>4, <1>5, <1>6, <1>7, <1>8

(* An error shown ends the attempt. *)
LEMMA FailsInv ==
  ASSUME HandoffInv, NEW e \in KexecErrors, Fails(e), UNCHANGED target, booted = None
  PROVE HandoffInv'
<1> USE HandoffAssumption DEF HandoffInv, AskedAndSaved, StagedAsRequested, MeasuresRequests,
        Going, line, target, Fails, Leave
<1>1. InitInv'
  BY InitRestInv, LeaveInv
<1>2. HandoffTypeOK'
  BY <1>1 DEF HandoffTypeOK, InitInv, initVars
<1> QED
  BY <1>1, <1>2

LEMMA AttemptInv ==
  ASSUME HandoffInv,
         SaveChoice \/ PrepareChosen \/ PrepareChosenFails \/ Measure
           \/ LoadKernel \/ LoadKernelFails \/ ExecKernel \/ ExecKernelFails
  PROVE HandoffInv'
<1> USE HandoffAssumption DEF HandoffInv, AskedAndSaved, StagedAsRequested, MeasuresRequests,
        Going, line, target, At
<1>1. CASE SaveChoice
  BY <1>1, InitRestInv DEF SaveChoice, HandoffTypeOK, InitInv
<1>2. CASE PrepareChosen
  BY <1>2, InitRestInv DEF PrepareChosen, HandoffTypeOK, InitInv
<1>3. CASE PrepareChosenFails
  BY <1>3, FailsInv, ErrorsKnown DEF PrepareChosenFails
<1>4. CASE Measure
  <2>1. pcr' \in Seq({Request(i) : i \in Stocked})
    BY <1>4 DEF Measure, Measurement
  <2> QED
    BY <1>4, <2>1, InitRestInv DEF Measure, HandoffTypeOK, InitInv
<1>5. CASE LoadKernel
  BY <1>5, InitRestInv DEF LoadKernel, HandoffTypeOK, InitInv
<1>6. CASE LoadKernelFails
  BY <1>6, FailsInv DEF LoadKernelFails
<1>7. CASE ExecKernel
  BY <1>7, InitRestInv DEF ExecKernel, HandoffTypeOK, InitInv
<1>8. CASE ExecKernelFails
  BY <1>8, FailsInv, ErrorsKnown DEF ExecKernelFails
<1> QED
  BY <1>1, <1>2, <1>3, <1>4, <1>5, <1>6, <1>7, <1>8

LEMMA HandoffStepInv == ASSUME HandoffInv, HandoffNext PROVE HandoffInv'
BY MenuInv, AttemptInv DEF HandoffNext

LEMMA HandoffRestInv == ASSUME HandoffInv, UNCHANGED handoffVars PROVE HandoffInv'
BY InitRestInv DEF handoffVars, HandoffInv, HandoffTypeOK, AskedAndSaved, StagedAsRequested,
   MeasuresRequests, InitInv

(* The kernel runs what was shown. *)
LEMMA BootsWhatWasShown == ASSUME HandoffInv PROVE BootedAsShown
<1> SUFFICES ASSUME booted # None, mode = "text" PROVE BootedAsShown
  BY DEF BootedAsShown
<1>1. /\ prompt = "exec" /\ chosen \in Stocked /\ ~ Blocked(chosen)
      /\ shown = [request |-> Request(chosen), measures |-> Measurement(Request(chosen)),
                  verdict |-> TextVerdict(FilesOf(chosen), Stock[chosen].distro)]
      /\ word \in Accepted(chosen) /\ choice \in {chosen, None}
      /\ booted = Request(chosen) /\ KernelAccepts(chosen)
  BY DEF HandoffInv, AskedAndSaved, StagedAsRequested, Going
<1>2. shown.request = Request(chosen) /\ shown.measures = Request(chosen)
      /\ shown.verdict = TextVerdict(FilesOf(chosen), Stock[chosen].distro)
      /\ booted.iso = chosen
  BY <1>1 DEF Measurement, Request
<1>3. shown.verdict # "red" /\ (shown.verdict = "green" \/ word = "boot")
  BY <1>1, <1>2 DEF Blocked, TextVerdict, Accepted, DegradedTrust
<1>4. \A i \in DOMAIN pcr : pcr[i].iso = chosen => pcr[i] = Request(chosen)
  <2>1. \A i \in DOMAIN pcr : pcr[i] \in {Request(x) : x \in Stocked}
    BY DEF HandoffInv, MeasuresRequests
  <2>2. \A x \in Stocked : Request(x).iso = x
    BY DEF Request
  <2> QED
    BY <2>1, <2>2
<1>5. IsBootable(Tier(FilesOf(chosen), Stock[chosen].distro, Enforcing))
  BY <1>1 DEF Blocked, KernelAccepts, KexecBlocked, IsBootable, Tier
<1> QED
  BY <1>1, <1>2, <1>3, <1>4, <1>5 DEF BootedAsShown

-----------------------------------------------------------------------------
(* RescueDisk *)

(* The environment is off while the host has the stick. *)
RescueDiskInv ==
  /\ part \in {"host", "target", "choice", "logs", "boot"}
  /\ part = "host" => phase = "off"
  /\ DiskInv /\ ScanInv /\ ChoiceInv /\ LogInv /\ HandoffInv

LEMMA RescueDiskInitInv == ASSUME RescueDiskInit PROVE RescueDiskInv
BY DiskInitInv, ScanInitInv, ChoiceInitInv, LogInitInv, HandoffInitInv
   DEF RescueDiskInit, RescueDiskInv, DiscoverInit

LEMMA HostStepInv == ASSUME RescueDiskInv, HostStep PROVE RescueDiskInv'
<1>1. DiskInv'
  BY DiskStepInv DEF HostStep, RescueDiskInv
<1>2. ScanInv'
  BY ScanOffInv DEF HostStep, RescueDiskInv
<1>3. ChoiceInv' /\ LogInv' /\ HandoffInv'
  BY ChoiceRestInv, LogRestInv, HandoffRestInv DEF HostStep, RescueDiskInv, besides
<1> QED
  BY <1>1, <1>2, <1>3 DEF HostStep, RescueDiskInv

(* The host is forgotten, with its histories. *)
LEMMA BootInv == ASSUME RescueDiskInv, Boot PROVE RescueDiskInv'
<1> USE DEF RescueDiskInv
<1>1. UNCHANGED shelf /\ ScanInv'
  BY DiscoverStarts DEF Boot, Discover, DiskInv, DiskTypes, DiskTypeOK
<1>2. ChoiceInv' /\ LogInv' /\ HandoffInv'
  BY ChoiceRestInv, LogRestInv, HandoffRestInv DEF Boot, besides
<1>3. DiskInv'
  <2> USE DEF DiskInv
  <2>1. /\ tool' = "none" /\ step' = "idle" /\ ~ mounting'
        /\ UNCHANGED <<shelf, place, parcel, todo, digest, mounting, drag, red>>
        /\ mounts' = 0 /\ tools' = 0 /\ killed' = FALSE /\ umount_failed' = FALSE
        /\ latest' = "own"
    BY <1>1 DEF Boot, DiskTypes, MountsCounted
  <2>2. receipts' = [r \in Receipts |-> None] /\ whole' = [r \in Receipts |-> <<>>]
    BY DEF Boot
  <2>3. <<>> \in Seq(Name)
    OBVIOUS
  <2>4. /\ receipts' \in [Receipts -> {None, Torn} \cup Seq(Name)]
        /\ whole' \in [Receipts -> Seq(Name)]
        /\ \A r \in Receipts : receipts'[r] = None
    BY <2>2, <2>3
  <2>5. mounts' \in 0 .. MaxTools /\ tools' \in 0 .. MaxTools
    BY <2>1, BoundsAreNat
  <2>6. DiskTypes'
    BY <2>1, <2>4, <2>5 DEF DiskTypes, DiskTypeOK, Receipts
  <2>7. MountsCounted'
    BY <2>1, <2>5 DEF MountsCounted
  <2>8. RedIsListed' /\ HeldExtends'
    BY <2>1, <2>4 DEF RedIsListed, HeldExtends
  <2>9. IsFiniteSet(Isos')
    BY <1>1 DEF Isos
  <2> QED
    BY <2>6, <2>7, <2>8, <2>9
<1> QED
  BY <1>1, <1>2, <1>3 DEF Boot

LEMMA TargetStepInv == ASSUME RescueDiskInv, TargetStep PROVE RescueDiskInv'
<1>1. ScanInv'
  BY ScanStepInv DEF TargetStep, RescueDiskInv, DiskInv, DiskTypes, DiskTypeOK
<1>2. UNCHANGED shelf
  BY DEF TargetStep, DiscoverNext, Discover, MountNext, MountNextFails, Extract,
         ExtractFails, MakeRow, RootEnds, Prepare, PrepareFails, DropPrepared, Kexec
<1>3. DiskInv'
  BY <1>2, DiskRestInv DEF TargetStep, RescueDiskInv, diskVars
<1>4. ChoiceInv' /\ LogInv' /\ HandoffInv'
  BY ChoiceRestInv, LogRestInv, HandoffRestInv DEF TargetStep, RescueDiskInv, besides
<1> QED
  BY <1>1, <1>3, <1>4 DEF TargetStep, RescueDiskInv

LEMMA BesidesInv ==
  ASSUME RescueDiskInv, ChoiceStep \/ LogStep \/ HandoffStep PROVE RescueDiskInv'
<1>1. DiskInv' /\ ScanInv' /\ (part' = part /\ phase' = phase)
  BY DiskRestInv, ScanRestInv DEF RescueDiskInv, ChoiceStep, LogStep, HandoffStep, discoverVars
<1>2. CASE ChoiceStep
  BY <1>1, <1>2, ChoiceStepInv, LogRestInv, HandoffRestInv DEF RescueDiskInv, ChoiceStep
<1>3. CASE LogStep
  BY <1>1, <1>3, LogStepInv, ChoiceRestInv, HandoffRestInv DEF RescueDiskInv, LogStep
<1>4. CASE HandoffStep
  BY <1>1, <1>4, HandoffStepInv, ChoiceRestInv, LogRestInv DEF RescueDiskInv, HandoffStep
<1> QED
  BY <1>2, <1>3, <1>4

LEMMA RescueDiskStepInv ==
  ASSUME RescueDiskInv, [RescueDiskNext]_rescueDiskVars PROVE RescueDiskInv'
<1>1. CASE RescueDiskNext
  BY <1>1, HostStepInv, BootInv, TargetStepInv, BesidesInv DEF RescueDiskNext
<1>2. CASE UNCHANGED rescueDiskVars
  BY <1>2, DiskRestInv, ScanRestInv, ChoiceRestInv, LogRestInv, HandoffRestInv
     DEF RescueDiskInv, rescueDiskVars, besides, discoverVars
<1> QED
  BY <1>1, <1>2

LEMMA RescueDiskInvariant == RescueDiskSpec => []RescueDiskInv
BY RescueDiskInitInv, RescueDiskStepInv, PTL DEF RescueDiskSpec

-----------------------------------------------------------------------------
(* Type correctness, with what the types say beyond types: temporary       *)
(* mounts within the commands run, loop devices within MaxLoops whatever   *)
(* mounts and unmounts report, rows made of files there are. *)
THEOREM RescueDiskTypeCorrect == RescueDiskSpec => []RescueDiskTypeOK
<1>1. RescueDiskInv => RescueDiskTypeOK
  BY DEF RescueDiskInv, RescueDiskTypeOK, DiskInv, DiskTypes, ScanInv, ScanCore, ScanTypes, ChoiceInv,
         LogInv, HandoffInv
<1> QED
  BY <1>1, RescueDiskInvariant, PTL

(* A command releases the partition it mounted for itself on every way out *)
(* of try_run_add, run_scan_mode and try_run: an idle host has temporary   *)
(* mounts only after a kill or an umount that failed.                      *)
THEOREM MountReleased == RescueDiskSpec => []TemporaryMountReleased
<1>1. RescueDiskInv => TemporaryMountReleased
  BY DEF RescueDiskInv, DiskInv, MountsCounted, TemporaryMountReleased
<1> QED
  BY <1>1, RescueDiskInvariant, PTL

(* mount_iso, unmount: unless an unmount failed, what is seen where an ISO *)
(* was mounted is that ISO or nothing, over any number of files of one     *)
(* name and mounts that only claim to have happened; nothing is booted of  *)
(* an empty mount, and the rows tell of the entries of their own files.    *)
THEOREM IsoSeen == RescueDiskSpec => []OnlyTheIsoIsSeen
<1>1. RescueDiskInv => OnlyTheIsoIsSeen
  BY IsoIsSeen DEF RescueDiskInv
<1> QED
  BY <1>1, RescueDiskInvariant, PTL

(* atomic_write: after the directory's fsync a power loss leaves the       *)
(* choice renamed last, or a torn file, never an older choice.             *)
THEOREM SyncedSurvives == RescueDiskSpec => []SyncedCopySurvives
<1>1. RescueDiskInv => SyncedCopySurvives
  BY DEF RescueDiskInv, ChoiceInv
<1> QED
  BY <1>1, RescueDiskInvariant, PTL

(* /init: whatever order the disks appear in and whatever the resolvers    *)
(* miss, rescue-tui starts with every labelled partition of that moment    *)
(* mounted under one of its two roots, at most one on the main one.        *)
THEOREM ShelfSeen == RescueDiskSpec => []ShelfIsSeen
<1>1. RescueDiskInv => ShelfIsSeen
  BY MountedAreSeen DEF RescueDiskInv, HandoffInv
<1> QED
  BY <1>1, RescueDiskInvariant, PTL

(* run_text_confirm and attempt_kexec: the kernel the text mode boots is   *)
(* of the ISO, the command line and the verdict it showed last, after the  *)
(* word asked for, whatever was refused, failed or measured before.        *)
THEOREM BootsAsShown == RescueDiskSpec => []BootedAsShown
<1>1. RescueDiskInv => BootedAsShown
  BY BootsWhatWasShown DEF RescueDiskInv
<1> QED
  BY <1>1, RescueDiskInvariant, PTL

(* scan_for_upgrades never writes a sum beside an ISO that did not match   *)
(* its own when the stick was listed.                                      *)
THEOREM RedIsKept == RescueDiskSpec => RedStaysRed
<1> DEFINE A == (tool = "scan" /\ drag' = drag) =>
                  \A p \in red : VerifyHash(shelf[p]) = "Mismatch"
                                   => VerifyHash(shelf'[p]) = "Mismatch"
<1>1. ASSUME RescueDiskInv, [RescueDiskNext]_rescueDiskVars PROVE [A]_diskVars
  <2>1. CASE HostStep
    BY <1>1, <2>1, ScanKeepsRed DEF HostStep, RescueDiskInv
  <2>2. CASE Boot
    BY <2>2 DEF Boot
  <2>3. CASE TargetStep
    BY <2>3 DEF TargetStep, DiscoverNext, Discover, MountNext, MountNextFails, Extract,
       ExtractFails, MakeRow, RootEnds, Prepare, PrepareFails, DropPrepared, Kexec
  <2>4. CASE ChoiceStep \/ LogStep \/ HandoffStep \/ UNCHANGED rescueDiskVars
    BY <2>4 DEF ChoiceStep, LogStep, HandoffStep, rescueDiskVars
  <2> QED
    BY <1>1, <2>1, <2>2, <2>3, <2>4 DEF RescueDiskNext
<1> QED
  BY <1>1, RescueDiskInvariant, PTL DEF RescueDiskSpec, RedStaysRed

(* record_iso_added: a receipt that is whole again has the records of the  *)
(* whole one before it and one more, through kills in the middle of a      *)
(* write, unless another add wrote it in between.                          *)
THEOREM ReceiptsGrow == RescueDiskSpec => RecordsKept
<1> DEFINE A == \A r \in Receipts :
                  (receipts'[r] \notin {None, Torn, receipts[r]} /\ ~overlapped) =>
                    \E n \in Name : receipts'[r] = Append(whole[r], n)
<1>1. ASSUME RescueDiskInv, [RescueDiskNext]_rescueDiskVars PROVE [A]_diskVars
  <2>1. CASE HostStep
    BY <1>1, <2>1, ReceiptGrowsByOne DEF HostStep, RescueDiskInv
  <2>2. CASE Boot
    BY <2>2 DEF Boot
  <2>3. CASE TargetStep
    BY <2>3 DEF TargetStep, receiptVars
  <2>4. CASE ChoiceStep \/ LogStep \/ HandoffStep \/ UNCHANGED rescueDiskVars
    BY <2>4 DEF ChoiceStep, LogStep, HandoffStep, rescueDiskVars
  <2> QED
    BY <1>1, <2>1, <2>2, <2>3, <2>4 DEF RescueDiskNext
<1> QED
  BY <1>1, RescueDiskInvariant, PTL DEF RescueDiskSpec, RecordsKept

(* record_failure, migrate and rotate: a report that is whole in one of    *)
(* the directories stays whole in one of them, until MaxRetained reports   *)
(* that are not older are on the stick or a power cut takes it.            *)
THEOREM WholeReportsKept == RescueDiskSpec => ReportsKept
<1> DEFINE A == \A n \in Whole(spool) \cup Whole(aegis) : Kept(n)
<1>1. ASSUME RescueDiskInv, [RescueDiskNext]_rescueDiskVars PROVE [A]_logVars
  <2>1. CASE LogStep
    BY <1>1, <2>1, WholeStaysWhole DEF LogStep, RescueDiskInv
  <2>2. CASE UNCHANGED logVars
    BY <2>2
  <2> QED
    BY <1>1, <2>1, <2>2
       DEF RescueDiskNext, HostStep, Boot, TargetStep, ChoiceStep, HandoffStep,
           besides, rescueDiskVars
<1> QED
  BY <1>1, RescueDiskInvariant, PTL DEF RescueDiskSpec, ReportsKept

(* save, migrate_tmpfs_to_aegis_isos and load: a restarted TUI restores    *)
(* the choice last saved in full, and no interleaving of saves, restarts   *)
(* and migrations puts an older choice over a newer one on AEGIS_ISOS.     *)
THEOREM ChoiceStaysFresh == RescueDiskSpec => FreshestChoice
<1> DEFINE A == /\ Restore /\ replay # None => restored' = replay
                /\ Rename /\ ~ tmpfs_failed => body \in Choice /\ body.iso = newest
<1>1. ASSUME RescueDiskInv PROVE A
  BY <1>1, ChoiceIsFresh DEF RescueDiskInv
<1> QED
  BY <1>1, RescueDiskInvariant, PTL DEF RescueDiskSpec, FreshestChoice
=============================================================================
