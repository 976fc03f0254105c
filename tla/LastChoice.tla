----------------------------- MODULE LastChoice -----------------------------
(***************************************************************************)
(* The remembered choice of crates/rescue-tui/src/persistence.rs and its   *)
(* two callers in main.rs: save_last_choice, run by attempt_kexec, and     *)
(* apply_persisted_choice, run when the TUI starts.                        *)
(*                                                                         *)
(* There are two copies of the file: one on tmpfs, which dies with the     *)
(* boot, and one under the AEGIS_ISOS mount point, which is the stick when *)
(* it is mounted and the initramfs itself when it is not.  Every file      *)
(* operation is one step: the TUI may die, or the power may go, between    *)
(* any two.                                                                *)
(***************************************************************************)
EXTENDS TornFiles, Naturals, Sequences, FiniteSets

CONSTANTS
  Iso,       \* discovered ISO files
  Override   \* kernel command lines the operator may commit

Choice == [iso : Iso, override : Override \cup {None}]
Contents == Choice \cup {None, Torn}

ASSUME LastChoiceAssumption == None \notin Override /\ {None, Torn} \cap Choice = {}

VARIABLES
  tmpfs,      \* /run/aegis-boot/last-choice.json
  ramdir,     \* the AEGIS_ISOS copy while nothing is mounted there
  stick,      \* the copy on the mounted stick, as the kernel shows it
  flash,      \* the copies of it a power loss may leave
  mounted,    \* is the stick mounted at the AEGIS_ISOS mount point?
  proc,       \* the TUI's place in its program: <<procedure, next step>>
  body,       \* the contents the TUI is about to write
  overrides,  \* ISO -> AppState's cmdline override, or None
  restored,   \* what the last apply_persisted_choice loaded
  replay,     \* history: the choice last saved in full in this boot, or None
  newest,     \* history: the ISO last confirmed
  saved,      \* history: did a confirm reach its saves in this boot?
  tmpfs_failed, \* history: did a tmpfs write fail or stop half way in this boot?
  synced      \* history: has the last save_durable returned Ok?

files == <<tmpfs, ramdir, stick, flash>>
session == <<overrides, restored>>
history == <<replay, newest, saved, tmpfs_failed, synced>>
choiceVars == <<files, mounted, proc, body, session, history>>

Off == <<"off", "off">>
Running == <<"run", "key">>
Procs ==
  {Off, Running, <<"save", "tmpfs">>, <<"save", "attempt">>,
   <<"migrate", "start">>, <<"migrate", "remove">>, <<"migrate", "load">>}
    \cup {"save", "migrate"} \X {"tmp", "rename", "sync"}

(* A faulty variant: the file format has lost the field. *)
StripField(c) == [iso |-> c.iso]

(* for_cross_reboot *)
Strip(c) == [c EXCEPT !.override = None]

AegisFile == IF mounted THEN stick ELSE ramdir

(* load: tmpfs, then AEGIS_ISOS, then nothing; Torn does not parse. *)
Load ==
  IF tmpfs \in Choice THEN tmpfs ELSE IF AegisFile \in Choice THEN AegisFile ELSE None

NoOverrides == [i \in Iso |-> None]

ChoiceInit ==
  /\ tmpfs = None /\ ramdir = None /\ stick = None /\ flash = {None}
  /\ mounted \in BOOLEAN
  /\ proc = Off /\ body = None
  /\ overrides = NoOverrides /\ restored = None
  /\ replay = None /\ newest = None
  /\ saved = FALSE /\ tmpfs_failed = FALSE /\ synced = FALSE

-----------------------------------------------------------------------------
(* apply_persisted_choice *)

(* /init runs the TUI once, the operator may run it again from the shell. *)
StartTui ==
  /\ proc = Off
  /\ proc' = <<"migrate", "start">>
  /\ overrides' = NoOverrides /\ restored' = None
  /\ UNCHANGED <<files, mounted, body, history>>

(* migrate_tmpfs_to_aegis_isos copies whatever the tmpfs file holds. *)
MigrateStart ==
  /\ proc = <<"migrate", "start">>
  /\ IF tmpfs = None
     THEN proc' = <<"migrate", "load">> /\ UNCHANGED body
     ELSE proc' = <<"migrate", "tmp">> /\ body' = tmpfs
  /\ UNCHANGED <<files, mounted, session, history>>

(* The removal may fail; its result is ignored. *)
MigrateRemove ==
  /\ proc = <<"migrate", "remove">>
  /\ tmpfs' \in {None, tmpfs}
  /\ proc' = <<"migrate", "load">>
  /\ UNCHANGED <<ramdir, stick, flash, mounted, body, session, history>>

Restore ==
  /\ proc = <<"migrate", "load">>
  /\ restored' = Load
  /\ overrides' = IF Load = None THEN NoOverrides
                  ELSE [NoOverrides EXCEPT ![Load.iso] = Load.override]
  /\ proc' = Running
  /\ UNCHANGED <<files, mounted, body, history>>

-----------------------------------------------------------------------------
(* atomic_write, for a save and for a migration *)

Return(owner) == IF owner = "save" THEN <<"save", "attempt">> ELSE <<"migrate", "load">>

WriteTmp ==
  /\ proc[2] = "tmp"
  /\ proc' = [proc EXCEPT ![2] = "rename"]
  /\ UNCHANGED <<files, mounted, body, session, history>>

(* The renamed file's data was never synced: power loss may leave it torn. *)
Rename ==
  /\ proc[2] = "rename"
  /\ IF mounted
     THEN stick' = body /\ flash' = flash \cup {body, Torn} /\ UNCHANGED ramdir
     ELSE ramdir' = body /\ UNCHANGED <<stick, flash>>
  /\ proc' = [proc EXCEPT ![2] = "sync"]
  /\ synced' = FALSE
  /\ UNCHANGED <<tmpfs, mounted, body, session, replay, newest, saved, tmpfs_failed>>

(* A faulty variant: atomic_write returns without the fsync. *)
SyncDirSkipped ==
  /\ proc[2] = "sync"
  /\ proc' = IF proc[1] = "save" THEN Return("save") ELSE <<"migrate", "remove">>
  /\ body' = None
  /\ synced' = (proc[1] = "save" /\ mounted)
  /\ UNCHANGED <<files, mounted, session, replay, newest, saved, tmpfs_failed>>

(* sync_all on the directory: the old entry is gone for good. *)
SyncDir ==
  /\ proc[2] = "sync"
  /\ flash' = IF mounted THEN flash \cap {stick, Torn} ELSE flash
  /\ proc' = IF proc[1] = "save" THEN Return("save") ELSE <<"migrate", "remove">>
  /\ body' = None
  /\ synced' = (proc[1] = "save" /\ mounted)
  /\ UNCHANGED <<tmpfs, ramdir, stick, mounted, session, replay, newest, saved,
                 tmpfs_failed>>

WriteFails ==
  /\ proc[2] \in {"tmp", "rename", "sync"}
  /\ proc' = Return(proc[1]) /\ body' = None
  /\ UNCHANGED <<files, mounted, session, history>>

-----------------------------------------------------------------------------
(* The session: the command line editor, and attempt_kexec. *)

CommitCmdlineEdit ==
  /\ proc = Running
  /\ \E i \in Iso, o \in Override : overrides' = [overrides EXCEPT ![i] = o]
  /\ UNCHANGED <<files, mounted, proc, body, restored, history>>

(* A faulty variant: the choice is built from another row's ISO. *)
ConfirmOtherRow ==
  /\ proc = Running
  /\ \E i, j \in Iso :
       /\ body' = [iso |-> j, override |-> overrides[j]]
       /\ newest' = i
  /\ proc' = <<"save", "tmpfs">>
  /\ saved' = TRUE
  /\ UNCHANGED <<files, mounted, session, replay, tmpfs_failed, synced>>

(* attempt_kexec reaches save_last_choice before it prepares the ISO. *)
Confirm ==
  /\ proc = Running
  /\ \E i \in Iso :
       /\ body' = [iso |-> i, override |-> overrides[i]]
       /\ newest' = i
  /\ proc' = <<"save", "tmpfs">>
  /\ saved' = TRUE
  /\ UNCHANGED <<files, mounted, session, replay, tmpfs_failed, synced>>

(* save truncates and writes in place: a failure may leave half a file. *)
SaveTmpfs ==
  /\ proc = <<"save", "tmpfs">>
  /\ \/ tmpfs' = body /\ replay' = body /\ UNCHANGED tmpfs_failed
     \/ tmpfs' \in {tmpfs, Torn} /\ replay' = None /\ tmpfs_failed' = TRUE
  /\ body' = Strip(body)
  /\ proc' = <<"save", "tmp">>
  /\ UNCHANGED <<ramdir, stick, flash, mounted, session, newest, saved, synced>>

AttemptFails ==
  /\ proc = <<"save", "attempt">>
  /\ proc' = Running
  /\ UNCHANGED <<files, mounted, body, session, history>>

Exit ==
  /\ proc = Running
  /\ proc' = Off
  /\ UNCHANGED <<files, mounted, body, session, history>>

(* The TUI is killed between two file operations, or inside the first. *)
Dies ==
  /\ proc # Off
  /\ proc' = Off /\ body' = None
  /\ IF proc = <<"save", "tmpfs">>
     THEN tmpfs' \in {tmpfs, Torn} /\ tmpfs_failed' = TRUE /\ replay' = None
     ELSE UNCHANGED <<tmpfs, tmpfs_failed, replay>>
  /\ UNCHANGED <<ramdir, stick, flash, mounted, session, newest, saved, synced>>

-----------------------------------------------------------------------------
(* The machine. *)

(* The kernel writes dirty pages back in its own time. *)
WriteBack ==
  /\ mounted
  /\ flash' = {stick}
  /\ UNCHANGED <<tmpfs, ramdir, stick, mounted, proc, body, session, history>>

(* The operator mounts the stick from the shell. *)
MountLate ==
  /\ proc = Off /\ ~ mounted
  /\ mounted' = TRUE
  /\ replay' = None
  /\ UNCHANGED <<files, proc, body, session, newest, saved, tmpfs_failed, synced>>

(* Power loss at any moment.  kexec is one too: load_and_exec syncs no     *)
(* file system.                                                            *)
Reboot ==
  /\ tmpfs' = None /\ ramdir' = None
  /\ stick' \in flash /\ flash' = {stick'}
  /\ mounted' \in BOOLEAN
  /\ proc' = Off /\ body' = None
  /\ overrides' = NoOverrides /\ restored' = None
  /\ replay' = None /\ saved' = FALSE /\ tmpfs_failed' = FALSE
  /\ UNCHANGED <<newest, synced>>

ChoiceNext ==
  \/ StartTui \/ MigrateStart \/ MigrateRemove \/ Restore
  \/ WriteTmp \/ Rename \/ SyncDir \/ WriteFails
  \/ CommitCmdlineEdit \/ Confirm \/ SaveTmpfs \/ AttemptFails \/ Exit \/ Dies
  \/ WriteBack \/ MountLate \/ Reboot

ChoiceSpec == ChoiceInit /\ [][ChoiceNext]_choiceVars

-----------------------------------------------------------------------------
(* The shape of the files and of the program's state. *)
ChoiceTypeOK ==
  /\ {tmpfs, ramdir, stick, body} \subseteq Contents
  /\ flash \in SUBSET Contents
  /\ mounted \in BOOLEAN /\ proc \in Procs
  /\ overrides \in [Iso -> Override \cup {None}]
  /\ restored \in Choice \cup {None} /\ replay \in Choice \cup {None}
  /\ newest \in Iso \cup {None}
  /\ saved \in BOOLEAN /\ tmpfs_failed \in BOOLEAN /\ synced \in BOOLEAN

(* Within a boot a failed kexec can be retried as it was: whatever happens *)
(* to the AEGIS_ISOS copy, and whether or not the migration gets through,  *)
(* a restarted TUI restores the choice last saved in full, override and    *)
(* all (save, migrate_tmpfs_to_aegis_isos, load).  And no interleaving of  *)
(* saves, restarts and migrations puts an older choice over a newer one on *)
(* AEGIS_ISOS, unless a write to tmpfs failed (save_last_choice writes     *)
(* tmpfs first for this reason).                                           *)
FreshestChoice ==
  [][/\ Restore /\ replay # None => restored' = replay
     /\ Rename /\ ~ tmpfs_failed => body \in Choice /\ body.iso = newest]_choiceVars

(* A power loss leaves the copy the kernel showed once its rename was      *)
(* synced, torn at worst: never the choice before it (atomic_write).       *)
SyncedCopySurvives ==
  synced => flash \subseteq {stick, Torn}

(* What persistence.rs says of cmdline_override: it is not persisted       *)
(* across reboots.  A restored override comes from this boot.              *)
OverrideStaysInBoot ==
  restored # None /\ restored.override # None => saved

(* What persistence.rs says of save_durable: durable across power loss.    *)
(* A save that returned Ok is not torn by the next power loss.             *)
SavedCopyIsWhole ==
  [][Reboot /\ synced => stick' = stick]_choiceVars
=============================================================================
