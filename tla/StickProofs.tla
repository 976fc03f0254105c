----------------------------- MODULE StickProofs -----------------------------
(***************************************************************************)
(* Proofs about StickLife: whatever the tools do and wherever a command    *)
(* dies, the boot files of a stick survive, what is known of it is true,   *)
(* and every step implements SparedSlots.                                  *)
(***************************************************************************)
EXTENDS StickLife, TLAPS

-----------------------------------------------------------------------------
(* The inductive invariant, by what each part is about. *)

FlashPcs == {"select", "zap", "gpt", "entries", "mkfs", "render", "resolve", "mmd",
             "stage", "identity", "hash", "manifest", "sign", "mirror"}
UpdatePcs == {"materialize", "stage", "backup", "commit", "verify", "esp_manifest"}
UndoPcs == {"undo", "restore"}
StagedPcs == {"identity", "hash", "manifest", "sign", "mirror"}

\* Where each command can be, and which sources it has built.
PcOK ==
    /\ cmd = "image" => pc \in {"select", "dd", "readback", "record"}
    /\ cmd = "flash" => pc \in FlashPcs
    /\ cmd = "update" => pc \in UpdatePcs \cup UndoPcs
    /\ cmd = "rollback" => pc \in UndoPcs
    /\ cmd # "none" => outcome = "none"
    /\ cmd = "image" /\ pc # "select" => src \in [Slots -> Versions]
    /\ (cmd = "flash" /\ pc \in StagedPcs \cup {"mmd", "stage"})
         \/ (cmd = "update" /\ pc \in UpdatePcs \ {"materialize"})
       => \A s \in Rendered : src[s] \in Versions

\* A direct flash works on an empty file system with a disk GUID of its own,
\* fills the slots in order, and then writes the manifest.
FlashInv ==
    cmd = "flash" =>
        /\ pc # "select" => flashes > 0
        /\ pc \notin {"select", "zap", "gpt"} => guid = flashes
        /\ pc \in {"render", "resolve", "mmd"} => \A s \in Slots : file[s]["main"] = None
        /\ pc = "stage" =>
             /\ at \in Slots
             /\ \A s \in Slots : IF s < at THEN file[s]["main"] # None ELSE file[s]["main"] = None
        /\ pc \in StagedPcs => \A s \in Slots : file[s]["main"] # None
        /\ pc \in {"render", "resolve", "mmd", "stage", "identity", "hash"} => manifest = None
        /\ pc = "manifest" => manifest = None
        /\ pc \in {"manifest", "sign", "mirror"} =>
             draft \in Manifests /\ draft.guid = guid /\ draft.seq = 1
        /\ pc \in {"sign", "mirror"} => manifest \in {draft, Torn}

\* An image flash that hashed its image records nothing before it compared.
ImageInv ==
    cmd = "image" /\ pc = "record" /\ checked => ReadbackMatches

\* How far the rotation is, slot by slot.
RotateInv ==
    cmd = "update" /\ pc \in UpdatePcs =>
        /\ entry \in store /\ entry.guid = guid
        /\ table = "ready" /\ espFs
        /\ pc = "materialize" => \A s \in Slots : state[s] \in {"skip", "pending"}
        /\ pc # "materialize" => at > 0
        /\ pc \in {"backup", "commit", "verify"} => at \in Slots /\ state[at] = "staged"
        /\ pc = "stage" => \A s \in Slots : s >= at => state[s] \in {"skip", "pending"}
        /\ pc = "esp_manifest" =>
             /\ at = NSlots + 1 /\ entry.body \in Manifests
             /\ \A s \in Slots : state[s] \in {"skip", "rotated"}
             /\ \A s \in Planned : entry.body.sum[s] = fresh[s]
        /\ \A s \in Slots :
             /\ pc # "materialize" /\ s < at => state[s] \in {"skip", "rotated"}
             /\ pc # "materialize" /\ s > at => state[s] \in {"skip", "pending"}
             /\ state[s] # "skip" => fresh[s] \in Versions /\ kept[s] # None
             /\ state[s] \in {"skip", "pending"} => file[s]["main"] = kept[s]
             /\ state[s] = "staged" =>
                  /\ s = at
                  /\ pc = "backup" => file[s]["main"] = kept[s]
                  /\ pc # "backup" => file[s]["bak"] = kept[s]
                  /\ pc = "commit" => file[s]["main"] = None
             /\ state[s] = "rotated" =>
                  file[s]["bak"] = kept[s] /\ file[s]["main"] = fresh[s]

\* What the unwinding can still count on.
UndoInv ==
    cmd \in {"update", "rollback"} /\ pc \in UndoPcs =>
        /\ pc = "restore" => todo # {}
        /\ \A s \in Slots :
             /\ kept[s] # None => kept[s] \in {file[s]["main"], file[s]["bak"]}
             /\ s \in todo => state[s] \in {"staged", "rotated"}
             /\ s \in todo /\ state[s] = "rotated" =>
                  file[s]["bak"] = kept[s] /\ kept[s] # None
             /\ pc = "restore" /\ s \in todo /\ (\A t \in todo : t <= s) =>
                  state[s] = "rotated" /\ file[s]["main"] = None

\* The host has at most one manifest per disk GUID, and none for a GUID that
\* is still to come.
StoreInv ==
    /\ \A e \in store : e.body \in Manifests =>
         /\ e.body.guid = e.guid
         /\ e.guid = EarlierGuid \/ (e.guid > 0 /\ e.guid <= flashes)
         /\ cmd = "flash" /\ pc # "select" => e.guid # flashes
    /\ \A e, f \in store : e.body \in Manifests /\ f.body \in Manifests
         /\ e.guid = f.guid => e = f

\* The stick's manifest never has a higher sequence number than the host's,
\* and a lower one while the host's is being copied.
SeqInv ==
    manifest \in Manifests =>
        /\ \A e \in store : e.body \in Manifests
             /\ e.guid = manifest.guid => e.body.seq >= manifest.seq
        /\ cmd = "update" /\ pc = "esp_manifest" /\ entry.guid = manifest.guid
             => entry.body.seq > manifest.seq

IInv ==
    /\ TypeOK /\ PcOK /\ FlashInv /\ ImageInv /\ RotateInv /\ UndoInv
    /\ StoreInv /\ SeqInv /\ KnownMeansStaged

\* Bookkeeping that every proof may unfold.
USE DEF stickVars, runVars, flashVars, updateVars, Flashing, Goto, End, FlashExit,
        UpdateExit, Working, Undoing, ActionDone, Abort, MtoolFails

-----------------------------------------------------------------------------
(* Which command runs after a step, and what a step of mtools does. *)

\* No step of flash starts an update.
LEMMA FlashQuiet == ASSUME IInv, FlashStep PROVE cmd' \in {"none", "flash", "image"}
BY DEF FlashStep, FlashNext, StartFlash, Refuse, Confirm, ConfirmImage, StepFails, Zap,
    NewTable, Entries, PartitionFails, FormatEsp, FormatFails, RenderOk, ResolveOk, MmdOk,
    StageFile, StageFileFails, IdentityOk, HashOk, WriteManifest, WriteManifestFails, Sign,
    Mirror, Dd, DdFails, Readback, ReadbackFails, Record, FlashDies, IInv, TypeOK, StickTypeOK,
    Commands, PcOK

\* No step of update or rollback starts a flash.
LEMMA UpdateQuiet == ASSUME IInv, UpdateStep PROVE cmd' \in {"none", "update", "rollback"}
BY DEF UpdateStep, UpdateNext, StartUpdate, Materialize, MaterializeFails, SkipSlot, Stage,
    Backup, Commit, VerifyRotated, StageFails, MoveFails, VerifyFails, StartRollback, UndoDone,
    RefreshHost, RefreshFails, RefreshEsp, UpdateDies, DeleteStaged, DeleteRotated, Restore,
    Rotated

\* A rename moves one file and leaves the others.
LEMMA MrenEffect ==
    ASSUME file \in [Slots -> [Names -> Content \cup {None}]], NEW s \in Slots,
         NEW x \in Names, NEW y \in Names, x # y, Mren(s, x, y)
    PROVE  /\ file[s][x] # None /\ file'[s][x] = None /\ file'[s][y] = file[s][x]
           /\ \A n \in Names \ {x, y} : file'[s][n] = file[s][n]
           /\ \A t \in Slots \ {s} : file'[t] = file[t]
BY DEF Mren

\* A delete removes one file and leaves the others.
LEMMA MdelEffect ==
    ASSUME file \in [Slots -> [Names -> Content \cup {None}]], NEW s \in Slots,
         NEW x \in Names, Mdel(s, x)
    PROVE  /\ file'[s][x] = None
           /\ \A n \in Names \ {x} : file'[s][n] = file[s][n]
           /\ \A t \in Slots \ {s} : file'[t] = file[t]
BY DEF Mdel

\* What the host has after a step that may cut its attestation short.
LEMMA StoreAfterFlash ==
    ASSUME IInv, Mirror \/ Record \/ FlashDies
    PROVE  /\ \A e \in store' : e.guid \in Guids /\ e.body \in Bodies
           /\ \/ \A e \in store' : e.body \in Manifests => e \in store
              \/ Mirror /\ store' = store \cup {[guid |-> guid, body |-> draft]}
<1> USE DEF IInv, TypeOK, StickTypeOK
<1>1. CASE store' = store BY <1>1
<1>2. CASE Record /\ store' = store \cup {[guid |-> guid, body |-> Receipt]}
  <2>1. \A e \in store' : e.body \in Manifests => e \in store BY <1>2, StickAssumption
  <2> QED BY <1>2, <2>1 DEF Bodies
<1>3. CASE Mirror /\ store' = store \cup {[guid |-> guid, body |-> draft]}
  <2>1. draft \in Manifests BY <1>3 DEF Mirror, PcOK, FlashInv
  <2> QED BY <1>3, <2>1 DEF Bodies
<1>4. FlashDies => store' = store BY DEF FlashDies, EspErased, ImageWritten
<1> QED BY <1>1, <1>2, <1>3, <1>4, Zenon DEF Mirror, Record

\* A refresh that fails loses the host's copy at worst.
LEMMA StoreAfterUpdate == ASSUME RefreshFails \/ UpdateDies PROVE store' \subseteq store
BY DEF RefreshFails, UpdateDies, StoreCut

-----------------------------------------------------------------------------
(* Types.  The Boolean variables are apart: Zenon proves about them, SMT about the rest. *)

FlagsOK == espFs \in BOOLEAN /\ checked \in BOOLEAN /\ errs \in BOOLEAN

DataOK ==
    /\ guid \in Guids
    /\ table \in {"none", "empty", "ready"}
    /\ file \in [Slots -> [Names -> Content \cup {None}]]
    /\ manifest \in Manifests \cup {None, Torn}
    /\ \A e \in store : e.guid \in Guids /\ e.body \in Bodies
    /\ host \in [Slots -> Versions]
    /\ src \in [Slots -> Versions \cup {None}]
    /\ cmd \in Commands
    /\ at \in 0..NSlots + 1
    /\ outcome \in Outcomes
    /\ flashes \in 0..MaxFlashes
    /\ draft \in Manifests \cup {None}
    /\ entry \in store \cup {None}
    /\ state \in [Slots -> StepStates]
    /\ fresh \in [Slots -> Versions \cup {None}]
    /\ todo \subseteq Slots
    /\ kept \in [Slots -> Content \cup {None}]

\* A step of flash keeps the types.
LEMMA FlashTypes == ASSUME IInv, FlashStep PROVE DataOK'
<1> USE StickAssumption DEF IInv, TypeOK, StickTypeOK, FlashTypeOK, UpdateTypeOK, FlashStep,
     DataOK
<1>1. CASE StartFlash BY <1>1 DEF StartFlash, Commands, Outcomes, Nothing
<1>2. CASE Refuse \/ StepFails \/ ReadbackFails \/ Readback
  BY <1>2 DEF Refuse, StepFails, ReadbackFails, Readback, Commands, Outcomes, Nothing
<1>3. CASE Confirm \/ ConfirmImage BY <1>3 DEF Confirm, ConfirmImage, Versions
<1>4. CASE Zap \/ NewTable \/ Entries \/ PartitionFails
  BY <1>4 DEF Zap, NewTable, Entries, PartitionFails, Table, Guids, EarlierGuid, Commands,
      Outcomes, Nothing
<1>5. CASE FormatEsp \/ FormatFails
  BY <1>5 DEF FormatEsp, FormatFails, EspErased, EmptySlot, Commands, Outcomes, Nothing
<1>6. CASE RenderOk \/ ResolveOk \/ MmdOk BY <1>6 DEF RenderOk, ResolveOk, MmdOk, BuildSources
<1>7. CASE StageFile
  <2>1. at \in Slots /\ SourceFor(at) \in Versions
    BY <1>7 DEF StageFile, SourceFor, PcOK, StagedPcs
  <2>2. PICK b \in Content : file' = [file EXCEPT ![at]["main"] = b]
    BY <1>7, <2>1 DEF StageFile, Mcopy, Content
  <2>3. file' \in [Slots -> [Names -> Content \cup {None}]] BY <2>1, <2>2 DEF Names
  <2> QED BY <1>7, <2>1, <2>3 DEF StageFile, Slots
<1>8. CASE StageFileFails
  <2>3. file' \in [Slots -> [Names -> Content \cup {None}]]
    BY <1>8 DEF StageFileFails, McopyFails, Names, Content
  <2> QED BY <1>8, <2>3 DEF StageFileFails, Outcomes, Commands, Nothing
<1>9. CASE IdentityOk \/ HashOk
  BY <1>9 DEF IdentityOk, HashOk, Manifests, SourceFor, PcOK, StagedPcs
<1>10. CASE WriteManifest \/ WriteManifestFails \/ Sign
  BY <1>10 DEF WriteManifest, WriteManifestFails, Sign, PcOK, FlashInv, Commands, Outcomes,
      Nothing
<1>11. CASE Mirror \/ Record
  <2>1. \A e \in store' : e.guid \in Guids /\ e.body \in Bodies BY <1>11, StoreAfterFlash
  <2>2. entry' \in store' \cup {None} BY <1>11 DEF Mirror, Record
  <2> QED BY <1>11, <2>1, <2>2 DEF Mirror, Record, Commands, Outcomes, Nothing
<1>12. CASE Dd \/ DdFails
  BY <1>12 DEF Dd, DdFails, ImageWritten, EmptySlot, Names, PcOK, Content, Guids, ImageGuid,
      EarlierGuid, Commands, Outcomes, Nothing
<1>13. CASE FlashDies
  <2>1. \A e \in store' : e.guid \in Guids /\ e.body \in Bodies BY <1>13, StoreAfterFlash
  <2>2. entry' \in store' \cup {None}
    BY <1>13 DEF FlashDies, EspErased, ImageWritten
  <2>3. file' \in [Slots -> [Names -> Content \cup {None}]]
    <3>1. CASE ImageWritten BY <3>1 DEF ImageWritten, EmptySlot, Names, Content
    <3>2. CASE McopyFails(at, "main") BY <3>2 DEF McopyFails, Names, Content
    <3>3. CASE file' = file \/ file' = [s \in Slots |-> EmptySlot]
      BY <3>3 DEF EmptySlot
    <3> QED BY <1>13, <3>1, <3>2, <3>3 DEF FlashDies, EspErased
  <2>4. guid' \in Guids /\ table' \in {"none", "empty", "ready"}
    BY <1>13 DEF FlashDies, EspErased, ImageWritten, Guids, ImageGuid, EarlierGuid
  <2>5. manifest' \in Manifests \cup {None, Torn} /\ host' = host
    BY <1>13 DEF FlashDies, EspErased, ImageWritten
  <2> QED BY <1>13, <2>1, <2>2, <2>3, <2>4, <2>5 DEF FlashDies, Commands, Outcomes, Nothing
<1> QED BY <1>1, <1>2, <1>3, <1>4, <1>5, <1>6, <1>7, <1>8, <1>9, <1>10, <1>11, <1>12, <1>13 DEF
            FlashNext

\* A step of update or rollback keeps the types.
LEMMA UpdateTypes == ASSUME IInv, UpdateStep PROVE DataOK'
<1> USE StickAssumption DEF IInv, TypeOK, StickTypeOK, FlashTypeOK, UpdateTypeOK, UpdateStep,
     DataOK
<1>1. CASE StartUpdate
  <2>1. entry' \in store' BY <1>1 DEF StartUpdate, find_attestation_by_guid
  <2>2. PICK plan \in SUBSET Slots :
          /\ state' = [s \in Slots |-> IF s \in plan THEN "pending" ELSE "skip"]
          /\ fresh' = [s \in Slots |-> IF s \in plan THEN host[s] ELSE None]
     BY <1>1, Zenon DEF StartUpdate
  <2>3. state' \in [Slots -> StepStates] /\ fresh' \in [Slots -> Versions \cup {None}]
    BY <2>2 DEF StepStates
  <2>4. kept' \in [Slots -> Content \cup {None}] BY <1>1 DEF StartUpdate, Names
  <2> QED BY <1>1, <2>1, <2>3, <2>4 DEF StartUpdate, Commands, Outcomes, Nothing
<1>2. CASE Materialize \/ SkipSlot
  <2>1. src' \in [Slots -> Versions \cup {None}] BY <1>2 DEF Materialize, SkipSlot, BuildSources
  <2>2. at' \in 0..NSlots + 1 BY <1>2 DEF Materialize, SkipSlot
  <2> QED BY <1>2, <2>1, <2>2 DEF Materialize, SkipSlot
<1>3. CASE MaterializeFails \/ RefreshFails \/ UndoDone
  <2>1. \A e \in store' : e.guid \in Guids /\ e.body \in Bodies
    BY <1>3, StoreAfterUpdate DEF MaterializeFails, UndoDone
  <2> QED BY <1>3, <2>1 DEF MaterializeFails, RefreshFails, UndoDone, Commands, Outcomes,
      Nothing, StepStates
<1>4. CASE Stage
  <2>1. at \in Slots /\ SourceFor(at) \in Versions BY <1>4 DEF Stage, SourceFor, PcOK, UpdatePcs
  <2>2. PICK b \in Content : file' = [file EXCEPT ![at]["new"] = b]
    BY <1>4, <2>1 DEF Stage, Mcopy, Content
  <2>3. file' \in [Slots -> [Names -> Content \cup {None}]] BY <2>1, <2>2 DEF Names
  <2> QED BY <1>4, <2>1, <2>3 DEF Stage, StepStates
<1>5. CASE Backup \/ Commit
  <2>3. file' \in [Slots -> [Names -> Content \cup {None}]]
    BY <1>5 DEF Backup, Commit, Mren, Names
  <2> QED BY <1>5, <2>3 DEF Backup, Commit
<1>6. CASE VerifyRotated BY <1>6 DEF VerifyRotated, StepStates, Slots
<1>7. CASE StageFails
  <2>3. file' \in [Slots -> [Names -> Content \cup {None}]]
    BY <1>7 DEF StageFails, McopyFails, Names, Content
  <2> QED BY <1>7, <2>3 DEF StageFails, rollback_plan, Commands, Outcomes, Nothing, StepStates
<1>8. CASE MoveFails \/ VerifyFails
  BY <1>8 DEF MoveFails, VerifyFails, rollback_plan, Commands, Outcomes, Nothing, StepStates
<1>9. CASE StartRollback
  BY <1>9 DEF StartRollback, probed, Commands, Outcomes, Nothing, StepStates, Names, Content,
      Versions
<1>10. ASSUME NEW s \in Slots, DeleteStaged(s) \/ DeleteRotated(s) \/ Restore(s) PROVE DataOK'
  <2>3. file' \in [Slots -> [Names -> Content \cup {None}]]
    BY <1>10 DEF DeleteStaged, DeleteRotated, Restore, Mdel, Mren, Names
  <2> QED BY <1>10, <2>3 DEF DeleteStaged, DeleteRotated, Restore
<1>11. CASE RefreshHost
  <2>1. entry.body \in Manifests /\ entry.guid \in Guids
    BY <1>11 DEF RefreshHost, Rotated, RotateInv, UpdatePcs, Bodies
  <2>2. \A s \in Slots : state[s] # "skip" => fresh[s] \in Versions
    BY <1>11 DEF RefreshHost, Rotated, RotateInv, UpdatePcs
  <2>3. [s \in Slots |-> IF s \in Planned THEN fresh[s] ELSE entry.body.sum[s]] \in [Slots -> Versions]
    BY <2>1, <2>2 DEF Planned, Manifests
  <2>4. Refreshed \in Manifests BY <1>11, <2>1, <2>3 DEF Refreshed, Manifests, RefreshHost
  <2>5. entry' \in store' /\ \A e \in store' : e.guid \in Guids /\ e.body \in Bodies
    BY <1>11, <2>1, <2>4 DEF RefreshHost, Bodies
  <2> QED BY <1>11, <2>5 DEF RefreshHost
<1>12. CASE RefreshEsp
  BY <1>12 DEF RefreshEsp, RotateInv, UpdatePcs, Commands, Outcomes, Nothing, StepStates
<1>13. CASE UpdateDies
  <2>1. file' = file \/ McopyFails(at, "new") BY <1>13, Zenon DEF UpdateDies
  <2>3. file' \in [Slots -> [Names -> Content \cup {None}]]
    BY <2>1 DEF McopyFails, Names, Content
  <2>4. \A e \in store' : e.guid \in Guids /\ e.body \in Bodies BY <1>13, StoreAfterUpdate
  <2> QED BY <1>13, <2>3, <2>4 DEF UpdateDies, Commands, Outcomes, Nothing, StepStates
<1> QED BY <1>1, <1>2, <1>3, <1>4, <1>5, <1>6, <1>7, <1>8, <1>9, <1>10, <1>11, <1>12, <1>13 DEF
            UpdateNext

\* A step of flash keeps the flags Boolean.
LEMMA FlagsFlash == ASSUME FlagsOK, FlashStep PROVE FlagsOK'
<1> USE DEF FlagsOK, FlashStep
<1>1. CASE StartFlash \/ Refuse \/ Confirm \/ ConfirmImage \/ StepFails \/ MmdOk \/ RenderOk
     \/ ResolveOk
  BY <1>1, Zenon DEF StartFlash, Refuse, Confirm, ConfirmImage, StepFails, MmdOk, RenderOk,
      ResolveOk
<1>2. CASE Zap \/ NewTable \/ Entries \/ PartitionFails \/ FormatEsp \/ FormatFails
  BY <1>2, Zenon DEF Zap, NewTable, Entries, PartitionFails, FormatEsp, FormatFails, Table,
      EspErased
<1>3. CASE StageFile \/ StageFileFails \/ IdentityOk \/ HashOk \/ WriteManifest
     \/ WriteManifestFails \/ Sign \/ Mirror
  BY <1>3, Zenon DEF StageFile, StageFileFails, IdentityOk, HashOk, WriteManifest,
      WriteManifestFails, Sign, Mirror
<1>4. CASE Dd \/ DdFails \/ Readback \/ ReadbackFails \/ Record
  BY <1>4, Zenon DEF Dd, DdFails, ImageWritten, Readback, ReadbackFails, Record
<1>5. CASE FlashDies
  <2>1. checked' = FALSE /\ UNCHANGED errs BY <1>5, Zenon DEF FlashDies
  <2>2. espFs' \in {espFs, TRUE, FALSE} BY <1>5 DEF FlashDies, EspErased, ImageWritten
  <2> QED BY <2>1, <2>2, Zenon
<1> QED BY <1>1, <1>2, <1>3, <1>4, <1>5, Zenon DEF FlashNext

\* A step of update or rollback keeps the flags Boolean.
LEMMA FlagsUpdate == ASSUME FlagsOK, UpdateStep PROVE FlagsOK'
<1> USE DEF FlagsOK, UpdateStep
<1>1. CASE StartUpdate \/ Materialize \/ MaterializeFails \/ SkipSlot \/ Stage \/ Backup
     \/ Commit \/ VerifyRotated
  BY <1>1, Zenon DEF StartUpdate, Materialize, MaterializeFails, SkipSlot, Stage, Backup,
      Commit, VerifyRotated
<1>2. CASE StageFails \/ MoveFails \/ VerifyFails
  BY <1>2, Zenon DEF StageFails, MoveFails, VerifyFails
<1>3. CASE StartRollback \/ UndoDone \/ RefreshHost \/ RefreshFails \/ RefreshEsp \/ UpdateDies
  BY <1>3, Zenon DEF StartRollback, UndoDone, RefreshHost, RefreshFails, RefreshEsp, UpdateDies
<1>4. ASSUME NEW s \in Slots, DeleteStaged(s) \/ DeleteRotated(s) \/ Restore(s) PROVE FlagsOK'
  BY <1>4, Zenon DEF DeleteStaged, DeleteRotated, Restore
<1> QED BY <1>1, <1>2, <1>3, <1>4, Zenon DEF UpdateNext

-----------------------------------------------------------------------------
(* Steps of flash. *)

\* They keep to the places of the command.
LEMMA PcFlash == ASSUME IInv, FlashStep PROVE PcOK'
<1> USE StickAssumption DEF IInv, FlashStep, PcOK, FlashPcs, StagedPcs, TypeOK, StickTypeOK
<1>1. CASE StartFlash \/ Confirm \/ Zap \/ NewTable \/ Entries \/ RenderOk \/ MmdOk
     \/ StageFile \/ IdentityOk \/ HashOk \/ WriteManifest \/ Sign 
  BY <1>1 DEF StartFlash, Confirm, Zap, NewTable, Entries, RenderOk, MmdOk, StageFile,
      IdentityOk, HashOk, WriteManifest, Sign
<1>2. CASE Refuse \/ StepFails \/ PartitionFails \/ FormatFails \/ StageFileFails
     \/ WriteManifestFails \/ Mirror \/ DdFails \/ ReadbackFails \/ Record \/ FlashDies 
  BY <1>2 DEF Refuse, StepFails, PartitionFails, FormatFails, StageFileFails,
      WriteManifestFails, Mirror, DdFails, ReadbackFails, Record, FlashDies
<1>3. CASE ConfirmImage BY <1>3 DEF ConfirmImage, Versions
<1>4. CASE FormatEsp BY <1>4 DEF FormatEsp
<1>5. CASE ResolveOk BY <1>5 DEF ResolveOk, BuildSources
<1>6. CASE Dd \/ Readback BY <1>6 DEF Dd, Readback
<1> QED BY <1>1, <1>2, <1>3, <1>4, <1>5, <1>6 DEF FlashNext

\* The image flash records only what it compared.
LEMMA ImageFlash == ASSUME IInv, FlashStep PROVE ImageInv'
<1> USE DEF IInv, FlashStep, PcOK, FlashPcs, ImageInv, ReadbackMatches
<1>1. CASE StartFlash \/ Confirm \/ Zap \/ NewTable \/ Entries \/ RenderOk \/ MmdOk
     \/ StageFile \/ IdentityOk \/ HashOk \/ WriteManifest \/ Sign \/ ConfirmImage
     \/ ResolveOk \/ Dd
  BY <1>1 DEF StartFlash, Confirm, Zap, NewTable, Entries, RenderOk, MmdOk, StageFile,
      IdentityOk, HashOk, WriteManifest, Sign, ConfirmImage, ResolveOk, Dd
<1>2. CASE Refuse \/ StepFails \/ PartitionFails \/ FormatFails \/ StageFileFails
     \/ WriteManifestFails \/ Mirror \/ DdFails \/ ReadbackFails \/ Record \/ FlashDies
     \/ FormatEsp
  BY <1>2 DEF Refuse, StepFails, PartitionFails, FormatFails, StageFileFails,
      WriteManifestFails, Mirror, DdFails, ReadbackFails, Record, FlashDies, FormatEsp
<1>3. CASE Readback BY <1>3, Zenon DEF Readback
<1> QED BY <1>1, <1>2, <1>3 DEF FlashNext

\* The direct flash fills its slots in order and writes the manifest last.
LEMMA FlashInvFlash == ASSUME IInv, FlashStep PROVE FlashInv'
<1> USE StickAssumption DEF IInv, FlashStep, FlashInv, StagedPcs, PcOK, FlashPcs
<1>1. CASE Refuse \/ StepFails \/ PartitionFails \/ FormatFails \/ StageFileFails
     \/ WriteManifestFails \/ Mirror \/ DdFails \/ ReadbackFails \/ Record \/ FlashDies
  BY <1>1 DEF Refuse, StepFails, PartitionFails, FormatFails, StageFileFails,
      WriteManifestFails, Mirror, DdFails, ReadbackFails, Record, FlashDies
<1>2. CASE ConfirmImage \/ Dd \/ Readback BY <1>2 DEF ConfirmImage, Dd, Readback
<1>3. CASE StartFlash BY <1>3 DEF StartFlash
<1>4. CASE Confirm BY <1>4 DEF Confirm, TypeOK, FlashTypeOK
<1>5. CASE Zap \/ NewTable \/ Entries BY <1>5 DEF Zap, NewTable, Entries, Table
<1>6. CASE FormatEsp BY <1>6 DEF FormatEsp, EspErased, EmptySlot, Names
<1>7. CASE RenderOk \/ ResolveOk BY <1>7 DEF RenderOk, ResolveOk
<1>8. CASE MmdOk BY <1>8 DEF MmdOk, Slots
<1>9. CASE StageFile
  <2>1. SourceFor(at) # None /\ Torn # None
    BY <1>9 DEF StageFile, SourceFor, TypeOK, StickTypeOK
  <2>2. PICK b : b # None /\ file' = [file EXCEPT ![at]["main"] = b]
    BY <1>9, <2>1 DEF StageFile, Mcopy
  <2>3. \A s \in Slots : file'[s]["main"] = IF s = at THEN b ELSE file[s]["main"]
    BY <1>9, <2>2 DEF TypeOK, StickTypeOK, Names, StageFile
  <2>4. cmd' = "flash" /\ pc = "stage" /\ at' = at + 1 /\ at \in 1..NSlots
       /\ manifest' = manifest /\ guid' = guid /\ flashes' = flashes
     BY <1>9 DEF StageFile, Slots
  <2>5. CASE at = NSlots BY <1>9, <2>2, <2>3, <2>4, <2>5 DEF StageFile, Slots
  <2>6. CASE at # NSlots BY <1>9, <2>2, <2>3, <2>4, <2>6 DEF StageFile, Slots
  <2> QED BY <2>5, <2>6
<1>10. CASE IdentityOk BY <1>10 DEF IdentityOk
<1>11. CASE HashOk
  <2>1. draft' \in Manifests /\ draft'.guid = guid /\ draft'.seq = 1
    BY <1>11 DEF HashOk, Manifests, SourceFor, TypeOK, StickTypeOK
  <2> QED BY <1>11, <2>1 DEF HashOk
<1>12. CASE WriteManifest \/ Sign BY <1>12 DEF WriteManifest, Sign
<1> QED BY <1>1, <1>2, <1>3, <1>4, <1>5, <1>6, <1>7, <1>8, <1>9, <1>10, <1>11, <1>12 DEF
            FlashNext

\* A new manifest enters the host's directory under a GUID it did not have.
LEMMA StoreFlash == ASSUME IInv, FlashStep PROVE StoreInv'
<1> USE StickAssumption DEF IInv, FlashStep, StoreInv
<1>1. CASE Refuse \/ StepFails \/ PartitionFails \/ FormatFails \/ StageFileFails
     \/ WriteManifestFails  \/ DdFails \/ ReadbackFails \/ FormatEsp
  BY <1>1 DEF Refuse, StepFails, PartitionFails, FormatFails, StageFileFails,
      WriteManifestFails, DdFails, ReadbackFails, FormatEsp, Table, EspErased, ImageWritten
<1>2. CASE StartFlash \/ Zap \/ NewTable \/ Entries \/ RenderOk \/ ResolveOk \/ MmdOk
     \/ StageFile \/ IdentityOk \/ HashOk \/ WriteManifest \/ Sign \/ Dd \/ Readback
  BY <1>2 DEF StartFlash, Zap, NewTable, Entries, Table, RenderOk, ResolveOk, MmdOk, StageFile,
      IdentityOk, HashOk, WriteManifest, Sign, Dd, ImageWritten, Readback
<1>3. CASE Confirm \/ ConfirmImage
  BY <1>3 DEF Confirm, ConfirmImage, TypeOK, FlashTypeOK, StickTypeOK, Guids, EarlierGuid
<1>4. CASE Mirror
  <2>1. draft \in Manifests /\ draft.guid = guid /\ guid = flashes /\ flashes > 0
    BY <1>4 DEF Mirror, FlashInv, PcOK
  <2>2. \A e \in store : e.body \in Manifests => e.guid # flashes BY <1>4 DEF Mirror, PcOK
  <2>3. flashes # EarlierGuid /\ flashes' = flashes /\ cmd' = "none"
    BY <1>4 DEF Mirror, EarlierGuid, TypeOK, FlashTypeOK
  <2>4. CASE \A e \in store' : e.body \in Manifests => e \in store
    BY <2>3, <2>4, <1>4 DEF Mirror
  <2>5. CASE store' = store \cup {[guid |-> guid, body |-> draft]}
    BY <2>1, <2>2, <2>3, <2>5, <1>4 DEF TypeOK, FlashTypeOK
  <2> QED BY <1>4, <2>4, <2>5, StoreAfterFlash
<1>5. CASE Record \/ FlashDies
  <2>1. \A e \in store' : e.body \in Manifests => e \in store
    BY <1>5, StoreAfterFlash DEF Mirror, Record, FlashDies
  <2>2. cmd' = "none" /\ flashes' = flashes BY <1>5 DEF Record, FlashDies
  <2> QED BY <2>1, <2>2
<1> QED BY <1>1, <1>2, <1>3, <1>4, <1>5 DEF FlashNext

\* The first manifest of a disk GUID has sequence number 1 on both sides.
LEMMA SeqFlash == ASSUME IInv, FlashStep PROVE SeqInv'
<1> USE StickAssumption DEF IInv, FlashStep, SeqInv
<1>0. cmd' # "update" BY FlashQuiet
<1>1. CASE Refuse \/ StepFails \/ PartitionFails \/ FormatFails \/ StageFileFails \/ DdFails
     \/ ReadbackFails \/ FormatEsp \/ Dd
  BY <1>1, <1>0 DEF Refuse, StepFails, PartitionFails, FormatFails, StageFileFails, DdFails,
      ReadbackFails, FormatEsp, Table, EspErased, ImageWritten, Dd
<1>2. CASE StartFlash \/ Confirm \/ ConfirmImage \/ Zap \/ NewTable \/ Entries \/ RenderOk
     \/ ResolveOk \/ MmdOk \/ StageFile \/ IdentityOk \/ HashOk \/ Sign \/ Readback
  BY <1>2, <1>0 DEF StartFlash, Confirm, ConfirmImage, Zap, NewTable, Entries, Table, RenderOk,
      ResolveOk, MmdOk, StageFile, IdentityOk, HashOk, Sign, Readback
<1>3. CASE WriteManifest \/ WriteManifestFails
  <2>1. CASE manifest' = manifest
    BY <1>3, <1>0, <2>1 DEF WriteManifest, WriteManifestFails
  <2>2. CASE manifest' \notin Manifests BY <2>2
  <2>3. CASE WriteManifest /\ manifest' = draft
    <3>1. draft.guid = flashes /\ draft.seq = 1 BY <2>3 DEF WriteManifest, FlashInv, PcOK
    <3>2. \A e \in store : e.body \in Manifests => e.guid # flashes /\ e.body.guid = e.guid
      BY <2>3 DEF WriteManifest, StoreInv, PcOK
    <3> QED BY <1>0, <2>3, <3>1, <3>2 DEF WriteManifest
  <2> QED BY <1>3, <2>1, <2>2, <2>3 DEF WriteManifest, WriteManifestFails
<1>4. CASE Mirror
  <2>1. CASE \A e \in store' : e.body \in Manifests => e \in store
    BY <1>0, <1>4, <2>1 DEF Mirror
  <2>2. CASE store' = store \cup {[guid |-> guid, body |-> draft]}
     BY <1>0, <1>4, <2>2 DEF Mirror, PcOK, FlashInv, StoreInv
  <2> QED BY <1>4, <2>1, <2>2, StoreAfterFlash
<1>5. CASE Record \/ FlashDies
  <2>1. \A e \in store' : e.body \in Manifests => e \in store
    BY <1>5, StoreAfterFlash DEF Mirror, Record, FlashDies
  <2>2. manifest' = manifest \/ manifest' \notin Manifests
    BY <1>5 DEF Record, FlashDies, EspErased, ImageWritten
  <2> QED BY <1>0, <2>1, <2>2
<1> QED BY <1>1, <1>2, <1>3, <1>4, <1>5 DEF FlashNext

\* Erasing the stick changes its GUID to one that nobody knows.
LEMMA KnownFlash == ASSUME IInv, FlashStep PROVE KnownMeansStaged'
<1> USE StickAssumption DEF IInv, FlashStep, KnownMeansStaged
<1>1. CASE StartFlash \/ Refuse \/ Confirm \/ ConfirmImage \/ StepFails \/ RenderOk
     \/ ResolveOk \/ MmdOk \/ IdentityOk \/ HashOk \/ Sign \/ Readback \/ ReadbackFails
  BY <1>1 DEF StartFlash, Refuse, Confirm, ConfirmImage, StepFails, RenderOk, ResolveOk, MmdOk,
      IdentityOk, HashOk, Sign, Readback, ReadbackFails
<1>2. CASE Zap \/ NewTable \/ Entries \/ PartitionFails
  BY <1>2 DEF Zap, NewTable, Entries, PartitionFails, Table, StoreInv, PcOK, EarlierGuid,
      TypeOK, FlashTypeOK, FlashInv
<1>3. ASSUME NEW fs, EspErased(fs), pc = "mkfs", cmd = "flash" PROVE KnownMeansStaged'
  BY <1>3 DEF EspErased, StoreInv, FlashInv
<1>4. ASSUME ImageWritten PROVE KnownMeansStaged'
  BY <1>4 DEF ImageWritten, StoreInv, ImageGuid, EarlierGuid, TypeOK, FlashTypeOK
<1>5. CASE FormatEsp \/ FormatFails
  BY <1>5, <1>3 DEF FormatEsp, FormatFails, PcOK
<1>6. CASE Dd \/ DdFails BY <1>6, <1>4 DEF Dd, DdFails
<1>7. CASE StageFile \/ StageFileFails
  <2>1. \A s \in Slots : (file[s]["main"] # None => file'[s]["main"] # None)
       /\ file'[s]["bak"] = file[s]["bak"]
    BY <1>7 DEF StageFile, StageFileFails, Mcopy, McopyFails, SourceFor, PcOK, StagedPcs,
        TypeOK, StickTypeOK, Names
  <2> QED BY <1>7, <2>1 DEF StageFile, StageFileFails
<1>8. CASE WriteManifest \/ WriteManifestFails \/ Mirror
  BY <1>8 DEF WriteManifest, WriteManifestFails, Mirror, PcOK, FlashInv, StagedPcs
<1>9. CASE Record BY <1>9 DEF Record
<1>10. CASE FlashDies
  <2>1. CASE pc = "mkfs" BY <1>10, <2>1, <1>3 DEF FlashDies, PcOK
  <2>2. CASE pc = "stage"
    <3>1. \A s \in Slots : (file[s]["main"] # None => file'[s]["main"] # None)
         /\ file'[s]["bak"] = file[s]["bak"]
      BY <1>10, <2>2 DEF FlashDies, McopyFails, TypeOK, StickTypeOK, Names
    <3> QED BY <1>10, <2>2, <3>1 DEF FlashDies
  <2>3. CASE pc = "manifest" BY <1>10, <2>3 DEF FlashDies, PcOK, FlashInv, StagedPcs
  <2>4. CASE pc = "dd" BY <1>10, <2>4, <1>4 DEF FlashDies
  <2> QED BY <1>10, <2>1, <2>2, <2>3, <2>4 DEF FlashDies
<1> QED BY <1>1, <1>2, <1>5, <1>6, <1>7, <1>8, <1>9, <1>10 DEF FlashNext

-----------------------------------------------------------------------------
(* Steps of update and rollback. *)

\* They keep to the places of the command.
LEMMA PcUpdate == ASSUME IInv, UpdateStep PROVE PcOK'
<1> USE StickAssumption DEF IInv, UpdateStep, PcOK, UpdatePcs, UndoPcs, TypeOK, StickTypeOK
<1>1. CASE StartUpdate \/ SkipSlot \/ Stage \/ Backup \/ Commit \/ VerifyRotated
  BY <1>1 DEF StartUpdate, SkipSlot, Stage, Backup, Commit, VerifyRotated
<1>2. CASE Materialize BY <1>2 DEF Materialize, BuildSources
<1>3. CASE MaterializeFails \/ UndoDone \/ RefreshFails \/ RefreshEsp \/ UpdateDies
  BY <1>3 DEF MaterializeFails, UndoDone, RefreshFails, RefreshEsp, UpdateDies
<1>4. CASE StageFails \/ MoveFails \/ VerifyFails BY <1>4 DEF StageFails, MoveFails, VerifyFails
<1>5. CASE StartRollback \/ RefreshHost BY <1>5 DEF StartRollback, RefreshHost, Rotated
<1>6. ASSUME NEW s \in Slots, DeleteStaged(s) \/ DeleteRotated(s) \/ Restore(s) PROVE PcOK'
  BY <1>6 DEF DeleteStaged, DeleteRotated, Restore
<1> QED BY <1>1, <1>2, <1>3, <1>4, <1>5, <1>6 DEF UpdateNext

\* The rotation knows where every old byte is.
LEMMA RotateUpdate == ASSUME IInv, UpdateStep PROVE RotateInv'
<1> USE StickAssumption DEF IInv, UpdateStep, RotateInv, UpdatePcs, TypeOK, StickTypeOK,
     UpdateTypeOK
<1>1. CASE MaterializeFails \/ UndoDone \/ RefreshFails \/ RefreshEsp \/ UpdateDies
     \/ StageFails \/ MoveFails \/ VerifyFails \/ StartRollback
  BY <1>1 DEF MaterializeFails, UndoDone, RefreshFails, RefreshEsp, UpdateDies, StageFails,
      MoveFails, VerifyFails, StartRollback
<1>2. CASE \E s \in Slots : DeleteStaged(s) \/ DeleteRotated(s) \/ Restore(s)
  BY <1>2 DEF DeleteStaged, DeleteRotated, Restore
<1>3. CASE StartUpdate
  <2>1. PICK plan \in SUBSET Slots :
          /\ plan # {}
          /\ \A s \in plan : Hashed(s) # None
          /\ state' = [s \in Slots |-> IF s \in plan THEN "pending" ELSE "skip"]
          /\ fresh' = [s \in Slots |-> IF s \in plan THEN host[s] ELSE None]
     <3>1. PICK unknown \in SUBSET Slots :
             LET diff == build_esp_diff(unknown)
                 found == {t \in Slots : would_change(diff[t])}
             IN /\ found # {}
                /\ state' = [s \in Slots |-> IF s \in found THEN "pending" ELSE "skip"]
                /\ fresh' = [s \in Slots |-> IF s \in found THEN host[s] ELSE None]
       BY <1>3, Zenon DEF StartUpdate
     <3> DEFINE found == {t \in Slots : would_change(build_esp_diff(unknown)[t])}
     <3>2. \A s \in found : Hashed(s) # None BY DEF build_esp_diff, would_change
     <3> HIDE DEF found
     <3>3. found \in SUBSET Slots BY DEF found
     <3>4. /\ found # {}
           /\ state' = [s \in Slots |-> IF s \in found THEN "pending" ELSE "skip"]
           /\ fresh' = [s \in Slots |-> IF s \in found THEN host[s] ELSE None]
       BY <3>1, Zenon DEF found
     <3> QED BY <3>2, <3>3, <3>4, Zenon
  <2>2. \A s \in plan : file[s]["main"] # None /\ table = "ready" /\ espFs
     BY <2>1 DEF Hashed, Readable
  <2> QED BY <1>3, <2>1, <2>2 DEF StartUpdate, find_attestation_by_guid
<1>4. CASE Materialize \/ SkipSlot BY <1>4 DEF Materialize, SkipSlot, Slots
<1>5. CASE Stage
  <2>1. \A s \in Slots : file'[s]["main"] = file[s]["main"] /\ file'[s]["bak"] = file[s]["bak"]
     BY <1>5 DEF Stage, Mcopy, Names
  <2>2. /\ at \in Slots /\ at' = at /\ state' = [state EXCEPT ![at] = "staged"]
       /\ pc' = "backup" /\ cmd' = "update" /\ pc = "stage" /\ cmd = "update"
        /\ UNCHANGED <<entry, store, guid, table, espFs, fresh, kept>> /\ state[at] # "skip"
     BY <1>5 DEF Stage
  <2>3. state[at] = "pending" BY <2>2 DEF StepStates, Slots
  <2> QED BY <2>1, <2>2, <2>3 DEF Slots
<1>6. CASE Backup
  <2>1. \A s \in Slots : s # at => file'[s]["main"] = file[s]["main"]
       /\ file'[s]["bak"] = file[s]["bak"]
     BY <1>6, MrenEffect DEF Backup, Names
  <2>2. file'[at]["bak"] = file[at]["main"] /\ file'[at]["main"] = None
     BY <1>6, MrenEffect DEF Backup, Names
  <2> QED BY <1>6, <2>1, <2>2 DEF Backup
<1>7. CASE Commit
  <2>1. \A s \in Slots : s # at => file'[s]["main"] = file[s]["main"]
       /\ file'[s]["bak"] = file[s]["bak"]
     BY <1>7, MrenEffect DEF Commit, Names
  <2>2. file'[at]["bak"] = file[at]["bak"]
     BY <1>7, MrenEffect DEF Commit, Names
  <2> QED BY <1>7, <2>1, <2>2 DEF Commit
<1>8. CASE VerifyRotated BY <1>8 DEF VerifyRotated, hashes_eq, Slots
<1>9. CASE RefreshHost
  <2>1. entry.body \in Manifests /\ entry.guid \in Guids
    BY <1>9 DEF RefreshHost, Rotated, Bodies
  <2>2. \A s \in Slots : state[s] # "skip" => fresh[s] \in Versions
    BY <1>9 DEF RefreshHost, Rotated
  <2>3. [s \in Slots |-> IF s \in Planned THEN fresh[s] ELSE entry.body.sum[s]] \in [Slots -> Versions]
    BY <2>1, <2>2 DEF Planned, Manifests
  <2>4. Refreshed \in Manifests BY <1>9, <2>1, <2>3 DEF Refreshed, Manifests, RefreshHost
  <2>5. \A s \in Planned : Refreshed.sum[s] = fresh[s] BY DEF Refreshed, Planned
  <2>6. entry' \in store' /\ entry'.guid = entry.guid /\ entry'.body = Refreshed
    BY <1>9 DEF RefreshHost
  <2>7. \A s \in Slots : state[s] \in {"skip", "rotated"}
    BY <1>9 DEF RefreshHost, Rotated, Slots
  <2>8. Planned' = Planned BY <1>9 DEF RefreshHost, Planned
  <2> QED BY <1>9, <2>4, <2>5, <2>6, <2>7, <2>8 DEF RefreshHost, Rotated
<1> QED BY <1>1, <1>2, <1>3, <1>4, <1>5, <1>6, <1>7, <1>8, <1>9 DEF UpdateNext

\* So does its unwinding.
LEMMA UndoUpdate == ASSUME IInv, UpdateStep PROVE UndoInv'
<1> USE StickAssumption DEF IInv, UpdateStep, UndoInv, UpdatePcs, UndoPcs, TypeOK, StickTypeOK,
     UpdateTypeOK, PcOK
<1>1. CASE MaterializeFails \/ UndoDone \/ RefreshFails \/ RefreshEsp \/ UpdateDies
     \/ StartUpdate \/ Materialize \/ SkipSlot \/ Stage \/ Backup \/ Commit \/ VerifyRotated
     \/ RefreshHost
  BY <1>1 DEF MaterializeFails, UndoDone, RefreshFails, RefreshEsp, UpdateDies, StartUpdate,
      Materialize, SkipSlot, Stage, Backup, Commit, VerifyRotated, RefreshHost, Rotated
<1>2. CASE StartRollback
  <2>1. PICK found \in SUBSET probed : todo' = found
       /\ state' = [s \in Slots |-> IF s \in found THEN "rotated" ELSE "skip"]
     BY <1>2 DEF StartRollback
  <2>2. \A s \in found : file[s]["bak"] # None BY DEF probed, Readable
  <2>3. kept' = [s \in Slots |-> IF s \in found THEN file[s]["bak"] ELSE file[s]["main"]]
    BY <1>2, <2>1 DEF StartRollback
  <2> QED BY <1>2, <2>1, <2>2, <2>3 DEF StartRollback, probed
<1>3. CASE StageFails \/ MoveFails \/ VerifyFails
  <2>1. \A s \in Slots : file'[s]["main"] = file[s]["main"] /\ file'[s]["bak"] = file[s]["bak"]
     BY <1>3 DEF StageFails, MoveFails, VerifyFails, McopyFails, Names
  <2>2. \A s \in Slots : kept[s] # None => kept[s] \in {file[s]["main"], file[s]["bak"]}
     BY <1>3 DEF StageFails, MoveFails, VerifyFails, RotateInv, StepStates
  <2>3. \A s \in Slots : state[s] = "rotated" => file[s]["bak"] = kept[s] /\ kept[s] # None
     BY <1>3 DEF StageFails, MoveFails, VerifyFails, RotateInv
  <2>4. CASE rollback_plan = {} BY <1>3, <2>4 DEF StageFails, MoveFails, VerifyFails
  <2>5. CASE rollback_plan # {}
    <3>1. todo' = rollback_plan /\ pc' = "undo" /\ state' = state /\ kept' = kept
      BY <1>3, <2>5 DEF StageFails, MoveFails, VerifyFails
    <3> QED BY <3>1, <2>1, <2>2, <2>3 DEF rollback_plan
  <2> QED BY <2>4, <2>5
<1>4. ASSUME NEW s \in Slots, DeleteStaged(s) PROVE UndoInv'
  <2>1. \A t \in Slots : file'[t]["main"] = file[t]["main"] /\ file'[t]["bak"] = file[t]["bak"]
     BY <1>4, MdelEffect DEF DeleteStaged, Names
  <2> QED BY <1>4, <2>1 DEF DeleteStaged
<1>5. ASSUME NEW s \in Slots, DeleteRotated(s) PROVE UndoInv'
  <2>0. cmd \in {"update", "rollback"} /\ pc = "undo" BY <1>5 DEF DeleteRotated
  <2>1. \/ todo' = todo \ {s} /\ pc' = "undo" /\ file' = file /\ UNCHANGED <<cmd, state, kept>>
        \/ Mdel(s, "main") /\ pc' = "restore" /\ UNCHANGED <<cmd, todo, state, kept>>
     BY <1>5, Zenon DEF DeleteRotated
  <2>2. CASE todo' = todo \ {s} /\ pc' = "undo" /\ file' = file
        /\ UNCHANGED <<cmd, state, kept>>
    BY <2>0, <2>2
  <2>3. CASE Mdel(s, "main") /\ pc' = "restore" /\ UNCHANGED <<cmd, todo, state, kept>>
    <3>1. file'[s]["main"] = None /\ file'[s]["bak"] = file[s]["bak"]
         /\ \A t \in Slots : t # s => file'[t] = file[t]
      BY <2>3, MdelEffect DEF Names
    <3>2. s \in todo /\ (\A t \in todo : t <= s) /\ state[s] = "rotated"
          /\ file[s]["bak"] = kept[s]
      BY <1>5 DEF DeleteRotated
    <3>3. \A t \in todo : (\A u \in todo : u <= t) => t = s BY <3>2 DEF Slots
    <3> QED BY <2>0, <2>3, <3>1, <3>2, <3>3
  <2> QED BY <2>1, <2>2, <2>3
<1>6. ASSUME NEW s \in Slots, Restore(s) PROVE UndoInv'
  <2>1. s \in todo /\ state[s] = "rotated" /\ file[s]["bak"] = kept[s]
        /\ file[s]["main"] = None /\ cmd \in {"update", "rollback"} /\ pc = "restore"
    BY <1>6 DEF Restore
  <2>2. todo' = todo \ {s} /\ pc' = "undo" /\ UNCHANGED <<cmd, state, kept>>
       /\ (file' = file \/ Mren(s, "bak", "main"))
     BY <1>6, Zenon DEF Restore
  <2>3. CASE file' = file BY <2>1, <2>2, <2>3
  <2>4. CASE Mren(s, "bak", "main")
    <3>1. file'[s]["main"] = file[s]["bak"] /\ \A t \in Slots : t # s => file'[t] = file[t]
      BY <2>4, MrenEffect DEF Names
    <3> QED BY <2>2, <3>1, <2>1
  <2> QED BY <2>2, <2>3, <2>4
<1> QED BY <1>1, <1>2, <1>3, <1>4, <1>5, <1>6 DEF UpdateNext

\* The refreshed manifest replaces the one it was made from.
LEMMA StoreUpdate == ASSUME IInv, UpdateStep PROVE StoreInv'
<1> USE StickAssumption DEF IInv, UpdateStep, StoreInv
<1>0. cmd' \in {"none", "update", "rollback"} BY UpdateQuiet
<1>1. CASE StartUpdate \/ Materialize \/ MaterializeFails \/ SkipSlot \/ Stage \/ Backup
     \/ Commit \/ VerifyRotated \/ StageFails \/ MoveFails \/ VerifyFails \/ StartRollback
     \/ UndoDone \/ RefreshEsp
  BY <1>0, <1>1 DEF StartUpdate, Materialize, MaterializeFails, SkipSlot, Stage, Backup,
      Commit, VerifyRotated, StageFails, MoveFails, VerifyFails, StartRollback, UndoDone,
      RefreshEsp
<1>2. CASE \E s \in Slots : DeleteStaged(s) \/ DeleteRotated(s) \/ Restore(s)
  BY <1>0, <1>2 DEF DeleteStaged, DeleteRotated, Restore
<1>3. CASE RefreshHost
  <2> DEFINE e == [guid |-> entry.guid, body |-> Refreshed]
  <2>1. entry \in store /\ entry.body \in Manifests /\ Refreshed.guid = entry.guid
     BY <1>3 DEF RefreshHost, Rotated, RotateInv, UpdatePcs, TypeOK, StickTypeOK, Bodies,
         Refreshed
  <2>2. store' = (store \ {entry}) \cup {e} BY <1>3 DEF RefreshHost
  <2>3. \A f \in store \ {entry} : f.body \in Manifests => f.guid # entry.guid BY <2>1
  <2> HIDE DEF e
  <2>4. e.guid = entry.guid /\ e.body = Refreshed BY DEF e
  <2> QED BY <1>0, <1>3, <2>1, <2>2, <2>3, <2>4
<1>4. CASE RefreshFails \/ UpdateDies
  <2>1. \A e \in store' : e.body \in Manifests => e \in store BY <1>4, StoreAfterUpdate
  <2> QED BY <1>0, <1>4, <2>1
<1> QED BY <1>1, <1>2, <1>3, <1>4 DEF UpdateNext

\* The host's manifest is ahead of the stick's until it is copied.
LEMMA SeqUpdate == ASSUME IInv, UpdateStep PROVE SeqInv'
<1> USE StickAssumption DEF IInv, UpdateStep, SeqInv
<1>1. CASE StartUpdate \/ Materialize \/ MaterializeFails \/ SkipSlot \/ Stage \/ Backup
     \/ Commit \/ VerifyRotated \/ StageFails \/ MoveFails \/ VerifyFails \/ StartRollback
     \/ UndoDone
  BY <1>1 DEF StartUpdate, Materialize, MaterializeFails, SkipSlot, Stage, Backup, Commit,
      VerifyRotated, StageFails, MoveFails, VerifyFails, StartRollback, UndoDone, Rotated
<1>2. CASE \E s \in Slots : DeleteStaged(s) \/ DeleteRotated(s) \/ Restore(s)
  BY <1>2 DEF DeleteStaged, DeleteRotated, Restore, PcOK
<1>3. CASE RefreshHost
  <2> DEFINE e == [guid |-> entry.guid, body |-> Refreshed]
  <2>1. entry \in store /\ entry.body \in Manifests /\ Refreshed.guid = entry.guid
       /\ Refreshed.seq = entry.body.seq + 1
     BY <1>3 DEF RefreshHost, Rotated, RotateInv, UpdatePcs, TypeOK, StickTypeOK, Bodies,
         Refreshed, StoreInv
  <2>2. store' = (store \ {entry}) \cup {e} /\ entry' = e BY <1>3 DEF RefreshHost
  <2>3. entry.body.seq \in Nat BY <2>1 DEF Manifests
  <2>4. manifest \in Manifests => manifest.seq \in Nat BY DEF Manifests
  <2> HIDE DEF e
  <2>5. e.guid = entry.guid /\ e.body = Refreshed BY DEF e
  <2> QED BY <1>3, <2>1, <2>2, <2>3, <2>4, <2>5 DEF RefreshHost
<1>4. CASE RefreshEsp
  <2>1. entry \in store /\ entry.body \in Manifests /\ entry.body.guid = entry.guid
    BY <1>4 DEF RefreshEsp, RotateInv, UpdatePcs, StoreInv
  <2>2. \A e \in store : e.body \in Manifests /\ e.guid = entry.guid => e = entry
    BY <2>1 DEF StoreInv
  <2>3. entry.body.seq \in Nat BY <2>1 DEF Manifests
  <2> QED BY <1>4, <2>1, <2>2, <2>3 DEF RefreshEsp
<1>5. CASE RefreshFails \/ UpdateDies
  <2>1. \A e \in store' : e.body \in Manifests => e \in store BY <1>5, StoreAfterUpdate
  <2>2. cmd' = "none" /\ (manifest' = manifest \/ manifest' = Torn)
    BY <1>5 DEF RefreshFails, UpdateDies
  <2> QED BY <2>1, <2>2
<1> QED BY <1>1, <1>2, <1>3, <1>4, <1>5 DEF UpdateNext

\* No slot loses its last file.
LEMMA FilesUpdate == ASSUME IInv, UpdateStep, UndoInv, NEW s \in Slots,
     file[s]["main"] # None \/ file[s]["bak"] # None
  PROVE file'[s]["main"] # None \/ file'[s]["bak"] # None
<1> USE DEF IInv, UpdateStep, TypeOK, StickTypeOK, UndoPcs, Names
<1>1. CASE StartUpdate \/ Materialize \/ MaterializeFails \/ SkipSlot \/ VerifyRotated
     \/ MoveFails \/ VerifyFails \/ StartRollback \/ UndoDone \/ RefreshHost \/ RefreshFails
     \/ RefreshEsp
  BY <1>1 DEF StartUpdate, Materialize, MaterializeFails, SkipSlot, VerifyRotated, MoveFails,
      VerifyFails, StartRollback, UndoDone, RefreshHost, RefreshFails, RefreshEsp
<1>2. CASE Stage \/ StageFails \/ UpdateDies
  BY <1>2 DEF Stage, StageFails, UpdateDies, Mcopy, McopyFails
<1>3. CASE Backup \/ Commit BY <1>3 DEF Backup, Commit, Mren
<1>4. ASSUME NEW t \in Slots, DeleteStaged(t) PROVE file'[s]["main"] # None
     \/ file'[s]["bak"] # None
  BY <1>4 DEF DeleteStaged, Mdel
<1>5. ASSUME NEW t \in Slots, DeleteRotated(t) PROVE file'[s]["main"] # None
     \/ file'[s]["bak"] # None
  <2>1. cmd \in {"update", "rollback"} /\ pc = "undo" /\ t \in todo /\ state[t] = "rotated"
       /\ (file' = file \/ Mdel(t, "main"))
    BY <1>5, Zenon DEF DeleteRotated
  <2>2. file[t]["bak"] # None BY <2>1 DEF UndoInv
  <2> QED BY <2>1, <2>2 DEF Mdel
<1>6. ASSUME NEW t \in Slots, Restore(t) PROVE file'[s]["main"] # None \/ file'[s]["bak"] # None
  <2>1. file' = file \/ Mren(t, "bak", "main") BY <1>6, Zenon DEF Restore
  <2> QED BY <2>1 DEF Mren
<1> QED BY <1>1, <1>2, <1>3, <1>4, <1>5, <1>6 DEF UpdateNext

\* Nothing becomes known about a stick that was not.
LEMMA KnownUpdate == ASSUME IInv, UpdateStep PROVE KnownMeansStaged'
<1> USE DEF IInv, UpdateStep
<1> DEFINE Known == manifest \in Manifests \/ \E e \in store : e.guid = guid
     /\ e.body \in Manifests
<1>1. Known' => Known
  <2>1. CASE StartUpdate \/ Materialize \/ MaterializeFails \/ SkipSlot \/ Stage \/ Backup
       \/ Commit \/ VerifyRotated \/ StageFails \/ MoveFails \/ VerifyFails \/ StartRollback
       \/ UndoDone
    BY <2>1 DEF StartUpdate, Materialize, MaterializeFails, SkipSlot, Stage, Backup, Commit,
        VerifyRotated, StageFails, MoveFails, VerifyFails, StartRollback, UndoDone
  <2>2. CASE \E s \in Slots : DeleteStaged(s) \/ DeleteRotated(s) \/ Restore(s)
    BY <2>2 DEF DeleteStaged, DeleteRotated, Restore
  <2>3. CASE RefreshHost
    BY <2>3 DEF RefreshHost, Rotated, RotateInv, UpdatePcs, TypeOK, StickTypeOK, Bodies
  <2>4. CASE RefreshEsp
    BY <2>4, StickAssumption DEF RefreshEsp, RotateInv, UpdatePcs
  <2>5. CASE RefreshFails \/ UpdateDies
    <3>1. \A e \in store' : e.body \in Manifests => e \in store BY <2>5, StoreAfterUpdate
    <3>2. guid' = guid /\ (manifest' = manifest \/ manifest' = Torn)
      BY <2>5 DEF RefreshFails, UpdateDies
    <3> QED BY <3>1, <3>2, StickAssumption
  <2> QED BY <2>1, <2>2, <2>3, <2>4, <2>5 DEF UpdateNext
<1> QED BY <1>1, FilesUpdate DEF KnownMeansStaged

-----------------------------------------------------------------------------
(* The invariant. *)

\* It holds of a new stick and of one that was flashed before.
LEMMA InitInv == ASSUME Init PROVE IInv
<1> USE StickAssumption DEF Init, StickInit, FlashInit, UpdateInit
<1>1. FlagsOK BY Zenon DEF FlagsOK, Blank, FlashedBefore
<1>2. file \in [Slots -> [Names -> Content \cup {None}]]
  BY DEF Blank, FlashedBefore, EmptySlot, Names, Content, Versions
<1>3. /\ manifest \in Manifests \cup {None} /\ guid \in Guids
      /\ \A e \in store : e.guid = EarlierGuid /\ e.body = manifest /\ e.body \in Manifests
      /\ manifest \in Manifests => manifest.guid = EarlierGuid /\ manifest.seq = 1
      /\ \A e, f \in store : e = f
  BY DEF Blank, FlashedBefore, Manifests, Guids, EarlierGuid, Versions
<1>4. DataOK
  BY <1>2, <1>3 DEF DataOK, Blank, FlashedBefore, Bodies, Commands, Outcomes, Nothing,
     StepStates, Versions, Content, Guids, EarlierGuid
<1>5. TypeOK
  BY <1>1, <1>4, Zenon DEF TypeOK, StickTypeOK, FlashTypeOK, UpdateTypeOK, FlagsOK, DataOK
<1>6. PcOK /\ FlashInv /\ ImageInv /\ RotateInv /\ UndoInv
  BY DEF PcOK, FlashInv, ImageInv, RotateInv, UndoInv
<1>7. StoreInv /\ SeqInv BY <1>3 DEF StoreInv, SeqInv
<1>8. KnownMeansStaged
  BY <1>3 DEF KnownMeansStaged, Blank, FlashedBefore, EmptySlot, Names, Versions
<1> QED BY <1>5, <1>6, <1>7, <1>8 DEF IInv

\* Every step keeps it.
LEMMA StepInv == ASSUME IInv, [Next]_vars PROVE IInv'
<1>1. CASE FlashStep
  <2>1. FlagsOK'
    BY <1>1, FlagsFlash, Zenon DEF IInv, TypeOK, StickTypeOK, FlashTypeOK, UpdateTypeOK,
        FlagsOK
  <2>2. DataOK' BY <1>1, FlashTypes
  <2>3. TypeOK'
    BY <2>1, <2>2, Zenon DEF TypeOK, StickTypeOK, FlashTypeOK, UpdateTypeOK, FlagsOK, DataOK
  <2>4. PcOK' /\ FlashInv' /\ ImageInv' /\ StoreInv' /\ SeqInv' /\ KnownMeansStaged'
    BY <1>1, PcFlash, FlashInvFlash, ImageFlash, StoreFlash, SeqFlash, KnownFlash
  <2>5. RotateInv' /\ UndoInv' BY <1>1, FlashQuiet DEF RotateInv, UndoInv
  <2> QED BY <2>3, <2>4, <2>5 DEF IInv
<1>2. CASE UpdateStep
  <2>1. FlagsOK'
    BY <1>2, FlagsUpdate, Zenon DEF IInv, TypeOK, StickTypeOK, FlashTypeOK, UpdateTypeOK,
        FlagsOK
  <2>2. DataOK' BY <1>2, UpdateTypes
  <2>3. TypeOK'
    BY <2>1, <2>2, Zenon DEF TypeOK, StickTypeOK, FlashTypeOK, UpdateTypeOK, FlagsOK, DataOK
  <2>4. PcOK' /\ RotateInv' /\ UndoInv' /\ StoreInv' /\ SeqInv' /\ KnownMeansStaged'
    BY <1>2, PcUpdate, RotateUpdate, UndoUpdate, StoreUpdate, SeqUpdate, KnownUpdate
  <2>5. FlashInv' /\ ImageInv' BY <1>2, UpdateQuiet DEF FlashInv, ImageInv
  <2> QED BY <2>3, <2>4, <2>5 DEF IInv
<1>3. ASSUME UNCHANGED <<stickVars, store, src, runVars, flashVars, updateVars>>,
     host' \in [Slots -> Versions]
      PROVE IInv'
  <2>1. TypeOK' BY <1>3 DEF IInv, TypeOK, StickTypeOK, FlashTypeOK, UpdateTypeOK
  <2>2. PcOK' /\ FlashInv' /\ ImageInv'
    BY <1>3 DEF IInv, PcOK, FlashInv, ImageInv, ReadbackMatches
  <2>3. RotateInv' /\ UndoInv' BY <1>3 DEF IInv, RotateInv, UndoInv, Planned
  <2>4. StoreInv' /\ SeqInv' /\ KnownMeansStaged'
    BY <1>3 DEF IInv, StoreInv, SeqInv, KnownMeansStaged
  <2> QED BY <2>1, <2>2, <2>3, <2>4 DEF IInv
<1>4. CASE HostStep
  BY <1>3, <1>4 DEF HostStep, HostUpgrade, IInv, TypeOK, StickTypeOK
<1>5. CASE UNCHANGED vars BY <1>3, <1>5 DEF vars, IInv, TypeOK, StickTypeOK
<1> QED BY <1>1, <1>2, <1>4, <1>5 DEF Next

\* The invariant holds in every reachable state.
THEOREM InductiveInvariant == Spec => []IInv
<1>1. Init => IInv BY InitInv
<1>2. IInv /\ [Next]_vars => IInv' BY StepInv
<1> QED BY <1>1, <1>2, PTL DEF Spec

\* The variables have their types.
THEOREM TypeCorrect == Spec => []TypeOK
<1>1. IInv => TypeOK BY DEF IInv
<1> QED BY <1>1, InductiveInvariant, PTL

\* A rotated slot has the planned bytes, and the old ones beside them.
THEOREM RotatedVerified == Spec => []RotatedIsVerified
<1>1. IInv => RotatedIsVerified
  BY DEF IInv, RotatedIsVerified, RotateInv, PcOK, UndoPcs
<1> QED BY <1>1, InductiveInvariant, PTL

\* A stick that is known to be flashed has all its boot files.
THEOREM KnownStaged == Spec => []KnownMeansStaged
<1>1. IInv => KnownMeansStaged BY DEF IInv
<1> QED BY <1>1, InductiveInvariant, PTL

-----------------------------------------------------------------------------
(* Spared slots: every step implements a step of the abstract specification. *)

\* The refinement mapping.
Live == [s \in Slots |-> file[s]["main"]]
Spare == [s \in Slots |-> file[s]["bak"]]

\* A copy to a slot without a live file installs one.
LEMMA InstallStep ==
    ASSUME TypeOK, NEW s \in Slots, NEW b \in Content, file[s]["main"] = None,
           file' = [file EXCEPT ![s]["main"] = b]
    PROVE  Spared!Next
<1>1. Live' = [Live EXCEPT ![s] = b] /\ Spare' = Spare
  BY DEF Live, Spare, TypeOK, StickTypeOK, Names
<1>2. Spared!Install(s) BY <1>1 DEF Spared!Install, Live, Spare
<1> QED BY <1>2 DEF Spared!Next

\* Whatever leaves no spare is a flash.
LEMMA EraseStep ==
    ASSUME TypeOK', \A s \in Slots : file'[s]["bak"] = None
    PROVE  Spared!Next
<1>1. Spare' = [s \in Slots |-> None] BY DEF Spare
<1>2. Live' \in [Slots -> Content \cup {None}] BY DEF Live, TypeOK, StickTypeOK, Names
<1> QED BY <1>1, <1>2 DEF Spared!Next, Spared!Erase, Live, Spare

\* A step that touches no live and no spare file is a stutter.
LEMMA FilesSame ==
    ASSUME \A s \in Slots : file'[s]["main"] = file[s]["main"]
         /\ file'[s]["bak"] = file[s]["bak"]
    PROVE  UNCHANGED Spared!vars
BY DEF Spared!vars

\* Flash erases, or installs.
LEMMA FlashImplements == ASSUME IInv, TypeOK', FlashStep PROVE [Spared!Next]_(Spared!vars)
<1> USE DEF IInv, FlashStep
<1>1. CASE file' = file BY <1>1, FilesSame
<1>2. ASSUME NEW fs, EspErased(fs) PROVE Spared!Next
  BY <1>2, EraseStep DEF EspErased, EmptySlot, Names
<1>3. ASSUME ImageWritten PROVE Spared!Next
  BY <1>3, EraseStep DEF ImageWritten, EmptySlot, Names
<1>4. CASE StageFile
  <2>1. at \in Slots /\ file[at]["main"] = None /\ SourceFor(at) \in Versions
    BY <1>4, StickAssumption DEF StageFile, SourceFor, PcOK, StagedPcs, FlashInv, Slots,
        TypeOK, StickTypeOK
  <2>2. PICK b \in Content : file' = [file EXCEPT ![at]["main"] = b]
    BY <1>4, <2>1 DEF StageFile, Mcopy, Content
  <2> QED BY <2>1, <2>2, InstallStep
<1>5. ASSUME cmd = "flash", pc = "stage", at \in Slots, McopyFails(at,
     "main") PROVE [Spared!Next]_(Spared!vars)
  <2>1. file[at]["main"] = None BY <1>5, StickAssumption DEF FlashInv, Slots
  <2> QED BY <1>1, <1>5, <2>1, InstallStep DEF McopyFails, Content
<1>6. CASE StageFileFails BY <1>5, <1>6 DEF StageFileFails
<1>7. CASE FormatEsp \/ FormatFails \/ Dd \/ DdFails
  BY <1>1, <1>2, <1>3, <1>7 DEF FormatEsp, FormatFails, Dd, DdFails
<1>8. CASE FlashDies
  <2>1. CASE pc = "stage"
    <3>1. cmd = "flash" /\ at \in Slots
      BY <1>8, <2>1, StickAssumption DEF FlashDies, PcOK, FlashInv, Slots, TypeOK, StickTypeOK
    <3> QED BY <1>5, <1>8, <2>1, <3>1 DEF FlashDies
  <2>2. CASE pc # "stage" BY <1>1, <1>2, <1>3, <1>8, <2>2 DEF FlashDies
  <2> QED BY <2>1, <2>2
<1>9. CASE StartFlash \/ Refuse \/ Confirm \/ ConfirmImage \/ StepFails \/ Zap \/ NewTable
     \/ Entries \/ PartitionFails \/ RenderOk \/ ResolveOk \/ MmdOk \/ IdentityOk \/ HashOk
     \/ WriteManifest \/ WriteManifestFails \/ Sign \/ Mirror \/ Readback \/ ReadbackFails
     \/ Record
  BY <1>1, <1>9 DEF StartFlash, Refuse, Confirm, ConfirmImage, StepFails, Zap, NewTable,
      Entries, PartitionFails, Table, RenderOk, ResolveOk, MmdOk, IdentityOk, HashOk,
      WriteManifest, WriteManifestFails, Sign, Mirror, Readback, ReadbackFails, Record
<1> QED BY <1>4, <1>6, <1>7, <1>8, <1>9 DEF FlashNext

\* Each rename and delete of update and rollback is a step of its own.
LEMMA UpdateImplements == ASSUME IInv, TypeOK', UpdateStep PROVE [Spared!Next]_(Spared!vars)
<1> USE DEF IInv, UpdateStep, Names
<1>0. file \in [Slots -> [Names -> Content \cup {None}]] BY DEF TypeOK, StickTypeOK
<1>1. CASE file' = file BY <1>1, FilesSame
<1>2. CASE Stage \/ StageFails \/ UpdateDies
  <2>1. \A s \in Slots : file'[s]["main"] = file[s]["main"] /\ file'[s]["bak"] = file[s]["bak"]
    BY <1>0, <1>2 DEF Stage, StageFails, UpdateDies, Mcopy, McopyFails
  <2> QED BY <2>1, FilesSame
<1>3. CASE Backup
  <2>1. PICK s \in Slots : Mren(s, "main", "bak") BY <1>3 DEF Backup
  <2>2. Live' = [Live EXCEPT ![s] = None] /\ Spare' = [Spare EXCEPT ![s] = Live[s]]
       /\ Live[s] # None
    BY <1>0, <2>1 DEF Live, Spare, Mren
  <2>3. Spared!SetAside(s) BY <2>2 DEF Spared!SetAside, Live, Spare
  <2> QED BY <2>1, <2>3 DEF Spared!Next
<1>4. CASE Commit
  <2>1. PICK s \in Slots : Mren(s, "new", "main") /\ file[s]["main"] = None
    BY <1>4, StickAssumption DEF Commit, RotateInv, UpdatePcs
  <2>2. Live' = [Live EXCEPT ![s] = file[s]["new"]] /\ Spare' = Spare /\ Live[s] = None
       /\ file[s]["new"] \in Content
    BY <1>0, <2>1 DEF Live, Spare, Mren
  <2>3. Spared!Install(s) BY <2>2 DEF Spared!Install, Live, Spare
  <2> QED BY <2>1, <2>3 DEF Spared!Next
<1>5. ASSUME NEW s \in Slots, DeleteStaged(s) PROVE [Spared!Next]_(Spared!vars)
  <2>1. \A t \in Slots : file'[t]["main"] = file[t]["main"] /\ file'[t]["bak"] = file[t]["bak"]
    BY <1>0, <1>5 DEF DeleteStaged, Mdel
  <2> QED BY <2>1, FilesSame
<1>6. ASSUME NEW s \in Slots, DeleteRotated(s) PROVE [Spared!Next]_(Spared!vars)
  <2>1. cmd \in {"update", "rollback"} /\ pc = "undo" /\ s \in todo /\ state[s] = "rotated"
       /\ (file' = file \/ Mdel(s, "main"))
    BY <1>6, Zenon DEF DeleteRotated
  <2>2. CASE Mdel(s, "main")
    <3>1. Live' = [Live EXCEPT ![s] = None] /\ Spare' = Spare /\ Spare[s] # None
      BY <1>0, <2>1, <2>2 DEF Live, Spare, Mdel, UndoInv, UndoPcs
    <3>2. Spared!Withdraw(s) BY <3>1 DEF Spared!Withdraw, Live, Spare
    <3> QED BY <3>2 DEF Spared!Next
  <2> QED BY <1>1, <2>1, <2>2
<1>7. ASSUME NEW s \in Slots, Restore(s) PROVE [Spared!Next]_(Spared!vars)
  <2>1. cmd \in {"update", "rollback"} /\ pc = "restore" /\ s \in todo
       /\ (\A t \in todo : t <= s) /\ (file' = file \/ Mren(s, "bak", "main"))
    BY <1>7, Zenon DEF Restore
  <2>2. CASE Mren(s, "bak", "main")
    <3>1. Live' = [Live EXCEPT ![s] = Spare[s]] /\ Spare' = [Spare EXCEPT ![s] = None]
         /\ Spare[s] # None /\ Live[s] = None
      BY <1>0, <2>1, <2>2 DEF Live, Spare, Mren, UndoInv, UndoPcs
    <3>2. Spared!PutBack(s) BY <3>1 DEF Spared!PutBack, Live, Spare
    <3> QED BY <3>2 DEF Spared!Next
  <2> QED BY <1>1, <2>1, <2>2
<1>8. CASE StartUpdate \/ Materialize \/ MaterializeFails \/ SkipSlot \/ VerifyRotated
     \/ MoveFails \/ VerifyFails \/ StartRollback \/ UndoDone \/ RefreshHost \/ RefreshFails
     \/ RefreshEsp
  BY <1>1, <1>8 DEF StartUpdate, Materialize, MaterializeFails, SkipSlot, VerifyRotated,
      MoveFails, VerifyFails, StartRollback, UndoDone, RefreshHost, RefreshFails, RefreshEsp
<1> QED BY <1>2, <1>3, <1>4, <1>5, <1>6, <1>7, <1>8 DEF UpdateNext

\* A stick at first has no spares.
LEMMA InitImplements == ASSUME Init PROVE Spared!Init
<1>1. file \in [Slots -> [Names -> Content \cup {None}]]
     /\ \A s \in Slots : file[s]["bak"] = None
  BY StickAssumption DEF Init, StickInit, Blank, FlashedBefore, EmptySlot, Names, Content,
      Versions
<1>2. Live \in [Slots -> Content \cup {None}] /\ Spare = [s \in Slots |-> None]
  BY <1>1 DEF Live, Spare, Names
<1> QED BY <1>2 DEF Spared!Init, Live, Spare

\* Flash, update and rollback implement SparedSlots.
THEOREM Implements == Spec => SparedSlotsImplemented
<1>1. Init => Spared!Init BY InitImplements
<1>2. ASSUME IInv, IInv', [Next]_vars PROVE [Spared!Next]_(Spared!vars)
  <2>1. TypeOK' BY <1>2 DEF IInv
  <2>2. CASE FlashStep BY <1>2, <2>1, <2>2, FlashImplements
  <2>3. CASE UpdateStep BY <1>2, <2>1, <2>3, UpdateImplements
  <2>4. CASE HostStep BY <2>4, FilesSame DEF HostStep, HostUpgrade
  <2>5. CASE UNCHANGED vars BY <2>5, FilesSame DEF vars
  <2> QED BY <1>2, <2>2, <2>3, <2>4, <2>5 DEF Next
<1> QED BY <1>1, <1>2, InductiveInvariant, PTL DEF Spec, SparedSlotsImplemented, Spared!Spec

-----------------------------------------------------------------------------
(* Action properties. *)

\* While update or rollback runs, the bytes it started from are on the stick.
LEMMA KeptHere == ASSUME IInv, cmd \in {"update", "rollback"}, NEW s \in Slots, kept[s] # None
  PROVE kept[s] \in {file[s]["main"], file[s]["bak"]}
BY StickAssumption DEF IInv, PcOK, RotateInv, UndoInv, UpdatePcs, UndoPcs, TypeOK, StickTypeOK,
    UpdateTypeOK, StepStates, Slots

\* And after its step.
LEMMA KeptNext == ASSUME IInv', cmd' \in {"update", "rollback"}, NEW s \in Slots,
     kept'[s] # None
  PROVE kept'[s] \in {file'[s]["main"], file'[s]["bak"]}
BY StickAssumption DEF IInv, PcOK, RotateInv, UndoInv, UpdatePcs, UndoPcs, TypeOK, StickTypeOK,
    UpdateTypeOK, StepStates, Slots

\* A step either goes on, or touches no live and no spare file.
LEMMA RunGoesOn == ASSUME IInv, Next, cmd \in {"update", "rollback"}
  PROVE \/ cmd' = cmd /\ kept' = kept
        \/ \A s \in Slots : file'[s]["main"] = file[s]["main"]
             /\ file'[s]["bak"] = file[s]["bak"]
<1>1. CASE HostStep BY <1>1 DEF HostStep, HostUpgrade
<1>2. ~FlashStep
  BY DEF FlashStep, FlashNext, StartFlash, Refuse, Confirm, ConfirmImage, StepFails, Zap,
      NewTable, Entries, PartitionFails, FormatEsp, FormatFails, RenderOk, ResolveOk, MmdOk,
      StageFile, StageFileFails, IdentityOk, HashOk, WriteManifest, WriteManifestFails, Sign,
      Mirror, Dd, DdFails, Readback, ReadbackFails, Record, FlashDies
<1>3. CASE UpdateStep
  <2>1. CASE StartUpdate \/ Materialize \/ MaterializeFails \/ SkipSlot \/ Stage \/ Backup
       \/ Commit \/ VerifyRotated \/ StartRollback \/ UndoDone \/ RefreshHost
       \/ RefreshFails \/ RefreshEsp
    BY <2>1 DEF StartUpdate, Materialize, MaterializeFails, SkipSlot, Stage, Backup, Commit,
        VerifyRotated, StartRollback, UndoDone, RefreshHost, RefreshFails, RefreshEsp
  <2>2. CASE StageFails \/ MoveFails \/ VerifyFails \/ UpdateDies
    BY <2>2 DEF StageFails, MoveFails, VerifyFails, UpdateDies, McopyFails, IInv, TypeOK,
        StickTypeOK, Names
  <2>3. CASE \E s \in Slots : DeleteStaged(s) \/ DeleteRotated(s) \/ Restore(s)
    BY <2>3, Zenon DEF DeleteStaged, DeleteRotated, Restore
  <2> QED BY <1>3, <2>1, <2>2, <2>3 DEF UpdateStep, UpdateNext
<1> QED BY <1>1, <1>2, <1>3 DEF Next

\* Together: they survive the step.
LEMMA KeptSurvives == ASSUME IInv, IInv', Next, cmd \in {"update", "rollback"},
     NEW s \in Slots, kept[s] # None
  PROVE kept[s] \in {file'[s]["main"], file'[s]["bak"]}
<1>1. CASE cmd' = cmd /\ kept' = kept
  BY <1>1, KeptNext
<1> QED BY <1>1, RunGoesOn, KeptHere

\* Old boot files survive every step of an update or a rollback.
THEOREM OldBytes == Spec => OldBytesSurvive
<1>1. ASSUME IInv, IInv', [Next]_vars
      PROVE  [(cmd \in {"update", "rollback"}) =>
                \A s \in Slots : kept[s] # None => kept[s] \in {file'[s]["main"],
                     file'[s]["bak"]}]_vars
  BY <1>1, KeptSurvives
<1> QED BY <1>1, InductiveInvariant, PTL DEF Spec, OldBytesSurvive

\* Only the last step of a refresh reports "refreshed".
LEMMA RefreshedBy == ASSUME IInv, Next, cmd = "update", outcome' = "refreshed" PROVE RefreshEsp
<1> USE DEF IInv, PcOK
<1>1. ~FlashStep
  BY DEF FlashStep, FlashNext, StartFlash, Refuse, Confirm, ConfirmImage, StepFails, Zap,
      NewTable, Entries, PartitionFails, FormatEsp, FormatFails, RenderOk, ResolveOk, MmdOk,
      StageFile, StageFileFails, IdentityOk, HashOk, WriteManifest, WriteManifestFails, Sign,
      Mirror, Dd, DdFails, Readback, ReadbackFails, Record, FlashDies
<1>2. ~HostStep BY DEF HostStep, HostUpgrade
<1>3. CASE UpdateStep
  <2>1. ~(StartUpdate \/ Materialize \/ MaterializeFails \/ SkipSlot \/ Stage \/ Backup
       \/ Commit \/ VerifyRotated \/ StageFails \/ MoveFails \/ VerifyFails)
    BY DEF StartUpdate, Materialize, MaterializeFails, SkipSlot, Stage, Backup, Commit,
        VerifyRotated, StageFails, MoveFails, VerifyFails
  <2>2. ~(StartRollback \/ UndoDone \/ RefreshHost \/ RefreshFails \/ UpdateDies)
    BY DEF StartRollback, UndoDone, RefreshHost, RefreshFails, UpdateDies, Rotated
  <2>3. ~\E s \in Slots : DeleteStaged(s) \/ DeleteRotated(s) \/ Restore(s)
    BY Zenon DEF DeleteStaged, DeleteRotated, Restore
  <2> QED BY <1>3, <2>1, <2>2, <2>3 DEF UpdateStep, UpdateNext
<1> QED BY <1>1, <1>2, <1>3 DEF Next

\* The host's copy of a refreshed manifest tells the truth of the files that
\* were rotated, and the stick's own is the same one or cut short: nothing
\* reads it back.
THEOREM ManifestTruthful == Spec => RefreshedManifestTruthful
<1> DEFINE A == (cmd = "update" /\ outcome' = "refreshed") =>
                  \E e \in store' :
                    /\ e.guid = guid /\ e.body \in Manifests /\ manifest' \in {e.body, Torn}
                    /\ \A s \in Planned : verify_esp_files(e.body)[s]' = "ok"
<1>1. ASSUME IInv, [Next]_vars PROVE [A]_vars
  <2>1. SUFFICES ASSUME Next, cmd = "update", outcome' = "refreshed" PROVE A BY <1>1
  <2>2. RefreshEsp /\ manifest' \in {entry.body, Torn}
        /\ UNCHANGED <<guid, store, file, table, espFs>>
    BY <1>1, <2>1, RefreshedBy DEF RefreshEsp, IInv, PcOK, TypeOK, StickTypeOK
  <2>3. /\ pc = "esp_manifest" /\ entry \in store /\ entry.guid = guid
        /\ entry.body \in Manifests
        /\ table = "ready" /\ espFs
    BY <1>1, <2>1, <2>2 DEF RefreshEsp, IInv, RotateInv, UpdatePcs
  <2>4. \A s \in Planned : entry.body.sum[s] = fresh[s] /\ file[s]["main"] = fresh[s]
    BY <1>1, <2>1, <2>3 DEF IInv, RotateInv, UpdatePcs, Planned
  <2>5. \A s \in Planned : fresh[s] \in Versions
    BY <1>1, <2>1, <2>3 DEF IInv, RotateInv, UpdatePcs, Planned
  <2>5a. PICK e : e = entry OBVIOUS
  <2>6. \A s \in Planned : verify_esp_files(e.body)[s]' = "ok"
    BY <2>2, <2>3, <2>4, <2>5, <2>5a, StickAssumption
    DEF verify_esp_files, Hashed, Readable, Planned
  <2>7. e \in store' /\ e.guid = guid /\ e.body \in Manifests /\ manifest' \in {e.body, Torn}
    BY <2>2, <2>3, <2>5a
  <2> QED BY <2>6, <2>7
<1> QED BY <1>1, InductiveInvariant, PTL DEF Spec, RefreshedManifestTruthful

\* Whatever happened to a stick, exit 0 of `verify --stick' means that every
\* boot file it has is live and is the one of the manifest the host found.
THEOREM CleanMeansLive ==
    ASSUME NEW e \in store, verify_stick(e) = 0
    PROVE  /\ e.body \in Manifests /\ table = "ready"
           /\ \A s \in Slots : file[s]["main"] = e.body.sum[s] /\ file[s]["main"] # None
<1>1. e.body \in Manifests /\ ~has_failures(verify_esp_files(e.body)) BY DEF verify_stick
<1>2. \A s \in Slots : Hashed(s) # None /\ Hashed(s) = e.body.sum[s]
  <2> TAKE s \in Slots
  <2>1. verify_esp_files(e.body)[s] =
          IF Hashed(s) = None THEN "unreadable"
          ELSE IF Hashed(s) = e.body.sum[s] THEN "ok" ELSE "drift"
    BY DEF verify_esp_files
  <2>2. verify_esp_files(e.body)[s] \notin {"drift", "unreadable"} BY <1>1 DEF has_failures
  <2> QED BY <2>1, <2>2
<1>3. \A s \in Slots : Readable(s, "main") /\ Hashed(s) = file[s]["main"] BY <1>2 DEF Hashed
<1>4. 1 \in Slots BY StickAssumption DEF Slots
<1> QED BY <1>1, <1>2, <1>3, <1>4 DEF Readable

\* An image flash that was compared leaves no torn file where it compared.
THEOREM ReadbackSound == Spec => ReadbackFindsTorn
<1> DEFINE A == (cmd = "image" /\ checked /\ outcome' = "flashed") =>
                  \A s \in InReadback : file'[s]["main"] # Torn
<1>1. ASSUME IInv, [Next]_vars PROVE [A]_vars
  <2>1. SUFFICES ASSUME Next, cmd = "image", checked, outcome' = "flashed" PROVE A BY <1>1
  <2>2. ~UpdateStep
    BY <2>1 DEF UpdateStep, UpdateNext, StartUpdate, Materialize, MaterializeFails, SkipSlot,
        Stage, Backup, Commit, VerifyRotated, StageFails, MoveFails, VerifyFails,
        StartRollback, UndoDone, RefreshHost, RefreshFails, RefreshEsp, UpdateDies,
        DeleteStaged, DeleteRotated, Restore, Rotated
  <2>3. ~HostStep BY <1>1, <2>1 DEF HostStep, HostUpgrade, IInv, PcOK
  <2>4. FlashStep => Record
    <3>1. ~(StartFlash \/ Refuse \/ Confirm \/ ConfirmImage \/ StepFails \/ Zap \/ NewTable
         \/ Entries \/ PartitionFails \/ FormatEsp \/ FormatFails \/ RenderOk \/ ResolveOk
         \/ MmdOk)
      BY <1>1, <2>1 DEF IInv, PcOK, StartFlash, Refuse, Confirm, ConfirmImage, StepFails, Zap,
          NewTable, Entries, PartitionFails, FormatEsp, FormatFails, RenderOk, ResolveOk, MmdOk
    <3>2. ~(StageFile \/ StageFileFails \/ IdentityOk \/ HashOk \/ WriteManifest
         \/ WriteManifestFails \/ Sign \/ Mirror \/ Dd \/ DdFails \/ Readback
         \/ ReadbackFails \/ FlashDies)
      BY <1>1, <2>1 DEF IInv, PcOK, StageFile, StageFileFails, IdentityOk, HashOk,
          WriteManifest, WriteManifestFails, Sign, Mirror, Dd, DdFails, Readback,
          ReadbackFails, FlashDies
    <3> QED BY <3>1, <3>2 DEF FlashStep, FlashNext
  <2>5. Record BY <2>1, <2>2, <2>3, <2>4 DEF Next
  <2>6. pc = "record" /\ file' = file BY <2>5 DEF Record
  <2>7. ReadbackMatches BY <1>1, <2>1, <2>6, Zenon DEF IInv, ImageInv
  <2>8. \A s \in InReadback : src[s] # Torn
    BY <1>1, <2>1, <2>6, StickAssumption, InReadbackAssumption DEF IInv, PcOK
  <2> QED BY <2>6, <2>7, <2>8 DEF ReadbackMatches
<1> QED BY <1>1, InductiveInvariant, PTL DEF Spec, ReadbackFindsTorn

\* Only two steps put a manifest on the stick.
LEMMA ManifestBy ==
    ASSUME IInv, Next, manifest' \in Manifests, manifest' # manifest
    PROVE  WriteManifest \/ (RefreshEsp /\ manifest' = entry.body)
<1> USE StickAssumption
<1>1. CASE HostStep BY <1>1 DEF HostStep, HostUpgrade
<1>2. CASE FlashStep
  <2>1. CASE StartFlash \/ Refuse \/ Confirm \/ ConfirmImage \/ StepFails \/ Zap \/ NewTable
       \/ Entries \/ PartitionFails \/ RenderOk \/ ResolveOk \/ MmdOk \/ StageFile
       \/ StageFileFails \/ IdentityOk \/ HashOk \/ Sign \/ Mirror \/ Readback
       \/ ReadbackFails \/ Record
    BY <2>1 DEF StartFlash, Refuse, Confirm, ConfirmImage, StepFails, Zap, NewTable, Entries,
        PartitionFails, Table, RenderOk, ResolveOk, MmdOk, StageFile, StageFileFails,
        IdentityOk, HashOk, Sign, Mirror, Readback, ReadbackFails, Record
  <2>2. CASE FormatEsp \/ FormatFails \/ Dd \/ DdFails \/ WriteManifestFails \/ FlashDies
    BY <2>2 DEF FormatEsp, FormatFails, Dd, DdFails, WriteManifestFails, FlashDies, EspErased,
        ImageWritten
  <2> QED BY <1>2, <2>1, <2>2 DEF FlashStep, FlashNext
<1>3. CASE UpdateStep
  <2>1. CASE StartUpdate \/ Materialize \/ MaterializeFails \/ SkipSlot \/ Stage \/ Backup
       \/ Commit \/ VerifyRotated \/ StageFails \/ MoveFails \/ VerifyFails \/ StartRollback
       \/ UndoDone \/ RefreshHost \/ RefreshFails \/ UpdateDies
    BY <2>1 DEF StartUpdate, Materialize, MaterializeFails, SkipSlot, Stage, Backup, Commit,
        VerifyRotated, StageFails, MoveFails, VerifyFails, StartRollback, UndoDone,
        RefreshHost, RefreshFails, UpdateDies
  <2>2. CASE \E s \in Slots : DeleteStaged(s) \/ DeleteRotated(s) \/ Restore(s)
    BY <2>2 DEF DeleteStaged, DeleteRotated, Restore
  <2>3. CASE RefreshEsp BY <2>3 DEF RefreshEsp
  <2> QED BY <1>3, <2>1, <2>2, <2>3 DEF UpdateStep, UpdateNext
<1> QED BY <1>1, <1>2, <1>3 DEF Next

\* Sequence numbers of one disk GUID only grow.
THEOREM SequenceGrows == Spec => SequenceForward
<1> DEFINE A == (manifest \in Manifests /\ manifest' \in Manifests
                   /\ manifest'.guid = manifest.guid /\ manifest' # manifest)
                  => manifest'.seq > manifest.seq
<1>1. ASSUME IInv, [Next]_vars PROVE [A]_vars
  <2>1. SUFFICES ASSUME Next, manifest \in Manifests, manifest' \in Manifests,
                        manifest'.guid = manifest.guid, manifest' # manifest
                 PROVE  manifest'.seq > manifest.seq
    BY <1>1
  <2>2. ~WriteManifest BY <1>1, <2>1, StickAssumption DEF IInv, PcOK, FlashInv, WriteManifest
  <2>3. RefreshEsp /\ manifest' = entry.body BY <1>1, <2>1, <2>2, ManifestBy
  <2>4. entry \in store /\ entry.body \in Manifests /\ entry.body.guid = entry.guid
    BY <1>1, <2>3 DEF IInv, RefreshEsp, RotateInv, UpdatePcs, StoreInv
  <2> QED BY <1>1, <2>1, <2>3, <2>4 DEF IInv, SeqInv, RefreshEsp
<1> QED BY <1>1, InductiveInvariant, PTL DEF Spec, SequenceForward
=============================================================================
