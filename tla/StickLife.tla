------------------------------ MODULE StickLife ------------------------------
(***************************************************************************)
(* One stick through its life: flashed, flashed again, updated, rolled     *)
(* back, while the host's packages change and any command may die.         *)
(***************************************************************************)
EXTENDS StickFlash, VerifyStick

vars == <<stickVars, store, host, src, runVars, flashVars, updateVars>>

TypeOK == StickTypeOK /\ FlashTypeOK /\ UpdateTypeOK

Init == StickInit /\ FlashInit /\ UpdateInit

FlashStep == FlashNext /\ UNCHANGED updateVars

UpdateStep == UpdateNext /\ UNCHANGED flashVars

HostStep == HostUpgrade /\ UNCHANGED <<flashVars, updateVars>>

Next == FlashStep \/ UpdateStep \/ HostStep

Spec == Init /\ [][Next]_vars

-----------------------------------------------------------------------------
\* Boot files replaced in place: see SparedSlots.
Spared == INSTANCE SparedSlots
            WITH Bytes <- Content,
                 live  <- [s \in Slots |-> file[s]["main"]],
                 spare <- [s \in Slots |-> file[s]["bak"]]

\* Every step of flash, update and rollback is a step of SparedSlots or leaves
\* the live and spare files alone: of a live file and its spare, one is only
\* removed while the other is there, whatever fails and whenever the power
\* goes (execute_rotation, execute_rollback).  Nothing is said of what is in
\* them: an update may replace a whole spare by a live file that mcopy tore.
SparedSlotsImplemented == Spared!Spec

\* What a slot held when `update' or `--rollback' started is still on the
\* stick, live or as .bak, after each of their steps, failures and deaths
\* (execute_rotation, execute_rollback).
OldBytesSurvive ==
    [][ (cmd \in {"update", "rollback"}) =>
          \A s \in Slots :
            kept[s] # None => kept[s] \in {file'[s]["main"], file'[s]["bak"]} ]_vars

\* A step counts as Rotated only when the planned bytes are live and the old
\* ones are the spare, until the rotation is unwound (execute_rotation).
RotatedIsVerified ==
    cmd = "update" /\ pc \notin {"undo", "restore"} =>
        \A s \in Slots : state[s] = "rotated" =>
            file[s]["main"] = fresh[s] /\ file[s]["bak"] = kept[s]

\* "Manifest refreshed": the host's copy is of this stick, `verify --stick'
\* finds the files that were rotated to be what it says, and the stick's own
\* manifest is the same one, if mcopy did what it reports
\* (refresh_manifest_after_rotate, verify_esp_files).
RefreshedManifestTruthful ==
    [][ (cmd = "update" /\ outcome' = "refreshed") =>
          \E e \in store' :
            /\ e.guid = guid /\ e.body \in Manifests /\ manifest' \in {e.body, Torn}
            /\ \A s \in Planned : verify_esp_files(e.body)[s]' = "ok" ]_vars

\* A stick the host or its own ESP calls flashed has, for every boot file, the
\* live one or its spare: the manifest and the host's copy come last
\* (flash_direct_install), and an interrupted re-flash leaves a new disk GUID
\* behind that the host does not know.
KnownMeansStaged ==
    (manifest \in Manifests \/ \E e \in store : e.guid = guid /\ e.body \in Manifests) =>
        \A s \in Slots : file[s]["main"] # None \/ file[s]["bak"] # None

\* When an image flash succeeds and could hash its image, no file in the part
\* that is read back is torn (readback_verify_device).
ReadbackFindsTorn ==
    [][ (cmd = "image" /\ checked /\ outcome' = "flashed") =>
          \A s \in InReadback : file'[s]["main"] # Torn ]_vars

\* On one disk GUID, a manifest that differs from the one before has a higher
\* sequence number (refresh_manifest_after_rotate), also when refreshes of the
\* stick's copy failed in between.
SequenceForward ==
    [][ (manifest \in Manifests /\ manifest' \in Manifests
          /\ manifest'.guid = manifest.guid /\ manifest' # manifest)
        => manifest'.seq > manifest.seq ]_vars

\* `--rollback' is the verb that always unwinds (run_rollback): a slot that
\* has a spare and no live file gets its spare back.
UnwindRestores ==
    [][ (\A s \in Slots :
          (cmd = "rollback" /\ cmd' = "rollback" /\ s \in todo /\ s \notin todo'
            /\ pc = "undo" /\ file[s]["main"] = None)
          => file'[s]["main"] # None) ]_vars
=============================================================================
