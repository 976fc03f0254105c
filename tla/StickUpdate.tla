----------------------------- MODULE StickUpdate -----------------------------
(***************************************************************************)
(* `aegis-boot update --apply': plan a rotation from a hash comparison,    *)
(* rotate slot by slot (copy to .new, move the live file to .bak, move     *)
(* .new into place, verify), refresh the manifest; on an error unwind the  *)
(* slots in reverse order.  `aegis-boot update --rollback': restore every  *)
(* .bak found.  One action per mtools call, so that a power loss or a kill *)
(* can fall between any two.                                               *)
(***************************************************************************)
EXTENDS Stick

VARIABLES
    entry,      \* the attestation file found for this stick
    state,      \* state[s]: "skip" for a slot that is not in the plan
    fresh,      \* fresh[s]: the planned contents (RotationStep.fresh_sha256)
    todo,       \* slots whose rollback action is still to be executed
    errs,       \* execute_rollback collected an error
    kept        \* history: the bytes each slot held when the running command started

updateVars == <<entry, state, fresh, todo, errs, kept>>

StepStates == {"skip", "pending", "staged", "rotated"}

UpdateTypeOK ==
    /\ entry \in store \cup {None}
    /\ state \in [Slots -> StepStates]
    /\ fresh \in [Slots -> Versions \cup {None}]
    /\ todo \subseteq Slots
    /\ errs \in BOOLEAN
    /\ kept \in [Slots -> Content \cup {None}]

UpdateInit ==
    /\ entry = None /\ state = [s \in Slots |-> "skip"]
    /\ fresh = Nothing
    /\ todo = {} /\ errs = FALSE /\ kept = Nothing

\* The command ends; what it held in memory is gone.
UpdateExit(o) ==
    /\ End(o)
    /\ entry' = None /\ state' = [s \in Slots |-> "skip"] /\ fresh' = Nothing
    /\ todo' = {} /\ errs' = FALSE /\ kept' = Nothing

-----------------------------------------------------------------------------
\* The table is readable, both partitions carry the expected type and name.
parse_partitions == table = "ready"

\* Attestation files whose text contains the disk GUID; any of them may be
\* the first that the directory lists.
find_attestation_by_guid == {e \in store : e.guid = guid}

Eligible == guid # 0 /\ parse_partitions /\ find_attestation_by_guid # {}

\* mtype_sha256 of a slot.
Hashed(s) == IF Readable(s, "main") THEN file[s]["main"] ELSE None

\* Both sides of every slot; a hash that failed on either leaves it unknown.
build_esp_diff(unknown) ==
    [s \in Slots |-> [current |-> IF s \in unknown THEN None ELSE Hashed(s), fresh |-> host[s]]]

would_change(row) == row.current # None /\ row.current # row.fresh

\* check_eligibility, then the hash of every slot on both sides; any of the
\* hashes may fail, which leaves its slot out.  A plan without steps ends the
\* command at once and changes nothing.
StartUpdate ==
    /\ cmd = "none" /\ Eligible
    /\ entry' \in find_attestation_by_guid
    /\ \E unknown \in SUBSET Slots :
        LET diff == build_esp_diff(unknown)
            plan == {s \in Slots : would_change(diff[s])} IN
        /\ plan # {}
        /\ state' = [s \in Slots |-> IF s \in plan THEN "pending" ELSE "skip"]
        /\ fresh' = [s \in Slots |-> IF s \in plan THEN host[s] ELSE None]
    /\ kept' = [s \in Slots |-> file[s]["main"]]
    /\ todo' = {} /\ errs' = FALSE
    /\ cmd' = "update" /\ pc' = "materialize" /\ at' = 0 /\ outcome' = "none" /\ src' = Nothing
    /\ UNCHANGED <<stickVars, store, host>>

\* Combined initrd and grub.cfg are built into temporary files that live as
\* long as the rotation; the other sources are read when they are copied.
Materialize ==
    /\ cmd = "update" /\ pc = "materialize"
    /\ BuildSources
    /\ pc' = "stage" /\ at' = 1
    /\ UNCHANGED <<stickVars, store, host, cmd, outcome, updateVars>>

MaterializeFails ==
    /\ cmd = "update" /\ pc = "materialize"
    /\ UpdateExit("failed")
    /\ UNCHANGED <<stickVars, store, host>>

\* The loop of execute_rotation reaches a slot that is not in the plan.
SkipSlot ==
    /\ cmd = "update" /\ pc = "stage" /\ at <= NSlots /\ state[at] = "skip"
    /\ at' = at + 1
    /\ UNCHANGED <<stickVars, store, host, src, cmd, pc, outcome, updateVars>>

Working(l) == cmd = "update" /\ pc = l /\ at \in Slots /\ state[at] # "skip"

\* mcopy <source> ::<slot>.new; the step is Staged.
Stage ==
    /\ Working("stage")
    /\ Mcopy(at, "new", SourceFor(at))
    /\ state' = [state EXCEPT ![at] = "staged"]
    /\ Goto("backup")
    /\ UNCHANGED <<guid, table, espFs, manifest, store, host>>
    /\ UNCHANGED <<entry, fresh, todo, errs, kept>>

\* A faulty variant: the staged file replaces the live one at once.
CommitAtOnce ==
    /\ Working("backup")
    /\ Mren(at, "new", "main")
    /\ Goto("verify")
    /\ UNCHANGED <<guid, table, espFs, manifest, store, host, updateVars>>

\* mren ::<slot> ::<slot>.bak.
Backup ==
    /\ Working("backup")
    /\ Mren(at, "main", "bak")
    /\ Goto("commit")
    /\ UNCHANGED <<guid, table, espFs, manifest, store, host, updateVars>>

\* mren ::<slot>.new ::<slot>.
Commit ==
    /\ Working("commit")
    /\ Mren(at, "new", "main")
    /\ Goto("verify")
    /\ UNCHANGED <<guid, table, espFs, manifest, store, host, updateVars>>

\* A faulty variant: reading the file back is proof enough.
HashesUnchecked(s) == file[s]["main"] # None

\* mtype_sha256 of the live file equals the planned hash.
hashes_eq(s) == file[s]["main"] = fresh[s]

\* Only now is the step Rotated.
VerifyRotated ==
    /\ Working("verify") /\ hashes_eq(at)
    /\ state' = [state EXCEPT ![at] = "rotated"]
    /\ pc' = "stage" /\ at' = at + 1
    /\ UNCHANGED <<stickVars, store, host, src, cmd, outcome>>
    /\ UNCHANGED <<entry, fresh, todo, errs, kept>>

-----------------------------------------------------------------------------
\* What the rollback plan does to a slot: nothing for a pending step, delete
\* .new for a staged one, restore .bak for a rotated one.
rollback_plan == {s \in Slots : state[s] \in {"staged", "rotated"}}

\* A call of execute_rotation returned an error: dispatch_rotation unwinds.
\* f says what the failing call did to the files.
Abort(f) ==
    /\ f
    /\ IF rollback_plan = {}
       THEN UpdateExit("failed")
       ELSE /\ todo' = rollback_plan /\ errs' = FALSE
            /\ pc' = "undo" /\ at' = 0
            /\ UNCHANGED <<src, cmd, outcome, entry, state, fresh, kept>>
    /\ UNCHANGED <<guid, table, espFs, manifest, store, host>>

StageFails == Working("stage") /\ Abort(McopyFails(at, "new"))
MoveFails == (Working("backup") \/ Working("commit")) /\ Abort(MtoolFails)

\* The hash differs, or the slot could not be read back.
VerifyFails == Working("verify") /\ Abort(MtoolFails)

\* rollback_plan walks the steps in reverse order.
Undoing(l, s) ==
    /\ cmd \in {"update", "rollback"} /\ pc = l
    /\ s \in todo /\ \A t \in todo : t <= s

\* The rollback action of a slot is done with; failed says whether it reported
\* an error.
ActionDone(s, failed) ==
    /\ todo' = todo \ {s}
    /\ errs' = (errs \/ failed)
    /\ Goto("undo")
    /\ UNCHANGED <<guid, table, espFs, manifest, store, host>>
    /\ UNCHANGED <<entry, state, fresh, kept>>

\* DeleteStaged: mdel ::<slot>.new.
DeleteStaged(s) ==
    /\ Undoing("undo", s) /\ state[s] = "staged"
    /\ \/ Mdel(s, "new") /\ ActionDone(s, FALSE)
       \/ MtoolFails /\ ActionDone(s, TRUE)

\* RestoreFromBak, first call: mdel ::<slot>.  An error skips the second one.
DeleteRotated(s) ==
    /\ Undoing("undo", s) /\ state[s] = "rotated"
    /\ \/ /\ Mdel(s, "main")
          /\ Goto("restore")
          /\ UNCHANGED <<guid, table, espFs, manifest, store, host, updateVars>>
       \/ MtoolFails /\ ActionDone(s, TRUE)

\* RestoreFromBak, second call: mren ::<slot>.bak ::<slot>.
Restore(s) ==
    /\ Undoing("restore", s)
    /\ \/ Mren(s, "bak", "main") /\ ActionDone(s, FALSE)
       \/ MtoolFails /\ ActionDone(s, TRUE)

UndoDone ==
    /\ cmd \in {"update", "rollback"} /\ pc = "undo" /\ todo = {}
    /\ UpdateExit(IF errs THEN "indeterminate" ELSE "restored")
    /\ UNCHANGED <<stickVars, store, host>>

\* A faulty variant: every slot with a live file is restored.
ProbeLive == {s \in Slots : Readable(s, "main")}

\* The slots whose .bak could be read.
probed == {s \in Slots : Readable(s, "bak")}

\* `update --rollback': every slot whose .bak can be read is restored; no
\* eligibility is asked for.
StartRollback ==
    /\ cmd = "none"
    /\ \E found \in SUBSET probed :
        /\ found # {}
        /\ todo' = found
        /\ state' = [s \in Slots |-> IF s \in found THEN "rotated" ELSE "skip"]
    /\ kept' = [s \in Slots |-> IF s \in todo' THEN file[s]["bak"] ELSE file[s]["main"]]
    /\ errs' = FALSE /\ entry' = None /\ fresh' = Nothing
    /\ cmd' = "rollback" /\ pc' = "undo" /\ at' = 0 /\ outcome' = "none" /\ src' = Nothing
    /\ UNCHANGED <<stickVars, store, host>>

-----------------------------------------------------------------------------
Planned == {s \in Slots : state[s] # "skip"}

\* A faulty variant: only the sequence number moves.
RefreshedSeqOnly == [entry.body EXCEPT !.seq = entry.body.seq + 1]

\* refresh_manifest_after_rotate starts from the attestation file, not from
\* the stick's copy.
Refreshed ==
    [guid |-> entry.body.guid,
     seq |-> entry.body.seq + 1,
     sum |-> [s \in Slots |-> IF s \in Planned THEN fresh[s] ELSE entry.body.sum[s]]]

Rotated == cmd = "update" /\ pc = "stage" /\ at = NSlots + 1

\* The host's copy is written first.
RefreshHost ==
    /\ Rotated
    /\ entry.body \in Manifests /\ entry.body.seq < MaxSeq
    /\ LET e == [guid |-> entry.guid, body |-> Refreshed] IN
        /\ store' = (store \ {entry}) \cup {e}
        /\ entry' = e
    /\ Goto("esp_manifest")
    /\ UNCHANGED <<stickVars, host, state, fresh, todo, errs, kept>>

\* Reading, parsing or writing the host's copy failed: a warning.  The write
\* is in place (fs::write).
RefreshFails ==
    /\ Rotated
    /\ StoreCut(entry)
    /\ UpdateExit("rotated")
    /\ UNCHANGED <<stickVars, host>>

\* mcopy of the same body over the stick's manifest; its signature stays.
\* mcopy's exit status is all that is asked.
RefreshEsp ==
    /\ cmd = "update" /\ pc = "esp_manifest"
    /\ \/ manifest' \in {entry.body, Torn} /\ UpdateExit("refreshed")
       \/ manifest' \in {manifest, Torn} /\ UpdateExit("rotated")
    /\ UNCHANGED <<guid, table, espFs, file, store, host>>

\* Power loss, a pulled stick or a kill; a copy in flight leaves a torn file.
UpdateDies ==
    /\ cmd \in {"update", "rollback"}
    /\ IF Working("stage") THEN McopyFails(at, "new") ELSE UNCHANGED file
    /\ IF pc = "esp_manifest" THEN manifest' \in {manifest, Torn} ELSE UNCHANGED manifest
    /\ IF Rotated THEN StoreCut(entry) ELSE UNCHANGED store
    /\ UpdateExit("failed")
    /\ UNCHANGED <<guid, table, espFs, host>>

UpdateNext ==
    \/ StartUpdate \/ Materialize \/ MaterializeFails \/ SkipSlot
    \/ Stage \/ Backup \/ Commit \/ VerifyRotated
    \/ StageFails \/ MoveFails \/ VerifyFails
    \/ StartRollback \/ UndoDone
    \/ \E s \in Slots : DeleteStaged(s) \/ DeleteRotated(s) \/ Restore(s)
    \/ RefreshHost \/ RefreshFails \/ RefreshEsp \/ UpdateDies
=============================================================================
