----------------------------- MODULE SparedSlots -----------------------------
(***************************************************************************)
(* What replacing boot files in place promises, whatever happens half way: *)
(* every slot has a live file, a spare one, or both, and a file only goes  *)
(* away while the other one is there, or in its favour.  Nothing is        *)
(* promised of what is in the file that stays: it may be torn.  Erasing    *)
(* the stick is the one exception.  `aegis-boot flash', `update' and       *)
(* `update --rollback' implement this specification (StickUpdate.tla).     *)
(***************************************************************************)
CONSTANTS Slots,    \* the boot files of the EFI partition
          Bytes,    \* contents of a file, whole or torn
          None      \* no file

VARIABLES live,     \* live[s]: the file the firmware would load
          spare     \* spare[s]: the file kept beside it

vars == <<live, spare>>

TypeOK ==
    /\ live \in [Slots -> Bytes \cup {None}]
    /\ spare \in [Slots -> Bytes \cup {None}]

Init ==
    /\ live \in [Slots -> Bytes \cup {None}]
    /\ spare = [s \in Slots |-> None]

\* The live file becomes the spare; an older spare is replaced, whatever is in
\* either.
SetAside(s) ==
    /\ live[s] # None
    /\ spare' = [spare EXCEPT ![s] = live[s]]
    /\ live' = [live EXCEPT ![s] = None]

\* A new file goes live where there was none.
Install(s) ==
    /\ live[s] = None
    /\ \E b \in Bytes : live' = [live EXCEPT ![s] = b]
    /\ UNCHANGED spare

\* A live file is removed to make room for its spare.
Withdraw(s) ==
    /\ spare[s] # None
    /\ live' = [live EXCEPT ![s] = None]
    /\ UNCHANGED spare

\* The spare goes live again.
PutBack(s) ==
    /\ live[s] = None /\ spare[s] # None
    /\ live' = [live EXCEPT ![s] = spare[s]]
    /\ spare' = [spare EXCEPT ![s] = None]

\* Flashing: whatever the slots held is gone.
Erase ==
    /\ spare' = [s \in Slots |-> None]
    /\ live' \in [Slots -> Bytes \cup {None}]

Next ==
    \/ Erase
    \/ \E s \in Slots : SetAside(s) \/ Install(s) \/ Withdraw(s) \/ PutBack(s)

Spec == Init /\ [][Next]_vars
=============================================================================
