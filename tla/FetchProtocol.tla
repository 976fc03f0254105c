---------------------------- MODULE FetchProtocol ----------------------------
(***************************************************************************)
(* What a caller of aegis-fetch's fetch_catalog_entry may rely on: the     *)
(* order of the events it is told of, and which of them a verdict may      *)
(* follow.  rescue-tui's drain loop and the CLI's ProgressRenderer are     *)
(* written against this.                                                   *)
(***************************************************************************)
VARIABLE phase

Underway == {"Started", "Connecting", "Downloading", "VerifyingSig", "VerifyingHash"}

Phases == {"Rest", "Ok", "Failed", "Cancelled"} \cup Underway

Init == phase = "Rest"

Start == phase \notin Underway /\ phase' = "Started"

\* Connecting comes once, and the signature is looked at before the hash.
Event ==
    \/ phase = "Started" /\ phase' = "Connecting"
    \/ phase \in {"Connecting", "Downloading"} /\ phase' \in {"Downloading", "VerifyingSig"}
    \/ phase = "VerifyingSig" /\ phase' = "VerifyingHash"

\* Ok comes only after the hash; a cancel is noticed while downloading and
\* while hashing, and not while the signature is checked.
Finish ==
    \/ phase \in Underway /\ phase' = "Failed"
    \/ phase \in {"Connecting", "Downloading", "VerifyingHash"} /\ phase' = "Cancelled"
    \/ phase = "VerifyingHash" /\ phase' = "Ok"

\* The caller's process ends, and its fetch with it; or the machine does.
Die == phase' = "Rest"

Next == Start \/ Event \/ Finish \/ Die

Spec == Init /\ [][Next]_phase
=============================================================================
