------------------------------ MODULE IsoShelf ------------------------------
(***************************************************************************)
(* The files of the AEGIS_ISOS partition that a verdict is made from, and  *)
(* the verdicts: iso-probe's hash check (signature.rs) and minisign check  *)
(* (minisign.rs), and rescue-tui's trust tiers (verdict.rs).               *)
(*                                                                         *)
(* A sum is named by the bytes it is the sum of; a signature is the bytes  *)
(* it signs and its key.  An ISO whose copy has not ended is Torn.         *)
(***************************************************************************)
EXTENDS TornFiles, Naturals, FiniteSets

CONSTANTS
  Folder,   \* the partition's root and one level below
  Root,     \* the folder that is the root
  Name,     \* ISO file names
  Body,     \* whole ISOs
  Key,      \* minisign keys
  Offered,  \* those AEGIS_TRUSTED_KEYS names, by file or by directory
  Exposed,  \* those whose file or directory others than its owner may write
  Garbled   \* a sidecar that does not parse

ASSUME IsoShelfAssumption == /\ None \notin Body \cup {Torn, Garbled}
                             /\ Torn \notin Body /\ Garbled \notin Body
                             /\ Offered \subseteq Key /\ Root \in Folder

VARIABLE shelf  \* <<folder, name>> -> the files of that name

Place == Folder \X Name
Bytes == Body \cup {Torn}
Signature == [of : Body, key : Key]
Files ==
  [iso : Bytes \cup {None},
   sha : Bytes \cup {Garbled, None},       \* <iso>.sha256
   sums : BOOLEAN,                         \* <iso>.SHA256SUMS, which only `add' reads
   listed : Body \cup {None},              \* the name's line in the folder's SHA256SUMS
   sig : Signature \cup {Garbled, None}]   \* <iso>.minisig

NoFiles == [iso |-> None, sha |-> None, sums |-> FALSE, listed |-> None, sig |-> None]

Isos == {p \in Place : shelf[p].iso # None}

-----------------------------------------------------------------------------
(* find_expected_hash: the sidecar, even an unparseable one, before the    *)
(* folder's SHA256SUMS. *)
Expected(f) == IF f.sha # None THEN f.sha ELSE f.listed

(* verify_iso_hash, and boot_entry_to_discovered when the ISO is not read. *)
VerifyHash(f) ==
  IF Expected(f) = None THEN "NotPresent"
  ELSE IF Expected(f) = Garbled \/ f.iso = None THEN "Unreadable"
  ELSE IF Expected(f) = f.iso THEN "Verified" ELSE "Mismatch"

(* load_trusted_keys *)
Trusted == Offered \ Exposed

(* verify_iso_signature: only a trusted key can call a signature forged. *)
VerifySignature(f) ==
  IF f.sig = None THEN "NotPresent"
  ELSE IF f.sig = Garbled \/ f.iso = None THEN "Error"
  ELSE IF f.sig.key \notin Trusted THEN "KeyNotTrusted"
  ELSE IF f.sig.of = f.iso THEN "Verified" ELSE "Forged"

Tampered(f) == VerifyHash(f) = "Mismatch" \/ VerifySignature(f) = "Forged"
Attested(f) == VerifyHash(f) = "Verified" \/ VerifySignature(f) = "Verified"

(* lookup_quirks, as far as a verdict depends on them. *)
Quirks(distro) ==
  CASE distro = "Windows" -> {"NotKexecBootable"}
    [] distro \in {"Fedora", "RedHat"} -> {"CrossDistroKexecRefused"}
    [] distro = "Debian" -> {}
    [] OTHER -> {"UnsignedKernel"}

(* TrustVerdict::from_discovered *)
Tier(f, distro, enforcing) ==
  IF Tampered(f) THEN 6
  ELSE IF "NotKexecBootable" \in Quirks(distro) THEN 5
  ELSE IF "UnsignedKernel" \in Quirks(distro) /\ enforcing THEN 5
  ELSE IF Attested(f) THEN 1
  ELSE IF VerifySignature(f) = "KeyNotTrusted" THEN 3
  ELSE 2

(* is_bootable *)
IsBootable(tier) == tier \in 1..3

(* What kexec asks instead of the tier: AppState::is_kexec_blocked and     *)
(* is_degraded_trust. *)
KexecBlocked(f, distro) == "NotKexecBootable" \in Quirks(distro) \/ Tampered(f)
DegradedTrust(f) == ~ Attested(f)

(* trust_verdict_for_text: the verdict of the text mode, with no tier 5. *)
TextVerdict(f, distro) ==
  IF KexecBlocked(f, distro) THEN "red"
  ELSE IF Attested(f) THEN "green"
  ELSE IF VerifySignature(f) = "KeyNotTrusted" THEN "yellow"
  ELSE "gray"

-----------------------------------------------------------------------------
(* What the list's info pane and the Confirm screen say of an ISO. *)

(* hash_summary and signer_summary: a wording for each outcome. *)
Summaries(f) == [sha256 |-> VerifyHash(f), signer |-> VerifySignature(f)]

(* windows_redirect_lines: neither the hash nor the signature is asked. *)
WindowsRedirect(distros) == {d \in distros : "NotKexecBootable" \notin Quirks(d)}

(* info_pane_iso_lines, below the rows of facts. *)
PaneNote(tier, distro) ==
  IF ~ IsBootable(tier)
  THEN IF distro = "Windows" THEN "use another tool" ELSE "boot is disabled"
  ELSE IF tier \in {2, 3} THEN "typed confirmation" ELSE "none"

(* checksum_span and signature_span: the colours of the Trust line. *)
ChecksumSpan(f) ==
  CASE VerifyHash(f) = "Verified" -> "green"
    [] VerifyHash(f) = "Mismatch" -> "red"
    [] VerifyHash(f) = "Unreadable" -> "yellow"
    [] OTHER -> "plain"
SignatureSpan(f) ==
  CASE VerifySignature(f) = "Verified" -> "green"
    [] VerifySignature(f) = "Forged" -> "red"
    [] VerifySignature(f) \in {"KeyNotTrusted", "Error"} -> "yellow"
    [] OTHER -> "plain"

(* SourceVerdict::from_iso *)
SourceVerdict(f) ==
  IF VerifySignature(f) = "Forged" THEN "Tampered"
  ELSE IF Attested(f) THEN "Verified"
  ELSE IF VerifySignature(f) = "KeyNotTrusted" THEN "KeyNotTrusted"
  ELSE "Bare"

(* MediaVerdict::from_iso: a signature outranks the sidecar. *)
MediaVerdict(f) ==
  IF VerifySignature(f) = "Verified" THEN "Verified"
  ELSE IF Tampered(f) THEN "Mismatch"
  ELSE IF VerifyHash(f) = "Verified" THEN "Verified"
  ELSE "Unverified"

(* draw_confirm: the banner, the Trust line, the two axes, the hint. *)
ConfirmShows(f, distro, enforcing) ==
  [banner |-> Tier(f, distro, enforcing),
   trust |-> {ChecksumSpan(f), SignatureSpan(f)},
   source |-> SourceVerdict(f), media |-> MediaVerdict(f),
   blocked |-> KexecBlocked(f, distro)]
=============================================================================
