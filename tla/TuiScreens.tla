----------------------------- MODULE TuiScreens -----------------------------
(***************************************************************************)
(* The data of the rescue TUI: what iso-probe discovered (constants), the  *)
(* `Screen` enum of crates/rescue-tui/src/state.rs as records, and the     *)
(* sets those records range over.                                          *)
(*                                                                         *)
(* Rows and positions count from 1 here and from 0 in the code.  `prior`,  *)
(* the boxed screen an overlay restores when it is dismissed, is kept as a *)
(* nested record, exactly as in the code.  Text a screen only displays     *)
(* (messages, remedies, byte counts, cursors inside a text field) is left  *)
(* out.                                                                    *)
(***************************************************************************)
EXTENDS Naturals, Sequences, FiniteSets

CONSTANTS
  ISO,             \* ISO files iso-probe can discover
  FailedIso,       \* ISO files whose parsing failed (tier 4 rows)
  Iface,           \* network interfaces of the machine
  Entry,           \* entries of the vendor catalog
  Cmdline,         \* kernel command lines the operator can type
  Filter,          \* contents of the `/` filter field
  None,            \* the absent value (Option::None)

  Discovered,      \* the Vec<DiscoveredIso> main hands to AppState::new
  DefaultCmdline,  \* the command line an ISO's own boot config declares
  Installer,       \* ISOs with contains_installer
  NotKexecBootable,\* ISOs with Quirk::NotKexecBootable
  SigVerified,     \* ISOs whose signature_verification is Verified
  Forged,          \* ISOs whose signature_verification is Forged
  WithSidecar,     \* ISOs that have an <iso>.aegis.toml beside them
  NoFilter,        \* the empty filter
  Matches,         \* filter -> the ISOs (parsed or failed) it keeps
  SortRank         \* sort order -> ISO -> rank of its sort key

SortOrder == {"Name", "SizeDesc", "Distro"}

ASSUME ScreensAssumption ==
  /\ Discovered \in Seq(ISO)
  /\ \A p, q \in DOMAIN Discovered : p # q => Discovered[p] # Discovered[q]
  /\ IsFiniteSet(FailedIso)
  /\ DefaultCmdline \in [ISO -> Cmdline]
  /\ WithSidecar \subseteq ISO
  /\ SigVerified \cap Forged = {}
  /\ NoFilter \in Filter
  /\ Matches \in [Filter -> SUBSET (ISO \cup FailedIso)]
  /\ Matches[NoFilter] = ISO \cup FailedIso
  /\ SortRank \in [SortOrder -> [ISO -> Nat]]
  /\ None \notin ISO \cup Iface \cup Entry \cup Cmdline
  /\ None \notin Nat

-----------------------------------------------------------------------------
(* HashVerification: NotPresent and Unreadable are one value here, because *)
(* no gate tells them apart.                                               *)
Verdict == {"Verified", "Mismatch", "Unproven"}

(* `Unset` positions of the cmdline_overrides map hold None. *)
Position == 1 .. Len(Discovered)
Row == Nat \ {0}

NetworkOp == {"Idle", "Pending", "Success", "Failed"}

CatalogRest == {"Idle", "Success", "Failed"}
CatalogBusy == {"Connecting", "Downloading", "VerifyingSig", "VerifyingHash"}
CatalogOp == CatalogRest \cup CatalogBusy

-----------------------------------------------------------------------------
(* Constructors, one per variant of Screen.  Kexeced is the one screen the *)
(* code does not have: the process image has been replaced.                *)
List(c) == [kind |-> "List", selected |-> c]
Confirm(p) == [kind |-> "Confirm", selected |-> p]
EditCmdline(p, b) == [kind |-> "EditCmdline", selected |-> p, buffer |-> b]
TrustChallenge(p, b) == [kind |-> "TrustChallenge", selected |-> p, buffer |-> b]
Consent(p) == [kind |-> "Consent", selected |-> p]
Verifying(p) == [kind |-> "Verifying", selected |-> p]
ConfirmDelete(c) == [kind |-> "ConfirmDelete", selected |-> c]
BlockedToast(c) == [kind |-> "BlockedToast", return_to |-> c]
Error(cause, r) == [kind |-> "Error", cause |-> cause, return_to |-> r]

ConsentNetworkUse(s) == [kind |-> "ConsentNetworkUse", prior |-> s]
Network(op, i, s) == [kind |-> "Network", op |-> op, iface |-> i, prior |-> s]
Catalog(s) == [kind |-> "Catalog", prior |-> s]
CatalogConfirm(e, op, s) ==
  [kind |-> "CatalogConfirm", entry |-> e, op |-> op, prior |-> s]

Help(s) == [kind |-> "Help", prior |-> s]
ConfirmQuit(s) == [kind |-> "ConfirmQuit", prior |-> s]
Quitting == [kind |-> "Quitting"]
Kexeced == [kind |-> "Kexeced"]

-----------------------------------------------------------------------------
(* The screens the network and catalog overlays may be opened from. *)
HomeScreens ==
       [kind : {"List"}, selected : Row]
  \cup [kind : {"Confirm"}, selected : Position]

CatalogScreens == [kind : {"Catalog"}, prior : HomeScreens]

(* The screens that show the boot flow of one ISO, or the list. *)
FlowScreens ==
       HomeScreens
  \cup [kind : {"EditCmdline"}, selected : Position, buffer : Cmdline]
  \cup [kind : {"TrustChallenge"}, selected : Position, buffer : {"partial", "boot"}]
  \cup [kind : {"Consent"}, selected : Position]
  \cup [kind : {"Verifying"}, selected : Position]
  \cup [kind : {"ConfirmDelete"}, selected : Row]
  \cup [kind : {"BlockedToast"}, return_to : Row]
  \cup [kind : {"Error"}, cause : {"kexec", "delete"}, return_to : Row]

OverlayScreens ==
       [kind : {"ConsentNetworkUse"}, prior : HomeScreens]
  \cup [kind : {"Network"}, op : NetworkOp, iface : Iface \cup {None}, prior : HomeScreens]
  \cup CatalogScreens
  \cup [kind : {"CatalogConfirm"}, entry : Entry, op : CatalogOp, prior : CatalogScreens]

ModalScreens ==
  [kind : {"Help", "ConfirmQuit"}, prior : FlowScreens \cup OverlayScreens]

Screens ==
  FlowScreens \cup OverlayScreens \cup ModalScreens
    \cup [kind : {"Quitting", "Kexeced"}]

(* The screen under a Help or ConfirmQuit modal, or the screen itself. *)
Beneath(s) == IF s.kind \in {"Help", "ConfirmQuit"} THEN s.prior ELSE s

(* The boot-flow screen or list at the bottom of the overlays. *)
Flow(s) ==
  LET b == Beneath(s)
  IN  IF b.kind \in {"ConsentNetworkUse", "Network", "Catalog"} THEN b.prior
      ELSE IF b.kind = "CatalogConfirm" THEN b.prior.prior ELSE b

(* The screens that are about one ISO, named by its position. *)
IsoKinds == {"Confirm", "EditCmdline", "TrustChallenge", "Consent", "Verifying"}
=============================================================================
