------------------------------ MODULE TuiView ------------------------------
(***************************************************************************)
(* What the frame tells the operator to press: the KEYBINDINGS registry    *)
(* behind the footer (keybindings.rs) and the hints each panel writes for  *)
(* itself (render.rs).  Both are lists of their own beside the dispatch of *)
(* event_loop, which RescueTui models; `Honoured' asks it about a hint.    *)
(*                                                                         *)
(* A hint is named by what it promises.  Layout, colour and wording are    *)
(* left out, and so are the keys that only move inside a text field.       *)
(***************************************************************************)
EXTENDS RescueTui

ScreenKind == {s.kind : s \in {List(1), Help(Quitting), ConfirmQuit(Quitting), Quitting}}
  \cup {"Confirm", "EditCmdline", "Error", "Verifying", "TrustChallenge", "BlockedToast",
        "Consent", "ConfirmDelete", "Network", "Catalog", "CatalogConfirm",
        "ConsentNetworkUse"}

Rows(labels, screens, p, editing) ==
  [label : labels, screens : {screens}, pane : {p}, while_filter_editing : {editing}]

(* An empty slice of screens stands for all of them. *)
UniversalBindings == Rows({"Help", "Quit"}, ScreenKind, None, FALSE)

ListBindings ==
       Rows({"Move", "Focus", "Filter", "Sort"}, {"List"}, None, FALSE)
  \cup Rows({"Boot", "Delete"}, {"List"}, "List", FALSE)
  \cup Rows({"Verify", "Network"}, {"List", "Confirm"}, None, FALSE)
  \cup Rows({"Commit", "Clear"}, {"List"}, None, TRUE)

ScreenBindings ==
       Rows({"Delete it", "Keep it"}, {"ConfirmDelete"}, None, FALSE)
  \cup Rows({"DHCP", "Refresh", "Close"}, {"Network"}, None, FALSE)
  \cup Rows({"kexec", "cmdline"}, {"Confirm"}, None, FALSE)
  \cup Rows({"Back"}, {"Confirm", "Error"}, None, FALSE)
  \cup Rows({"Save"}, {"EditCmdline"}, None, FALSE)
  \cup Rows({"Cancel"}, {"EditCmdline", "Verifying", "TrustChallenge"}, None, FALSE)
  \cup Rows({"Save evidence"}, {"Error"}, None, FALSE)
  \cup Rows({"Proceed"}, {"TrustChallenge"}, None, FALSE)

KEYBINDINGS == UniversalBindings \cup ListBindings \cup ScreenBindings

(* A faulty variant: the focused pane is not looked at. *)
FilterForAnyPane(kind) ==
  {k \in KEYBINDINGS : k.while_filter_editing = filter_editing /\ kind \in k.screens}

FilterFor(kind) ==
  {k \in KEYBINDINGS : /\ k.while_filter_editing = filter_editing
                       /\ kind \in k.screens
                       /\ k.pane \in {None, pane}}

FooterLine(kind) ==
  IF kind \in {"Quitting", "Help", "ConfirmQuit"} THEN {} ELSE {k.label : k \in FilterFor(kind)}

(* Under Help and ConfirmQuit the footer speaks of the screen beneath. *)
DrawFooter == FooterLine(Beneath(screen).kind)

-----------------------------------------------------------------------------
(* The panels.  A cursor past the last row is drawn on the last row.       *)
Highlighted(c) == AtMost(c, ViewLen(isos))

EmptyList == isos = <<>> /\ FailedIso = {}
DrawEmptyList == {"Shell", "Quit", "Help"}

InfoLine ==
  IF filter_editing THEN {"Commit", "Clear"}
  ELSE {"Filter", "Focus"} \cup IF filter = NoFilter THEN {"Sort"} ELSE {}

(* info_pane_failed_lines; what is said of a parsed ISO is in IsoShelf. *)
InfoPaneFailedLines == {"Boot is disabled"}
DrawInfoPane(c) == IF AtFailed(Highlighted(c)) THEN InfoPaneFailedLines ELSE {}

DrawList(c) == IF EmptyList THEN DrawEmptyList ELSE InfoLine \cup DrawInfoPane(c)

DrawConfirm(p) ==
  IF is_kexec_blocked(p) THEN {"Enter: BLOCKED"} ELSE {"kexec", "cmdline", "Back"}
DrawEditCmdline == {"Save", "Cancel"}
DrawTrustChallenge == {"Proceed", "Cancel"}
DrawVerifying == {"Cancel"}
DrawError == {"Save evidence", "Back", "Quit"}

DrawHelp == {"Close help"}
DrawConfirmQuit == {"Quit now", "Stay"}
DrawBlockedToast == {"Dismiss"}
DrawConsent == {"Grant consent", "Refuse consent"}
DrawConfirmDelete == {"Delete it", "Keep it"}
DrawNetwork == {"DHCP", "Refresh", "Close"}
DrawConsentNetworkUse == {"Grant network", "Refuse network"}
DrawCatalog ==
  {"Confirm fetch", "Close catalog"} \cup IF network_lease = None THEN {"Network"} ELSE {}
DrawCatalogConfirm(op) ==
  IF op = "Idle" THEN {"Start fetch", "Leave fetch"}
  ELSE IF op \in CatalogBusy THEN {"Cancel fetch"} ELSE {"Leave fetch"}

(* draw and draw_body: the panel that has the keyboard. *)
Panel ==
  CASE screen.kind = "List" -> DrawList(screen.selected)
    [] screen.kind = "Confirm" -> DrawConfirm(screen.selected)
    [] screen.kind = "EditCmdline" -> DrawEditCmdline
    [] screen.kind = "TrustChallenge" -> DrawTrustChallenge
    [] screen.kind = "Verifying" -> DrawVerifying
    [] screen.kind = "Error" -> DrawError
    [] screen.kind = "Help" -> DrawHelp
    [] screen.kind = "ConfirmQuit" -> DrawConfirmQuit
    [] screen.kind = "BlockedToast" -> DrawBlockedToast
    [] screen.kind = "Consent" -> DrawConsent
    [] screen.kind = "ConfirmDelete" -> DrawConfirmDelete
    [] screen.kind = "Network" -> DrawNetwork
    [] screen.kind = "ConsentNetworkUse" -> DrawConsentNetworkUse
    [] screen.kind = "Catalog" -> DrawCatalog
    [] screen.kind = "CatalogConfirm" -> DrawCatalogConfirm(screen.op)
    [] OTHER -> {}

Offered ==
  Panel \cup IF screen.kind \in {"Help", "ConfirmQuit"} THEN {} ELSE DrawFooter

-----------------------------------------------------------------------------
(* What event_loop does when the key of the hint is pressed now. *)
Honoured(hint) ==
  CASE hint = "Help" -> ENABLED OpenHelp
    [] hint = "Quit" -> ENABLED RequestQuit
    [] hint = "Move" -> ENABLED MoveSelection \/ (Key("List") /\ pane = "Info")
    [] hint = "Focus" -> ENABLED TogglePane
    [] hint = "Filter" -> ENABLED OpenFilter
    [] hint = "Sort" -> ENABLED CycleSort
    [] hint = "Boot" -> ENABLED (ConfirmSelection \/ ChooseShell)
    [] hint = "Shell" -> ENABLED ChooseShell
    [] hint = "Boot is disabled" -> ~ ENABLED (ConfirmSelection /\ screen'.kind = "Confirm")
    [] hint = "Delete" -> ENABLED EnterDelete
    [] hint = "Verify" -> ENABLED (VerifyFromList \/ VerifyFromConfirm)
    [] hint = "Network" -> ENABLED EnterNetwork
    [] hint = "Commit" -> ENABLED FilterCommit
    [] hint = "Clear" -> ENABLED FilterCancel
    [] hint = "kexec" -> ENABLED ConfirmEnter /\ ~ is_kexec_blocked(screen.selected)
    [] hint = "Enter: BLOCKED" -> ~ ENABLED (ConfirmEnter /\ screen'.kind # "Error")
    [] hint = "cmdline" -> ENABLED EnterCmdlineEditor
    [] hint = "Back" -> ENABLED (CancelConfirmation \/ DismissError)
    [] hint = "Save" -> ENABLED CommitCmdlineEdit
    [] hint = "Cancel" -> ENABLED (CancelCmdlineEdit \/ EscVerify \/ TrustChallengeCancel)
    [] hint = "Save evidence" -> Key("Error")
    [] hint = "Proceed" -> /\ ENABLED TypeChallenge
                           /\ screen.buffer = "boot" => ENABLED TrustChallengeEnter
    [] hint = "Delete it" -> ENABLED DeleteYes
    [] hint = "Keep it" -> ENABLED CancelDelete
    [] hint = "Grant consent" -> ENABLED ConsentYes
    [] hint = "Refuse consent" -> ENABLED CancelConsent
    [] hint = "Dismiss" -> ENABLED DismissBlockedToast
    [] hint = "Close help" -> ENABLED CloseHelp
    [] hint = "Quit now" -> ENABLED ConfirmQuitYes
    [] hint = "Stay" -> ENABLED CancelQuit
    [] hint = "DHCP" -> ENABLED NetworkBeginDhcp
    [] hint = "Refresh" -> ENABLED NetworkRefresh
    [] hint = "Close" -> ENABLED CancelNetwork
    [] hint = "Grant network" -> ENABLED GrantNetworkUse
    [] hint = "Refuse network" -> ENABLED CancelNetworkUse
    [] hint = "Confirm fetch" -> ENABLED CatalogOpenConfirm
    [] hint = "Close catalog" -> ENABLED CancelCatalog
    [] hint = "Start fetch" -> ENABLED CatalogBeginFetch
    [] hint = "Cancel fetch" -> ENABLED (EscCatalogConfirm /\ fetch_cancelled')
    [] hint = "Leave fetch" -> ENABLED (EscCatalogConfirm /\ screen' = screen.prior)

(* The hints the code shows and does not honour. *)
NoIsoUnderCursor == screen.kind = "List" /\ RealIndex(screen.selected) = None
Deaf ==
     (* the universal rows, where every key is text or dismisses *)
       {h \in {"Help", "Quit"} :
          \/ screen.kind \in {"EditCmdline", "Verifying", "BlockedToast"}
          \/ (EmptyList /\ filter_editing)}
     (* `q' closes these two *)
  \cup {h \in {"Quit"} : screen.kind \in {"Confirm", "Network"}}
     (* the registry does not look at the row, nor at a cursor left behind *)
  \cup {h \in {"Verify", "Delete"} : NoIsoUnderCursor}
  \cup {h \in {"Boot"} : Key("List") /\ screen.selected > ViewLen(isos)}
  \cup {h \in {"Shell"} : EmptyList /\ filter_editing}
     (* nor at the gates, the state of the worker, the screen `n' works on *)
  \cup {h \in {"kexec"} : screen.kind = "Confirm" /\ is_kexec_blocked(screen.selected)}
  \cup {h \in {"DHCP"} : screen.kind = "Network" /\ (screen.op = "Pending" \/ Iface = {})}
  \cup {h \in {"Network"} : screen.kind = "Catalog"}
     (* a fetch whose result was lost: no worker to cancel, no way back *)
  \cup {h \in {"Cancel fetch"} : screen.kind = "CatalogConfirm" /\ active_fetch = None}

(* What keybindings.rs says of the footer, asked of the panels too: a key  *)
(* the frame offers is one event_loop acts on in that very state, whatever *)
(* worker message or overlay came in between -- and the exceptions are the *)
(* ones in Deaf.                                                           *)
HintsAreHonest ==
  \A hint \in Offered \ Deaf : Honoured(hint)
=============================================================================
