----------------------------- MODULE RescueTui -----------------------------
(***************************************************************************)
(* The interactive rescue TUI: AppState (state.rs) driven by event_loop    *)
(* (main.rs).  One thread draws, drains the receivers of at most three     *)
(* worker threads (verify-now, DHCP, catalog fetch) and dispatches one     *)
(* key.  A worker's messages arrive between any two keys, so each drained  *)
(* message and each key is one action here.                                *)
(*                                                                         *)
(* The files of the last choice are in LastChoice.tla; this module starts  *)
(* from whatever apply_persisted_choice restored.                          *)
(***************************************************************************)
EXTENDS TuiScreens, SequencesExt

VARIABLES
  isos,                    \* the rows AppState::isos still holds, in order
  hash_verification,       \* ISO -> its current hash verdict
  disk,                    \* ISO files present on the data partition
  sidecars,                \* ISOs whose sidecar file is present
  cmdline_overrides,       \* position -> operator's command line, or None
  screen,
  sort_order, filter, filter_editing, pane,
  session_consent, session_network_consent,
  shell_requested,
  active_verify,           \* ISO the verify worker is hashing, or None
  active_dhcp,             \* interface of the DHCP worker, or None
  network_lease,           \* interface of the last recorded lease, or None
  active_fetch,            \* catalog entry of the fetch worker, or None
  fetch_cancelled,         \* the AtomicBool shared with that worker
  fetch_phase,             \* last message drained from that worker
  exec,                    \* history: request last given to load_and_exec
  asked                    \* history: ISO the delete prompt was opened for

listing == <<isos, disk, sidecars, cmdline_overrides>>
view == <<sort_order, filter, filter_editing, pane>>
session == <<session_consent, session_network_consent, shell_requested>>
verify == <<active_verify, hash_verification>>
dhcp == <<active_dhcp, network_lease>>
fetch == <<active_fetch, fetch_cancelled, fetch_phase>>
history == <<exec, asked>>
vars == <<listing, screen, view, session, verify, dhcp, fetch, history>>

-----------------------------------------------------------------------------
(* The list view: filtered and stably sorted rows of isos, then the parse  *)
(* failures the filter keeps, then the rescue shell.                       *)

Visible(rows) == {p \in DOMAIN rows : rows[p] \in Matches[filter]}

Sooner(rows, p, q) ==
  LET rank == SortRank[sort_order]
  IN  \/ rank[rows[p]] < rank[rows[q]]
      \/ rank[rows[p]] = rank[rows[q]] /\ p < q

RowOf(rows, p) == 1 + Cardinality({q \in Visible(rows) : Sooner(rows, q, p)})

(* The position under the cursor, or None when the row is not an ISO's. *)
RealIndex(c) ==
  LET here == {p \in Visible(isos) : RowOf(isos, p) = c}
  IN  IF here = {} THEN None ELSE CHOOSE p \in here : TRUE

FailedShown == Cardinality(FailedIso \cap Matches[filter])

ViewLen(rows) == Cardinality(Visible(rows)) + FailedShown + 1

AtShell(c) == c = ViewLen(isos)
AtFailed(c) == Cardinality(Visible(isos)) < c /\ c < ViewLen(isos)

AtMost(c, n) == IF c <= n THEN c ELSE n

-----------------------------------------------------------------------------
(* What the kexec gates look at. *)

EffectiveCmdline(p) ==
  IF cmdline_overrides[p] # None THEN cmdline_overrides[p] ELSE DefaultCmdline[isos[p]]

KexecBlocked(i, verdict) ==
  i \in NotKexecBootable \/ verdict = "Mismatch" \/ i \in Forged

DegradedTrust(i, verdict) == ~ (i \in SigVerified \/ verdict = "Verified")

is_kexec_blocked(p) == KexecBlocked(isos[p], hash_verification[isos[p]])
consent_required_for(p) == ~ session_consent /\ isos[p] \in Installer
is_degraded_trust(p) == DegradedTrust(isos[p], hash_verification[isos[p]])

-----------------------------------------------------------------------------
(* Init: AppState::new, then apply_persisted_choice, which may pre-select  *)
(* a discovered ISO -- by its position -- and restore its override.        *)

Init ==
  /\ isos = Discovered
  /\ hash_verification \in [ISO -> Verdict]
  /\ disk = {Discovered[p] : p \in DOMAIN Discovered}
  /\ sidecars = WithSidecar \cap disk
  /\ \/ screen = List(1) /\ cmdline_overrides = [p \in Position |-> None]
     \/ \E p \in DOMAIN Discovered, o \in Cmdline \cup {None} :
          /\ screen = List(p)
          /\ cmdline_overrides = [q \in Position |-> IF q = p THEN o ELSE None]
  /\ sort_order = "Name" /\ filter = NoFilter /\ filter_editing = FALSE /\ pane = "List"
  /\ session_consent = FALSE /\ session_network_consent = FALSE
  /\ shell_requested = FALSE
  /\ active_verify = None
  /\ active_dhcp = None /\ network_lease = None
  /\ active_fetch = None /\ fetch_cancelled = FALSE /\ fetch_phase = "Idle"
  /\ exec = None /\ asked = None

-----------------------------------------------------------------------------
(* Key dispatch.  Verifying, ConfirmQuit, Help and BlockedToast swallow    *)
(* every key; the filter field does while it is open (List only).          *)

Key(kind) == screen.kind = kind /\ ~ filter_editing

Running == screen.kind \notin {"Quitting", "Kexeced"}

GlobalKeys ==
  /\ Running
  /\ screen.kind \notin {"Verifying", "ConfirmQuit", "Help", "BlockedToast", "EditCmdline"}
  /\ ~ filter_editing

(* `q`: Confirm and Network are closed by it, everything else asks. *)
RequestQuit ==
  /\ GlobalKeys
  /\ screen.kind \notin {"Confirm", "Network"}
  /\ screen' = ConfirmQuit(screen)
  /\ UNCHANGED <<listing, view, session, verify, dhcp, fetch, history>>

CancelQuit ==
  /\ Key("ConfirmQuit")
  /\ screen' = screen.prior
  /\ UNCHANGED <<listing, view, session, verify, dhcp, fetch, history>>

ConfirmQuitYes ==
  /\ Key("ConfirmQuit")
  /\ screen' = Quitting
  /\ UNCHANGED <<listing, view, session, verify, dhcp, fetch, history>>

OpenHelp ==
  /\ GlobalKeys
  /\ screen' = Help(screen)
  /\ UNCHANGED <<listing, view, session, verify, dhcp, fetch, history>>

CloseHelp ==
  /\ Key("Help")
  /\ screen' = screen.prior
  /\ UNCHANGED <<listing, view, session, verify, dhcp, fetch, history>>

-----------------------------------------------------------------------------
(* The List screen. *)

MoveSelection ==
  /\ Key("List") /\ pane = "List"
  /\ screen' \in { List(AtMost(screen.selected + 1, ViewLen(isos))),
                   List(IF screen.selected > 1 THEN screen.selected - 1 ELSE 1) }
  /\ UNCHANGED <<listing, view, session, verify, dhcp, fetch, history>>

MoveToEdge ==
  /\ Key("List")
  /\ screen' \in {List(1), List(ViewLen(isos))}
  /\ UNCHANGED <<listing, view, session, verify, dhcp, fetch, history>>

TogglePane ==
  /\ Key("List")
  /\ pane' = IF pane = "List" THEN "Info" ELSE "List"
  /\ UNCHANGED <<listing, screen, sort_order, filter, filter_editing, session, verify,
                 dhcp, fetch, history>>

CycleSort ==
  /\ Key("List")
  /\ sort_order' = [Name |-> "SizeDesc", SizeDesc |-> "Distro", Distro |-> "Name"][sort_order]
  /\ screen' = List(1)
  /\ UNCHANGED <<listing, filter, filter_editing, pane, session, verify, dhcp, fetch, history>>

OpenFilter ==
  /\ Key("List")
  /\ filter_editing' = TRUE
  /\ UNCHANGED <<listing, screen, sort_order, filter, pane, session, verify, dhcp, fetch, history>>

(* filter_push / filter_backspace: the field takes any content next. *)
EditFilter ==
  /\ screen.kind = "List" /\ filter_editing
  /\ filter' \in Filter
  /\ screen' = List(1)
  /\ UNCHANGED <<listing, sort_order, filter_editing, pane, session, verify, dhcp, fetch, history>>

FilterCommit ==
  /\ screen.kind = "List" /\ filter_editing
  /\ filter_editing' = FALSE
  /\ UNCHANGED <<listing, screen, sort_order, filter, pane, session, verify, dhcp, fetch, history>>

FilterCancel ==
  /\ screen.kind = "List" /\ filter_editing
  /\ filter_editing' = FALSE /\ filter' = NoFilter
  /\ screen' = List(1)
  /\ UNCHANGED <<listing, sort_order, pane, session, verify, dhcp, fetch, history>>

ChooseShell ==
  /\ Key("List") /\ AtShell(screen.selected)
  /\ shell_requested' = TRUE
  /\ screen' = Quitting
  /\ UNCHANGED <<listing, view, session_consent, session_network_consent, verify, dhcp,
                 fetch, history>>

(* A faulty variant: the view row is used as a position. *)
ConfirmSelectionByRow ==
  /\ Key("List") /\ ~ AtShell(screen.selected)
  /\ screen' = Confirm(screen.selected)
  /\ UNCHANGED <<listing, view, session, verify, dhcp, fetch, history>>

ConfirmSelection ==
  /\ Key("List")
  /\ \/ /\ RealIndex(screen.selected) # None
        /\ screen' = Confirm(RealIndex(screen.selected))
     \/ /\ AtFailed(screen.selected)
        /\ screen' = BlockedToast(screen.selected)
  /\ UNCHANGED <<listing, view, session, verify, dhcp, fetch, history>>

DismissBlockedToast ==
  /\ Key("BlockedToast")
  /\ screen' = List(screen.return_to)
  /\ UNCHANGED <<listing, view, session, verify, dhcp, fetch, history>>

(* Back to the row that shows the ISO, whatever the view is by now. *)
CancelConfirmation ==
  /\ Key("Confirm")
  /\ screen' = List(IF screen.selected \in Visible(isos)
                    THEN RowOf(isos, screen.selected) ELSE 1)
  /\ UNCHANGED <<listing, view, session, verify, dhcp, fetch, history>>

-----------------------------------------------------------------------------
(* Verify-now. *)

StartVerify(p) ==
  /\ screen' = Verifying(p)
  /\ active_verify' = isos[p]
  /\ UNCHANGED <<listing, hash_verification, view, session, dhcp, fetch, history>>

VerifyFromList ==
  /\ Key("List")
  /\ RealIndex(screen.selected) # None
  /\ StartVerify(RealIndex(screen.selected))

VerifyFromConfirm ==
  /\ Key("Confirm")
  /\ StartVerify(screen.selected)

(* A faulty variant: the screen's position is resolved as a view row. *)
VerifyFinishByRow(verdict) ==
  IF screen.kind = "Verifying" /\ RealIndex(screen.selected) # None
  THEN /\ hash_verification' =
            [hash_verification EXCEPT ![isos[RealIndex(screen.selected)]] = verdict]
       /\ screen' = Confirm(screen.selected)
  ELSE UNCHANGED <<hash_verification, screen>>

(* verify_finish: the verdict is stored in the row the screen names. *)
VerifyFinish(verdict) ==
  IF screen.kind = "Verifying"
  THEN /\ hash_verification' = [hash_verification EXCEPT ![isos[screen.selected]] = verdict]
       /\ screen' = Confirm(screen.selected)
  ELSE UNCHANGED <<hash_verification, screen>>

VerifyDone ==
  /\ Running /\ active_verify # None
  /\ \E verdict \in Verdict : VerifyFinish(verdict)
  /\ active_verify' = None
  /\ UNCHANGED <<listing, view, session, dhcp, fetch, history>>

CancelVerify ==
  screen' = IF screen.kind = "Verifying" THEN Confirm(screen.selected) ELSE screen

(* Done(Err(_)): the worker could not read the ISO. *)
VerifyFailed ==
  /\ Running /\ active_verify # None
  /\ CancelVerify
  /\ active_verify' = None
  /\ UNCHANGED <<listing, hash_verification, view, session, dhcp, fetch, history>>

(* The worker thread died: only the receiver goes. *)
VerifyDisconnected ==
  /\ Running /\ active_verify # None
  /\ active_verify' = None
  /\ UNCHANGED <<listing, screen, hash_verification, view, session, dhcp, fetch, history>>

EscVerify ==
  /\ Key("Verifying")
  /\ CancelVerify
  /\ active_verify' = None
  /\ UNCHANGED <<listing, hash_verification, view, session, dhcp, fetch, history>>

-----------------------------------------------------------------------------
(* Delete: the prompt keeps the view row; `y` resolves it again, unlinks   *)
(* the ISO, then its sidecar, and only then drops the row.                 *)

EnterDelete ==
  /\ Key("List") /\ pane = "List"
  /\ RealIndex(screen.selected) # None
  /\ asked' = isos[RealIndex(screen.selected)]
  /\ screen' = ConfirmDelete(screen.selected)
  /\ UNCHANGED <<listing, view, session, verify, dhcp, fetch, exec>>

(* n, Esc, or a `y` whose row no longer resolves. *)
CancelDelete ==
  /\ Key("ConfirmDelete")
  /\ screen' = List(screen.selected)
  /\ asked' = None
  /\ UNCHANGED <<listing, view, session, verify, dhcp, fetch, exec>>

(* A faulty variant: the map keeps its old keys. *)
OverridesNotShifted(overrides, r) == overrides

(* Vec::remove shifts the rows after r; so must the overrides. *)
ShiftOverrides(overrides, r) ==
  [p \in Position |->
     IF p < r THEN overrides[p]
     ELSE IF p + 1 \in Position THEN overrides[p + 1] ELSE None]

DeleteCompleted(r) ==
  /\ isos' = RemoveAt(isos, r)
  /\ cmdline_overrides' = ShiftOverrides(cmdline_overrides, r)
  /\ screen' = List(AtMost(screen.selected, ViewLen(RemoveAt(isos, r))))

DeleteError ==
  /\ screen' = Error("delete", screen.selected)
  /\ UNCHANGED <<isos, cmdline_overrides>>

(* A faulty variant: a sidecar that will not unlink is ignored. *)
SidecarIgnored(r) ==
  /\ isos[r] \in disk /\ isos[r] \in sidecars
  /\ disk' = disk \ {isos[r]} /\ UNCHANGED sidecars
  /\ DeleteCompleted(r)

(* The ISO is gone and its sidecar will not unlink. *)
SidecarFails(r) ==
  /\ isos[r] \in disk /\ isos[r] \in sidecars
  /\ disk' = disk \ {isos[r]} /\ UNCHANGED sidecars
  /\ DeleteError

(* A faulty variant: the view row is used as a position. *)
DeleteTargetByRow == IF screen.selected \in DOMAIN isos THEN screen.selected ELSE None

DeleteTarget == RealIndex(screen.selected)

DeleteYes ==
  /\ Key("ConfirmDelete")
  /\ DeleteTarget # None
  /\ LET r == DeleteTarget
         i == isos[r]
     IN  \/ /\ i \in disk
            /\ disk' = disk \ {i} /\ sidecars' = sidecars \ {i}
            /\ DeleteCompleted(r)
         \/ SidecarFails(r)
         \/ /\ UNCHANGED <<disk, sidecars>>   \* the ISO will not unlink
            /\ DeleteError
  /\ asked' = None
  /\ UNCHANGED <<view, session, verify, dhcp, fetch, exec>>

-----------------------------------------------------------------------------
(* Command line editor. *)

EnterCmdlineEditor ==
  /\ Key("Confirm")
  /\ screen' = EditCmdline(screen.selected, EffectiveCmdline(screen.selected))
  /\ UNCHANGED <<listing, view, session, verify, dhcp, fetch, history>>

TypeCmdline ==
  /\ Key("EditCmdline")
  /\ \E text \in Cmdline : screen' = EditCmdline(screen.selected, text)
  /\ UNCHANGED <<listing, view, session, verify, dhcp, fetch, history>>

CommitCmdlineEdit ==
  /\ Key("EditCmdline")
  /\ cmdline_overrides' = [cmdline_overrides EXCEPT ![screen.selected] = screen.buffer]
  /\ screen' = Confirm(screen.selected)
  /\ UNCHANGED <<isos, disk, sidecars, view, session, verify, dhcp, fetch, history>>

CancelCmdlineEdit ==
  /\ Key("EditCmdline")
  /\ screen' = Confirm(screen.selected)
  /\ UNCHANGED <<listing, view, session, verify, dhcp, fetch, history>>

-----------------------------------------------------------------------------
(* The kexec gates and the attempt itself. *)

(* record_kexec_error: only a Confirm screen still knows which ISO it was. *)
KexecError(from) ==
  Error("kexec", IF from.kind = "Confirm" THEN from.selected ELSE 1)

Request(p, typed, consented) ==
  [iso |-> isos[p], cmdline |-> EffectiveCmdline(p),
   verdict |-> hash_verification[isos[p]], typed |-> typed, consented |-> consented]

(* prepare (mount) may fail, load_and_exec may fail, or the machine boots. *)
AttemptKexec(p, from, typed, consented) ==
  \/ /\ screen' = KexecError(from)
     /\ UNCHANGED exec
  \/ /\ isos[p] \in disk
     /\ exec' = Request(p, typed, consented)
     /\ screen' \in {KexecError(from), Kexeced}

(* A faulty variant: the challenge comes before the installer warning. *)
ConfirmEnterChallengesFirst ==
  /\ Key("Confirm")
  /\ LET p == screen.selected
     IN  \/ /\ is_kexec_blocked(p)
            /\ screen' = KexecError(screen) /\ UNCHANGED exec
         \/ /\ ~ is_kexec_blocked(p) /\ is_degraded_trust(p)
            /\ screen' = TrustChallenge(p, "partial") /\ UNCHANGED exec
         \/ /\ ~ is_kexec_blocked(p) /\ ~ is_degraded_trust(p) /\ consent_required_for(p)
            /\ screen' = Consent(p) /\ UNCHANGED exec
         \/ /\ ~ is_kexec_blocked(p) /\ ~ is_degraded_trust(p) /\ ~ consent_required_for(p)
            /\ AttemptKexec(p, screen, FALSE, session_consent)
  /\ UNCHANGED <<listing, view, session, verify, dhcp, fetch, asked>>

ConfirmEnter ==
  /\ Key("Confirm")
  /\ LET p == screen.selected
     IN  \/ /\ is_kexec_blocked(p)
            /\ screen' = KexecError(screen) /\ UNCHANGED exec
         \/ /\ ~ is_kexec_blocked(p) /\ consent_required_for(p)
            /\ screen' = Consent(p) /\ UNCHANGED exec
         \/ /\ ~ is_kexec_blocked(p) /\ ~ consent_required_for(p) /\ is_degraded_trust(p)
            /\ screen' = TrustChallenge(p, "partial") /\ UNCHANGED exec
         \/ /\ ~ is_kexec_blocked(p) /\ ~ consent_required_for(p) /\ ~ is_degraded_trust(p)
            /\ AttemptKexec(p, screen, FALSE, session_consent)
  /\ UNCHANGED <<listing, view, session, verify, dhcp, fetch, asked>>

(* A faulty variant: consent to the installer stands in for the challenge. *)
ConsentYesSkipsChallenge ==
  /\ Key("Consent")
  /\ session_consent' = TRUE
  /\ AttemptKexec(screen.selected, Confirm(screen.selected), FALSE, TRUE)
  /\ UNCHANGED <<listing, view, session_network_consent, shell_requested, verify, dhcp,
                 fetch, asked>>

(* grant_consent puts Confirm back before the rest of the gates run. *)
ConsentYes ==
  /\ Key("Consent")
  /\ session_consent' = TRUE
  /\ LET p == screen.selected
     IN  \/ /\ is_degraded_trust(p)
            /\ screen' = TrustChallenge(p, "partial") /\ UNCHANGED exec
         \/ /\ ~ is_degraded_trust(p)
            /\ AttemptKexec(p, Confirm(p), FALSE, TRUE)
  /\ UNCHANGED <<listing, view, session_network_consent, shell_requested, verify, dhcp,
                 fetch, asked>>

CancelConsent ==
  /\ Key("Consent")
  /\ screen' = Confirm(screen.selected)
  /\ UNCHANGED <<listing, view, session, verify, dhcp, fetch, history>>

(* Characters and Backspace: the buffer reads "boot" or it does not. *)
TypeChallenge ==
  /\ Key("TrustChallenge")
  /\ \E text \in {"partial", "boot"} : screen' = TrustChallenge(screen.selected, text)
  /\ UNCHANGED <<listing, view, session, verify, dhcp, fetch, history>>

TrustChallengeEnter ==
  /\ Key("TrustChallenge") /\ screen.buffer = "boot"
  /\ AttemptKexec(screen.selected, screen, TRUE, session_consent)
  /\ UNCHANGED <<listing, view, session, verify, dhcp, fetch, asked>>

TrustChallengeCancel ==
  /\ Key("TrustChallenge")
  /\ screen' = Confirm(screen.selected)
  /\ UNCHANGED <<listing, view, session, verify, dhcp, fetch, history>>

(* Any key but q, ? and F10.  The stored return_to becomes the cursor. *)
DismissError ==
  /\ Key("Error")
  /\ screen' = List(screen.return_to)
  /\ exec' = None
  /\ UNCHANGED <<listing, view, session, verify, dhcp, fetch, asked>>

-----------------------------------------------------------------------------
(* Network overlay. *)

(* A faulty variant: the overlay opens without asking. *)
EnterNetworkUnasked ==
  /\ Key("List") \/ Key("Confirm")
  /\ screen' = Network("Idle", None, screen)
  /\ UNCHANGED <<listing, view, session, verify, dhcp, fetch, history>>

EnterNetwork ==
  /\ Key("List") \/ Key("Confirm")
  /\ screen' = IF session_network_consent
               THEN Network("Idle", None, screen) ELSE ConsentNetworkUse(screen)
  /\ UNCHANGED <<listing, view, session, verify, dhcp, fetch, history>>

GrantNetworkUse ==
  /\ Key("ConsentNetworkUse")
  /\ session_network_consent' = TRUE
  /\ screen' = Network("Idle", None, screen.prior)
  /\ UNCHANGED <<listing, view, session_consent, shell_requested, verify, dhcp, fetch, history>>

CancelNetworkUse ==
  /\ Key("ConsentNetworkUse")
  /\ screen' = screen.prior
  /\ UNCHANGED <<listing, view, session, verify, dhcp, fetch, history>>

NetworkRefresh ==
  /\ Key("Network")
  /\ screen' = Network("Idle", None, screen.prior)
  /\ UNCHANGED <<listing, view, session, verify, dhcp, fetch, history>>

(* A faulty variant: a worker that still runs keeps the receiver. *)
NetworkBeginDhcpKeepsOld ==
  /\ Key("Network") /\ screen.op # "Pending"
  /\ \E i \in Iface :
       /\ screen' = Network("Pending", i, screen.prior)
       /\ active_dhcp' = IF active_dhcp = None THEN i ELSE active_dhcp
  /\ UNCHANGED <<listing, view, session, verify, network_lease, fetch, history>>

(* A worker that was still running loses its receiver. *)
NetworkBeginDhcp ==
  /\ Key("Network") /\ screen.op # "Pending"
  /\ \E i \in Iface :
       /\ screen' = Network("Pending", i, screen.prior)
       /\ active_dhcp' = i
  /\ UNCHANGED <<listing, view, session, verify, network_lease, fetch, history>>

CancelNetwork ==
  /\ Key("Network")
  /\ screen' = screen.prior
  /\ UNCHANGED <<listing, view, session, verify, dhcp, fetch, history>>

(* network_finish_dhcp: a result that finds another screen is dropped. *)
NetworkFinishDhcp(ok) ==
  IF screen.kind = "Network"
  THEN /\ screen' = Network(IF ok THEN "Success" ELSE "Failed", active_dhcp, screen.prior)
       /\ network_lease' = IF ok THEN active_dhcp ELSE network_lease
  ELSE UNCHANGED <<screen, network_lease>>

DhcpDone ==
  /\ Running /\ active_dhcp # None
  /\ \E ok \in BOOLEAN : NetworkFinishDhcp(ok)
  /\ active_dhcp' = None
  /\ UNCHANGED <<listing, view, session, verify, fetch, history>>

DhcpDisconnected ==
  /\ Running /\ active_dhcp # None
  /\ active_dhcp' = None
  /\ UNCHANGED <<listing, screen, view, session, verify, network_lease, fetch, history>>

-----------------------------------------------------------------------------
(* Catalog overlay. *)

EnterCatalog ==
  /\ Key("List") \/ Key("Confirm")
  /\ screen' = Catalog(screen)
  /\ UNCHANGED <<listing, view, session, verify, dhcp, fetch, history>>

CancelCatalog ==
  /\ Key("Catalog")
  /\ screen' = screen.prior
  /\ UNCHANGED <<listing, view, session, verify, dhcp, fetch, history>>

CatalogOpenConfirm ==
  /\ Key("Catalog")
  /\ \E e \in Entry : screen' = CatalogConfirm(e, "Idle", screen)
  /\ UNCHANGED <<listing, view, session, verify, dhcp, fetch, history>>

(* The keyring loads and a worker starts, or it fails on the spot. *)
CatalogBeginFetch ==
  /\ Key("CatalogConfirm") /\ screen.op \in CatalogRest
  /\ \/ /\ screen' = CatalogConfirm(screen.entry, "Connecting", screen.prior)
        /\ active_fetch' = screen.entry
        /\ fetch_cancelled' = FALSE
        /\ fetch_phase' = "Started"
     \/ /\ screen' = CatalogConfirm(screen.entry, "Failed", screen.prior)
        /\ UNCHANGED fetch
  /\ UNCHANGED <<listing, view, session, verify, dhcp, history>>

(* A faulty variant: Esc leaves at once and the worker stays attached. *)
EscCatalogConfirmLeaves ==
  /\ Key("CatalogConfirm")
  /\ fetch_cancelled' = TRUE
  /\ screen' = screen.prior
  /\ UNCHANGED <<listing, view, session, verify, dhcp, active_fetch, fetch_phase, history>>

(* Esc: cancel the worker if there is one, else leave if the op rests. *)
EscCatalogConfirm ==
  /\ Key("CatalogConfirm")
  /\ \/ /\ active_fetch # None
        /\ fetch_cancelled' = TRUE
        /\ UNCHANGED screen
     \/ /\ active_fetch = None /\ screen.op \in CatalogRest
        /\ screen' = screen.prior
        /\ UNCHANGED fetch_cancelled
  /\ UNCHANGED <<listing, view, session, verify, dhcp, active_fetch, fetch_phase, history>>

(* The events of fetch_catalog_entry, in the order it emits them.  The     *)
(* flag is polled while downloading and while hashing.                     *)
FetchOrder ==
  [Started |-> {"Connecting"}, Connecting |-> {"Downloading", "VerifyingSig"},
   Downloading |-> {"VerifyingSig"}, VerifyingSig |-> {"VerifyingHash"},
   VerifyingHash |-> {}]

CatalogProgress(event) ==
  screen' = IF screen.kind = "CatalogConfirm" /\ screen.op \notin {"Success", "Failed"}
            THEN CatalogConfirm(screen.entry, event, screen.prior)
            ELSE screen

FetchEvent ==
  /\ Running /\ active_fetch # None
  /\ \E event \in FetchOrder[fetch_phase] :
       /\ CatalogProgress(event)
       /\ fetch_phase' = event
  /\ UNCHANGED <<listing, view, session, verify, dhcp, active_fetch, fetch_cancelled, history>>

(* catalog_finish_fetch: a result that finds another screen is dropped. *)
CatalogFinishFetch(ok) ==
  screen' = IF screen.kind = "CatalogConfirm"
            THEN CatalogConfirm(screen.entry, IF ok THEN "Success" ELSE "Failed", screen.prior)
            ELSE screen

FetchDone ==
  /\ Running /\ active_fetch # None
  /\ \E ok \in BOOLEAN :
       /\ ok => fetch_phase = "VerifyingHash"
       /\ CatalogFinishFetch(ok)
       /\ fetch_phase' = IF ok THEN "DoneOk" ELSE "DoneErr"
  /\ active_fetch' = None
  /\ UNCHANGED <<listing, view, session, verify, dhcp, fetch_cancelled, history>>

FetchDisconnected ==
  /\ Running /\ active_fetch # None
  /\ active_fetch' = None
  /\ fetch_phase' = "Died"
  /\ UNCHANGED <<listing, screen, view, session, verify, dhcp, fetch_cancelled, history>>

-----------------------------------------------------------------------------
ListKey ==
  \/ MoveSelection \/ MoveToEdge \/ TogglePane \/ CycleSort
  \/ OpenFilter \/ EditFilter \/ FilterCommit \/ FilterCancel
  \/ ChooseShell \/ ConfirmSelection \/ DismissBlockedToast \/ CancelConfirmation

ModalKey == RequestQuit \/ CancelQuit \/ ConfirmQuitYes \/ OpenHelp \/ CloseHelp

VerifyKey == VerifyFromList \/ VerifyFromConfirm \/ EscVerify

DeleteKey == EnterDelete \/ CancelDelete \/ DeleteYes

CmdlineKey == EnterCmdlineEditor \/ TypeCmdline \/ CommitCmdlineEdit \/ CancelCmdlineEdit

KexecKey ==
  \/ ConfirmEnter \/ ConsentYes \/ CancelConsent
  \/ TypeChallenge \/ TrustChallengeEnter \/ TrustChallengeCancel \/ DismissError

NetworkKey ==
  \/ EnterNetwork \/ GrantNetworkUse \/ CancelNetworkUse
  \/ NetworkRefresh \/ NetworkBeginDhcp \/ CancelNetwork

CatalogKey ==
  \/ EnterCatalog \/ CancelCatalog \/ CatalogOpenConfirm
  \/ CatalogBeginFetch \/ EscCatalogConfirm

VerifyReport == VerifyDone \/ VerifyFailed \/ VerifyDisconnected

(* A faulty variant: the receiver is drained only while its screen is up. *)
DhcpReportOnScreen == screen.kind = "Network" /\ (DhcpDone \/ DhcpDisconnected)

DhcpReport == DhcpDone \/ DhcpDisconnected
FetchReport == FetchEvent \/ FetchDone \/ FetchDisconnected

Next ==
  \/ ModalKey \/ ListKey \/ VerifyKey \/ DeleteKey \/ CmdlineKey \/ KexecKey
  \/ NetworkKey \/ CatalogKey
  \/ VerifyReport \/ DhcpReport \/ FetchReport

(* `r` and Enter give the receiver to a new worker, and the operator may   *)
(* go on with that for ever, each time before the old worker reports.      *)
AlwaysAsksAgain == []<><<NetworkBeginDhcp>>_vars

(* Hashing a file ends, and udhcpc runs with -t 5 -T 2; the loop polls the *)
(* receivers on every turn.  So the verify worker reports or is dropped,   *)
(* and so does a DHCP worker that is not replaced: the last one.  Nothing  *)
(* is owed by the fetch worker, whose body read has no timeout.            *)
Fairness == WF_vars(VerifyReport) /\ (AlwaysAsksAgain \/ WF_vars(DhcpReport))

Spec == Init /\ [][Next]_vars /\ Fairness

-----------------------------------------------------------------------------
(* The shape of every variable (AppState and the locals of event_loop). *)
TypeOK ==
  /\ isos \in Seq(ISO) /\ Len(isos) <= Len(Discovered)
  /\ hash_verification \in [ISO -> Verdict]
  /\ disk \subseteq ISO /\ sidecars \subseteq ISO
  /\ cmdline_overrides \in [Position -> Cmdline \cup {None}]
  /\ screen \in Screens
  /\ sort_order \in SortOrder /\ filter \in Filter
  /\ filter_editing \in BOOLEAN /\ pane \in {"List", "Info"}
  /\ session_consent \in BOOLEAN /\ session_network_consent \in BOOLEAN
  /\ shell_requested \in BOOLEAN
  /\ active_verify \in ISO \cup {None}
  /\ active_dhcp \in Iface \cup {None} /\ network_lease \in Iface \cup {None}
  /\ active_fetch \in Entry \cup {None} /\ fetch_cancelled \in BOOLEAN
  /\ fetch_phase \in DOMAIN FetchOrder \cup {"Idle", "DoneOk", "DoneErr", "Died"}
  /\ exec \in {None} \cup [iso : ISO, cmdline : Cmdline, verdict : Verdict,
                           typed : BOOLEAN, consented : BOOLEAN]
  /\ asked \in ISO \cup {None}

(* Whatever the order of keys, overlays and worker messages, load_and_exec *)
(* is only reached for an ISO that is not blocked, whose installer warning *)
(* was accepted this session, and, when neither hash nor signature is      *)
(* verified, after "boot" was typed (ConfirmEnter, ConsentYes and          *)
(* TrustChallengeEnter check one gate each, none checks them all).         *)
KexecGated ==
  exec # None =>
    /\ ~ KexecBlocked(exec.iso, exec.verdict)
    /\ exec.iso \in Installer => exec.consented
    /\ DegradedTrust(exec.iso, exec.verdict) => exec.typed

(* A verdict lands on the ISO whose bytes the worker hashed: the row is    *)
(* named by the screen, the file by the worker, and neither carries the    *)
(* other (verify_finish, spawn_verify_worker).                             *)
VerdictBelongsToIso ==
  [][\A i \in ISO : hash_verification'[i] # hash_verification[i] => active_verify = i]_vars

(* An ISO keeps its override across sorting, filtering and the deletion of *)
(* other rows; only committing the editor on that very ISO changes it      *)
(* (delete_completed re-keys the map, commit_cmdline_edit writes it).      *)
OverridesFollowIso ==
  [][\A p \in DOMAIN isos, q \in DOMAIN isos' :
       isos[p] = isos'[q] =>
         \/ cmdline_overrides'[q] = cmdline_overrides[p]
         \/ screen = EditCmdline(p, cmdline_overrides'[q])]_vars

(* Only the ISO the prompt was opened for leaves the disk or the list,     *)
(* although `y` resolves the view row a second time (ConfirmDelete).       *)
DeletesOnlyWhatWasAsked ==
  [][\A i \in ISO :
       \/ i \in disk \ disk'
       \/ \E p \in DOMAIN isos : isos[p] = i /\ \A q \in DOMAIN isos' : isos'[q] # i
       => i = asked]_vars

(* The list and the data partition agree after any mix of deletions: a row *)
(* gone means ISO and sidecar gone, a row without its file means its       *)
(* sidecar is what failed (perform_iso_delete, delete_completed).          *)
DeletionIsComplete ==
  LET rows == {isos[p] : p \in DOMAIN isos}
  IN  /\ disk \subseteq rows
      /\ sidecars \subseteq rows
      /\ rows \subseteq disk \cup sidecars

(* "Single in-flight by construction": while a fetch worker is attached,   *)
(* its own CatalogConfirm is up, possibly under a modal, in a busy state,  *)
(* so neither a second fetch nor another entry can meet its messages.      *)
FetchSingleInFlight ==
  Running /\ active_fetch # None =>
    LET s == Beneath(screen)
    IN  s.kind = "CatalogConfirm" /\ s.entry = active_fetch /\ s.op \in CatalogBusy

(* A pending DHCP row waits for the attached worker, never for one that a  *)
(* refresh or a reopened overlay has left behind (network_begin_dhcp).     *)
DhcpResultMatchesRequest ==
  LET s == Beneath(screen)
  IN  Running /\ active_dhcp # None /\ s.kind = "Network" /\ s.op = "Pending"
        => s.iface = active_dhcp

(* A worker that is attached reports to the screen that waits for it and   *)
(* to no other, whatever was opened, left or restored since it started.    *)
WorkersFitScreens == FetchSingleInFlight /\ DhcpResultMatchesRequest

(* No interface is listed, brought up or held before the operator agreed   *)
(* to network use in this session (ConsentNetworkUse).  This is about the  *)
(* overlay only: a fetch from the catalog asks for neither consent nor a   *)
(* lease (CatalogConfirm's Enter).                                         *)
DhcpNeedsConsent ==
  active_dhcp # None \/ network_lease # None \/ Beneath(screen).kind = "Network"
    => session_network_consent

(* The receiver of the verify worker and that of the DHCP worker are       *)
(* always given up again: by a result, an error, a dead thread or Esc, and *)
(* in the case of DHCP perhaps by leaving the TUI, unless the operator     *)
(* starts new DHCP workers for ever (the drains of event_loop run whatever *)
(* the screen).                                                            *)
WorkersEnd ==
  /\ active_verify # None ~> active_verify = None
  /\ AlwaysAsksAgain \/ (active_dhcp # None ~> (active_dhcp = None \/ ~ Running))

(* The abstract view of the boot flow: which ISO it is about, whatever is  *)
(* drawn over it, what was answered for it, and the command line the       *)
(* operator gave each ISO, by ISO and not by position.                     *)
OnScreen == LET f == Flow(screen) IN IF f.kind \in IsoKinds THEN isos[f.selected] ELSE None

Answered == Flow(screen).kind = "TrustChallenge" /\ Flow(screen).buffer = "boot"

Listed == {isos[p] : p \in DOMAIN isos}

OverrideOf == [i \in Listed |-> cmdline_overrides[CHOOSE p \in DOMAIN isos : isos[p] = i]]

Gate == INSTANCE BootGate WITH
  Blocked <- KexecBlocked, Doubtful <- DegradedTrust,
  listed <- Listed, verdict <- hash_verification, edited <- OverrideOf,
  picked <- OnScreen, word <- Answered, agreed <- session_consent, request <- exec

(* The screens, overlays, workers and deletions never swap the ISO under   *)
(* an open boot flow, skip or misplace a question, or hand over an ISO     *)
(* with the verdict, answers or command line of another (Screen, state.rs, *)
(* and the dispatch of main.rs, against BootGate.tla).                     *)
BootGateImplemented == Gate!Spec

(* What a doc comment promises of catalog_finish_fetch: the terminal       *)
(* result flips the op of the confirm screen to Success or Failed.         *)
FetchResultIsApplied ==
  Running /\ fetch_phase \in {"DoneOk", "DoneErr"} =>
    (Beneath(screen).kind = "CatalogConfirm" => Beneath(screen).op \in CatalogRest)

(* What a doc comment promises of Error.return_to: going back to the List  *)
(* puts the cursor on the ISO whose kexec failed.                          *)
ErrorReturnsToFailedIso ==
  [][screen.kind = "Error" /\ exec # None /\ screen'.kind = "List" =>
       \E p \in DOMAIN isos : RealIndex(screen'.selected) = p /\ isos[p] = exec.iso]_vars
=============================================================================
