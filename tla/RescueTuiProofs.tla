-------------------------- MODULE RescueTuiProofs --------------------------
(***************************************************************************)
(* Proofs about RescueTui.tla for every set of ISOs, interfaces, catalog   *)
(* entries and command lines.                                              *)
(***************************************************************************)
EXTENDS RescueTui, FiniteSetTheorems, SequenceTheorems, TLAPS

(* What the screens of the boot flow may assume when they are shown: the   *)
(* row exists, the gates passed so far still hold, the question on screen  *)
(* applies, and the verify worker is hashing the ISO on the screen.        *)
FlowFits(f) ==
  /\ f.kind \in IsoKinds => f.selected \in DOMAIN isos
  /\ f.kind \in {"Consent", "TrustChallenge"} => ~ is_kexec_blocked(f.selected)
  /\ f.kind = "Consent" => isos[f.selected] \in Installer
  /\ f.kind = "TrustChallenge" => is_degraded_trust(f.selected)
  /\ f.kind = "TrustChallenge" => (isos[f.selected] \in Installer => session_consent)
  /\ f.kind = "Verifying" /\ active_verify # None => active_verify = isos[f.selected]

(* What the overlays may assume. *)
OverlayFits(b) ==
  /\ b.kind \notin {"Quitting", "Kexeced"} /\ active_fetch # None =>
       b.kind = "CatalogConfirm" /\ b.entry = active_fetch /\ b.op \in CatalogBusy
  /\ b.kind = "Network" => session_network_consent
  /\ b.kind = "Network" /\ b.op = "Pending" /\ active_dhcp # None => b.iface = active_dhcp

Fits(s) == s \in Screens /\ FlowFits(Flow(s)) /\ OverlayFits(Beneath(s))

(* The inductive invariant. *)
IInv ==
  /\ TypeOK
  /\ Fits(screen)
  /\ active_dhcp # None \/ network_lease # None => session_network_consent
  /\ active_fetch # None => fetch_phase \in DOMAIN FetchOrder
  /\ KexecGated

-----------------------------------------------------------------------------
(* The record each constructor builds is in its set of screens. *)
LEMMA FlowTypes ==
  /\ \A c \in Row : {List(c), ConfirmDelete(c), BlockedToast(c)} \subseteq FlowScreens
  /\ \A p \in Position : {Confirm(p), Consent(p), Verifying(p)} \subseteq FlowScreens
  /\ \A p \in Position, b \in Cmdline : EditCmdline(p, b) \in FlowScreens
  /\ \A p \in Position, b \in {"partial", "boot"} : TrustChallenge(p, b) \in FlowScreens
  /\ \A cause \in {"kexec", "delete"}, r \in Row : Error(cause, r) \in FlowScreens
BY DEF FlowScreens, HomeScreens, List, ConfirmDelete, BlockedToast, Confirm, Consent,
       Verifying, EditCmdline, TrustChallenge, Error

LEMMA HomeTypes ==
  /\ \A c \in Row : List(c) \in HomeScreens
  /\ \A p \in Position : Confirm(p) \in HomeScreens
BY DEF HomeScreens, List, Confirm

LEMMA OverlayTypes ==
  ASSUME NEW s \in HomeScreens
  PROVE  /\ ConsentNetworkUse(s) \in OverlayScreens
         /\ \A op \in NetworkOp, i \in Iface \cup {None} : Network(op, i, s) \in OverlayScreens
         /\ Catalog(s) \in CatalogScreens /\ Catalog(s) \in OverlayScreens
         /\ \A e \in Entry, op \in CatalogOp :
              CatalogConfirm(e, op, Catalog(s)) \in OverlayScreens
BY DEF OverlayScreens, CatalogScreens, ConsentNetworkUse, Network, Catalog, CatalogConfirm

(* What a screen of a given kind carries. *)
LEMMA ScreenShape ==
  ASSUME NEW s \in Screens
  PROVE  /\ s.kind = "List" => s.selected \in Row /\ s = List(s.selected)
         /\ s.kind = "Confirm" => s.selected \in Position /\ s = Confirm(s.selected)
         /\ s.kind = "EditCmdline" => s.selected \in Position /\ s.buffer \in Cmdline
         /\ s.kind \in {"TrustChallenge", "Consent", "Verifying"} => s.selected \in Position
         /\ s.kind = "ConfirmDelete" => s.selected \in Row
         /\ s.kind \in {"BlockedToast", "Error"} => s.return_to \in Row
         /\ s.kind \in {"ConsentNetworkUse", "Network", "Catalog"} => s.prior \in HomeScreens
         /\ s.kind = "Network" => s.op \in NetworkOp /\ s.iface \in Iface \cup {None}
         /\ s.kind = "CatalogConfirm" =>
              s.entry \in Entry /\ s.op \in CatalogOp /\ s.prior \in CatalogScreens
         /\ s.kind \in {"Help", "ConfirmQuit"} => s.prior \in FlowScreens \cup OverlayScreens
BY DEF Screens, FlowScreens, OverlayScreens, ModalScreens, CatalogScreens, HomeScreens,
       List, Confirm

-----------------------------------------------------------------------------
(* The list view of any list of rows. *)
LEMMA VisibleFinite ==
  ASSUME NEW rows \in Seq(ISO)
  PROVE  /\ Visible(rows) \subseteq DOMAIN rows
         /\ IsFiniteSet(Visible(rows))
         /\ ViewLen(rows) \in Row
         /\ \A p : RowOf(rows, p) \in Row
<1>1. Visible(rows) \subseteq 1 .. Len(rows)
  BY DEF Visible
<1>2. Len(rows) \in Nat
  BY LenProperties
<1>3. IsFiniteSet(1 .. Len(rows))
  BY <1>2, FS_Interval
<1>4. IsFiniteSet(Visible(rows)) /\ Cardinality(Visible(rows)) \in Nat
  BY <1>1, <1>3, FS_Subset, FS_CardinalityType
<1>5. FailedShown \in Nat
  <2>1. IsFiniteSet(FailedIso \cap Matches[filter])
    BY ScreensAssumption, FS_Subset, FailedIso \cap Matches[filter] \in SUBSET FailedIso
  <2> QED
    BY <2>1, FS_CardinalityType DEF FailedShown
<1>6. ViewLen(rows) \in Row
  BY <1>4, <1>5 DEF ViewLen, Row
<1>7. ASSUME NEW p PROVE RowOf(rows, p) \in Row
  <2> DEFINE before == {q \in Visible(rows) : Sooner(rows, q, p)}
  <2>1. IsFiniteSet(before)
    BY <1>4, FS_Subset, before \in SUBSET Visible(rows)
  <2>2. Cardinality(before) \in Nat
    BY <2>1, FS_CardinalityType
  <2> QED
    BY <2>2 DEF RowOf, Row
<1> QED
  BY <1>1, <1>2, <1>4, <1>6, <1>7, LenProperties

LEMMA RealIndexType ==
  ASSUME TypeOK, NEW c, RealIndex(c) # None
  PROVE  /\ RealIndex(c) \in DOMAIN isos
         /\ RealIndex(c) \in Position
         /\ isos[RealIndex(c)] \in ISO
<1>1. RealIndex(c) \in Visible(isos)
  BY DEF RealIndex
<1>2. RealIndex(c) \in DOMAIN isos
  BY <1>1, VisibleFinite DEF TypeOK
<1> QED
  BY <1>2, LenProperties, ScreensAssumption DEF TypeOK, Position

LEMMA RemoveAtType ==
  ASSUME NEW rows \in Seq(ISO), NEW r \in DOMAIN rows
  PROVE  /\ RemoveAt(rows, r) \in Seq(ISO)
         /\ Len(RemoveAt(rows, r)) = Len(rows) - 1
         /\ \A p \in 1 .. Len(rows) - 1 :
              RemoveAt(rows, r)[p] = IF p < r THEN rows[p] ELSE rows[p + 1]
<1> DEFINE before == SubSeq(rows, 1, r - 1)
           after == SubSeq(rows, r + 1, Len(rows))
<1>1. r \in 1 .. Len(rows) /\ Len(rows) \in Nat
  BY LenProperties
<1>2. /\ before \in Seq(ISO) /\ Len(before) = r - 1
      /\ \A i \in 1 .. r - 1 : before[i] = rows[i]
  <2>1. \A i \in 1 .. r - 1 : rows[i] \in ISO
    BY <1>1, ElementOfSeq
  <2> QED
    BY <1>1, <2>1, SubSeqProperties
<1>3. /\ after \in Seq(ISO) /\ Len(after) = Len(rows) - r
      /\ \A i \in 1 .. Len(rows) - r : after[i] = rows[r + i]
  <2>1. \A i \in r + 1 .. Len(rows) : rows[i] \in ISO
    BY <1>1, ElementOfSeq
  <2>2. /\ after \in Seq(ISO)
        /\ Len(after) = IF r + 1 <= Len(rows) THEN Len(rows) - (r + 1) + 1 ELSE 0
        /\ \A i \in 1 .. Len(rows) - (r + 1) + 1 : after[i] = rows[r + 1 + i - 1]
    BY <1>1, <2>1, SubSeqProperties
  <2> QED
    BY <1>1, <2>2
<1>4. RemoveAt(rows, r) = before \o after
  BY DEF RemoveAt
<1> HIDE DEF before, after
<1>5. /\ RemoveAt(rows, r) \in Seq(ISO)
      /\ Len(RemoveAt(rows, r)) = Len(before) + Len(after)
      /\ \A i \in 1 .. Len(before) + Len(after) :
           RemoveAt(rows, r)[i] = IF i <= Len(before) THEN before[i] ELSE after[i - Len(before)]
  <2>1. before \in Seq(ISO) /\ after \in Seq(ISO)
    BY <1>2, <1>3
  <2>2. /\ before \o after \in Seq(ISO)
        /\ Len(before \o after) = Len(before) + Len(after)
        /\ \A i \in 1 .. Len(before) + Len(after) :
             (before \o after)[i] =
               IF i <= Len(before) THEN before[i] ELSE after[i - Len(before)]
    BY <2>1, ConcatProperties, Zenon
  <2> QED
    BY <1>4, <2>2, Zenon
<1>6. ASSUME NEW p \in 1 .. Len(rows) - 1
      PROVE  RemoveAt(rows, r)[p] = IF p < r THEN rows[p] ELSE rows[p + 1]
  <2>1. CASE p < r
    BY <1>1, <1>2, <1>3, <1>5, <2>1
  <2>2. CASE ~ (p < r)
    <3>1. p - (r - 1) \in 1 .. Len(rows) - r /\ r + (p - (r - 1)) = p + 1
      BY <1>1, <2>2
    <3>2. RemoveAt(rows, r)[p] = after[p - (r - 1)]
      BY <1>1, <1>2, <1>3, <1>5, <2>2
    <3> QED
      BY <1>3, <2>2, <3>1, <3>2
  <2> QED
    BY <2>1, <2>2
<1> QED
  BY <1>1, <1>2, <1>3, <1>5, <1>6

LEMMA ShiftType ==
  ASSUME NEW overrides \in [Position -> Cmdline \cup {None}], NEW r \in Position
  PROVE  ShiftOverrides(overrides, r) \in [Position -> Cmdline \cup {None}]
BY DEF ShiftOverrides

-----------------------------------------------------------------------------
(* Which screens fit, constructor by constructor.                          *)

LEMMA FlowIsItself ==
  ASSUME NEW s \in FlowScreens
  PROVE  Beneath(s) = s /\ Flow(s) = s /\ s \in Screens
         /\ s.kind \notin {"Quitting", "Kexeced", "Network", "CatalogConfirm"}
BY DEF FlowScreens, HomeScreens, Flow, Beneath, Screens

LEMMA RowScreensFit ==
  ASSUME active_fetch = None, NEW c \in Row
  PROVE  /\ Fits(List(c)) /\ Fits(ConfirmDelete(c)) /\ Fits(BlockedToast(c))
         /\ \A cause \in {"kexec", "delete"} : Fits(Error(cause, c))
<1>1. ASSUME NEW s \in FlowScreens, s.kind \notin IsoKinds PROVE Fits(s)
  BY <1>1, FlowIsItself DEF Fits, FlowFits, OverlayFits, IsoKinds
<1>2. /\ {List(c), ConfirmDelete(c), BlockedToast(c)} \subseteq FlowScreens
      /\ \A cause \in {"kexec", "delete"} : Error(cause, c) \in FlowScreens
  BY FlowTypes
<1>3. /\ \A s \in {List(c), ConfirmDelete(c), BlockedToast(c)} : s.kind \notin IsoKinds
      /\ \A cause \in {"kexec", "delete"} : Error(cause, c).kind \notin IsoKinds
  BY DEF List, ConfirmDelete, BlockedToast, Error, IsoKinds
<1> QED
  BY <1>1, <1>2, <1>3

LEMMA IsoScreensFit ==
  ASSUME active_fetch = None, NEW p \in Position, p \in DOMAIN isos
  PROVE  /\ Fits(Confirm(p))
         /\ \A b \in Cmdline : Fits(EditCmdline(p, b))
         /\ active_verify = None \/ active_verify = isos[p] => Fits(Verifying(p))
         /\ ~ is_kexec_blocked(p) /\ isos[p] \in Installer => Fits(Consent(p))
         /\ /\ ~ is_kexec_blocked(p) /\ is_degraded_trust(p)
            /\ isos[p] \in Installer => session_consent
            =>
              \A b \in {"partial", "boot"} : Fits(TrustChallenge(p, b))
<1>1. ASSUME NEW s \in FlowScreens, FlowFits(s) PROVE Fits(s)
  BY <1>1, FlowIsItself DEF Fits, OverlayFits
<1>2. /\ FlowFits(Confirm(p))
      /\ \A b \in Cmdline : FlowFits(EditCmdline(p, b))
      /\ active_verify = None \/ active_verify = isos[p] => FlowFits(Verifying(p))
      /\ ~ is_kexec_blocked(p) /\ isos[p] \in Installer => FlowFits(Consent(p))
      /\ /\ ~ is_kexec_blocked(p) /\ is_degraded_trust(p)
         /\ isos[p] \in Installer => session_consent
         =>
           \A b \in {"partial", "boot"} : FlowFits(TrustChallenge(p, b))
  BY DEF FlowFits, Confirm, EditCmdline, Verifying, Consent, TrustChallenge
<1> QED
  BY <1>1, <1>2, FlowTypes

(* An overlay fits over the home screen it was opened from. *)
LEMMA OverlayScreensFit ==
  ASSUME NEW h \in HomeScreens, FlowFits(h)
  PROVE  /\ active_fetch = None => Fits(ConsentNetworkUse(h)) /\ Fits(Catalog(h))
         /\ \A op \in NetworkOp, i \in Iface \cup {None} :
              OverlayFits(Network(op, i, h)) => Fits(Network(op, i, h))
         /\ \A e \in Entry, op \in CatalogOp :
              OverlayFits(CatalogConfirm(e, op, Catalog(h))) =>
                Fits(CatalogConfirm(e, op, Catalog(h)))
<1>1. \A s \in OverlayScreens : s \in Screens
  BY DEF Screens
<1>2. /\ Flow(ConsentNetworkUse(h)) = h
      /\ Beneath(ConsentNetworkUse(h)) = ConsentNetworkUse(h)
      /\ Flow(Catalog(h)) = h /\ Beneath(Catalog(h)) = Catalog(h)
  BY DEF Flow, Beneath, ConsentNetworkUse, Catalog
<1>3. \A op \in NetworkOp, i \in Iface \cup {None} :
        Flow(Network(op, i, h)) = h /\ Beneath(Network(op, i, h)) = Network(op, i, h)
  BY DEF Flow, Beneath, Network
<1>4. \A e \in Entry, op \in CatalogOp :
        /\ Flow(CatalogConfirm(e, op, Catalog(h))) = h
        /\ Beneath(CatalogConfirm(e, op, Catalog(h))) = CatalogConfirm(e, op, Catalog(h))
  BY DEF Flow, Beneath, CatalogConfirm, Catalog
<1>5. active_fetch = None => OverlayFits(ConsentNetworkUse(h)) /\ OverlayFits(Catalog(h))
  BY DEF OverlayFits, ConsentNetworkUse, Catalog
<1> QED
  BY <1>1, <1>2, <1>3, <1>4, <1>5, OverlayTypes DEF Fits

(* Opening a modal over a screen, or closing it, changes nothing. *)
LEMMA NotModal ==
  ASSUME NEW s \in FlowScreens \cup OverlayScreens
  PROVE  s.kind \notin {"Help", "ConfirmQuit", "Quitting", "Kexeced"} /\ Beneath(s) = s
BY DEF FlowScreens, HomeScreens, OverlayScreens, CatalogScreens, Beneath

LEMMA OpenModalFits ==
  ASSUME NEW s \in FlowScreens \cup OverlayScreens, Fits(s)
  PROVE  Fits(Help(s)) /\ Fits(ConfirmQuit(s))
<1>1. Help(s) \in Screens /\ ConfirmQuit(s) \in Screens
  BY DEF Help, ConfirmQuit, Screens, ModalScreens
<1>2. Beneath(Help(s)) = Beneath(s) /\ Beneath(ConfirmQuit(s)) = Beneath(s)
  BY NotModal DEF Help, ConfirmQuit, Beneath
<1> QED
  BY <1>1, <1>2 DEF Fits, Flow

LEMMA CloseModalFits ==
  ASSUME NEW s, Fits(s), s.kind \in {"Help", "ConfirmQuit"}
  PROVE  Fits(s.prior)
<1>1. s.prior \in FlowScreens \cup OverlayScreens
  BY ScreenShape DEF Fits
<1>2. Beneath(s) = s.prior /\ Beneath(s.prior) = s.prior
  BY <1>1, NotModal DEF Beneath
<1>3. s.prior \in Screens
  BY <1>1 DEF Screens
<1> QED
  BY <1>2, <1>3 DEF Fits, Flow

-----------------------------------------------------------------------------
(* Steps that leave everything the screens rely on as it is. *)

context ==
  <<isos, hash_verification, session_consent, session_network_consent, active_verify,
    active_dhcp, network_lease, active_fetch, fetch_phase, exec>>

LEMMA SameContext ==
  ASSUME IInv, UNCHANGED context, TypeOK', Fits(screen')
  PROVE  IInv'
<1>1. Fits(screen)'
  BY DEF Fits, FlowFits, OverlayFits, context, is_kexec_blocked, KexecBlocked,
         is_degraded_trust, DegradedTrust
<1>2. KexecGated'
  BY DEF IInv, KexecGated, context, KexecBlocked, DegradedTrust
<1> QED
  BY <1>1, <1>2 DEF IInv, context

(* Most keys only put another screen up. *)
LEMMA OnlyScreen ==
  ASSUME IInv, UNCHANGED <<listing, view, session, verify, dhcp, fetch, history>>,
         Fits(screen')
  PROVE  IInv'
<1>1. TypeOK'
  BY DEF IInv, TypeOK, Fits, listing, view, session, verify, dhcp, fetch, history
<1> QED
  BY <1>1, SameContext DEF context, listing, session, verify, dhcp, fetch, history

(* No fetch is attached unless its own CatalogConfirm is up. *)
LEMMA NoFetchElsewhere ==
  ASSUME IInv,
         screen.kind \notin {"CatalogConfirm", "Help", "ConfirmQuit", "Quitting", "Kexeced"}
  PROVE  active_fetch = None
BY DEF IInv, Fits, OverlayFits, Beneath

(* What lies under an overlay fits once no fetch is attached. *)
LEMMA HomeFits ==
  ASSUME NEW s, Fits(s), active_fetch = None,
         s.kind \in {"ConsentNetworkUse", "Network", "Catalog"}
  PROVE  s.prior \in HomeScreens /\ FlowFits(s.prior) /\ Fits(s.prior)
<1>1. s.prior \in HomeScreens
  BY ScreenShape DEF Fits
<1>2. Flow(s) = s.prior
  BY DEF Flow, Beneath
<1>3. s.prior \in FlowScreens
  BY <1>1 DEF FlowScreens
<1> QED
  BY <1>1, <1>2, <1>3, FlowIsItself DEF Fits, OverlayFits

(* An ISO on the screen is still in the list. *)
LEMMA IsoOnScreen ==
  ASSUME IInv, screen.kind \in IsoKinds
  PROVE  /\ screen.selected \in DOMAIN isos /\ screen.selected \in Position
         /\ isos[screen.selected] \in ISO
         /\ FlowFits(screen)
         /\ active_fetch = None
<1>1. Flow(screen) = screen
  BY DEF Flow, Beneath, IsoKinds
<1>2. screen.selected \in Position
  BY ScreenShape DEF IInv, Fits, IsoKinds, Confirm
<1>3. FlowFits(screen) /\ screen.selected \in DOMAIN isos
  BY <1>1 DEF IInv, Fits, FlowFits
<1> QED
  BY <1>2, <1>3, NoFetchElsewhere, ElementOfSeq, LenProperties DEF IInv, TypeOK, IsoKinds

-----------------------------------------------------------------------------
(* One lemma per group of actions. *)

LEMMA ModalStep == IInv /\ ModalKey => IInv'
<1> SUFFICES ASSUME IInv, ModalKey PROVE IInv'
  OBVIOUS
<1>1. screen \in Screens
  BY DEF IInv, Fits
<1>2. ASSUME Running, screen.kind \notin {"Help", "ConfirmQuit"}
      PROVE  Fits(Help(screen)) /\ Fits(ConfirmQuit(screen))
  <2>1. screen \in FlowScreens \cup OverlayScreens
    BY <1>1, <1>2 DEF Screens, ModalScreens, Running
  <2> QED
    BY <2>1, OpenModalFits DEF IInv
<1>3. CASE RequestQuit
  BY <1>2, <1>3, OnlyScreen DEF RequestQuit, GlobalKeys
<1>4. CASE CancelQuit
  BY <1>4, CloseModalFits, OnlyScreen DEF CancelQuit, Key, IInv
<1>5. CASE ConfirmQuitYes
  <2>1. Fits(Quitting)
    BY DEF Fits, Quitting, Screens, Flow, Beneath, FlowFits, OverlayFits, IsoKinds
  <2> QED
    BY <1>5, <2>1, OnlyScreen DEF ConfirmQuitYes
<1>6. CASE OpenHelp
  BY <1>2, <1>6, OnlyScreen DEF OpenHelp, GlobalKeys
<1>7. CASE CloseHelp
  BY <1>7, CloseModalFits, OnlyScreen DEF CloseHelp, Key, IInv
<1> QED
  BY <1>3, <1>4, <1>5, <1>6, <1>7 DEF ModalKey

LEMMA ListStep == IInv /\ ListKey => IInv'
<1> SUFFICES ASSUME IInv, ListKey PROVE IInv'
  OBVIOUS
<1> DEFINE c == screen.selected
<1>1. screen \in Screens /\ TypeOK /\ isos \in Seq(ISO)
  BY DEF IInv, Fits, TypeOK
<1>2. 1 \in Row /\ ViewLen(isos) \in Row
  BY <1>1, VisibleFinite DEF Row
<1>3. ASSUME screen.kind = "List" PROVE active_fetch = None /\ c \in Row
  BY <1>1, <1>3, NoFetchElsewhere, ScreenShape
<1>4. ASSUME screen.kind = "List" PROVE Fits(List(1)) /\ Fits(List(ViewLen(isos)))
  BY <1>2, <1>3, <1>4, RowScreensFit
<1>5. CASE MoveSelection
  <2>1. AtMost(c + 1, ViewLen(isos)) \in Row /\ (c > 1 => c - 1 \in Row)
    BY <1>2, <1>3, <1>5 DEF MoveSelection, Key, AtMost, Row
  <2>2. Fits(screen')
    BY <1>3, <1>4, <1>5, <2>1, RowScreensFit DEF MoveSelection, Key
  <2> QED
    BY <1>5, <2>2, OnlyScreen DEF MoveSelection
<1>6. CASE MoveToEdge
  BY <1>4, <1>6, OnlyScreen DEF MoveToEdge, Key
<1>7. CASE TogglePane
  <2>1. TypeOK'
    BY <1>1, <1>7 DEF TogglePane, TypeOK, listing, session, verify, dhcp, fetch, history
  <2> QED
    BY <1>7, <2>1, SameContext
    DEF TogglePane, context, listing, session, verify, dhcp, fetch, history, IInv
<1>8. CASE CycleSort
  <2>1. TypeOK'
    BY <1>1, <1>4, <1>8
    DEF CycleSort, Key, Fits, TypeOK, SortOrder, listing, session, verify, dhcp, fetch, history
  <2> QED
    BY <1>4, <1>8, <2>1, SameContext
    DEF CycleSort, Key, context, listing, session, verify, dhcp, fetch, history
<1>9. CASE OpenFilter \/ FilterCommit
  <2>1. TypeOK'
    BY <1>1, <1>9
    DEF OpenFilter, FilterCommit, TypeOK, listing, session, verify, dhcp, fetch, history
  <2> QED
    BY <1>9, <2>1, SameContext
    DEF OpenFilter, FilterCommit, context, listing, session, verify, dhcp, fetch, history, IInv
<1>10. CASE EditFilter \/ FilterCancel
  <2>1. TypeOK'
    BY <1>1, <1>4, <1>10, ScreensAssumption
    DEF EditFilter, FilterCancel, Fits, TypeOK, listing, session, verify, dhcp, fetch, history
  <2> QED
    BY <1>4, <1>10, <2>1, SameContext
    DEF EditFilter, FilterCancel, context, listing, session, verify, dhcp, fetch, history
<1>11. CASE ChooseShell
  <2>1. Fits(Quitting)
    BY DEF Fits, Quitting, Screens, Flow, Beneath, FlowFits, OverlayFits, IsoKinds
  <2>2. TypeOK'
    BY <1>1, <1>11, <2>1
    DEF ChooseShell, Fits, TypeOK, listing, view, verify, dhcp, fetch, history
  <2> QED
    BY <1>11, <2>1, <2>2, SameContext
    DEF ChooseShell, context, listing, verify, dhcp, fetch, history
<1>12. CASE ConfirmSelection
  <2>1. RealIndex(c) # None => Fits(Confirm(RealIndex(c)))
    BY <1>1, <1>3, <1>12, RealIndexType, IsoScreensFit DEF ConfirmSelection, Key
  <2>2. Fits(BlockedToast(c))
    BY <1>3, <1>12, RowScreensFit DEF ConfirmSelection, Key
  <2> QED
    BY <1>12, <2>1, <2>2, OnlyScreen DEF ConfirmSelection
<1>13. CASE DismissBlockedToast
  <2>1. screen.return_to \in Row /\ active_fetch = None
    BY <1>1, <1>13, ScreenShape, NoFetchElsewhere DEF DismissBlockedToast, Key
  <2> QED
    BY <1>13, <2>1, RowScreensFit, OnlyScreen DEF DismissBlockedToast
<1>14. CASE CancelConfirmation
  <2>1. active_fetch = None
    BY <1>14, NoFetchElsewhere DEF CancelConfirmation, Key
  <2>2. RowOf(isos, c) \in Row
    BY <1>1, VisibleFinite
  <2> QED
    BY <1>2, <1>14, <2>1, <2>2, RowScreensFit, OnlyScreen DEF CancelConfirmation
<1> QED
  BY <1>5, <1>6, <1>7, <1>8, <1>9, <1>10, <1>11, <1>12, <1>13, <1>14 DEF ListKey

LEMMA CmdlineStep == IInv /\ CmdlineKey => IInv'
<1> SUFFICES ASSUME IInv, CmdlineKey PROVE IInv'
  OBVIOUS
<1> DEFINE p == screen.selected
<1>1. screen.kind \in {"Confirm", "EditCmdline"}
  BY DEF CmdlineKey, EnterCmdlineEditor, TypeCmdline, CommitCmdlineEdit, CancelCmdlineEdit, Key
<1>2. /\ p \in DOMAIN isos /\ p \in Position /\ isos[p] \in ISO /\ active_fetch = None
  BY <1>1, IsoOnScreen DEF IsoKinds
<1>3. Fits(Confirm(p)) /\ \A b \in Cmdline : Fits(EditCmdline(p, b))
  BY <1>2, IsoScreensFit
<1>4. CASE EnterCmdlineEditor
  <2>1. EffectiveCmdline(p) \in Cmdline
    BY <1>2, ScreensAssumption DEF EffectiveCmdline, IInv, TypeOK
  <2> QED
    BY <1>3, <1>4, <2>1, OnlyScreen DEF EnterCmdlineEditor
<1>5. CASE TypeCmdline \/ CancelCmdlineEdit
  BY <1>3, <1>5, OnlyScreen DEF TypeCmdline, CancelCmdlineEdit
<1>6. CASE CommitCmdlineEdit
  <2>1. screen.buffer \in Cmdline
    BY <1>6, ScreenShape DEF CommitCmdlineEdit, Key, IInv, Fits
  <2>2. cmdline_overrides' \in [Position -> Cmdline \cup {None}]
    BY <1>6, <2>1 DEF CommitCmdlineEdit, IInv, TypeOK
  <2>3. TypeOK'
    BY <1>3, <1>6, <2>2
    DEF CommitCmdlineEdit, IInv, TypeOK, Fits, view, session, verify, dhcp, fetch, history
  <2> QED
    BY <1>3, <1>6, <2>3, SameContext
    DEF CommitCmdlineEdit, context, session, verify, dhcp, fetch, history
<1> QED
  BY <1>4, <1>5, <1>6 DEF CmdlineKey

(* A boot-flow screen in the next state, whatever else the step changed. *)
LEMMA FlowNext ==
  ASSUME screen' \in FlowScreens \cup {Quitting, Kexeced}, FlowFits(screen)',
         active_fetch' = None
  PROVE  Fits(screen)'
<1>1. CASE screen' \in FlowScreens
  BY <1>1, FlowIsItself DEF Fits, OverlayFits
<1>2. CASE screen' \in {Quitting, Kexeced}
  BY <1>2 DEF Fits, Quitting, Kexeced, Screens, Flow, Beneath, FlowFits, OverlayFits, IsoKinds
<1> QED
  BY <1>1, <1>2

(* Giving up the verify worker's receiver disturbs no screen. *)
LEMMA VerifyDropped ==
  ASSUME IInv, active_verify' = None,
         UNCHANGED <<listing, screen, hash_verification, view, session, dhcp, fetch, history>>
  PROVE  IInv'
<1>1. TypeOK'
  BY DEF IInv, TypeOK, listing, view, session, dhcp, fetch, history
<1>2. Fits(screen)'
  BY DEF IInv, Fits, FlowFits, OverlayFits, is_kexec_blocked, KexecBlocked,
         is_degraded_trust, DegradedTrust, listing, session, dhcp, fetch
<1> QED
  BY <1>1, <1>2
  DEF IInv, KexecGated, KexecBlocked, DegradedTrust, listing, session, dhcp, history, fetch

(* A verdict or a cancellation puts Confirm up for the row being verified. *)
LEMMA VerifyEnded ==
  ASSUME IInv, screen.kind = "Verifying", screen' = Confirm(screen.selected),
         active_verify' = None, hash_verification' \in [ISO -> Verdict],
         UNCHANGED <<listing, view, session, dhcp, fetch, history>>
  PROVE  IInv'
<1>1. /\ screen.selected \in DOMAIN isos /\ screen.selected \in Position
      /\ active_fetch = None
  BY IsoOnScreen DEF IsoKinds
<1>2. screen' \in FlowScreens
  BY <1>1, FlowTypes
<1>3. FlowFits(screen)'
  BY <1>1 DEF FlowFits, Confirm, listing
<1>4. Fits(screen)'
  BY <1>1, <1>2, <1>3, FlowNext DEF fetch
<1>5. TypeOK'
  BY <1>4, ScreensAssumption DEF IInv, TypeOK, Fits, listing, view, session, dhcp, fetch, history
<1> QED
  BY <1>4, <1>5
  DEF IInv, KexecGated, KexecBlocked, DegradedTrust, listing, session, dhcp, history, fetch

LEMMA StartVerifyStep ==
  ASSUME IInv, NEW p \in Position, p \in DOMAIN isos, active_fetch = None, StartVerify(p)
  PROVE  IInv'
<1>1. isos[p] \in ISO
  BY ElementOfSeq, LenProperties DEF IInv, TypeOK
<1>2. screen' \in FlowScreens
  BY FlowTypes DEF StartVerify
<1>3. FlowFits(screen)'
  BY DEF StartVerify, FlowFits, Verifying, listing
<1>4. Fits(screen)'
  BY <1>2, <1>3, FlowNext DEF StartVerify, fetch
<1>5. TypeOK'
  BY <1>1, <1>4
  DEF IInv, TypeOK, Fits, StartVerify, listing, view, session, dhcp, fetch, history
<1> QED
  BY <1>4, <1>5
  DEF IInv, StartVerify, KexecGated, KexecBlocked, DegradedTrust, listing, session, dhcp, history, fetch

LEMMA VerifyStep == IInv /\ (VerifyKey \/ VerifyReport) => IInv'
<1> SUFFICES ASSUME IInv, VerifyKey \/ VerifyReport PROVE IInv'
  OBVIOUS
<1>1. hash_verification \in [ISO -> Verdict]
  BY DEF IInv, TypeOK
<1>2. CASE VerifyFromList
  <2>1. active_fetch = None
    BY <1>2, NoFetchElsewhere DEF VerifyFromList, Key
  <2> QED
    BY <1>2, <2>1, RealIndexType, StartVerifyStep DEF VerifyFromList, IInv
<1>3. CASE VerifyFromConfirm
  <2>1. /\ screen.selected \in DOMAIN isos /\ screen.selected \in Position
        /\ active_fetch = None
    BY <1>3, IsoOnScreen DEF VerifyFromConfirm, Key, IsoKinds
  <2> QED
    BY <1>3, <2>1, StartVerifyStep DEF VerifyFromConfirm
<1>4. CASE EscVerify \/ VerifyFailed
  <2>1. CASE screen.kind = "Verifying"
    BY <1>1, <1>4, <2>1, VerifyEnded DEF EscVerify, VerifyFailed, CancelVerify
  <2>2. CASE screen.kind # "Verifying"
    BY <1>4, <2>2, VerifyDropped DEF EscVerify, VerifyFailed, CancelVerify
  <2> QED
    BY <2>1, <2>2
<1>5. CASE VerifyDone
  <2>1. PICK verdict \in Verdict : VerifyFinish(verdict)
    BY <1>5 DEF VerifyDone
  <2>2. CASE screen.kind = "Verifying"
    <3>1. hash_verification' \in [ISO -> Verdict]
      BY <1>1, <2>1, <2>2 DEF VerifyFinish
    <3> QED
      BY <1>5, <2>1, <2>2, <3>1, VerifyEnded DEF VerifyDone, VerifyFinish
  <2>3. CASE screen.kind # "Verifying"
    BY <1>5, <2>1, <2>3, VerifyDropped DEF VerifyDone, VerifyFinish
  <2> QED
    BY <2>2, <2>3
<1>6. CASE VerifyDisconnected
  BY <1>6, VerifyDropped DEF VerifyDisconnected
<1> QED
  BY <1>2, <1>3, <1>4, <1>5, <1>6 DEF VerifyKey, VerifyReport

LEMMA DeleteStep == IInv /\ DeleteKey => IInv'
<1> SUFFICES ASSUME IInv, DeleteKey PROVE IInv'
  OBVIOUS
<1> DEFINE c == screen.selected
<1>1. TypeOK
  BY DEF IInv
<1>2. c \in Row /\ active_fetch = None
  BY ScreenShape, NoFetchElsewhere
  DEF DeleteKey, EnterDelete, CancelDelete, DeleteYes, Key, IInv, Fits
<1>3. CASE EnterDelete
  <2>1. Fits(screen')
    BY <1>2, <1>3, RowScreensFit DEF EnterDelete
  <2>2. TypeOK'
    BY <1>1, <1>3, <2>1, RealIndexType
    DEF EnterDelete, TypeOK, Fits, listing, view, session, verify, dhcp, fetch
  <2> QED
    BY <1>3, <2>1, <2>2, SameContext
    DEF EnterDelete, context, listing, session, verify, dhcp, fetch
<1>4. CASE CancelDelete
  <2>1. Fits(screen')
    BY <1>2, <1>4, RowScreensFit DEF CancelDelete
  <2>2. TypeOK'
    BY <1>1, <1>4, <2>1
    DEF CancelDelete, TypeOK, Fits, listing, view, session, verify, dhcp, fetch
  <2> QED
    BY <1>4, <2>1, <2>2, SameContext
    DEF CancelDelete, context, listing, session, verify, dhcp, fetch
<1>5. CASE DeleteYes
  <2> DEFINE r == RealIndex(c)
             rest == RemoveAt(isos, r)
  <2>1. r \in DOMAIN isos /\ r \in Position /\ isos \in Seq(ISO)
    BY <1>1, <1>5, RealIndexType DEF DeleteYes, DeleteTarget, TypeOK
  <2>2. rest \in Seq(ISO) /\ Len(rest) = Len(isos) - 1
    BY <2>1, RemoveAtType
  <2>3. AtMost(c, ViewLen(rest)) \in Row
    BY <1>2, <2>2, VisibleFinite DEF AtMost
  <2> HIDE DEF rest, r
  <2>4. DeleteCompleted(r) \/ DeleteError
    BY <1>5 DEF DeleteYes, DeleteTarget, SidecarFails, r
  <2>5. /\ isos' \in Seq(ISO) /\ Len(isos') <= Len(Discovered)
        /\ cmdline_overrides' \in [Position -> Cmdline \cup {None}]
    <3>1. CASE DeleteCompleted(r)
      <4>1. Len(rest) <= Len(Discovered)
        BY <1>1, <2>1, <2>2, LenProperties, ScreensAssumption DEF TypeOK
      <4> QED
        BY <1>1, <2>1, <2>2, <3>1, <4>1, ShiftType DEF DeleteCompleted, TypeOK, rest
    <3>2. CASE DeleteError
      BY <1>1, <3>2 DEF DeleteError, TypeOK
    <3> QED
      BY <2>4, <3>1, <3>2
  <2>6. screen' \in FlowScreens /\ screen'.kind \notin IsoKinds
    BY <1>2, <2>3, <2>4, FlowTypes
    DEF DeleteCompleted, DeleteError, List, Error, IsoKinds, rest
  <2>7. FlowFits(screen)'
    BY <2>6 DEF FlowFits, IsoKinds
  <2>8. Fits(screen)'
    BY <1>2, <1>5, <2>6, <2>7, FlowNext DEF DeleteYes, fetch
  <2>9. disk' \subseteq ISO /\ sidecars' \subseteq ISO
    BY <1>1, <1>5 DEF DeleteYes, SidecarFails, TypeOK
  <2>10. TypeOK'
    BY <1>1, <1>5, <2>5, <2>8, <2>9
    DEF DeleteYes, TypeOK, Fits, view, session, verify, dhcp, fetch
  <2> QED
    BY <1>5, <2>8, <2>10
    DEF DeleteYes, IInv, KexecGated, KexecBlocked, DegradedTrust, session, dhcp, fetch
<1> QED
  BY <1>3, <1>4, <1>5 DEF DeleteKey

(* One attempt, made after the gates: an error, a returned or a taken exec. *)
LEMMA AttemptStep ==
  ASSUME IInv, NEW p \in Position, p \in DOMAIN isos, active_fetch = None,
         NEW from, from.kind = "Confirm" => from.selected \in Row,
         NEW typed \in BOOLEAN, NEW consented \in BOOLEAN,
         ~ is_kexec_blocked(p),
         isos[p] \in Installer => consented,
         is_degraded_trust(p) => typed,
         AttemptKexec(p, from, typed, consented),
         session_consent' \in BOOLEAN,
         UNCHANGED <<listing, view, session_network_consent, shell_requested, verify, dhcp,
                     fetch, asked>>
  PROVE  IInv'
<1>1. screen' \in {KexecError(from), Kexeced}
  BY DEF AttemptKexec
<1>2. KexecError(from) \in FlowScreens /\ KexecError(from).kind = "Error"
  <2>1. IF from.kind = "Confirm" THEN from.selected \in Row ELSE 1 \in Row
    BY DEF Row
  <2> QED
    BY <2>1, FlowTypes DEF KexecError, Error
<1>3. screen'.kind \notin IsoKinds
  BY <1>1, <1>2 DEF Kexeced, IsoKinds
<1>4. Fits(screen)'
  <2>1. FlowFits(screen)'
    BY <1>3 DEF FlowFits, IsoKinds
  <2> QED
    BY <1>1, <1>2, <2>1, FlowNext DEF fetch
<1>5. CASE UNCHANGED exec
  <2>1. TypeOK'
    BY <1>4, <1>5 DEF IInv, TypeOK, Fits, listing, view, verify, dhcp, fetch
  <2> QED
    BY <1>4, <1>5, <2>1 DEF IInv, KexecGated, dhcp, fetch
<1>6. CASE exec' = Request(p, typed, consented)
  <2>1. /\ isos[p] \in ISO /\ EffectiveCmdline(p) \in Cmdline
        /\ hash_verification[isos[p]] \in Verdict
    BY ElementOfSeq, LenProperties, ScreensAssumption DEF IInv, TypeOK, EffectiveCmdline
  <2>2. exec' \in [iso : ISO, cmdline : Cmdline, verdict : Verdict,
                   typed : BOOLEAN, consented : BOOLEAN]
    BY <1>6, <2>1 DEF Request
  <2>3. TypeOK'
    BY <1>4, <2>2 DEF IInv, TypeOK, Fits, listing, view, verify, dhcp, fetch
  <2>4. KexecGated'
    BY <1>6 DEF KexecGated, Request, is_kexec_blocked, is_degraded_trust
  <2> QED
    BY <1>4, <2>3, <2>4 DEF IInv, dhcp, fetch
<1> QED
  BY <1>5, <1>6 DEF AttemptKexec

LEMMA KexecStep == IInv /\ KexecKey => IInv'
<1> SUFFICES ASSUME IInv, KexecKey PROVE IInv'
  OBVIOUS
<1> DEFINE p == screen.selected
<1>1. TypeOK
  BY DEF IInv
<1>2. ASSUME screen.kind \in IsoKinds
      PROVE  /\ p \in DOMAIN isos /\ p \in Position /\ active_fetch = None
             /\ FlowFits(screen) /\ Fits(Confirm(p))
  BY <1>2, IsoOnScreen, IsoScreensFit
<1>3. CASE ConfirmEnter
  <2>1. screen.kind = "Confirm" /\ screen.kind \in IsoKinds /\ p \in Row
    BY <1>2, <1>3 DEF ConfirmEnter, Key, IsoKinds, Position, Row
  <2>2. CASE is_kexec_blocked(p)
    <3>1. Fits(KexecError(screen))
      BY <1>2, <2>1, RowScreensFit DEF KexecError
    <3> QED
      BY <1>3, <2>2, <3>1, OnlyScreen DEF ConfirmEnter, history
  <2>3. CASE ~ is_kexec_blocked(p) /\ consent_required_for(p)
    <3>1. Fits(Consent(p))
      BY <1>2, <2>1, <2>3, IsoScreensFit DEF consent_required_for
    <3> QED
      BY <1>3, <2>3, <3>1, OnlyScreen DEF ConfirmEnter, history
  <2>4. CASE ~ is_kexec_blocked(p) /\ ~ consent_required_for(p) /\ is_degraded_trust(p)
    <3>1. Fits(TrustChallenge(p, "partial"))
      BY <1>1, <1>2, <2>1, <2>4, IsoScreensFit DEF consent_required_for, TypeOK
    <3> QED
      BY <1>3, <2>4, <3>1, OnlyScreen DEF ConfirmEnter, history
  <2>5. CASE ~ is_kexec_blocked(p) /\ ~ consent_required_for(p) /\ ~ is_degraded_trust(p)
    <3>1. AttemptKexec(p, screen, FALSE, session_consent)
      BY <1>3, <2>5 DEF ConfirmEnter
    <3>2. isos[p] \in Installer => session_consent
      BY <2>5 DEF consent_required_for
    <3> QED
      BY <1>1, <1>2, <1>3, <2>1, <2>5, <3>1, <3>2, AttemptStep
      DEF ConfirmEnter, session, TypeOK
  <2> QED
    BY <2>2, <2>3, <2>4, <2>5
<1>4. CASE ConsentYes
  <2>1. screen.kind = "Consent" /\ screen.kind \in IsoKinds
    BY <1>4 DEF ConsentYes, Key, IsoKinds
  <2>2. ~ is_kexec_blocked(p)
    BY <1>2, <2>1 DEF FlowFits
  <2>3. CASE is_degraded_trust(p)
    <3>1. screen' = TrustChallenge(p, "partial") /\ exec' = exec
      BY <1>4, <2>3 DEF ConsentYes
    <3>2. screen' \in FlowScreens
      BY <1>2, <2>1, <3>1, FlowTypes
    <3>3. FlowFits(screen)'
      BY <1>2, <1>4, <2>1, <2>2, <2>3, <3>1
      DEF FlowFits, TrustChallenge, is_kexec_blocked, is_degraded_trust, ConsentYes, listing,
          verify
    <3>4. Fits(screen)'
      BY <1>2, <1>4, <2>1, <3>2, <3>3, FlowNext DEF ConsentYes, fetch
    <3>5. TypeOK'
      BY <1>1, <1>4, <3>1, <3>4
      DEF ConsentYes, TypeOK, Fits, listing, view, verify, dhcp, fetch
    <3> QED
      BY <1>4, <3>1, <3>4, <3>5 DEF ConsentYes, IInv, KexecGated, dhcp, fetch
  <2>4. CASE ~ is_degraded_trust(p)
    <3>1. Confirm(p).selected \in Row
      BY <1>2, <2>1 DEF Confirm, Position, Row
    <3>2. AttemptKexec(p, Confirm(p), FALSE, TRUE)
      BY <1>4, <2>4 DEF ConsentYes
    <3> QED
      BY <1>2, <1>4, <2>1, <2>2, <2>4, <3>1, <3>2, AttemptStep DEF ConsentYes
  <2> QED
    BY <2>3, <2>4
<1>5. CASE CancelConsent \/ TrustChallengeCancel
  BY <1>2, <1>5, OnlyScreen DEF CancelConsent, TrustChallengeCancel, Key, IsoKinds
<1>6. ASSUME screen.kind = "TrustChallenge"
      PROVE  /\ screen.kind \in IsoKinds /\ ~ is_kexec_blocked(p) /\ is_degraded_trust(p)
             /\ isos[p] \in Installer => session_consent
  BY <1>2, <1>6 DEF FlowFits, IsoKinds
<1>7. CASE TypeChallenge
  <2>1. \A b \in {"partial", "boot"} : Fits(TrustChallenge(p, b))
    BY <1>2, <1>6, <1>7, IsoScreensFit DEF TypeChallenge, Key
  <2> QED
    BY <1>7, <2>1, OnlyScreen DEF TypeChallenge
<1>8. CASE TrustChallengeEnter
  <2>1. screen.kind = "TrustChallenge" /\ AttemptKexec(p, screen, TRUE, session_consent)
    BY <1>8 DEF TrustChallengeEnter, Key
  <2> QED
    BY <1>1, <1>2, <1>6, <1>8, <2>1, AttemptStep DEF TrustChallengeEnter, session, TypeOK
<1>9. CASE DismissError
  <2>1. screen.return_to \in Row /\ active_fetch = None
    BY <1>9, ScreenShape, NoFetchElsewhere DEF DismissError, Key, IInv, Fits
  <2>2. screen' \in FlowScreens /\ screen'.kind \notin IsoKinds
    BY <1>9, <2>1, FlowTypes DEF DismissError, List, IsoKinds
  <2>3. FlowFits(screen)'
    BY <2>2 DEF FlowFits, IsoKinds
  <2>4. Fits(screen)'
    BY <1>9, <2>1, <2>2, <2>3, FlowNext DEF DismissError, fetch
  <2>5. TypeOK'
    BY <1>1, <1>9, <2>4
    DEF DismissError, TypeOK, Fits, listing, view, session, verify, dhcp, fetch
  <2> QED
    BY <1>9, <2>4, <2>5 DEF DismissError, IInv, KexecGated, session, dhcp, fetch
<1> QED
  BY <1>3, <1>4, <1>5, <1>7, <1>8, <1>9 DEF KexecKey

(* An overlay in the next state, over a home screen that still fits. *)
LEMMA OverlayNext ==
  ASSUME NEW h \in HomeScreens, FlowFits(h)', OverlayFits(screen)',
         \/ \E op \in NetworkOp, i \in Iface \cup {None} : screen' = Network(op, i, h)
         \/ \E e \in Entry, op \in CatalogOp : screen' = CatalogConfirm(e, op, Catalog(h))
  PROVE  Fits(screen)'
<1>1. CASE \E op \in NetworkOp, i \in Iface \cup {None} : screen' = Network(op, i, h)
  BY <1>1, OverlayTypes DEF Fits, Screens, Flow, Beneath, Network
<1>2. CASE \E e \in Entry, op \in CatalogOp : screen' = CatalogConfirm(e, op, Catalog(h))
  <2>1. screen' \in Screens
    BY <1>2, OverlayTypes DEF Screens
  <2>2. Flow(screen') = h /\ Beneath(screen') = screen'
    BY <1>2 DEF Flow, Beneath, CatalogConfirm, Catalog
  <2> QED
    BY <2>1, <2>2 DEF Fits
<1> QED
  BY <1>1, <1>2

(* What FlowFits looks at is left alone by the network and the catalog. *)
LEMMA FlowKept ==
  ASSUME NEW f, FlowFits(f), UNCHANGED <<listing, session_consent, verify>>
  PROVE  FlowFits(f)'
BY DEF FlowFits, is_kexec_blocked, KexecBlocked, is_degraded_trust, DegradedTrust, listing, verify

LEMMA NetworkStep == IInv /\ NetworkKey => IInv'
<1> SUFFICES ASSUME IInv, NetworkKey PROVE IInv'
  OBVIOUS
<1>0. PICK h : h = screen.prior
  OBVIOUS
<1>1. active_fetch = None
  BY NoFetchElsewhere
  DEF NetworkKey, EnterNetwork, GrantNetworkUse, CancelNetworkUse, NetworkRefresh,
      NetworkBeginDhcp, CancelNetwork, Key
<1>2. ASSUME screen.kind \in {"ConsentNetworkUse", "Network"}
      PROVE  h \in HomeScreens /\ FlowFits(h) /\ Fits(h)
  BY <1>0, <1>1, <1>2, HomeFits DEF IInv
<1>3. ASSUME screen.kind = "Network" PROVE session_network_consent
  BY <1>3 DEF IInv, Fits, OverlayFits, Beneath
<1>4. \A s : session_network_consent => OverlayFits(Network("Idle", None, s))
  BY <1>1 DEF OverlayFits, Network
<1>5. CASE EnterNetwork
  <2>1. screen \in HomeScreens
    BY <1>5, ScreenShape, HomeTypes DEF EnterNetwork, Key, IInv, Fits
  <2>2. FlowFits(screen)
    BY <1>5 DEF EnterNetwork, Key, IInv, Fits, Flow, Beneath
  <2>3. Fits(screen')
    BY <1>1, <1>4, <1>5, <2>1, <2>2, OverlayScreensFit DEF EnterNetwork, NetworkOp
  <2> QED
    BY <1>5, <2>3, OnlyScreen DEF EnterNetwork
<1>6. CASE GrantNetworkUse
  <2>1. h \in HomeScreens /\ FlowFits(h)
    BY <1>2, <1>6 DEF GrantNetworkUse, Key
  <2>2. FlowFits(h)'
    BY <1>6, <2>1, FlowKept DEF GrantNetworkUse
  <2>3. OverlayFits(screen)'
    BY <1>1, <1>6 DEF GrantNetworkUse, OverlayFits, Network, fetch
  <2>4. Fits(screen)'
    BY <1>0, <1>6, <2>1, <2>2, <2>3, OverlayNext DEF GrantNetworkUse, NetworkOp
  <2>5. TypeOK'
    BY <1>6, <2>4
    DEF GrantNetworkUse, IInv, TypeOK, Fits, listing, view, verify, dhcp, fetch, history
  <2> QED
    BY <1>6, <2>4, <2>5 DEF GrantNetworkUse, IInv, KexecGated, history, fetch
<1>7. CASE CancelNetworkUse \/ CancelNetwork
  BY <1>0, <1>2, <1>7, OnlyScreen DEF CancelNetworkUse, CancelNetwork, Key
<1>8. CASE NetworkRefresh
  <2>1. Fits(Network("Idle", None, h))
    BY <1>2, <1>3, <1>4, <1>8, OverlayScreensFit DEF NetworkRefresh, Key, NetworkOp
  <2> QED
    BY <1>0, <1>8, <2>1, OnlyScreen DEF NetworkRefresh
<1>9. CASE NetworkBeginDhcp
  <2>1. PICK i \in Iface : screen' = Network("Pending", i, h) /\ active_dhcp' = i
    BY <1>0, <1>9 DEF NetworkBeginDhcp
  <2>2. h \in HomeScreens /\ FlowFits(h) /\ session_network_consent
    BY <1>2, <1>3, <1>9 DEF NetworkBeginDhcp, Key
  <2>3. FlowFits(h)'
    BY <1>9, <2>2, FlowKept DEF NetworkBeginDhcp, session
  <2>4. OverlayFits(screen)'
    BY <1>1, <1>9, <2>1, <2>2 DEF NetworkBeginDhcp, OverlayFits, Network, fetch, session
  <2>5. Fits(screen)'
    BY <2>1, <2>2, <2>3, <2>4, OverlayNext DEF NetworkOp
  <2>6. TypeOK'
    BY <1>9, <2>1, <2>5
    DEF NetworkBeginDhcp, IInv, TypeOK, Fits, listing, view, session, verify, fetch, history
  <2> QED
    BY <1>9, <2>2, <2>5, <2>6 DEF NetworkBeginDhcp, IInv, KexecGated, history, session, fetch
<1> QED
  BY <1>5, <1>6, <1>7, <1>8, <1>9 DEF NetworkKey

(* Giving up the DHCP or the fetch worker's receiver disturbs no screen. *)
LEMMA ReceiverDropped ==
  ASSUME IInv,
         \/ active_dhcp' = None /\ UNCHANGED fetch
         \/ active_fetch' = None /\ UNCHANGED <<active_dhcp, fetch_cancelled>>,
         fetch_phase' \in DOMAIN FetchOrder \cup {"Idle", "DoneOk", "DoneErr", "Died"},
         UNCHANGED <<listing, screen, view, session, verify, network_lease, history>>
  PROVE  IInv'
<1>1. TypeOK'
  BY DEF IInv, TypeOK, listing, view, session, verify, fetch, history
<1>2. Fits(screen)'
  <2>1. FlowFits(Flow(screen))'
    BY FlowKept DEF IInv, Fits, session
  <2>2. OverlayFits(Beneath(screen))'
    BY DEF IInv, Fits, OverlayFits, session, fetch
  <2> QED
    BY <2>1, <2>2 DEF IInv, Fits
<1> QED
  BY <1>1, <1>2 DEF IInv, KexecGated, session, history, fetch

LEMMA DhcpStep == IInv /\ DhcpReport => IInv'
<1> SUFFICES ASSUME IInv, DhcpReport PROVE IInv'
  OBVIOUS
<1>1. TypeOK /\ fetch_phase \in DOMAIN FetchOrder \cup {"Idle", "DoneOk", "DoneErr", "Died"}
  BY DEF IInv, TypeOK
<1>2. CASE DhcpDisconnected
  BY <1>1, <1>2, ReceiverDropped DEF DhcpDisconnected, fetch
<1>3. CASE DhcpDone
  <2>1. PICK ok \in BOOLEAN : NetworkFinishDhcp(ok)
    BY <1>3 DEF DhcpDone
  <2>2. CASE screen.kind # "Network"
    BY <1>1, <1>3, <2>1, <2>2, ReceiverDropped DEF DhcpDone, NetworkFinishDhcp, fetch
  <2>3. CASE screen.kind = "Network"
    <3>0. PICK h : h = screen.prior
      OBVIOUS
    <3>1. active_fetch = None
      BY <2>3, NoFetchElsewhere
    <3>2. h \in HomeScreens /\ FlowFits(h)
      BY <2>3, <3>0, <3>1, HomeFits DEF IInv
    <3>3. session_network_consent
      BY <2>3 DEF IInv, Fits, OverlayFits, Beneath
    <3>4. \E op \in {"Success", "Failed"} : screen' = Network(op, active_dhcp, h)
      BY <2>1, <2>3, <3>0 DEF NetworkFinishDhcp
    <3>5. FlowFits(h)'
      BY <1>3, <3>2, FlowKept DEF DhcpDone, session
    <3>6. OverlayFits(screen)'
      BY <1>3, <3>1, <3>3, <3>4 DEF DhcpDone, OverlayFits, Network, fetch, session
    <3>7. Fits(screen)'
      BY <1>1, <3>2, <3>4, <3>5, <3>6, OverlayNext DEF NetworkOp, TypeOK
    <3>8. network_lease' \in Iface \cup {None}
      BY <1>1, <2>1, <2>3 DEF NetworkFinishDhcp, TypeOK
    <3>9. TypeOK'
      BY <1>1, <1>3, <3>7, <3>8
      DEF DhcpDone, TypeOK, Fits, listing, view, session, verify, fetch, history
    <3> QED
      BY <1>3, <3>3, <3>7, <3>9 DEF DhcpDone, IInv, KexecGated, session, history, fetch
  <2> QED
    BY <2>2, <2>3
<1> QED
  BY <1>2, <1>3 DEF DhcpReport

LEMMA CatalogShape ==
  ASSUME NEW s \in CatalogScreens
  PROVE  s.prior \in HomeScreens /\ s = Catalog(s.prior)
BY DEF CatalogScreens, Catalog

(* A confirm screen sits on the catalog, the catalog on a home screen. *)
LEMMA ConfirmScreen ==
  ASSUME IInv, screen.kind = "CatalogConfirm"
  PROVE  /\ screen.entry \in Entry /\ screen.op \in CatalogOp
         /\ screen.prior \in CatalogScreens
         /\ screen.prior.prior \in HomeScreens /\ FlowFits(screen.prior.prior)
         /\ screen.prior = Catalog(screen.prior.prior)
         /\ active_fetch # None => screen.entry = active_fetch /\ screen.op \in CatalogBusy
<1>1. /\ screen.entry \in Entry /\ screen.op \in CatalogOp
      /\ screen.prior \in CatalogScreens
  BY ScreenShape DEF IInv, Fits
<1>2. Beneath(screen) = screen /\ Flow(screen) = screen.prior.prior
  BY DEF Beneath, Flow
<1>3. FlowFits(screen.prior.prior) /\ OverlayFits(screen)
  BY <1>2 DEF IInv, Fits
<1> QED
  BY <1>1, <1>3, CatalogShape DEF OverlayFits

(* The op of the confirm screen changes, with or without the receiver. *)
LEMMA ConfirmScreenStep ==
  ASSUME IInv, screen.kind = "CatalogConfirm", NEW op \in CatalogOp,
         screen' = CatalogConfirm(screen.entry, op, screen.prior),
         active_fetch' = None \/ (active_fetch' = screen.entry /\ op \in CatalogBusy),
         active_fetch' # None => fetch_phase' \in DOMAIN FetchOrder,
         fetch_cancelled' \in BOOLEAN,
         fetch_phase' \in DOMAIN FetchOrder \cup {"Idle", "DoneOk", "DoneErr", "Died"},
         UNCHANGED <<listing, view, session, verify, dhcp, history>>
  PROVE  IInv'
<1>1. PICK h : h = screen.prior.prior
  OBVIOUS
<1>2. /\ h \in HomeScreens /\ FlowFits(h) /\ screen.entry \in Entry
      /\ screen.prior = Catalog(h)
  BY <1>1, ConfirmScreen
<1>3. FlowFits(h)'
  BY <1>2, FlowKept DEF session
<1>4. OverlayFits(screen)'
  BY DEF OverlayFits, CatalogConfirm
<1>5. Fits(screen)'
  BY <1>2, <1>3, <1>4, OverlayNext
<1>6. TypeOK'
  BY <1>2, <1>5 DEF IInv, TypeOK, Fits, listing, view, session, verify, dhcp, history
<1> QED
  BY <1>5, <1>6 DEF IInv, KexecGated, session, dhcp, history

LEMMA CatalogStep == IInv /\ CatalogKey => IInv'
<1> SUFFICES ASSUME IInv, CatalogKey PROVE IInv'
  OBVIOUS
<1>1. TypeOK /\ screen \in Screens
  BY DEF IInv, Fits
<1>2. CASE EnterCatalog
  <2>1. screen \in HomeScreens /\ FlowFits(screen) /\ active_fetch = None
    BY <1>1, <1>2, ScreenShape, HomeTypes, NoFetchElsewhere
    DEF EnterCatalog, Key, IInv, Fits, Flow, Beneath
  <2> QED
    BY <1>2, <2>1, OverlayScreensFit, OnlyScreen DEF EnterCatalog
<1>3. CASE CancelCatalog
  <2>1. Fits(screen.prior)
    BY <1>3, HomeFits, NoFetchElsewhere DEF CancelCatalog, Key, IInv
  <2> QED
    BY <1>3, <2>1, OnlyScreen DEF CancelCatalog
<1>4. CASE CatalogOpenConfirm
  <2>1. active_fetch = None /\ screen.kind = "Catalog"
    BY <1>4, NoFetchElsewhere DEF CatalogOpenConfirm, Key
  <2>2. screen \in CatalogScreens
    BY <1>1, <2>1
    DEF Screens, FlowScreens, HomeScreens, OverlayScreens, CatalogScreens, ModalScreens
  <2>3. PICK h \in HomeScreens : FlowFits(h) /\ screen = Catalog(h)
    BY <2>1, <2>2, CatalogShape, HomeFits DEF IInv
  <2>4. \A e \in Entry : OverlayFits(CatalogConfirm(e, "Idle", Catalog(h)))
    BY <2>1 DEF OverlayFits, CatalogConfirm
  <2>5. \A e \in Entry : Fits(CatalogConfirm(e, "Idle", Catalog(h)))
    BY <2>3, <2>4, OverlayScreensFit DEF CatalogOp, CatalogRest
  <2> QED
    BY <1>4, <2>3, <2>5, OnlyScreen DEF CatalogOpenConfirm
<1>5. CASE CatalogBeginFetch
  <2>1. screen.kind = "CatalogConfirm" /\ active_fetch = None
    BY <1>5, ConfirmScreen DEF CatalogBeginFetch, Key, CatalogRest, CatalogBusy
  <2>2. CASE active_fetch' = screen.entry
    BY <1>5, <2>1, <2>2, ConfirmScreenStep, ConfirmScreen
    DEF CatalogBeginFetch, CatalogOp, CatalogBusy, CatalogRest, FetchOrder, fetch, IInv, TypeOK
  <2>3. CASE UNCHANGED fetch
    BY <1>1, <1>5, <2>1, <2>3, ConfirmScreenStep
    DEF CatalogBeginFetch, CatalogOp, CatalogBusy, CatalogRest, fetch, TypeOK
  <2> QED
    BY <1>5, <2>2, <2>3 DEF CatalogBeginFetch
<1>6. CASE EscCatalogConfirm
  <2>1. screen.kind = "CatalogConfirm"
    BY <1>6 DEF EscCatalogConfirm, Key
  <2>2. CASE fetch_cancelled' = TRUE /\ UNCHANGED screen
    <3>1. TypeOK'
      BY <1>1, <1>6, <2>2
      DEF EscCatalogConfirm, TypeOK, listing, view, session, verify, dhcp, history
    <3> QED
      BY <1>6, <2>2, <3>1, SameContext
      DEF EscCatalogConfirm, context, listing, session, verify, dhcp, history, IInv
  <2>3. CASE active_fetch = None /\ screen' = screen.prior /\ UNCHANGED fetch_cancelled
    <3>1. PICK h \in HomeScreens : FlowFits(h) /\ screen.prior = Catalog(h)
      BY <2>1, ConfirmScreen
    <3> QED
      BY <1>6, <2>3, <3>1, OverlayScreensFit, OnlyScreen DEF EscCatalogConfirm, fetch
  <2> QED
    BY <1>6, <2>2, <2>3 DEF EscCatalogConfirm
<1> QED
  BY <1>2, <1>3, <1>4, <1>5, <1>6 DEF CatalogKey

LEMMA FetchStep == IInv /\ FetchReport => IInv'
<1> SUFFICES ASSUME IInv, FetchReport PROVE IInv'
  OBVIOUS
<1>1. TypeOK
  BY DEF IInv
<1>2. CASE FetchDisconnected
  BY <1>1, <1>2, ReceiverDropped DEF FetchDisconnected, dhcp
<1>3. CASE FetchDone
  <2>1. PICK ok \in BOOLEAN : /\ CatalogFinishFetch(ok)
                              /\ fetch_phase' = IF ok THEN "DoneOk" ELSE "DoneErr"
    BY <1>3 DEF FetchDone
  <2>2. CASE screen.kind = "CatalogConfirm"
    <3>1. PICK op \in {"Success", "Failed"} :
            screen' = CatalogConfirm(screen.entry, op, screen.prior)
      BY <2>1, <2>2 DEF CatalogFinishFetch
    <3> QED
      BY <1>1, <1>3, <2>1, <2>2, <3>1, ConfirmScreenStep
      DEF FetchDone, CatalogOp, CatalogRest, TypeOK
  <2>3. CASE screen.kind # "CatalogConfirm"
    BY <1>3, <2>1, <2>3, ReceiverDropped DEF FetchDone, CatalogFinishFetch, dhcp
  <2> QED
    BY <2>2, <2>3
<1>4. CASE FetchEvent
  <2>1. PICK event \in FetchOrder[fetch_phase] :
          CatalogProgress(event) /\ fetch_phase' = event
    BY <1>4 DEF FetchEvent
  <2>2. event \in CatalogBusy /\ event \in DOMAIN FetchOrder
    <3>1. fetch_phase \in DOMAIN FetchOrder
      BY <1>4 DEF FetchEvent, IInv
    <3> QED
      BY <2>1, <3>1 DEF FetchOrder, CatalogBusy
  <2>3. CASE screen.kind = "CatalogConfirm"
    <3>1. screen.op \in CatalogBusy /\ screen.entry = active_fetch
      BY <1>4, <2>3, ConfirmScreen DEF FetchEvent
    <3>2. screen' = CatalogConfirm(screen.entry, event, screen.prior)
      BY <2>1, <2>3, <3>1 DEF CatalogProgress, CatalogBusy
    <3> QED
      BY <1>1, <1>4, <2>1, <2>2, <2>3, <3>1, <3>2, ConfirmScreenStep
      DEF FetchEvent, CatalogOp, TypeOK
  <2>4. CASE screen.kind # "CatalogConfirm"
    <3>1. TypeOK'
      BY <1>1, <1>4, <2>1, <2>2, <2>4
      DEF FetchEvent, CatalogProgress, TypeOK, listing, view, session, verify, dhcp, history
    <3>2. UNCHANGED <<screen, listing, session, verify, dhcp, active_fetch, history>>
      BY <1>4, <2>1, <2>4 DEF FetchEvent, CatalogProgress
    <3>3. Fits(screen)'
      BY <3>2 DEF IInv, Fits, FlowFits, OverlayFits, is_kexec_blocked, KexecBlocked,
                  is_degraded_trust, DegradedTrust, listing, session, verify, dhcp
    <3> QED
      BY <2>1, <2>2, <3>1, <3>2, <3>3 DEF IInv, KexecGated, session, dhcp, history
  <2> QED
    BY <2>3, <2>4
<1> QED
  BY <1>2, <1>3, <1>4 DEF FetchReport

-----------------------------------------------------------------------------
(* The invariant holds at the start and every step keeps it. *)
LEMMA InvInit == Init => IInv
<1> SUFFICES ASSUME Init PROVE IInv
  OBVIOUS
<1>1. /\ isos = Discovered /\ active_fetch = None /\ active_dhcp = None
      /\ network_lease = None /\ exec = None
  BY DEF Init
<1>2. PICK c \in Row : screen = List(c)
  <2>1. DOMAIN Discovered \subseteq Row /\ 1 \in Row
    BY ScreensAssumption, LenProperties DEF Row
  <2> QED
    BY <2>1 DEF Init
<1>3. Fits(screen)
  BY <1>1, <1>2, RowScreensFit
<1>4. cmdline_overrides \in [Position -> Cmdline \cup {None}]
  BY DEF Init
<1>5. disk \subseteq ISO
  BY ScreensAssumption, ElementOfSeq, LenProperties DEF Init
<1>6. TypeOK
  <2>1. isos \in Seq(ISO) /\ Len(isos) <= Len(Discovered)
    BY <1>1, ScreensAssumption, LenProperties
  <2>2. sidecars \subseteq ISO
    BY <1>5 DEF Init
  <2>3. screen \in Screens
    BY <1>3 DEF Fits
  <2>4. /\ sort_order \in SortOrder /\ filter \in Filter
        /\ filter_editing \in BOOLEAN /\ pane \in {"List", "Info"}
    BY ScreensAssumption DEF Init, SortOrder
  <2>5. /\ session_consent \in BOOLEAN /\ session_network_consent \in BOOLEAN
        /\ shell_requested \in BOOLEAN /\ fetch_cancelled \in BOOLEAN
        /\ active_verify = None /\ fetch_phase = "Idle" /\ asked = None
        /\ hash_verification \in [ISO -> Verdict]
    BY DEF Init
  <2> QED
    BY <1>1, <1>4, <1>5, <2>1, <2>2, <2>3, <2>4, <2>5 DEF TypeOK
<1> QED
  BY <1>1, <1>3, <1>6 DEF IInv, KexecGated

LEMMA InvStep == IInv /\ [Next]_vars => IInv'
<1> SUFFICES ASSUME IInv, [Next]_vars PROVE IInv'
  OBVIOUS
<1>1. CASE UNCHANGED vars
  BY <1>1, OnlyScreen DEF vars, IInv
<1> QED
  BY <1>1, ModalStep, ListStep, VerifyStep, DeleteStep, CmdlineStep, KexecStep, NetworkStep,
     CatalogStep, DhcpStep, FetchStep
  DEF Next

LEMMA Invariance == Spec => []IInv
BY InvInit, InvStep, PTL DEF Spec

(* Every variable of AppState and event_loop keeps its shape: in           *)
(* particular a screen never holds a row the list no longer has.           *)
THEOREM TypeCorrect == Spec => []TypeOK
BY Invariance, PTL DEF IInv

(* load_and_exec is only reached through the gates of ConfirmEnter,        *)
(* ConsentYes and TrustChallengeEnter, for any set of ISOs and verdicts.   *)
THEOREM KexecIsGated == Spec => []KexecGated
BY Invariance, PTL DEF IInv

(* A fetch worker's messages can only meet the CatalogConfirm of its own   *)
(* entry (spawn_fetch_worker, catalog_finish_fetch).                       *)
THEOREM FetchIsSingle == Spec => []FetchSingleInFlight
<1>1. IInv => FetchSingleInFlight
  <2> SUFFICES ASSUME IInv, Running, active_fetch # None
               PROVE  LET s == Beneath(screen)
                      IN  /\ s.kind = "CatalogConfirm" /\ s.entry = active_fetch
                          /\ s.op \in CatalogBusy
    BY DEF FetchSingleInFlight
  <2>1. screen \in Screens /\ OverlayFits(Beneath(screen))
    BY DEF IInv, Fits
  <2>2. Beneath(screen).kind \notin {"Quitting", "Kexeced"}
    <3>1. CASE screen.kind \in {"Help", "ConfirmQuit"}
      BY <2>1, <3>1, ScreenShape, NotModal DEF Beneath
    <3>2. CASE screen.kind \notin {"Help", "ConfirmQuit"}
      BY <3>2 DEF Beneath, Running
    <3> QED
      BY <3>1, <3>2
  <2> QED
    BY <2>1, <2>2 DEF OverlayFits
<1> QED
  BY <1>1, Invariance, PTL

(* The DHCP worker's message updates the row that is waiting for it        *)
(* (network_begin_dhcp, network_finish_dhcp).                              *)
THEOREM DhcpMatches == Spec => []DhcpResultMatchesRequest
<1>1. IInv => DhcpResultMatchesRequest
  BY DEF IInv, Fits, OverlayFits, DhcpResultMatchesRequest
<1> QED
  BY <1>1, Invariance, PTL

(* Whatever is opened, left or restored meanwhile, the fetch and the DHCP  *)
(* worker report to the screen that waits for them (the drains of          *)
(* event_loop).                                                            *)
THEOREM WorkersFit == Spec => []WorkersFitScreens
BY FetchIsSingle, DhcpMatches, PTL DEF WorkersFitScreens

(* Without the operator's consent no DHCP worker runs, no lease is kept    *)
(* and no interface list is shown (enter_network, grant_consent).  A       *)
(* catalog fetch waits for neither.                                        *)
THEOREM DhcpConsented == Spec => []DhcpNeedsConsent
<1>1. IInv => DhcpNeedsConsent
  BY DEF IInv, Fits, OverlayFits, DhcpNeedsConsent
<1> QED
  BY <1>1, Invariance, PTL

(* Only a verdict writes hash_verification. *)
LEMMA VerdictsKept == [Next]_vars => VerifyDone \/ UNCHANGED hash_verification
<1> SUFFICES ASSUME [Next]_vars, ~ VerifyDone PROVE UNCHANGED hash_verification
  OBVIOUS
<1>1. CASE ModalKey
  BY <1>1 DEF ModalKey, RequestQuit, CancelQuit, ConfirmQuitYes, OpenHelp, CloseHelp, verify
<1>2. CASE ListKey
  BY <1>2
  DEF ListKey, MoveSelection, MoveToEdge, TogglePane, CycleSort, OpenFilter, EditFilter,
      FilterCommit, FilterCancel, ChooseShell, ConfirmSelection, DismissBlockedToast,
      CancelConfirmation, verify
<1>3. CASE VerifyKey
  BY <1>3 DEF VerifyKey, VerifyFromList, VerifyFromConfirm, StartVerify, EscVerify
<1>4. CASE DeleteKey
  BY <1>4 DEF DeleteKey, EnterDelete, CancelDelete, DeleteYes, verify
<1>5. CASE CmdlineKey
  BY <1>5
  DEF CmdlineKey, EnterCmdlineEditor, TypeCmdline, CommitCmdlineEdit, CancelCmdlineEdit, verify
<1>6. CASE KexecKey
  BY <1>6
  DEF KexecKey, ConfirmEnter, ConsentYes, CancelConsent, TypeChallenge, TrustChallengeEnter,
      TrustChallengeCancel, DismissError, verify
<1>7. CASE NetworkKey
  BY <1>7
  DEF NetworkKey, EnterNetwork, GrantNetworkUse, CancelNetworkUse, NetworkRefresh,
      NetworkBeginDhcp, CancelNetwork, verify
<1>8. CASE CatalogKey
  BY <1>8
  DEF CatalogKey, EnterCatalog, CancelCatalog, CatalogOpenConfirm, CatalogBeginFetch,
      EscCatalogConfirm, verify
<1>9. CASE VerifyReport
  BY <1>9 DEF VerifyReport, VerifyDone, VerifyFailed, VerifyDisconnected
<1>10. CASE DhcpReport \/ FetchReport
  BY <1>10
  DEF DhcpReport, DhcpDone, DhcpDisconnected, FetchReport, FetchEvent, FetchDone,
      FetchDisconnected, verify
<1>11. CASE UNCHANGED vars
  BY <1>11 DEF vars, verify
<1> QED
  BY <1>1, <1>2, <1>3, <1>4, <1>5, <1>6, <1>7, <1>8, <1>9, <1>10, <1>11 DEF Next

(* verify_finish stores the verdict in the row the screen names: that row  *)
(* is always the ISO the worker hashed.                                    *)
THEOREM VerdictIsOfIso == Spec => VerdictBelongsToIso
<1>1. ASSUME IInv, VerifyDone, NEW i \in ISO, hash_verification'[i] # hash_verification[i]
      PROVE  active_verify = i
  <2>1. PICK verdict \in Verdict : VerifyFinish(verdict)
    BY <1>1 DEF VerifyDone
  <2>2. screen.kind = "Verifying"
    BY <1>1, <2>1 DEF VerifyFinish
  <2>3. hash_verification' = [hash_verification EXCEPT ![isos[screen.selected]] = verdict]
    BY <2>1, <2>2 DEF VerifyFinish
  <2>4. i = isos[screen.selected]
    BY <1>1, <2>3 DEF IInv, TypeOK
  <2>5. active_verify = isos[screen.selected]
    BY <1>1, <2>2, IsoOnScreen DEF FlowFits, VerifyDone, IsoKinds
  <2> QED
    BY <2>4, <2>5
<1>2. IInv /\ [Next]_vars
        => [\A i \in ISO : hash_verification'[i] # hash_verification[i] => active_verify = i]_vars
  BY <1>1, VerdictsKept
<1> QED
  BY <1>2, Invariance, PTL DEF Spec, VerdictBelongsToIso
=============================================================================
