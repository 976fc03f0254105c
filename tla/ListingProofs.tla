--------------------------- MODULE ListingProofs ---------------------------
(***************************************************************************)
(* Proofs about the list of RescueTui.tla, for any ISOs, sidecars, filters *)
(* and sort orders: what a deletion removes, what it leaves on the data    *)
(* partition, where the operator's command lines end up, and, from all of  *)
(* it, that the boot flow implements BootGate.tla.                         *)
(***************************************************************************)
EXTENDS RescueTuiProofs

(* No ISO is listed twice. *)
Distinct(rows) == \A p, q \in DOMAIN rows : rows[p] = rows[q] => p = q

(* The row of an open delete prompt, perhaps under a modal, resolves to    *)
(* the ISO the prompt was opened for: nothing that can happen while it is  *)
(* up moves a row.                                                         *)
PromptFits ==
  LET s == Beneath(screen)
  IN  s.kind = "ConfirmDelete" =>
        RealIndex(s.selected) # None /\ asked = isos[RealIndex(s.selected)]

(* What IInv lacks to say what a deletion does. *)
ListInv == Distinct(isos) /\ PromptFits /\ DeletionIsComplete

-----------------------------------------------------------------------------
(* Steps that move no row and leave a prompt alone that is up. *)
PromptStays ==
  /\ UNCHANGED <<isos, disk, sidecars, asked>>
  /\ Beneath(screen)'.kind = "ConfirmDelete" =>
       Beneath(screen)' = Beneath(screen) /\ UNCHANGED <<filter, sort_order>>

LEMMA SameRows ==
  ASSUME UNCHANGED <<isos, filter, sort_order>>
  PROVE  \A c : RealIndex(c)' = RealIndex(c)
<1>1. \A rows : Visible(rows)' = Visible(rows)
  BY DEF Visible
<1>2. \A rows, p, q : Sooner(rows, p, q)' = Sooner(rows, p, q)
  BY DEF Sooner
<1>3. \A rows, p : RowOf(rows, p)' = RowOf(rows, p)
  <2> SUFFICES ASSUME NEW rows, NEW p PROVE RowOf(rows, p)' = RowOf(rows, p)
    OBVIOUS
  <2>1. {q \in Visible(rows)' : Sooner(rows, q, p)'} = {q \in Visible(rows) : Sooner(rows, q, p)}
    BY <1>1, <1>2
  <2> QED
    BY <2>1 DEF RowOf
<1> SUFFICES ASSUME NEW c PROVE RealIndex(c)' = RealIndex(c)
  OBVIOUS
<1> DEFINE here == {p \in Visible(isos) : RowOf(isos, p) = c}
           found(h) == IF h = {} THEN None ELSE CHOOSE p \in h : TRUE
<1>4. here' = here
  BY <1>1, <1>3
<1>5. RealIndex(c) = found(here) /\ RealIndex(c)' = found(here')
  BY DEF RealIndex
<1> HIDE DEF here, found
<1> QED
  BY <1>4, <1>5

LEMMA StaysInv == ListInv /\ PromptStays => ListInv'
<1> SUFFICES ASSUME ListInv, PromptStays PROVE ListInv'
  OBVIOUS
<1>1. Distinct(isos)' /\ DeletionIsComplete'
  BY DEF ListInv, PromptStays, Distinct, DeletionIsComplete
<1>2. PromptFits'
  BY SameRows DEF ListInv, PromptStays, PromptFits
<1> QED
  BY <1>1, <1>2 DEF ListInv

(* The screens no prompt hides in. *)
LEMMA NoPrompt ==
  /\ \A c : Beneath(List(c)).kind # "ConfirmDelete"
  /\ \A c : Beneath(BlockedToast(c)).kind # "ConfirmDelete"
  /\ \A p : Beneath(Confirm(p)).kind # "ConfirmDelete"
  /\ \A p : Beneath(Consent(p)).kind # "ConfirmDelete"
  /\ \A p : Beneath(Verifying(p)).kind # "ConfirmDelete"
  /\ \A p, b : Beneath(EditCmdline(p, b)).kind # "ConfirmDelete"
  /\ \A p, b : Beneath(TrustChallenge(p, b)).kind # "ConfirmDelete"
  /\ \A cause, r : Beneath(Error(cause, r)).kind # "ConfirmDelete"
  /\ Beneath(Quitting).kind # "ConfirmDelete" /\ Beneath(Kexeced).kind # "ConfirmDelete"
BY DEF Beneath, List, BlockedToast, Confirm, Consent, Verifying, EditCmdline,
       TrustChallenge, Error, Quitting, Kexeced

LEMMA NoPromptOver ==
  /\ \A s : Beneath(ConsentNetworkUse(s)).kind # "ConfirmDelete"
  /\ \A op, i, s : Beneath(Network(op, i, s)).kind # "ConfirmDelete"
  /\ \A s : Beneath(Catalog(s)).kind # "ConfirmDelete"
  /\ \A e, op, s : Beneath(CatalogConfirm(e, op, s)).kind # "ConfirmDelete"
  /\ \A s \in HomeScreens \cup CatalogScreens : Beneath(s).kind # "ConfirmDelete"
BY DEF Beneath, ConsentNetworkUse, Network, Catalog, CatalogConfirm, HomeScreens,
       CatalogScreens

(* A modal covers a screen or uncovers it, and changes nothing beneath. *)
LEMMA ModalBeneath == IInv /\ ModalKey => ConfirmQuitYes \/ Beneath(screen)' = Beneath(screen)
<1> SUFFICES ASSUME IInv, ModalKey, ~ ConfirmQuitYes PROVE Beneath(screen)' = Beneath(screen)
  OBVIOUS
<1>1. CASE RequestQuit \/ OpenHelp
  <2>1. screen.kind \notin {"Help", "ConfirmQuit"}
    BY <1>1 DEF RequestQuit, OpenHelp, GlobalKeys
  <2> QED
    BY <1>1, <2>1 DEF RequestQuit, OpenHelp, Beneath, Help, ConfirmQuit
<1>2. CASE CancelQuit \/ CloseHelp
  <2>1. screen.kind \in {"Help", "ConfirmQuit"} /\ screen' = screen.prior
    BY <1>2 DEF CancelQuit, CloseHelp, Key
  <2>2. screen.prior \in FlowScreens \cup OverlayScreens
    BY <2>1, ScreenShape DEF IInv, Fits
  <2> QED
    BY <2>1, <2>2, NotModal DEF Beneath
<1> QED
  BY <1>1, <1>2 DEF ModalKey

LEMMA ModalStays == IInv /\ ModalKey => PromptStays
<1> SUFFICES ASSUME IInv, ModalKey PROVE PromptStays
  OBVIOUS
<1>1. UNCHANGED <<isos, disk, sidecars, asked, filter, sort_order>>
  BY DEF ModalKey, RequestQuit, CancelQuit, ConfirmQuitYes, OpenHelp, CloseHelp, listing,
         view, history
<1>2. CASE ConfirmQuitYes
  BY <1>1, <1>2, NoPrompt DEF ConfirmQuitYes, PromptStays
<1> QED
  BY <1>1, <1>2, ModalBeneath DEF PromptStays

LEMMA ListStays == ListKey => PromptStays
<1> SUFFICES ASSUME ListKey PROVE PromptStays
  OBVIOUS
<1>1. UNCHANGED <<isos, disk, sidecars, asked>>
  BY DEF ListKey, MoveSelection, MoveToEdge, TogglePane, CycleSort, OpenFilter, EditFilter,
         FilterCommit, FilterCancel, ChooseShell, ConfirmSelection, DismissBlockedToast,
         CancelConfirmation, listing, history
<1>2. Beneath(screen)'.kind # "ConfirmDelete"
  <2>1. CASE TogglePane \/ OpenFilter \/ FilterCommit
    BY <2>1 DEF TogglePane, OpenFilter, FilterCommit, Key, Beneath
  <2>2. CASE MoveSelection \/ MoveToEdge \/ CycleSort \/ EditFilter \/ FilterCancel
    BY <2>2, NoPrompt DEF MoveSelection, MoveToEdge, CycleSort, EditFilter, FilterCancel
  <2>3. CASE ChooseShell \/ ConfirmSelection
    BY <2>3, NoPrompt DEF ChooseShell, ConfirmSelection
  <2>4. CASE DismissBlockedToast \/ CancelConfirmation
    BY <2>4, NoPrompt DEF DismissBlockedToast, CancelConfirmation
  <2> QED
    BY <2>1, <2>2, <2>3, <2>4 DEF ListKey
<1> QED
  BY <1>1, <1>2 DEF PromptStays

LEMMA VerifyStays == VerifyKey \/ VerifyReport => PromptStays
<1> SUFFICES ASSUME VerifyKey \/ VerifyReport PROVE PromptStays
  OBVIOUS
<1>1. UNCHANGED <<isos, disk, sidecars, asked, filter, sort_order>>
  BY DEF VerifyKey, VerifyFromList, VerifyFromConfirm, StartVerify, EscVerify, VerifyReport,
         VerifyDone, VerifyFailed, VerifyDisconnected, listing, view, history
<1>2. screen' = screen \/ (\E p : screen' = Verifying(p) \/ screen' = Confirm(p))
  BY DEF VerifyKey, VerifyFromList, VerifyFromConfirm, StartVerify, EscVerify, VerifyReport,
         VerifyDone, VerifyFailed, VerifyDisconnected, VerifyFinish, CancelVerify
<1> QED
  BY <1>1, <1>2, NoPrompt DEF PromptStays

LEMMA KexecStays == KexecKey => PromptStays
<1> SUFFICES ASSUME KexecKey PROVE PromptStays
  OBVIOUS
<1>1. UNCHANGED <<isos, disk, sidecars, asked>>
  BY DEF KexecKey, ConfirmEnter, ConsentYes, CancelConsent, TypeChallenge,
         TrustChallengeEnter, TrustChallengeCancel, DismissError, listing, history
<1>2. ASSUME NEW p, NEW from, NEW typed, NEW consented,
             AttemptKexec(p, from, typed, consented)
      PROVE  Beneath(screen)'.kind # "ConfirmDelete"
  BY <1>2, NoPrompt DEF AttemptKexec, KexecError
<1>3. Beneath(screen)'.kind # "ConfirmDelete"
  <2>1. CASE ConfirmEnter
    BY <1>2, <2>1, NoPrompt DEF ConfirmEnter, KexecError
  <2>2. CASE ConsentYes
    BY <1>2, <2>2, NoPrompt DEF ConsentYes
  <2>3. CASE TrustChallengeEnter
    BY <1>2, <2>3 DEF TrustChallengeEnter
  <2>4. CASE CancelConsent \/ TypeChallenge \/ TrustChallengeCancel \/ DismissError
    BY <2>4, NoPrompt DEF CancelConsent, TypeChallenge, TrustChallengeCancel, DismissError
  <2> QED
    BY <2>1, <2>2, <2>3, <2>4 DEF KexecKey
<1> QED
  BY <1>1, <1>3 DEF PromptStays

(* An overlay is only opened over a home screen, so none ever closes onto  *)
(* a prompt.                                                               *)
LEMMA OverlayPrior ==
  ASSUME IInv, screen.kind \in {"ConsentNetworkUse", "Network", "Catalog", "CatalogConfirm"}
  PROVE  screen.prior \in HomeScreens \cup CatalogScreens
BY ScreenShape DEF IInv, Fits

LEMMA NetworkStays == IInv /\ (NetworkKey \/ DhcpReport) => PromptStays
<1> SUFFICES ASSUME IInv, NetworkKey \/ DhcpReport PROVE PromptStays
  OBVIOUS
<1>1. UNCHANGED <<isos, disk, sidecars, asked, filter, sort_order>>
  BY DEF NetworkKey, EnterNetwork, GrantNetworkUse, CancelNetworkUse, NetworkRefresh,
         NetworkBeginDhcp, CancelNetwork, DhcpReport, DhcpDone, DhcpDisconnected, listing,
         view, history
<1>2. \/ screen' = screen
      \/ \E s : screen' = ConsentNetworkUse(s)
      \/ \E op, i, s : screen' = Network(op, i, s)
      \/ screen' \in HomeScreens \cup CatalogScreens
  <2>1. CASE CancelNetworkUse \/ CancelNetwork
    BY <2>1, OverlayPrior DEF CancelNetworkUse, CancelNetwork, Key
  <2>2. CASE EnterNetwork \/ GrantNetworkUse \/ NetworkRefresh \/ NetworkBeginDhcp
    BY <2>2 DEF EnterNetwork, GrantNetworkUse, NetworkRefresh, NetworkBeginDhcp
  <2>3. CASE DhcpReport
    BY <2>3 DEF DhcpReport, DhcpDone, DhcpDisconnected, NetworkFinishDhcp
  <2> QED
    BY <2>1, <2>2, <2>3 DEF NetworkKey
<1> QED
  BY <1>1, <1>2, NoPromptOver DEF PromptStays

LEMMA CatalogStays == IInv /\ (CatalogKey \/ FetchReport) => PromptStays
<1> SUFFICES ASSUME IInv, CatalogKey \/ FetchReport PROVE PromptStays
  OBVIOUS
<1>1. UNCHANGED <<isos, disk, sidecars, asked, filter, sort_order>>
  BY DEF CatalogKey, EnterCatalog, CancelCatalog, CatalogOpenConfirm, CatalogBeginFetch,
         EscCatalogConfirm, FetchReport, FetchEvent, FetchDone, FetchDisconnected, listing,
         view, history
<1>2. \/ screen' = screen
      \/ \E s : screen' = Catalog(s)
      \/ \E e, op, s : screen' = CatalogConfirm(e, op, s)
      \/ screen' \in HomeScreens \cup CatalogScreens
  <2>1. CASE CancelCatalog \/ EscCatalogConfirm
    BY <2>1, OverlayPrior DEF CancelCatalog, EscCatalogConfirm, Key
  <2>2. CASE EnterCatalog \/ CatalogOpenConfirm \/ CatalogBeginFetch
    BY <2>2 DEF EnterCatalog, CatalogOpenConfirm, CatalogBeginFetch
  <2>3. CASE FetchReport
    BY <2>3
    DEF FetchReport, FetchEvent, FetchDone, FetchDisconnected, CatalogProgress,
        CatalogFinishFetch
  <2> QED
    BY <2>1, <2>2, <2>3 DEF CatalogKey
<1> QED
  BY <1>1, <1>2, NoPromptOver DEF PromptStays

LEMMA CmdlineStays == CmdlineKey => PromptStays
<1> SUFFICES ASSUME CmdlineKey PROVE PromptStays
  OBVIOUS
<1>1. UNCHANGED <<isos, disk, sidecars, asked>>
  BY DEF CmdlineKey, EnterCmdlineEditor, TypeCmdline, CommitCmdlineEdit, CancelCmdlineEdit,
         listing, history
<1>2. \E p : screen' = Confirm(p) \/ \E b : screen' = EditCmdline(p, b)
  BY DEF CmdlineKey, EnterCmdlineEditor, TypeCmdline, CommitCmdlineEdit, CancelCmdlineEdit
<1> QED
  BY <1>1, <1>2, NoPrompt DEF PromptStays
-----------------------------------------------------------------------------
(* The steps of the prompt itself. *)

(* What Vec::remove leaves: every other row, each once. *)
LEMMA RemoveAtRows ==
  ASSUME NEW rows \in Seq(ISO), NEW r \in DOMAIN rows, Distinct(rows)
  PROVE  LET rest == RemoveAt(rows, r)
         IN  /\ Distinct(rest)
             /\ {rest[p] : p \in DOMAIN rest} = {rows[p] : p \in DOMAIN rows} \ {rows[r]}
<1> DEFINE rest == RemoveAt(rows, r)
           from(p) == IF p < r THEN p ELSE p + 1
<1>1. /\ DOMAIN rows = 1 .. Len(rows) /\ Len(rows) \in Nat
      /\ DOMAIN rest = 1 .. Len(rows) - 1
      /\ \A p \in DOMAIN rest : rest[p] = rows[from(p)]
  BY RemoveAtType, LenProperties
<1> HIDE DEF rest
<1>2. \A p \in DOMAIN rest : from(p) \in DOMAIN rows /\ from(p) # r
  BY <1>1
<1>3. \A p, q \in DOMAIN rest : from(p) = from(q) => p = q
  BY <1>1
<1>4. \A p \in DOMAIN rows : p # r => \E q \in DOMAIN rest : from(q) = p
  <2> SUFFICES ASSUME NEW p \in DOMAIN rows, p # r
               PROVE  \E q \in DOMAIN rest : from(q) = p
    OBVIOUS
  <2>1. CASE p < r
    BY <1>1, <2>1
  <2>2. CASE ~ (p < r)
    <3>1. p - 1 \in DOMAIN rest /\ from(p - 1) = p
      BY <1>1, <2>2
    <3> QED
      BY <3>1
  <2> QED
    BY <2>1, <2>2
<1> HIDE DEF from
<1>5. Distinct(rest)
  BY <1>1, <1>2, <1>3 DEF Distinct
<1>6. {rest[p] : p \in DOMAIN rest} = {rows[p] : p \in DOMAIN rows} \ {rows[r]}
  BY <1>1, <1>2, <1>4 DEF Distinct
<1> QED
  BY <1>5, <1>6 DEF rest

(* What a `y` that resolves does to one ISO, by the outcome of its unlinks. *)
DeletedFully(r) ==
  disk' = disk \ {isos[r]} /\ sidecars' = sidecars \ {isos[r]} /\ DeleteCompleted(r)
DeletedInPart(r) ==
  /\ isos[r] \in disk /\ isos[r] \in sidecars
  /\ disk' = disk \ {isos[r]} /\ UNCHANGED sidecars /\ DeleteError
DeletedNothing == UNCHANGED <<disk, sidecars>> /\ DeleteError

LEMMA YesOutcome ==
  ASSUME IInv, ListInv, DeleteYes
  PROVE  \E r \in DOMAIN isos :
           /\ asked = isos[r]
           /\ DeletedFully(r) \/ DeletedInPart(r) \/ DeletedNothing
<1> DEFINE r == RealIndex(screen.selected)
<1>1. r # None /\ screen.kind = "ConfirmDelete"
  BY DEF DeleteYes, DeleteTarget, Key
<1>2. r \in DOMAIN isos
  BY <1>1, RealIndexType DEF IInv
<1>3. asked = isos[r]
  BY <1>1 DEF ListInv, PromptFits, Beneath
<1>4. DeletedFully(r) \/ DeletedInPart(r) \/ DeletedNothing
  BY DEF DeleteYes, DeleteTarget, SidecarFails, DeletedFully, DeletedInPart, DeletedNothing
<1> HIDE DEF r
<1> QED
  BY <1>2, <1>3, <1>4

LEMMA YesInv == IInv /\ ListInv /\ DeleteYes => ListInv'
<1> SUFFICES ASSUME IInv, ListInv, DeleteYes PROVE ListInv'
  OBVIOUS
<1>1. PICK r \in DOMAIN isos : DeletedFully(r) \/ DeletedInPart(r) \/ DeletedNothing
  BY YesOutcome
<1>2. isos \in Seq(ISO) /\ Distinct(isos) /\ DeletionIsComplete
  BY DEF IInv, TypeOK, ListInv
<1>3. PromptFits'
  BY <1>1, NoPrompt
  DEF PromptFits, DeletedFully, DeletedInPart, DeletedNothing, DeleteCompleted, DeleteError
<1>4. CASE DeletedFully(r)
  <2>1. isos' = RemoveAt(isos, r)
    BY <1>4 DEF DeletedFully, DeleteCompleted
  <2>2. /\ Distinct(isos')
        /\ {isos'[p] : p \in DOMAIN isos'} = {isos[p] : p \in DOMAIN isos} \ {isos[r]}
    BY <1>2, <2>1, RemoveAtRows
  <2>3. DeletionIsComplete'
    BY <1>2, <1>4, <2>2 DEF DeletionIsComplete, DeletedFully
  <2> QED
    BY <1>3, <2>2, <2>3 DEF ListInv, Distinct
<1>5. CASE DeletedInPart(r)
  BY <1>2, <1>3, <1>5
  DEF ListInv, Distinct, DeletionIsComplete, DeletedInPart, DeleteError
<1>6. CASE DeletedNothing
  BY <1>2, <1>3, <1>6
  DEF ListInv, Distinct, DeletionIsComplete, DeletedNothing, DeleteError
<1> QED
  BY <1>1, <1>4, <1>5, <1>6

LEMMA PromptInv == IInv /\ ListInv /\ (EnterDelete \/ CancelDelete) => ListInv'
<1> SUFFICES ASSUME IInv, ListInv, EnterDelete \/ CancelDelete PROVE ListInv'
  OBVIOUS
<1>1. UNCHANGED <<isos, disk, sidecars, filter, sort_order>>
  BY DEF EnterDelete, CancelDelete, listing, view
<1>2. Distinct(isos)' /\ DeletionIsComplete'
  BY <1>1 DEF ListInv, Distinct, DeletionIsComplete
<1>3. CASE EnterDelete
  <2>1. /\ screen' = ConfirmDelete(screen.selected)
        /\ RealIndex(screen.selected) # None
        /\ asked' = isos[RealIndex(screen.selected)]
    BY <1>3 DEF EnterDelete
  <2>2. Beneath(screen)' = screen' /\ screen'.selected = screen.selected
    BY <2>1 DEF Beneath, ConfirmDelete
  <2>3. PromptFits'
    BY <1>1, <2>1, <2>2, SameRows DEF PromptFits
  <2> QED
    BY <1>2, <2>3 DEF ListInv
<1>4. CASE CancelDelete
  BY <1>2, <1>4, NoPrompt DEF CancelDelete, ListInv, PromptFits
<1> QED
  BY <1>3, <1>4

LEMMA ListInit == Init => ListInv
<1> SUFFICES ASSUME Init PROVE ListInv
  OBVIOUS
<1>1. Distinct(isos)
  BY ScreensAssumption DEF Init, Distinct
<1>2. DeletionIsComplete
  BY DEF Init, DeletionIsComplete
<1>3. PromptFits
  BY NoPrompt DEF Init, PromptFits
<1> QED
  BY <1>1, <1>2, <1>3 DEF ListInv

(* Every other step. *)
LEMMA OtherStays ==
  IInv /\ [Next]_vars => DeleteYes \/ EnterDelete \/ CancelDelete \/ PromptStays
<1> SUFFICES ASSUME IInv, [Next]_vars, ~ DeleteKey PROVE PromptStays
  BY DEF DeleteKey
<1>1. CASE UNCHANGED vars
  BY <1>1 DEF PromptStays, vars, listing, view, history
<1> QED
  BY <1>1, ModalStays, ListStays, VerifyStays, CmdlineStays, KexecStays, NetworkStays,
     CatalogStays DEF Next

LEMMA ListInvariance == Spec => []ListInv
<1>1. IInv /\ ListInv /\ [Next]_vars => ListInv'
  BY OtherStays, StaysInv, YesInv, PromptInv
<1> QED
  BY <1>1, ListInit, Invariance, PTL DEF Spec

-----------------------------------------------------------------------------
(* The list and the data partition agree after any mix of deletions, for   *)
(* any ISOs and sidecars (perform_iso_delete, delete_completed).           *)
THEOREM DeletionCompletes == Spec => []DeletionIsComplete
BY ListInvariance, PTL DEF ListInv

(* Only the ISO the prompt named is ever unlinked or dropped, whatever the *)
(* filter and the sort order were when it was opened (ConfirmDelete holds  *)
(* a view row, and the `y` resolves it again).                             *)
THEOREM DeletesOnlyAsked == Spec => DeletesOnlyWhatWasAsked
<1> DEFINE Gone(i) ==
             \/ i \in disk \ disk'
             \/ \E p \in DOMAIN isos : isos[p] = i /\ \A q \in DOMAIN isos' : isos'[q] # i
<1>1. ASSUME IInv, ListInv, DeleteYes, NEW i \in ISO, Gone(i)
      PROVE  i = asked
  <2>1. PICK r \in DOMAIN isos :
          /\ asked = isos[r]
          /\ DeletedFully(r) \/ DeletedInPart(r) \/ DeletedNothing
    BY <1>1, YesOutcome
  <2>2. CASE DeletedFully(r)
    <3>0. isos \in Seq(ISO) /\ Distinct(isos) /\ isos' = RemoveAt(isos, r)
      BY <1>1, <2>2 DEF DeletedFully, DeleteCompleted, IInv, TypeOK, ListInv
    <3>1. {isos'[p] : p \in DOMAIN isos'} = {isos[p] : p \in DOMAIN isos} \ {isos[r]}
      BY <3>0, RemoveAtRows
    <3>2. disk \ disk' \subseteq {isos[r]}
      BY <2>2 DEF DeletedFully
    <3> QED
      BY <1>1, <2>1, <3>1, <3>2
  <2>3. CASE DeletedInPart(r) \/ DeletedNothing
    BY <1>1, <2>1, <2>3 DEF DeletedInPart, DeletedNothing, DeleteError
  <2> QED
    BY <2>1, <2>2, <2>3
<1>2. ASSUME UNCHANGED <<isos, disk>>, NEW i \in ISO PROVE ~ Gone(i)
  BY <1>2
<1>3. IInv /\ [Next]_vars => DeleteYes \/ UNCHANGED <<isos, disk>>
  BY OtherStays DEF EnterDelete, CancelDelete, PromptStays, listing
<1>4. IInv /\ ListInv /\ [Next]_vars => [\A i \in ISO : Gone(i) => i = asked]_vars
  BY <1>1, <1>2, <1>3
<1> QED
  BY <1>4, Invariance, ListInvariance, PTL DEF Spec, DeletesOnlyWhatWasAsked

(* Vec::remove moves the rows behind the deleted one up, and the overrides *)
(* move with them.                                                         *)
LEMMA OverridesShift ==
  ASSUME IInv, ListInv, NEW r \in DOMAIN isos, DeleteCompleted(r),
         NEW p \in DOMAIN isos, NEW q \in DOMAIN isos', isos[p] = isos'[q]
  PROVE  cmdline_overrides'[q] = cmdline_overrides[p]
<1>1. isos \in Seq(ISO) /\ Distinct(isos) /\ Len(isos) <= Len(Discovered)
  BY DEF IInv, TypeOK, ListInv
<1>0. isos' = RemoveAt(isos, r)
  BY DEF DeleteCompleted
<1>2. /\ DOMAIN isos = 1 .. Len(isos) /\ Len(isos) \in Nat /\ Len(Discovered) \in Nat
      /\ DOMAIN isos' = 1 .. Len(isos) - 1
      /\ isos'[q] = IF q < r THEN isos[q] ELSE isos[q + 1]
  <2>1. /\ DOMAIN isos = 1 .. Len(isos) /\ Len(isos) \in Nat /\ Len(Discovered) \in Nat
    BY <1>1, LenProperties, ScreensAssumption
  <2>2. /\ isos' \in Seq(ISO) /\ Len(isos') = Len(isos) - 1
        /\ \A k \in 1 .. Len(isos) - 1 : isos'[k] = IF k < r THEN isos[k] ELSE isos[k + 1]
    BY <1>0, <1>1, RemoveAtType
  <2>3. DOMAIN isos' = 1 .. Len(isos) - 1
    BY <2>2, LenProperties
  <2> QED
    BY <2>1, <2>2, <2>3
<1>3. p = IF q < r THEN q ELSE q + 1
  BY <1>1, <1>2 DEF Distinct
<1>4. q \in Position /\ (~ (q < r) => q + 1 \in Position)
  BY <1>1, <1>2 DEF Position
<1>5. cmdline_overrides' = ShiftOverrides(cmdline_overrides, r)
  BY DEF DeleteCompleted
<1>6. cmdline_overrides'[q] = IF q < r THEN cmdline_overrides[q] ELSE cmdline_overrides[q + 1]
  BY <1>4, <1>5 DEF ShiftOverrides
<1> QED
  BY <1>3, <1>6

(* The editor's buffer, and nothing else, becomes the override of the ISO  *)
(* on its screen.                                                          *)
LEMMA CommitWrites ==
  ASSUME IInv, ListInv, CommitCmdlineEdit,
         NEW p \in DOMAIN isos, NEW q \in DOMAIN isos', isos[p] = isos'[q]
  PROVE  \/ cmdline_overrides'[q] = cmdline_overrides[p]
         \/ screen = EditCmdline(p, cmdline_overrides'[q])
<1>1. isos' = isos /\ p = q
  BY DEF CommitCmdlineEdit, ListInv, Distinct
<1>2. /\ screen.kind = "EditCmdline"
      /\ cmdline_overrides' = [cmdline_overrides EXCEPT ![screen.selected] = screen.buffer]
  BY DEF CommitCmdlineEdit, Key
<1>3. screen = EditCmdline(screen.selected, screen.buffer)
  BY <1>2 DEF IInv, Fits, Screens, FlowScreens, HomeScreens, OverlayScreens, CatalogScreens,
              ModalScreens, EditCmdline
<1>4. /\ cmdline_overrides \in [Position -> Cmdline \cup {None}]
      /\ screen.selected \in Position
  BY <1>2, ScreenShape DEF IInv, TypeOK, Fits
<1>5. CASE p = screen.selected
  BY <1>1, <1>2, <1>3, <1>4, <1>5
<1>6. CASE p # screen.selected
  BY <1>1, <1>2, <1>4, <1>6
<1> QED
  BY <1>5, <1>6

LEMMA OverridesKept ==
  IInv /\ [Next]_vars => DeleteYes \/ CommitCmdlineEdit \/ UNCHANGED <<isos, cmdline_overrides>>
<1> SUFFICES ASSUME IInv, [Next]_vars, ~ DeleteYes, ~ CommitCmdlineEdit
             PROVE  UNCHANGED <<isos, cmdline_overrides>>
  OBVIOUS
<1>1. CASE ModalKey
  BY <1>1
  DEF ModalKey, RequestQuit, CancelQuit, ConfirmQuitYes, OpenHelp, CloseHelp, listing
<1>2. CASE ListKey
  BY <1>2
  DEF ListKey, MoveSelection, MoveToEdge, TogglePane, CycleSort, OpenFilter, EditFilter,
      FilterCommit, FilterCancel, ChooseShell, ConfirmSelection, DismissBlockedToast,
      CancelConfirmation, listing
<1>3. CASE VerifyKey \/ VerifyReport
  BY <1>3
  DEF VerifyKey, VerifyFromList, VerifyFromConfirm, StartVerify, EscVerify, VerifyReport,
      VerifyDone, VerifyFailed, VerifyDisconnected, listing
<1>4. CASE DeleteKey
  BY <1>4 DEF DeleteKey, EnterDelete, CancelDelete, listing
<1>5. CASE CmdlineKey
  BY <1>5 DEF CmdlineKey, EnterCmdlineEditor, TypeCmdline, CancelCmdlineEdit, listing
<1>6. CASE KexecKey
  BY <1>6
  DEF KexecKey, ConfirmEnter, ConsentYes, CancelConsent, TypeChallenge, TrustChallengeEnter,
      TrustChallengeCancel, DismissError, listing
<1>7. CASE NetworkKey \/ DhcpReport
  BY <1>7
  DEF NetworkKey, EnterNetwork, GrantNetworkUse, CancelNetworkUse, NetworkRefresh,
      NetworkBeginDhcp, CancelNetwork, DhcpReport, DhcpDone, DhcpDisconnected, listing
<1>8. CASE CatalogKey \/ FetchReport
  BY <1>8
  DEF CatalogKey, EnterCatalog, CancelCatalog, CatalogOpenConfirm, CatalogBeginFetch,
      EscCatalogConfirm, FetchReport, FetchEvent, FetchDone, FetchDisconnected, listing
<1>9. CASE UNCHANGED vars
  BY <1>9 DEF vars, listing
<1> QED
  BY <1>1, <1>2, <1>3, <1>4, <1>5, <1>6, <1>7, <1>8, <1>9 DEF Next

(* An ISO keeps its command line across every other key, worker message    *)
(* and deletion, for any list (delete_completed, commit_cmdline_edit).     *)
THEOREM OverridesFollow == Spec => OverridesFollowIso
<1> DEFINE Follows(p, q) ==
             isos[p] = isos'[q] =>
               \/ cmdline_overrides'[q] = cmdline_overrides[p]
               \/ screen = EditCmdline(p, cmdline_overrides'[q])
<1>1. ASSUME IInv, ListInv, [Next]_vars, NEW p \in DOMAIN isos, NEW q \in DOMAIN isos'
      PROVE  Follows(p, q)
  <2> SUFFICES ASSUME isos[p] = isos'[q]
               PROVE  \/ cmdline_overrides'[q] = cmdline_overrides[p]
                      \/ screen = EditCmdline(p, cmdline_overrides'[q])
    OBVIOUS
  <2>1. CASE UNCHANGED <<isos, cmdline_overrides>>
    BY <1>1, <2>1 DEF ListInv, Distinct
  <2>2. CASE CommitCmdlineEdit
    BY <1>1, <2>2, CommitWrites
  <2>3. CASE DeleteYes
    <3>1. PICK r \in DOMAIN isos : DeleteCompleted(r) \/ DeleteError
      BY <1>1, <2>3, YesOutcome DEF DeletedFully, DeletedInPart, DeletedNothing
    <3>2. CASE DeleteCompleted(r)
      BY <1>1, <3>2, OverridesShift
    <3>3. CASE DeleteError
      BY <1>1, <3>3 DEF DeleteError, ListInv, Distinct
    <3> QED
      BY <3>1, <3>2, <3>3
  <2> QED
    BY <1>1, <2>1, <2>2, <2>3, OverridesKept
<1> HIDE DEF Follows
<1>2. IInv /\ ListInv /\ [Next]_vars
        => [\A p \in DOMAIN isos, q \in DOMAIN isos' : Follows(p, q)]_vars
  BY <1>1
<1> USE DEF Follows
<1> QED
  BY <1>2, Invariance, ListInvariance, PTL DEF Spec, OverridesFollowIso

-----------------------------------------------------------------------------
(* The view.  The rows above the parse failures show the ISOs the filter   *)
(* keeps, each ISO once, in the order of the sort.                         *)

(* The row of p is one more than the number of rows above it. *)
LEMMA RowsAbove ==
  ASSUME NEW rows \in Seq(ISO), NEW p \in Visible(rows)
  PROVE  LET above == {q \in Visible(rows) : Sooner(rows, q, p)}
         IN  /\ IsFiniteSet(above) /\ Cardinality(above) \in Nat
             /\ RowOf(rows, p) = 1 + Cardinality(above)
<1> DEFINE above == {q \in Visible(rows) : Sooner(rows, q, p)}
<1>1. IsFiniteSet(above)
  BY VisibleFinite, FS_Subset, above \in SUBSET Visible(rows)
<1> QED
  BY <1>1, FS_CardinalityType DEF RowOf

(* Sooner is a strict total order on the positions of a list. *)
LEMMA SoonerOrders ==
  ASSUME sort_order \in SortOrder, NEW rows \in Seq(ISO),
         NEW p \in DOMAIN rows, NEW q \in DOMAIN rows
  PROVE  /\ ~ Sooner(rows, p, p)
         /\ p # q => Sooner(rows, p, q) \/ Sooner(rows, q, p)
         /\ \A r \in DOMAIN rows :
              Sooner(rows, r, p) /\ Sooner(rows, p, q) => Sooner(rows, r, q)
<1>1. DOMAIN rows \subseteq Nat
  BY LenProperties
<1>2. \A r \in DOMAIN rows : SortRank[sort_order][rows[r]] \in Nat
  BY ElementOfSeq, LenProperties, ScreensAssumption
<1> QED
  BY <1>1, <1>2 DEF Sooner

LEMMA SoonerRows ==
  ASSUME sort_order \in SortOrder, NEW rows \in Seq(ISO),
         NEW p \in Visible(rows), NEW q \in Visible(rows), Sooner(rows, p, q)
  PROVE  RowOf(rows, p) < RowOf(rows, q)
<1> DEFINE above(r) == {s \in Visible(rows) : Sooner(rows, s, r)}
<1>1. Visible(rows) \subseteq DOMAIN rows
  BY VisibleFinite
<1>2. above(p) \cup {p} \subseteq above(q) /\ p \notin above(p)
  BY <1>1, SoonerOrders
<1>3. \A r \in Visible(rows) :
        IsFiniteSet(above(r)) /\ Cardinality(above(r)) \in Nat
        /\ RowOf(rows, r) = 1 + Cardinality(above(r))
  BY RowsAbove
<1> HIDE DEF above
<1>4. Cardinality(above(p) \cup {p}) = Cardinality(above(p)) + 1
  BY <1>2, <1>3, FS_AddElement
<1>5. Cardinality(above(p) \cup {p}) <= Cardinality(above(q))
  BY <1>2, <1>3, FS_Subset
<1> QED
  BY <1>3, <1>4, <1>5

(* An ISO's row is among the first Cardinality(Visible) ones. *)
LEMMA RowInView ==
  ASSUME sort_order \in SortOrder, NEW rows \in Seq(ISO), NEW p \in Visible(rows)
  PROVE  RowOf(rows, p) \in 1 .. Cardinality(Visible(rows))
<1> DEFINE above == {q \in Visible(rows) : Sooner(rows, q, p)}
<1>1. Cardinality(above) \in Nat /\ RowOf(rows, p) = 1 + Cardinality(above)
  BY RowsAbove
<1>2. above \in SUBSET (Visible(rows) \ {p})
  BY VisibleFinite, SoonerOrders
<1>3. IsFiniteSet(Visible(rows)) /\ Cardinality(Visible(rows)) \in Nat
  BY VisibleFinite, FS_CardinalityType
<1> HIDE DEF above
<1>4. /\ IsFiniteSet(Visible(rows) \ {p})
      /\ Cardinality(Visible(rows) \ {p}) = Cardinality(Visible(rows)) - 1
  BY <1>3, FS_RemoveElement
<1>5. Cardinality(above) <= Cardinality(Visible(rows) \ {p})
  BY <1>2, <1>4, FS_Subset
<1> QED
  BY <1>1, <1>3, <1>4, <1>5

(* No row among those is empty: there are as many ISOs as rows. *)
LEMMA RowIsTaken ==
  ASSUME sort_order \in SortOrder, NEW rows \in Seq(ISO),
         NEW c \in 1 .. Cardinality(Visible(rows))
  PROVE  \E p \in Visible(rows) : RowOf(rows, p) = c
<1> DEFINE n == Cardinality(Visible(rows))
           f == [p \in Visible(rows) |-> RowOf(rows, p)]
<1>1. IsFiniteSet(Visible(rows)) /\ n \in Nat
  BY VisibleFinite, FS_CardinalityType
<1>2. \A p \in Visible(rows) : RowOf(rows, p) \in 1 .. n
  BY RowInView
<1> SUFFICES ASSUME \A p \in Visible(rows) : RowOf(rows, p) # c PROVE FALSE
  OBVIOUS
<1>3. f \in [Visible(rows) -> (1 .. n) \ {c}]
  BY <1>2
<1> HIDE DEF f
<1>4. IsFiniteSet(1 .. n) /\ Cardinality(1 .. n) = n
  BY <1>1, FS_Interval
<1>5. c \in 1 .. n
  OBVIOUS
<1> HIDE DEF n
<1>6. IsFiniteSet((1 .. n) \ {c}) /\ Cardinality((1 .. n) \ {c}) = n - 1
  BY <1>4, <1>5, FS_RemoveElement
<1>7. Cardinality((1 .. n) \ {c}) < Cardinality(Visible(rows))
  BY <1>1, <1>6 DEF n
<1>8. \E p, q \in Visible(rows) : p # q /\ f[p] = f[q]
  BY <1>1, <1>3, <1>6, <1>7, FS_PigeonHole
<1>9. PICK p \in Visible(rows), q \in Visible(rows) : p # q /\ RowOf(rows, p) = RowOf(rows, q)
  BY <1>8 DEF f
<1>10. Sooner(rows, p, q) \/ Sooner(rows, q, p)
  BY <1>9, VisibleFinite, SoonerOrders
<1>11. RowOf(rows, p) \in Nat /\ RowOf(rows, q) \in Nat
  BY <1>1, <1>2 DEF n
<1> QED
  BY <1>9, <1>10, <1>11, SoonerRows

(* RealIndex and RowOf undo each other. *)
LEMMA RowsAndPositions ==
  ASSUME TypeOK
  PROVE  /\ \A p \in Visible(isos) : RealIndex(RowOf(isos, p)) = p
         /\ \A c \in 1 .. Cardinality(Visible(isos)) :
              RealIndex(c) \in Visible(isos) /\ RowOf(isos, RealIndex(c)) = c
         /\ \A c \in Row : c \notin 1 .. Cardinality(Visible(isos)) => RealIndex(c) = None
<1>1. isos \in Seq(ISO) /\ sort_order \in SortOrder
  BY DEF TypeOK
<1>2. \A p \in Visible(isos) : RowOf(isos, p) \in 1 .. Cardinality(Visible(isos))
  BY <1>1, RowInView
<1>3. ASSUME NEW p \in Visible(isos), NEW q \in Visible(isos), RowOf(isos, p) = RowOf(isos, q)
      PROVE  p = q
  <2>1. RowOf(isos, p) \in Nat /\ RowOf(isos, q) \in Nat
    BY <1>2
  <2>2. ~ Sooner(isos, p, q) /\ ~ Sooner(isos, q, p)
    BY <1>1, <1>3, <2>1, SoonerRows
  <2> QED
    BY <1>1, <2>2, VisibleFinite, SoonerOrders
<1>4. \A c \in 1 .. Cardinality(Visible(isos)) : \E p \in Visible(isos) : RowOf(isos, p) = c
  BY <1>1, RowIsTaken
<1>5. \A c : (\E p \in Visible(isos) : RowOf(isos, p) = c)
               => RealIndex(c) \in Visible(isos) /\ RowOf(isos, RealIndex(c)) = c
  <2> TAKE c
  <2> DEFINE here == {p \in Visible(isos) : RowOf(isos, p) = c}
  <2> HAVE \E p \in Visible(isos) : RowOf(isos, p) = c
  <2>1. here # {}
    OBVIOUS
  <2>2. RealIndex(c) = CHOOSE p \in here : TRUE
    BY <2>1 DEF RealIndex
  <2>3. RealIndex(c) \in here
    BY <2>1, <2>2
  <2> QED
    BY <2>3
<1>6. \A c : (\A p \in Visible(isos) : RowOf(isos, p) # c) => RealIndex(c) = None
  BY DEF RealIndex
<1> QED
  BY <1>2, <1>3, <1>4, <1>5, <1>6

(* The list is what its rows promise: the first rows are the ISOs the      *)
(* filter keeps, each once, in the order of the sort, and a row is an      *)
(* ISO's, a parse failure's or the shell's and never two of these, so that *)
(* Enter does one thing on it (visible_entries, visible_indices, view_len, *)
(* is_shell_row of state.rs).                                              *)
THEOREM RowsShowEachIso ==
  Spec => [] /\ \A p \in Visible(isos) : RealIndex(RowOf(isos, p)) = p
             /\ \A c, d \in 1 .. Cardinality(Visible(isos)) :
                  c < d => Sooner(isos, RealIndex(c), RealIndex(d))
             /\ \A c \in 1 .. ViewLen(isos) :
                  \/ RealIndex(c) # None /\ ~ AtFailed(c) /\ ~ AtShell(c)
                  \/ RealIndex(c) = None /\ AtFailed(c) /\ ~ AtShell(c)
                  \/ RealIndex(c) = None /\ ~ AtFailed(c) /\ AtShell(c)
<1> DEFINE n == Cardinality(Visible(isos))
           Rows == /\ \A p \in Visible(isos) : RealIndex(RowOf(isos, p)) = p
                   /\ \A c, d \in 1 .. n : c < d => Sooner(isos, RealIndex(c), RealIndex(d))
                   /\ \A c \in 1 .. ViewLen(isos) :
                        \/ RealIndex(c) # None /\ ~ AtFailed(c) /\ ~ AtShell(c)
                        \/ RealIndex(c) = None /\ AtFailed(c) /\ ~ AtShell(c)
                        \/ RealIndex(c) = None /\ ~ AtFailed(c) /\ AtShell(c)
<1>1. ASSUME TypeOK PROVE Rows
  <2>1. isos \in Seq(ISO) /\ sort_order \in SortOrder
    BY <1>1 DEF TypeOK
  <2>2. Visible(isos) \subseteq DOMAIN isos /\ DOMAIN isos \subseteq Nat
    BY <2>1, VisibleFinite, LenProperties
  <2>3. n \in Nat /\ ViewLen(isos) \in Nat
    BY <2>1, VisibleFinite, FS_CardinalityType DEF Row
  <2>4. FailedShown \in Nat /\ ViewLen(isos) = n + FailedShown + 1
    <3>1. IsFiniteSet(FailedIso \cap Matches[filter])
      BY ScreensAssumption, FS_Subset, FailedIso \cap Matches[filter] \in SUBSET FailedIso
    <3> QED
      BY <3>1, FS_CardinalityType DEF FailedShown, ViewLen
  <2>5. ASSUME NEW c \in 1 .. n, NEW d \in 1 .. n, c < d
        PROVE  Sooner(isos, RealIndex(c), RealIndex(d))
    <3> DEFINE p == RealIndex(c)
               q == RealIndex(d)
    <3>1. p \in Visible(isos) /\ q \in Visible(isos) /\ RowOf(isos, p) = c /\ RowOf(isos, q) = d
      BY <1>1, RowsAndPositions
    <3> HIDE DEF p, q
    <3>2. p # q /\ ~ Sooner(isos, q, p)
      BY <2>1, <2>3, <2>5, <3>1, SoonerRows
    <3>3. Sooner(isos, p, q)
      BY <2>1, <2>2, <3>1, <3>2, SoonerOrders
    <3> QED
      BY <3>3 DEF p, q
  <2>6. ASSUME NEW c \in 1 .. ViewLen(isos)
        PROVE  /\ RealIndex(c) # None <=> c <= n
               /\ AtFailed(c) <=> n < c /\ c < ViewLen(isos)
               /\ AtShell(c) <=> c = ViewLen(isos)
    <3>1. c \in Row
      BY <2>3 DEF Row
    <3>2. CASE c <= n
      <4>1. RealIndex(c) \in Visible(isos)
        BY <1>1, <2>3, <3>2, RowsAndPositions
      <4> QED
        BY <2>2, <3>2, <4>1, ScreensAssumption DEF AtFailed, AtShell
    <3>3. CASE ~ (c <= n)
      BY <1>1, <2>3, <3>1, <3>3, RowsAndPositions DEF AtFailed, AtShell
    <3> QED
      BY <3>2, <3>3
  <2> HIDE DEF n
  <2>7. \A c \in 1 .. ViewLen(isos) : c \in Nat /\ ViewLen(isos) \in Nat /\ n < ViewLen(isos)
    BY <2>3, <2>4
  <2>8. \A p \in Visible(isos) : RealIndex(RowOf(isos, p)) = p
    BY <1>1, RowsAndPositions
  <2>9. \A c \in 1 .. ViewLen(isos) :
          \/ RealIndex(c) # None /\ ~ AtFailed(c) /\ ~ AtShell(c)
          \/ RealIndex(c) = None /\ AtFailed(c) /\ ~ AtShell(c)
          \/ RealIndex(c) = None /\ ~ AtFailed(c) /\ AtShell(c)
    BY <2>3, <2>6, <2>7
  <2> QED
    BY <2>5, <2>8, <2>9
<1>2. IInv => Rows
  BY <1>1 DEF IInv
<1> QED
  BY <1>2, Invariance, PTL

(* Esc on the Confirm screen puts the cursor on the ISO it was about, in   *)
(* whatever order the view is by then (cancel_confirmation).               *)
THEOREM EscFindsTheIso ==
  Spec => [][screen.kind = "Confirm" /\ screen'.kind = "List"
               /\ screen.selected \in Visible(isos)
               => RealIndex(screen'.selected) = screen.selected]_vars
<1> DEFINE A == screen.kind = "Confirm" /\ screen'.kind = "List" /\ screen.selected \in Visible(isos)
                  => RealIndex(screen'.selected) = screen.selected
<1>1. ASSUME TypeOK, CancelConfirmation PROVE A
  <2>1. screen.selected \in Visible(isos) => screen'.selected = RowOf(isos, screen.selected)
    BY <1>1 DEF CancelConfirmation, List
  <2>2. \A c : RealIndex(c)' = RealIndex(c)
    BY <1>1, SameRows DEF CancelConfirmation, listing, view
  <2>3. \A p \in Visible(isos) : RealIndex(RowOf(isos, p)) = p
    BY <1>1, RowsAndPositions
  <2> QED
    BY <2>1, <2>2, <2>3
<1>2. ASSUME screen.kind = "Confirm", [Next]_vars, ~ CancelConfirmation
      PROVE  screen'.kind # "List"
  <2>1. CASE ModalKey
    BY <1>2, <2>1 DEF ModalKey, RequestQuit, CancelQuit, ConfirmQuitYes, OpenHelp, CloseHelp,
         Key, Help
  <2>2. CASE ListKey
    BY <1>2, <2>2
    DEF ListKey, MoveSelection, MoveToEdge, TogglePane, CycleSort, OpenFilter, EditFilter,
        FilterCommit, FilterCancel, ChooseShell, ConfirmSelection, DismissBlockedToast, Key
  <2>3. CASE VerifyKey \/ VerifyReport
    BY <1>2, <2>3
    DEF VerifyKey, VerifyFromList, VerifyFromConfirm, EscVerify, StartVerify, Verifying,
        VerifyReport, VerifyDone, VerifyFinish, VerifyFailed, CancelVerify,
        VerifyDisconnected, Key
  <2>4. CASE DeleteKey \/ CmdlineKey
    BY <1>2, <2>4
    DEF DeleteKey, EnterDelete, CancelDelete, DeleteYes, CmdlineKey, EnterCmdlineEditor,
        TypeCmdline, CommitCmdlineEdit, CancelCmdlineEdit, EditCmdline, Key
  <2>5. CASE KexecKey
    <3>1. ConfirmEnter
      BY <1>2, <2>5
      DEF KexecKey, ConsentYes, CancelConsent, TypeChallenge, TrustChallengeEnter,
          TrustChallengeCancel, DismissError, Key
    <3>2. screen' \in {Consent(screen.selected), TrustChallenge(screen.selected, "partial"),
                       Kexeced}
          \/ \E r : screen' = Error("kexec", r)
      BY <3>1 DEF ConfirmEnter, AttemptKexec, KexecError
    <3> QED
      BY <3>2 DEF Consent, TrustChallenge, Kexeced, Error
  <2>6. CASE NetworkKey \/ DhcpReport
    BY <1>2, <2>6
    DEF NetworkKey, EnterNetwork, GrantNetworkUse, CancelNetworkUse, NetworkRefresh,
        NetworkBeginDhcp, CancelNetwork, DhcpReport, DhcpDone, NetworkFinishDhcp,
        DhcpDisconnected, Network, ConsentNetworkUse, Key
  <2>7. CASE CatalogKey \/ FetchReport
    BY <1>2, <2>7
    DEF CatalogKey, EnterCatalog, CancelCatalog, CatalogOpenConfirm, CatalogBeginFetch,
        EscCatalogConfirm, FetchReport, FetchEvent, CatalogProgress, FetchDone,
        CatalogFinishFetch, FetchDisconnected, Catalog, Key
  <2>8. CASE UNCHANGED vars
    BY <1>2, <2>8 DEF vars
  <2> QED
    BY <1>2, <2>1, <2>2, <2>3, <2>4, <2>5, <2>6, <2>7, <2>8 DEF Next
<1>3. IInv /\ [Next]_vars => [A]_vars
  BY <1>1, <1>2 DEF IInv
<1> QED
  BY <1>3, Invariance, PTL DEF Spec

-----------------------------------------------------------------------------
(* The boot flow implements BootGate.  What the mapping makes of a screen. *)

LEMMA OffFlow ==
  ASSUME NEW s,
         \/ \E c : s \in {List(c), ConfirmDelete(c), BlockedToast(c)}
         \/ \E cause, r : s = Error(cause, r)
         \/ s \in {Quitting, Kexeced}
  PROVE  Flow(s).kind \notin IsoKinds
BY DEF Flow, Beneath, IsoKinds, List, ConfirmDelete, BlockedToast, Error, Quitting, Kexeced

LEMMA OnFlow ==
  ASSUME NEW p, NEW s,
         \/ s \in {Confirm(p), Consent(p), Verifying(p)}
         \/ \E b : s = EditCmdline(p, b)
  PROVE  Flow(s).kind \in IsoKinds \ {"TrustChallenge"} /\ Flow(s).selected = p
<1>1. CASE s \in {Confirm(p), Consent(p), Verifying(p)}
  BY <1>1 DEF Flow, Beneath, IsoKinds, Confirm, Consent, Verifying
<1>2. CASE \E b : s = EditCmdline(p, b)
  BY <1>2 DEF Flow, Beneath, IsoKinds, EditCmdline
<1> QED
  BY <1>1, <1>2

LEMMA ChallengeFlow == \A p, b : Flow(TrustChallenge(p, b)) = TrustChallenge(p, b)
BY DEF Flow, Beneath, TrustChallenge

LEMMA OverlayFlow ==
  /\ \A s : Flow(ConsentNetworkUse(s)) = s /\ Flow(Catalog(s)) = s
  /\ \A op, i, s : Flow(Network(op, i, s)) = s
  /\ \A e, op, s : Flow(CatalogConfirm(e, op, s)) = s.prior
  /\ \A s \in HomeScreens : Flow(s) = s
  /\ \A s \in CatalogScreens : Flow(s) = s.prior
BY DEF Flow, Beneath, ConsentNetworkUse, Catalog, Network, CatalogConfirm, HomeScreens,
       CatalogScreens

(* The ISO on screen, now and after the step. *)
LEMMA PickedNow ==
  ASSUME IInv
  PROVE  /\ Flow(screen).kind \in IsoKinds =>
              /\ OnScreen = isos[Flow(screen).selected]
              /\ OnScreen \in Listed /\ OnScreen \in ISO /\ OnScreen # None
         /\ Flow(screen).kind \notin IsoKinds => OnScreen = None /\ ~ Answered
<1>1. CASE Flow(screen).kind \in IsoKinds
  <2>1. Flow(screen).selected \in DOMAIN isos /\ isos \in Seq(ISO)
    BY <1>1 DEF IInv, TypeOK, Fits, FlowFits
  <2>2. isos[Flow(screen).selected] \in ISO
    BY <2>1, ElementOfSeq, LenProperties
  <2> QED
    BY <1>1, <2>1, <2>2, ScreensAssumption DEF OnScreen, Listed
<1>2. CASE Flow(screen).kind \notin IsoKinds
  BY <1>2 DEF OnScreen, Answered, IsoKinds
<1> QED
  BY <1>1, <1>2

(* A screen of the boot flow that nothing covers. *)
LEMMA PickedHere ==
  ASSUME IInv, screen.kind \in IsoKinds
  PROVE  /\ Flow(screen) = screen
         /\ OnScreen = isos[screen.selected]
         /\ OnScreen \in Listed /\ OnScreen \in ISO /\ OnScreen # None
         /\ Answered <=> screen.kind = "TrustChallenge" /\ screen.buffer = "boot"
<1>1. Flow(screen) = screen
  BY DEF Flow, Beneath, IsoKinds
<1> QED
  BY <1>1, PickedNow DEF Answered

LEMMA OffNext ==
  ASSUME Flow(screen').kind \notin IsoKinds PROVE OnScreen' = None /\ ~ Answered'
BY DEF OnScreen, Answered, IsoKinds

LEMMA OnNext ==
  ASSUME NEW p, Flow(screen').kind \in IsoKinds \ {"TrustChallenge"}, Flow(screen').selected = p
  PROVE  OnScreen' = isos'[p] /\ ~ Answered'
BY DEF OnScreen, Answered

LEMMA ChallengeNext ==
  ASSUME NEW p, NEW b, screen' = TrustChallenge(p, b)
  PROVE  OnScreen' = isos'[p] /\ (Answered' <=> b = "boot")
<1>1. Flow(screen') = TrustChallenge(p, b)
  BY ChallengeFlow
<1> QED
  BY <1>1 DEF OnScreen, Answered, TrustChallenge, IsoKinds

-----------------------------------------------------------------------------
(* The kinds of step the abstract specification sees. *)

gateState == <<isos, cmdline_overrides, hash_verification, session_consent, exec>>

LEMMA ListingKept ==
  ASSUME UNCHANGED <<isos, cmdline_overrides>>
  PROVE  UNCHANGED <<Listed, OverrideOf>>
<1>1. UNCHANGED Listed
  BY DEF Listed
<1> QED
  BY <1>1 DEF OverrideOf

LEMMA NothingHappens ==
  ASSUME UNCHANGED gateState, OnScreen' = OnScreen, Answered' <=> Answered
  PROVE  UNCHANGED Gate!vars
<1>1. Answered' = Answered
  BY Zenon DEF Answered
<1> QED
  BY <1>1, ListingKept DEF gateState, Gate!vars

LEMMA SameFlow ==
  ASSUME UNCHANGED gateState, Flow(screen') = Flow(screen)
  PROVE  UNCHANGED Gate!vars
<1>1. OnScreen' = OnScreen /\ (Answered' <=> Answered)
  BY DEF OnScreen, Answered, gateState
<1> QED
  BY <1>1, NothingHappens

LEMMA FlowLeft ==
  ASSUME IInv, UNCHANGED gateState, Flow(screen').kind \notin IsoKinds
  PROVE  [Gate!Next]_Gate!vars
<1>1. OnScreen' = None /\ ~ Answered'
  BY OffNext
<1>2. CASE Flow(screen).kind \in IsoKinds
  <2>1. OnScreen # None
    BY <1>2, PickedNow
  <2>2. Gate!Leave
    BY <1>1, <2>1, ListingKept DEF Gate!Leave, gateState
  <2> QED
    BY <2>2 DEF Gate!Next
<1>3. CASE Flow(screen).kind \notin IsoKinds
  BY <1>1, <1>3, PickedNow, NothingHappens
<1> QED
  BY <1>2, <1>3

LEMMA FlowEntered ==
  ASSUME IInv, UNCHANGED gateState, Flow(screen).kind \notin IsoKinds,
         NEW p \in DOMAIN isos,
         Flow(screen').kind \in IsoKinds \ {"TrustChallenge"}, Flow(screen').selected = p
  PROVE  Gate!Next
<1>1. OnScreen = None /\ ~ Answered
  BY PickedNow
<1>2. OnScreen' = isos[p] /\ ~ Answered'
  BY OnNext DEF gateState
<1>3. isos[p] \in Listed
  BY DEF Listed
<1>4. Answered' = Answered
  BY <1>1, <1>2, Zenon DEF Answered
<1>5. Gate!Pick
  BY <1>1, <1>2, <1>3, <1>4, ListingKept DEF Gate!Pick, gateState
<1> QED
  BY <1>5 DEF Gate!Next

(* Another screen about the same ISO. *)
LEMMA FlowStays ==
  ASSUME IInv, UNCHANGED gateState, screen.kind \in IsoKinds \ {"TrustChallenge"},
         Flow(screen').kind \in IsoKinds \ {"TrustChallenge"},
         Flow(screen').selected = screen.selected
  PROVE  UNCHANGED Gate!vars
<1>1. OnScreen = isos[screen.selected] /\ ~ Answered
  BY PickedHere
<1>2. OnScreen' = isos[screen.selected] /\ ~ Answered'
  BY OnNext DEF gateState
<1> QED
  BY <1>1, <1>2, NothingHappens

-----------------------------------------------------------------------------
(* Each group of keys and messages. *)

LEMMA ModalGate == IInv /\ ModalKey => [Gate!Next]_Gate!vars
<1> SUFFICES ASSUME IInv, ModalKey PROVE [Gate!Next]_Gate!vars
  OBVIOUS
<1>1. UNCHANGED gateState
  BY DEF ModalKey, RequestQuit, CancelQuit, ConfirmQuitYes, OpenHelp, CloseHelp, listing,
         verify, session, history, gateState
<1>2. CASE ConfirmQuitYes
  BY <1>1, <1>2, OffFlow, FlowLeft DEF ConfirmQuitYes
<1>3. CASE ~ ConfirmQuitYes
  <2>1. Beneath(screen)' = Beneath(screen)
    BY <1>3, ModalBeneath
  <2> QED
    BY <1>1, <2>1, SameFlow DEF Flow
<1> QED
  BY <1>2, <1>3

LEMMA ListGate == IInv /\ ListKey => [Gate!Next]_Gate!vars
<1> SUFFICES ASSUME IInv, ListKey PROVE [Gate!Next]_Gate!vars
  OBVIOUS
<1>1. UNCHANGED gateState
  BY DEF ListKey, MoveSelection, MoveToEdge, TogglePane, CycleSort, OpenFilter, EditFilter,
         FilterCommit, FilterCancel, ChooseShell, ConfirmSelection, DismissBlockedToast,
         CancelConfirmation, listing, verify, session, history, gateState
<1>2. CASE TogglePane \/ OpenFilter \/ FilterCommit
  <2>1. screen' = screen
    BY <1>2 DEF TogglePane, OpenFilter, FilterCommit
  <2> QED
    BY <1>1, <2>1, SameFlow
<1>3. CASE MoveSelection \/ MoveToEdge \/ CycleSort \/ EditFilter \/ FilterCancel
  <2>1. \E c : screen' = List(c)
    BY <1>3 DEF MoveSelection, MoveToEdge, CycleSort, EditFilter, FilterCancel
  <2> QED
    BY <1>1, <2>1, OffFlow, FlowLeft
<1>4. CASE ChooseShell \/ DismissBlockedToast \/ CancelConfirmation
  <2>1. screen' = Quitting \/ \E c : screen' = List(c)
    BY <1>4 DEF ChooseShell, DismissBlockedToast, CancelConfirmation
  <2> QED
    BY <1>1, <2>1, OffFlow, FlowLeft
<1>5. CASE ConfirmSelection
  <2>1. CASE screen' = BlockedToast(screen.selected)
    BY <1>1, <2>1, OffFlow, FlowLeft
  <2>2. CASE /\ RealIndex(screen.selected) # None
             /\ screen' = Confirm(RealIndex(screen.selected))
    <3>1. RealIndex(screen.selected) \in DOMAIN isos
      BY <2>2, RealIndexType DEF IInv
    <3>2. Flow(screen).kind \notin IsoKinds
      BY <1>5 DEF ConfirmSelection, Key, Flow, Beneath, IsoKinds
    <3> QED
      BY <1>1, <2>2, <3>1, <3>2, OnFlow, FlowEntered
  <2> QED
    BY <1>5, <2>1, <2>2 DEF ConfirmSelection
<1> QED
  BY <1>2, <1>3, <1>4, <1>5 DEF ListKey

(* The verdict of the worker goes to the ISO on its screen. *)
LEMMA VerdictGate ==
  ASSUME IInv, screen.kind = "Verifying", NEW verdict \in Verdict,
         hash_verification' = [hash_verification EXCEPT ![isos[screen.selected]] = verdict],
         screen' = Confirm(screen.selected),
         UNCHANGED <<isos, cmdline_overrides, session_consent, exec>>
  PROVE  Gate!Next
<1>1. OnScreen = isos[screen.selected] /\ OnScreen # None /\ ~ Answered
  BY PickedHere DEF IsoKinds
<1>2. OnScreen' = isos[screen.selected] /\ ~ Answered'
  BY OnFlow, OnNext
<1>3. Answered' = Answered
  BY <1>1, <1>2, Zenon DEF Answered
<1>4. Gate!Judge
  BY <1>1, <1>2, <1>3, ListingKept DEF Gate!Judge
<1> QED
  BY <1>4 DEF Gate!Next

LEMMA VerifyGate == IInv /\ (VerifyKey \/ VerifyReport) => [Gate!Next]_Gate!vars
<1> SUFFICES ASSUME IInv, VerifyKey \/ VerifyReport PROVE [Gate!Next]_Gate!vars
  OBVIOUS
<1>1. UNCHANGED <<isos, cmdline_overrides, session_consent, exec>>
  BY DEF VerifyKey, VerifyFromList, VerifyFromConfirm, StartVerify, EscVerify, VerifyReport,
         VerifyDone, VerifyFailed, VerifyDisconnected, listing, session, history
<1>2. CASE VerifyFromList
  <2>1. UNCHANGED gateState /\ screen' = Verifying(RealIndex(screen.selected))
    BY <1>1, <1>2 DEF VerifyFromList, StartVerify, gateState
  <2>2. RealIndex(screen.selected) \in DOMAIN isos
    BY <1>2, RealIndexType DEF VerifyFromList, IInv
  <2>3. Flow(screen).kind \notin IsoKinds
    BY <1>2 DEF VerifyFromList, Key, Flow, Beneath, IsoKinds
  <2> QED
    BY <2>1, <2>2, <2>3, OnFlow, FlowEntered
<1>3. CASE VerifyFromConfirm
  <2>1. UNCHANGED gateState /\ screen' = Verifying(screen.selected) /\ screen.kind = "Confirm"
    BY <1>1, <1>3 DEF VerifyFromConfirm, StartVerify, Key, gateState
  <2> QED
    BY <2>1, OnFlow, FlowStays DEF IsoKinds
<1>4. ASSUME UNCHANGED gateState, CancelVerify PROVE UNCHANGED Gate!vars
  <2>1. CASE screen' = screen
    BY <1>4, <2>1, SameFlow
  <2>2. CASE screen.kind = "Verifying" /\ screen' = Confirm(screen.selected)
    BY <1>4, <2>2, OnFlow, FlowStays DEF IsoKinds
  <2> QED
    BY <1>4, <2>1, <2>2 DEF CancelVerify
<1>5. CASE EscVerify \/ VerifyFailed
  BY <1>1, <1>4, <1>5 DEF EscVerify, VerifyFailed, gateState
<1>6. CASE VerifyDone
  <2>1. PICK verdict \in Verdict : VerifyFinish(verdict)
    BY <1>6 DEF VerifyDone
  <2>2. CASE screen.kind = "Verifying"
    BY <1>1, <2>1, <2>2, VerdictGate DEF VerifyFinish
  <2>3. CASE screen.kind # "Verifying"
    BY <1>1, <2>1, <2>3, SameFlow DEF VerifyFinish, gateState
  <2> QED
    BY <2>2, <2>3
<1>7. CASE VerifyDisconnected
  BY <1>1, <1>7, SameFlow DEF VerifyDisconnected, gateState
<1> QED
  BY <1>2, <1>3, <1>5, <1>6, <1>7 DEF VerifyKey, VerifyReport

(* By ISO, an override is where its row is. *)
LEMMA OverrideAt ==
  ASSUME Distinct(isos), NEW p \in DOMAIN isos
  PROVE  isos[p] \in Listed /\ OverrideOf[isos[p]] = cmdline_overrides[p]
<1>1. \A q \in DOMAIN isos : isos[q] = isos[p] => q = p
  BY DEF Distinct
<1>2. (CHOOSE q \in DOMAIN isos : isos[q] = isos[p]) = p
  BY <1>1
<1> QED
  BY <1>2 DEF Listed, OverrideOf

LEMMA DeletedGate ==
  ASSUME IInv, ListInv, NEW r \in DOMAIN isos, DeletedFully(r),
         UNCHANGED <<hash_verification, session_consent, exec>>,
         Flow(screen).kind \notin IsoKinds
  PROVE  Gate!Next
<1>1. isos' = RemoveAt(isos, r) /\ isos \in Seq(ISO) /\ Distinct(isos)
  BY DEF DeletedFully, DeleteCompleted, IInv, TypeOK, ListInv
<1>2. Distinct(isos') /\ Listed' = Listed \ {isos[r]}
  BY <1>1, RemoveAtRows DEF Listed
<1>3. OnScreen = None /\ ~ Answered
  BY PickedNow
<1>4. OnScreen' = None /\ ~ Answered'
  BY OffFlow, OffNext DEF DeletedFully, DeleteCompleted
<1>5. Answered' = Answered
  BY <1>3, <1>4, Zenon DEF Answered
<1>6. ASSUME NEW i \in Listed' PROVE OverrideOf'[i] = OverrideOf[i]
  <2>1. PICK q \in DOMAIN isos' : isos'[q] = i
    BY DEF Listed
  <2>2. PICK p \in DOMAIN isos : isos[p] = i
    BY <1>2 DEF Listed
  <2>3. cmdline_overrides'[q] = cmdline_overrides[p]
    BY <2>1, <2>2, OverridesShift DEF DeletedFully
  <2>4. OverrideOf[i] = cmdline_overrides[p]
    BY <1>1, <2>2, OverrideAt
  <2>5. OverrideOf'[i] = cmdline_overrides'[q]
    <3>1. \A k \in DOMAIN isos' : isos'[k] = i => k = q
      BY <1>2, <2>1 DEF Distinct
    <3>2. (CHOOSE k \in DOMAIN isos' : isos'[k] = i) = q
      BY <2>1, <3>1
    <3> QED
      BY <3>2 DEF OverrideOf
  <2> QED
    BY <2>3, <2>4, <2>5
<1>7. OverrideOf' = [i \in Listed' |-> OverrideOf[i]]
  <2>1. OverrideOf' = [i \in Listed' |-> OverrideOf'[i]]
    BY DEF OverrideOf
  <2> QED
    BY <1>6, <2>1
<1>8. isos[r] \in Listed
  BY DEF Listed
<1>9. Gate!Delete
  BY <1>2, <1>3, <1>4, <1>5, <1>7, <1>8 DEF Gate!Delete
<1> QED
  BY <1>9 DEF Gate!Next

LEMMA DeleteGate == IInv /\ ListInv /\ DeleteKey => [Gate!Next]_Gate!vars
<1> SUFFICES ASSUME IInv, ListInv, DeleteKey PROVE [Gate!Next]_Gate!vars
  OBVIOUS
<1>1. CASE EnterDelete \/ CancelDelete
  <2>1. UNCHANGED gateState
    BY <1>1 DEF EnterDelete, CancelDelete, listing, verify, session, gateState
  <2>2. screen' \in {ConfirmDelete(screen.selected), List(screen.selected)}
    BY <1>1 DEF EnterDelete, CancelDelete
  <2> QED
    BY <2>1, <2>2, OffFlow, FlowLeft
<1>2. CASE DeleteYes
  <2>1. UNCHANGED <<hash_verification, session_consent, exec>>
    BY <1>2 DEF DeleteYes, verify, session
  <2>2. PICK r \in DOMAIN isos : DeletedFully(r) \/ DeletedInPart(r) \/ DeletedNothing
    BY <1>2, YesOutcome
  <2>3. CASE DeletedFully(r)
    <3>1. Flow(screen).kind \notin IsoKinds
      BY <1>2 DEF DeleteYes, Key, Flow, Beneath, IsoKinds
    <3> QED
      BY <2>1, <2>3, <3>1, DeletedGate
  <2>4. CASE DeleteError
    <3>1. UNCHANGED gateState /\ \E c, q : screen' = Error(c, q)
      BY <2>1, <2>4 DEF DeleteError, gateState
    <3> QED
      BY <3>1, OffFlow, FlowLeft
  <2> QED
    BY <2>2, <2>3, <2>4 DEF DeletedInPart, DeletedNothing
<1> QED
  BY <1>1, <1>2 DEF DeleteKey

LEMMA CommitGate == IInv /\ ListInv /\ CommitCmdlineEdit => Gate!Next
<1> SUFFICES ASSUME IInv, ListInv, CommitCmdlineEdit PROVE Gate!Next
  OBVIOUS
<1> DEFINE p == screen.selected
<1>1. screen.kind = "EditCmdline" /\ screen.kind \in IsoKinds
  BY DEF CommitCmdlineEdit, Key, IsoKinds
<1>2. p \in DOMAIN isos /\ p \in Position /\ Distinct(isos)
  BY <1>1, IsoOnScreen DEF ListInv
<1>3. OnScreen = isos[p] /\ OnScreen # None /\ OnScreen \in Listed /\ ~ Answered
  BY <1>1, PickedHere
<1>4. /\ UNCHANGED <<isos, hash_verification, session_consent, exec>>
      /\ cmdline_overrides' = [cmdline_overrides EXCEPT ![p] = screen.buffer]
      /\ screen' = Confirm(p)
  BY DEF CommitCmdlineEdit, verify, session, history
<1>5. OnScreen' = isos[p] /\ ~ Answered'
  BY <1>4, OnFlow, OnNext
<1>6. Answered' = Answered
  BY <1>3, <1>5, Zenon DEF Answered
<1>7. screen.buffer \in Cmdline
  BY <1>1, ScreenShape DEF IInv, Fits
<1>8. Listed' = Listed
  BY <1>4 DEF Listed
<1>9. OverrideOf' = [OverrideOf EXCEPT ![isos[p]] = screen.buffer]
  <2> DEFINE at(i) == CHOOSE q \in DOMAIN isos : isos[q] = i
  <2>1. \A i \in Listed : at(i) \in DOMAIN isos /\ isos[at(i)] = i
    BY DEF Listed
  <2>2. \A i \in Listed : at(i) \in Position
    BY <2>1, LenProperties, ScreensAssumption DEF IInv, TypeOK, Position
  <2>3. OverrideOf' = [i \in Listed |-> cmdline_overrides'[at(i)]]
    BY <1>4, <1>8 DEF OverrideOf
  <2>4. OverrideOf = [i \in Listed |-> cmdline_overrides[at(i)]]
    BY DEF OverrideOf
  <2>5. \A i \in Listed : at(i) = p <=> i = isos[p]
    BY <1>2, <2>1 DEF Distinct
  <2> HIDE DEF at
  <2>6. \A i \in Listed :
          cmdline_overrides'[at(i)] = IF i = isos[p] THEN screen.buffer
                                      ELSE cmdline_overrides[at(i)]
    BY <1>2, <1>4, <2>2, <2>5 DEF IInv, TypeOK
  <2> QED
    BY <2>3, <2>4, <2>6
<1>10. Gate!Edit
  BY <1>3, <1>4, <1>5, <1>6, <1>7, <1>8, <1>9 DEF Gate!Edit
<1> QED
  BY <1>10 DEF Gate!Next

LEMMA CmdlineGate == IInv /\ ListInv /\ CmdlineKey => [Gate!Next]_Gate!vars
<1> SUFFICES ASSUME IInv, ListInv, CmdlineKey, ~ CommitCmdlineEdit
             PROVE  UNCHANGED Gate!vars
  BY CommitGate
<1>1. UNCHANGED gateState
  BY DEF CmdlineKey, EnterCmdlineEditor, TypeCmdline, CancelCmdlineEdit, listing, verify,
         session, history, gateState
<1>2. screen.kind \in IsoKinds \ {"TrustChallenge"}
  BY DEF CmdlineKey, EnterCmdlineEditor, TypeCmdline, CancelCmdlineEdit, Key, IsoKinds
<1>3. \/ screen' = Confirm(screen.selected)
      \/ \E b : screen' = EditCmdline(screen.selected, b)
  BY DEF CmdlineKey, EnterCmdlineEditor, TypeCmdline, CancelCmdlineEdit
<1> QED
  BY <1>1, <1>2, <1>3, OnFlow, FlowStays

(* After the gates: the attempt loads the ISO on screen or leaves it. *)
LEMMA AttemptGate ==
  ASSUME IInv, ListInv, screen.kind \in IsoKinds, NEW from,
         ~ is_kexec_blocked(screen.selected),
         is_degraded_trust(screen.selected) <=> Answered,
         NEW typed \in BOOLEAN, typed <=> Answered,
         \/ isos[screen.selected] \in Installer /\ session_consent' = TRUE
         \/ /\ UNCHANGED session_consent
            /\ isos[screen.selected] \in Installer => session_consent,
         AttemptKexec(screen.selected, from, typed, session_consent'),
         UNCHANGED <<isos, cmdline_overrides, hash_verification>>
  PROVE  Gate!Next
<1> DEFINE p == screen.selected
<1>1. OnScreen = isos[p] /\ OnScreen # None
  BY PickedHere
<1>2. screen' \in {KexecError(from), Kexeced}
  BY DEF AttemptKexec
<1>3. OnScreen' = None /\ ~ Answered'
  BY <1>2, OffFlow, OffNext DEF KexecError
<1>4. /\ ~ Gate!Refused /\ (Gate!Challenged <=> Answered)
      /\ \/ Gate!Accepts
         \/ UNCHANGED session_consent /\ (OnScreen \in Installer => session_consent)
  BY <1>1
  DEF Gate!Refused, Gate!Challenged, Gate!Accepts, is_kexec_blocked, is_degraded_trust
<1>5. UNCHANGED <<Listed, OverrideOf>>
  BY ListingKept
<1>6. CASE UNCHANGED exec
  <2>1. Gate!Leave
    BY <1>1, <1>3, <1>4, <1>5, <1>6 DEF Gate!Leave
  <2> QED
    BY <2>1 DEF Gate!Next
<1>7. CASE exec' = Request(p, typed, session_consent')
  <2>1. p \in DOMAIN isos /\ Distinct(isos)
    BY IsoOnScreen DEF ListInv
  <2>2. OverrideOf[OnScreen] = cmdline_overrides[p]
    BY <1>1, <2>1, OverrideAt
  <2>3. typed = Answered
    BY Zenon DEF Answered
  <2>4. exec' = [iso |-> OnScreen,
                 cmdline |-> IF OverrideOf[OnScreen] # None THEN OverrideOf[OnScreen]
                             ELSE DefaultCmdline[OnScreen],
                 verdict |-> hash_verification[OnScreen],
                 typed |-> Answered, consented |-> session_consent']
    BY <1>1, <1>7, <2>2, <2>3, Zenon DEF Request, EffectiveCmdline
  <2>5. Gate!Load
    BY <1>1, <1>3, <1>4, <1>5, <2>4 DEF Gate!Load
  <2> QED
    BY <2>5 DEF Gate!Next
<1> QED
  BY <1>6, <1>7 DEF AttemptKexec

LEMMA ConfirmGate == IInv /\ ListInv /\ ConfirmEnter => [Gate!Next]_Gate!vars
<1> SUFFICES ASSUME IInv, ListInv, ConfirmEnter PROVE [Gate!Next]_Gate!vars
  OBVIOUS
<1> DEFINE p == screen.selected
<1>1. screen.kind = "Confirm" /\ screen.kind \in IsoKinds
  BY DEF ConfirmEnter, Key, IsoKinds
<1>2. OnScreen = isos[p] /\ OnScreen # None /\ ~ Answered
  BY <1>1, PickedHere
<1>3. UNCHANGED <<isos, cmdline_overrides, hash_verification, session_consent>>
  BY DEF ConfirmEnter, listing, verify, session
<1>4. CASE is_kexec_blocked(p)
  <2>1. UNCHANGED gateState /\ screen' = KexecError(screen)
    BY <1>3, <1>4 DEF ConfirmEnter, gateState
  <2> QED
    BY <2>1, OffFlow, FlowLeft DEF KexecError
<1>5. CASE ~ is_kexec_blocked(p) /\ consent_required_for(p)
  <2>1. UNCHANGED gateState /\ screen' = Consent(p)
    BY <1>3, <1>5 DEF ConfirmEnter, gateState
  <2> QED
    BY <1>1, <2>1, OnFlow, FlowStays
<1>6. CASE ~ is_kexec_blocked(p) /\ ~ consent_required_for(p) /\ is_degraded_trust(p)
  <2>1. UNCHANGED gateState /\ screen' = TrustChallenge(p, "partial")
    BY <1>3, <1>6 DEF ConfirmEnter, gateState
  <2>2. OnScreen' = isos[p] /\ ~ Answered'
    BY <1>3, <2>1, ChallengeNext
  <2> QED
    BY <1>2, <2>1, <2>2, NothingHappens
<1>7. CASE ~ is_kexec_blocked(p) /\ ~ consent_required_for(p) /\ ~ is_degraded_trust(p)
  <2>1. AttemptKexec(p, screen, FALSE, session_consent)
    BY <1>7 DEF ConfirmEnter
  <2>2. isos[p] \in Installer => session_consent
    BY <1>7 DEF consent_required_for
  <2> QED
    BY <1>1, <1>2, <1>3, <1>7, <2>1, <2>2, AttemptGate
<1> QED
  BY <1>4, <1>5, <1>6, <1>7

LEMMA ConsentGate == IInv /\ ListInv /\ ConsentYes => [Gate!Next]_Gate!vars
<1> SUFFICES ASSUME IInv, ListInv, ConsentYes PROVE [Gate!Next]_Gate!vars
  OBVIOUS
<1> DEFINE p == screen.selected
<1>1. screen.kind = "Consent" /\ screen.kind \in IsoKinds
  BY DEF ConsentYes, Key, IsoKinds
<1>2. OnScreen = isos[p] /\ OnScreen # None /\ ~ Answered
  BY <1>1, PickedHere
<1>3. ~ is_kexec_blocked(p) /\ isos[p] \in Installer
  BY <1>1, IsoOnScreen DEF FlowFits
<1>4. /\ UNCHANGED <<isos, cmdline_overrides, hash_verification>>
      /\ session_consent' = TRUE
  BY DEF ConsentYes, listing, verify
<1>5. CASE is_degraded_trust(p)
  <2>1. screen' = TrustChallenge(p, "partial") /\ UNCHANGED exec
    BY <1>5 DEF ConsentYes
  <2>2. OnScreen' = isos[p] /\ ~ Answered'
    BY <1>4, <2>1, ChallengeNext
  <2>3. Answered' = Answered
    BY <1>2, <2>2, Zenon DEF Answered
  <2>4. Gate!Accepts
    BY <1>2, <1>3, <1>4 DEF Gate!Accepts, Gate!Refused, is_kexec_blocked
  <2>5. Gate!Accept
    BY <1>2, <1>4, <2>1, <2>2, <2>3, <2>4, ListingKept DEF Gate!Accept
  <2> QED
    BY <2>5 DEF Gate!Next
<1>6. CASE ~ is_degraded_trust(p)
  <2>1. AttemptKexec(p, Confirm(p), FALSE, TRUE)
    BY <1>6 DEF ConsentYes
  <2> QED
    BY <1>1, <1>2, <1>3, <1>4, <1>6, <2>1, AttemptGate
<1> QED
  BY <1>5, <1>6

LEMMA ChallengeGate ==
  IInv /\ ListInv /\ (TypeChallenge \/ TrustChallengeEnter \/ TrustChallengeCancel)
    => [Gate!Next]_Gate!vars
<1> SUFFICES ASSUME IInv, ListInv,
                    TypeChallenge \/ TrustChallengeEnter \/ TrustChallengeCancel
             PROVE  Gate!Next
  OBVIOUS
<1> DEFINE p == screen.selected
<1>1. screen.kind = "TrustChallenge" /\ screen.kind \in IsoKinds
  BY DEF TypeChallenge, TrustChallengeEnter, TrustChallengeCancel, Key, IsoKinds
<1>2. OnScreen = isos[p] /\ OnScreen # None /\ (Answered <=> screen.buffer = "boot")
  BY <1>1, PickedHere
<1>3. /\ ~ is_kexec_blocked(p) /\ is_degraded_trust(p)
      /\ isos[p] \in Installer => session_consent
  BY <1>1, IsoOnScreen DEF FlowFits
<1>4. UNCHANGED <<isos, cmdline_overrides, hash_verification, session_consent>>
  BY DEF TypeChallenge, TrustChallengeEnter, TrustChallengeCancel, listing, verify, session
<1>5. CASE TypeChallenge \/ TrustChallengeCancel
  <2>1. UNCHANGED exec
    BY <1>5 DEF TypeChallenge, TrustChallengeCancel, history
  <2>2. OnScreen' = isos[p]
    <3>1. CASE TypeChallenge
      BY <1>4, <3>1, ChallengeNext DEF TypeChallenge
    <3>2. CASE TrustChallengeCancel
      BY <1>4, <3>2, OnFlow, OnNext DEF TrustChallengeCancel
    <3> QED
      BY <1>5, <3>1, <3>2
  <2>3. Answered' \in BOOLEAN
    BY Zenon DEF Answered
  <2>4. Gate!Answer
    BY <1>2, <1>3, <1>4, <2>1, <2>2, <2>3, ListingKept
    DEF Gate!Answer, Gate!Challenged, Gate!Refused, is_kexec_blocked, is_degraded_trust
  <2> QED
    BY <2>4 DEF Gate!Next
<1>6. CASE TrustChallengeEnter
  <2>1. screen.buffer = "boot" /\ AttemptKexec(p, screen, TRUE, session_consent')
    BY <1>4, <1>6 DEF TrustChallengeEnter
  <2> QED
    BY <1>1, <1>2, <1>3, <1>4, <2>1, AttemptGate
<1> QED
  BY <1>5, <1>6

LEMMA DismissGate == IInv /\ DismissError => [Gate!Next]_Gate!vars
<1> SUFFICES ASSUME IInv, DismissError PROVE Gate!Next
  OBVIOUS
<1>1. OnScreen = None /\ ~ Answered
  BY PickedNow DEF DismissError, Key, Flow, Beneath, IsoKinds
<1>2. OnScreen' = None /\ ~ Answered'
  BY OffFlow, OffNext DEF DismissError
<1>3. Answered' = Answered
  BY <1>1, <1>2, Zenon DEF Answered
<1>4. Gate!Forget
  BY <1>1, <1>2, <1>3, ListingKept DEF DismissError, Gate!Forget, listing, verify, session
<1> QED
  BY <1>4 DEF Gate!Next

LEMMA KexecGate == IInv /\ ListInv /\ KexecKey => [Gate!Next]_Gate!vars
<1> SUFFICES ASSUME IInv, ListInv, CancelConsent PROVE [Gate!Next]_Gate!vars
  BY ConfirmGate, ConsentGate, ChallengeGate, DismissGate DEF KexecKey
<1>1. UNCHANGED gateState /\ screen' = Confirm(screen.selected) /\ screen.kind = "Consent"
  BY DEF CancelConsent, Key, listing, verify, session, history, gateState
<1> QED
  BY <1>1, OnFlow, FlowStays DEF IsoKinds

(* The overlays keep the flow they cover. *)
LEMMA UnderOverlay ==
  ASSUME IInv
  PROVE  /\ screen.kind \in {"ConsentNetworkUse", "Network", "Catalog"} =>
              Flow(screen) = screen.prior /\ Flow(screen.prior) = screen.prior
         /\ screen.kind = "CatalogConfirm" => Flow(screen) = screen.prior.prior
         /\ screen.kind \in {"List", "Confirm"} => Flow(screen) = screen
<1>1. screen.kind \in {"ConsentNetworkUse", "Network", "Catalog"} => screen.prior \in HomeScreens
  BY ScreenShape DEF IInv, Fits
<1> QED
  BY <1>1, OverlayFlow DEF Flow, Beneath

LEMMA NetworkFlow == IInv /\ (NetworkKey \/ DhcpReport) => Flow(screen') = Flow(screen)
<1> SUFFICES ASSUME IInv, NetworkKey \/ DhcpReport PROVE Flow(screen') = Flow(screen)
  OBVIOUS
<1>1. CASE EnterNetwork
  BY <1>1, UnderOverlay, OverlayFlow DEF EnterNetwork, Key
<1>2. CASE GrantNetworkUse \/ CancelNetworkUse
  BY <1>2, UnderOverlay, OverlayFlow DEF GrantNetworkUse, CancelNetworkUse, Key
<1>3. CASE NetworkRefresh \/ NetworkBeginDhcp \/ CancelNetwork
  BY <1>3, UnderOverlay, OverlayFlow DEF NetworkRefresh, NetworkBeginDhcp, CancelNetwork, Key
<1>4. CASE DhcpReport
  BY <1>4, UnderOverlay, OverlayFlow
  DEF DhcpReport, DhcpDone, DhcpDisconnected, NetworkFinishDhcp
<1> QED
  BY <1>1, <1>2, <1>3, <1>4 DEF NetworkKey

LEMMA CatalogFlow == IInv /\ (CatalogKey \/ FetchReport) => Flow(screen') = Flow(screen)
<1> SUFFICES ASSUME IInv, CatalogKey \/ FetchReport PROVE Flow(screen') = Flow(screen)
  OBVIOUS
<1>1. screen.kind = "CatalogConfirm" =>
        Flow(screen.prior) = Flow(screen)
        /\ \A op : Flow(CatalogConfirm(screen.entry, op, screen.prior)) = Flow(screen)
  <2> SUFFICES ASSUME screen.kind = "CatalogConfirm"
               PROVE  /\ Flow(screen.prior) = Flow(screen)
                      /\ \A op : Flow(CatalogConfirm(screen.entry, op, screen.prior))
                                   = Flow(screen)
    OBVIOUS
  <2>1. screen.prior \in CatalogScreens
    BY ConfirmScreen
  <2> QED
    BY <2>1, UnderOverlay, OverlayFlow
<1>2. CASE EnterCatalog \/ CancelCatalog
  BY <1>2, UnderOverlay, OverlayFlow DEF EnterCatalog, CancelCatalog, Key
<1>3. CASE CatalogOpenConfirm
  BY <1>3, UnderOverlay, OverlayFlow DEF CatalogOpenConfirm, Key
<1>4. CASE CatalogBeginFetch \/ EscCatalogConfirm
  BY <1>1, <1>4 DEF CatalogBeginFetch, EscCatalogConfirm, Key
<1>5. CASE FetchReport
  BY <1>1, <1>5
  DEF FetchReport, FetchEvent, FetchDone, FetchDisconnected, CatalogProgress,
      CatalogFinishFetch
<1> QED
  BY <1>2, <1>3, <1>4, <1>5 DEF CatalogKey

LEMMA NetworkGate == IInv /\ (NetworkKey \/ DhcpReport) => UNCHANGED Gate!vars
<1> SUFFICES ASSUME IInv, NetworkKey \/ DhcpReport PROVE UNCHANGED Gate!vars
  OBVIOUS
<1>1. UNCHANGED gateState
  BY DEF NetworkKey, EnterNetwork, GrantNetworkUse, CancelNetworkUse, NetworkRefresh,
         NetworkBeginDhcp, CancelNetwork, DhcpReport, DhcpDone, DhcpDisconnected, listing,
         verify, session, history, gateState
<1> QED
  BY <1>1, NetworkFlow, SameFlow

LEMMA CatalogGate == IInv /\ (CatalogKey \/ FetchReport) => UNCHANGED Gate!vars
<1> SUFFICES ASSUME IInv, CatalogKey \/ FetchReport PROVE UNCHANGED Gate!vars
  OBVIOUS
<1>1. UNCHANGED gateState
  BY DEF CatalogKey, EnterCatalog, CancelCatalog, CatalogOpenConfirm, CatalogBeginFetch,
         EscCatalogConfirm, FetchReport, FetchEvent, FetchDone, FetchDisconnected, listing,
         verify, session, history, gateState
<1> QED
  BY <1>1, CatalogFlow, SameFlow

-----------------------------------------------------------------------------
(* The initial states map to initial states, every step to a step. *)

LEMMA GateInit == Init => Gate!Init
<1> SUFFICES ASSUME Init PROVE Gate!Init
  OBVIOUS
<1>1. IInv /\ isos \in Seq(ISO)
  BY InvInit DEF IInv, TypeOK
<1>2. Listed \in SUBSET ISO
  BY <1>1, ElementOfSeq, LenProperties DEF Listed
<1>3. OverrideOf \in [Listed -> Cmdline \cup {None}]
  <2>1. \A i \in Listed : (CHOOSE p \in DOMAIN isos : isos[p] = i) \in DOMAIN isos
    BY DEF Listed
  <2>2. DOMAIN isos \subseteq Position
    BY <1>1, LenProperties, ScreensAssumption DEF IInv, TypeOK, Position
  <2>3. cmdline_overrides \in [Position -> Cmdline \cup {None}]
    BY <1>1 DEF IInv, TypeOK
  <2> QED
    BY <2>1, <2>2, <2>3 DEF OverrideOf
<1>4. \E c : screen = List(c)
  BY DEF Init
<1>5. OnScreen = None /\ ~ Answered
  BY <1>1, <1>4, OffFlow, PickedNow
<1> QED
  BY <1>2, <1>3, <1>5 DEF Init, Gate!Init

LEMMA GateStep == IInv /\ ListInv /\ [Next]_vars => [Gate!Next]_Gate!vars
<1> SUFFICES ASSUME IInv, ListInv, [Next]_vars PROVE [Gate!Next]_Gate!vars
  OBVIOUS
<1>1. CASE UNCHANGED vars
  BY <1>1, SameFlow DEF vars, listing, verify, session, history, gateState
<1> QED
  BY <1>1, ModalGate, ListGate, VerifyGate, DeleteGate, CmdlineGate, KexecGate, NetworkGate,
     CatalogGate DEF Next

(* Whatever is drawn over it and whatever rows are deleted, sorted or      *)
(* filtered away, the boot flow is about the ISO the operator picked: the  *)
(* verdict, the command line, the consent and the typed word are that      *)
(* ISO's, each question is only asked where it applies, and that ISO is    *)
(* what load_and_exec gets (Screen, delete_completed, verify_finish and    *)
(* the dispatch of main.rs implement BootGate.tla).                        *)
THEOREM BootGateRefined == Spec => BootGateImplemented
BY GateInit, GateStep, Invariance, ListInvariance, PTL
DEF Spec, BootGateImplemented, Gate!Spec

-----------------------------------------------------------------------------
(* What is up over the boot flow: a modal or an overlay. *)
Overlaid == screen.kind \in {"Help", "ConfirmQuit", "ConsentNetworkUse", "Network", "Catalog",
                             "CatalogConfirm"}

LEMMA OnlyOverlaySteps ==
  ASSUME IInv, Overlaid, Next
  PROVE  \/ ModalKey \/ NetworkKey \/ CatalogKey \/ DhcpReport \/ FetchReport
         \/ VerifyReport /\ UNCHANGED screen
<1>1. ~ ListKey /\ ~ VerifyKey
  BY DEF Overlaid, ListKey, MoveSelection, MoveToEdge, TogglePane, CycleSort, OpenFilter,
         EditFilter, FilterCommit, FilterCancel, ChooseShell, ConfirmSelection,
         DismissBlockedToast, CancelConfirmation, VerifyKey, VerifyFromList,
         VerifyFromConfirm, EscVerify, Key
<1>2. ~ DeleteKey /\ ~ CmdlineKey
  BY DEF Overlaid, DeleteKey, EnterDelete, CancelDelete, DeleteYes, CmdlineKey,
         EnterCmdlineEditor, TypeCmdline, CommitCmdlineEdit, CancelCmdlineEdit, Key
<1>3. ~ KexecKey
  BY DEF Overlaid, KexecKey, ConfirmEnter, ConsentYes, CancelConsent, TypeChallenge,
         TrustChallengeEnter, TrustChallengeCancel, DismissError, Key
<1>4. VerifyReport => UNCHANGED screen
  BY DEF Overlaid, VerifyReport, VerifyDone, VerifyFinish, VerifyFailed, CancelVerify,
         VerifyDisconnected
<1> QED
  BY <1>1, <1>2, <1>3, <1>4 DEF Next

(* Help, the quit prompt, the network and the catalog screens give back    *)
(* the screen they were opened over, cursor, position and typed word       *)
(* included, with the list as it was, however they are nested, closed, and *)
(* met by messages of the three workers (the boxed `prior' of Screen).     *)
THEOREM OverlaysGiveBack ==
  Spec => [][ Overlaid \/ ModalKey \/ NetworkKey \/ CatalogKey
                => \/ Flow(screen') = Flow(screen) /\ UNCHANGED <<listing, view, exec>>
                   \/ ConfirmQuitYes ]_vars
<1>1. ASSUME IInv, ModalKey \/ NetworkKey \/ CatalogKey \/ DhcpReport \/ FetchReport
      PROVE  Flow(screen') = Flow(screen) \/ ConfirmQuitYes
  <2>1. ModalKey => ConfirmQuitYes \/ Flow(screen)' = Flow(screen)
    BY <1>1, ModalBeneath DEF Flow
  <2> QED
    BY <1>1, <2>1, NetworkFlow, CatalogFlow
<1>2. ASSUME ModalKey \/ NetworkKey \/ CatalogKey \/ DhcpReport \/ FetchReport \/ VerifyReport
      PROVE  UNCHANGED <<listing, view, exec>>
  <2>1. CASE ModalKey \/ NetworkKey
    BY <2>1
    DEF ModalKey, RequestQuit, CancelQuit, ConfirmQuitYes, OpenHelp, CloseHelp, NetworkKey,
        EnterNetwork, GrantNetworkUse, CancelNetworkUse, NetworkRefresh, NetworkBeginDhcp,
        CancelNetwork, history
  <2>2. CASE CatalogKey \/ FetchReport
    BY <2>2
    DEF CatalogKey, EnterCatalog, CancelCatalog, CatalogOpenConfirm, CatalogBeginFetch,
        EscCatalogConfirm, FetchReport, FetchEvent, FetchDone, FetchDisconnected, history
  <2>3. CASE DhcpReport \/ VerifyReport
    BY <2>3
    DEF DhcpReport, DhcpDone, DhcpDisconnected, VerifyReport, VerifyDone, VerifyFailed,
        VerifyDisconnected, history
  <2> QED
    BY <1>2, <2>1, <2>2, <2>3
<1>3. ASSUME IInv, Next, Overlaid \/ ModalKey \/ NetworkKey \/ CatalogKey
      PROVE  \/ Flow(screen') = Flow(screen) /\ UNCHANGED <<listing, view, exec>>
             \/ ConfirmQuitYes
  <2>1. CASE VerifyReport /\ UNCHANGED screen
    BY <1>2, <2>1
  <2>2. CASE ModalKey \/ NetworkKey \/ CatalogKey \/ DhcpReport \/ FetchReport
    BY <1>1, <1>2, <1>3, <2>2
  <2> QED
    BY <1>3, <2>1, <2>2, OnlyOverlaySteps
<1>4. IInv /\ [Next]_vars
        => [ Overlaid \/ ModalKey \/ NetworkKey \/ CatalogKey
               => \/ Flow(screen') = Flow(screen) /\ UNCHANGED <<listing, view, exec>>
                  \/ ConfirmQuitYes ]_vars
  BY <1>3
<1> QED
  BY <1>4, Invariance, PTL DEF Spec
=============================================================================
