--------------------------- MODULE DownloadsProofs ---------------------------
(***************************************************************************)
(* Proofs about the two downloads an operator waits for: the ISO of a      *)
(* catalog entry (IsoFetch) and an image (FetchImage), for any number of   *)
(* reads, mirrors' bodies and other runs; and about the three downloads    *)
(* together.  What is proved of TrustChain alone comes from                *)
(* TrustChainProofs.                                                       *)
(***************************************************************************)
EXTENDS Downloads, TrustChainProofs, TLAPS

-----------------------------------------------------------------------------
(* IsoFetch *)

(* What a caller has been told, from where the fetch is. *)
PhaseFits ==
  CASE step = "idle" -> phase \in {"Rest", "Ok", "Failed", "Cancelled"}
    [] step = "probe" -> phase = "Started"
    [] step \in {"range", "get"} -> phase = "Connecting"
    [] step \in {"poll", "read", "sidecar"} -> phase \in {"Connecting", "Downloading"}
    [] step = "signature" -> phase = "VerifyingSig"
    [] step \in {"hash", "rename"} -> phase = "VerifyingHash"

(* What stands behind the checks that are over: first that the vendor      *)
(* signed something, in the end that it is what lies on disk, unless       *)
(* another fetch has been at the files.                                    *)
VouchedFor ==
  /\ step \in {"poll", "read"} => body \in Body
  /\ step = "signature" => body \in Signed \cup {NoIso}
  /\ step \in {"hash", "rename"} =>
       body \in Signed /\ (on_iso /\ ~ crowded => partial = Whole(body))
  /\ step = "rename" /\ ~ crowded => partial = Whole(body)

(* A chunk written with the flag up is the last one: the flag stays up,    *)
(* and the next poll sees it.                                              *)
LateFits == late <= 1 /\ (late = 1 => cancelled /\ step # "read")

(* The final name, with whatever a power loss may leave under it: that is  *)
(* left of one ISO the vendor signed. *)
FilesFit ==
  /\ FinalIsSigned
  /\ in_tui =>
       /\ final \in flash
       /\ \A c \in flash : c # NoIso => \E b \in Signed : c \in Damaged(Whole(b))

IsoInv ==
  /\ IsoTypeOK /\ PhaseFits /\ VouchedFor /\ LateFits
  /\ in_tui => ~ crowded
  /\ FilesFit

LEMMA ChunksPositive == Chunks \in Nat /\ 0 < Chunks /\ 0 \in 0 .. Chunks
<1>1. Chunks \in Nat \ {0}
  BY IsoFetchAssumption
<1> QED
  BY <1>1

LEMMA LengthIsNat == ASSUME IsoTypeOK PROVE Length \in Nat
<1>1. CASE partial = NoIso
  BY <1>1 DEF Length
<1>2. CASE partial # NoIso
  <2>1. partial \in Contents
    BY <1>2 DEF IsoTypeOK
  <2> QED
    BY <1>2, <2>1 DEF Length, Contents
<1> QED
  BY <1>1, <1>2

LEMMA ChunkFits ==
  ASSUME IsoTypeOK, body \in Body, partial # NoIso
  PROVE Append(partial, body) \in Contents
  BY DEF IsoTypeOK, Contents

LEMMA IsoInitInv == ASSUME IsoInit PROVE IsoInv
<1>1. IsoTypeOK
  BY ChunksPositive DEF IsoInit, IsoTypeOK, Protocol!Phases, Protocol!Underway
<1> QED
  BY <1>1 DEF IsoInit, IsoInv, PhaseFits, VouchedFor, LateFits, FilesFit, FinalIsSigned

(* A fetch that returns leaves nothing for the invariant but its result    *)
(* and its files. *)
LEMMA ReturnInv ==
  ASSUME IsoInv, NEW result \in {"Rest", "Ok", "Failed", "Cancelled"}, Return(result),
         partial' \in Contents \cup {NoIso}, final' \in Contents \cup {NoIso},
         flash' \subseteq Contents \cup {NoIso}, torn' \in BOOLEAN, FilesFit'
  PROVE IsoInv'
<1>1. IsoTypeOK'
  BY ChunksPositive DEF Return, IsoInv, IsoTypeOK, Protocol!Phases, Protocol!Underway
<1> QED
  BY <1>1 DEF Return, IsoInv, PhaseFits, VouchedFor, LateFits

LEMMA FinalKept ==
  ASSUME IsoInv, UNCHANGED <<final, flash, torn, in_tui>> PROVE FilesFit'
  BY DEF IsoInv, FilesFit, FinalIsSigned

LEMMA VerifyFailsInv == ASSUME IsoInv, VerifyFails PROVE IsoInv'
<1>1. /\ Return("Failed") /\ partial' \in {NoIso, partial}
      /\ UNCHANGED <<final, flash, torn>>
  BY DEF VerifyFails
<1>2. /\ partial' \in Contents \cup {NoIso} /\ final' \in Contents \cup {NoIso}
      /\ flash' \subseteq Contents \cup {NoIso} /\ torn' \in BOOLEAN
  BY <1>1 DEF IsoInv, IsoTypeOK
<1>3. FilesFit'
  BY <1>1, FinalKept DEF Return
<1> QED
  BY <1>1, <1>2, <1>3, ReturnInv

(* Leaves that touch neither file, but for VerifyFails. *)
LEMMA GivesUpInv ==
  ASSUME IsoInv, NEW result \in {"Rest", "Failed", "Cancelled"}, Return(result), UNCHANGED files
  PROVE IsoInv'
<1>1. /\ partial' \in Contents \cup {NoIso} /\ final' \in Contents \cup {NoIso}
      /\ flash' \subseteq Contents \cup {NoIso} /\ torn' \in BOOLEAN
  BY DEF IsoInv, IsoTypeOK, files
<1>2. FilesFit'
  BY FinalKept DEF Return, files
<1> QED
  BY <1>1, <1>2, ReturnInv

(* The steps up to the first byte. *)
LEMMA RequestInv ==
  ASSUME IsoInv, Begin \/ Probe \/ Resume \/ FullRestart \/ Get PROVE IsoInv'
<1> USE IsoFetchAssumption DEF IsoInv, PhaseFits, VouchedFor, LateFits
<1>0. UNCHANGED <<final, flash, torn, in_tui>>
  BY DEF Begin, Probe, Resume, FullRestart, Get, Goto, files
<1>1. FilesFit'
  BY <1>0, FinalKept
<1>2. CASE Begin
  BY <1>1, <1>2 DEF Begin, files, stream, IsoTypeOK, Protocol!Phases, Protocol!Underway
<1>3. CASE Probe
  BY <1>1, <1>3, LengthIsNat DEF Probe, Goto, files, IsoTypeOK, Protocol!Phases, Protocol!Underway
<1>4. CASE Resume
  BY <1>1, <1>4 DEF Resume, Goto, files, IsoTypeOK
<1>5. CASE FullRestart
  BY <1>1, <1>5 DEF FullRestart, Goto, files, IsoTypeOK
<1>6. CASE Get
  BY <1>1, <1>6 DEF Get, Goto, IsoTypeOK, Contents
<1> QED
  BY <1>2, <1>3, <1>4, <1>5, <1>6

(* The body: every chunk is followed by a look at the flag. *)
LEMMA BodyInv ==
  ASSUME IsoInv, Cancel \/ Poll \/ Read \/ BodyEnds PROVE IsoInv'
<1>1. CASE Cancel
  <2>1. FilesFit'
    BY <1>1, FinalKept DEF Cancel, files
  <2> QED
    BY <1>1, <2>1 DEF Cancel, files, stream, IsoInv, PhaseFits, VouchedFor, LateFits, IsoTypeOK
<1>2. CASE Poll
  <2>1. CASE cancelled
    BY <1>2, <2>1, GivesUpInv DEF Poll
  <2>2. CASE ~ cancelled
    <3>1. FilesFit'
      BY <1>2, <2>2, FinalKept DEF Poll, Goto, files
    <3>2. LateFits'
      BY <1>2, <2>2 DEF Poll, Goto, stream, IsoInv, LateFits, IsoTypeOK
    <3> QED
      BY <1>2, <2>2, <3>1, <3>2
      DEF Poll, Goto, files, stream, IsoInv, PhaseFits, VouchedFor, IsoTypeOK
  <2> QED
    BY <2>1, <2>2
<1>3. CASE Read
  <2>1. partial' \in Contents \cup {NoIso}
    BY <1>3, ChunkFits DEF Read, IsoInv, VouchedFor
  <2>2. sent' \in 0 .. Chunks
    BY <1>3, ChunksPositive DEF Read, IsoInv, IsoTypeOK
  <2>3. late' \in Nat /\ LateFits'
    BY <1>3 DEF Read, IsoInv, LateFits, IsoTypeOK
  <2>4. FilesFit'
    BY <1>3, FinalKept DEF Read
  <2>5. IsoTypeOK'
    BY <1>3, <2>1, <2>2, <2>3 DEF Read, IsoInv, IsoTypeOK, Protocol!Phases, Protocol!Underway
  <2> QED
    BY <1>3, <2>3, <2>4, <2>5 DEF Read, IsoInv, PhaseFits, VouchedFor
<1>4. CASE BodyEnds
  <2>1. FilesFit'
    BY <1>4, FinalKept DEF BodyEnds, Goto, files
  <2>2. IsoTypeOK'
    BY <1>4, ChunksPositive DEF BodyEnds, Goto, files, IsoInv, IsoTypeOK
  <2> QED
    BY <1>4, <2>1, <2>2 DEF BodyEnds, Goto, files, IsoInv, PhaseFits, VouchedFor, LateFits
<1> QED
  BY <1>1, <1>2, <1>3, <1>4

(* The checks, in their order, and the rename behind them. *)
LEMMA CheckInv ==
  ASSUME IsoInv, Sidecars \/ CheckSignature \/ HashIso PROVE IsoInv'
<1>1. CASE Sidecars
  <2>1. FilesFit'
    BY <1>1, FinalKept DEF Sidecars, Goto, files
  <2>2. body' \in Body \cup {NoIso}
    BY <1>1, IsoFetchAssumption DEF Sidecars
  <2>3. IsoTypeOK'
    BY <1>1, <2>2 DEF Sidecars, Goto, files, IsoInv, IsoTypeOK, Protocol!Phases, Protocol!Underway
  <2> QED
    BY <1>1, <2>1, <2>3 DEF Sidecars, Goto, files, IsoInv, PhaseFits, VouchedFor, LateFits
<1>2. CASE CheckSignature
  <2>1. CASE ~ SignatureHolds
    BY <1>2, <2>1, VerifyFailsInv DEF CheckSignature
  <2>2. CASE SignatureHolds
    <3>1. /\ step = "signature" /\ phase' = "VerifyingHash"
          /\ Goto("hash") /\ UNCHANGED <<files, stream, cancelled>>
      BY <1>2, <2>2 DEF CheckSignature
    <3>2. FilesFit'
      BY <3>1, FinalKept DEF Goto, files
    <3>3. IsoTypeOK'
      BY <3>1 DEF Goto, files, stream, IsoInv, IsoTypeOK, Protocol!Phases, Protocol!Underway
    <3>4. VouchedFor'
      BY <2>2, <3>1 DEF SignatureHolds, Goto, files, stream, IsoInv, VouchedFor, Whole
    <3> QED
      BY <3>1, <3>2, <3>3, <3>4 DEF Goto, IsoInv, PhaseFits, LateFits
  <2> QED
    BY <2>1, <2>2
<1>3. CASE HashIso
  <2>1. FilesFit'
    BY <1>3, FinalKept DEF HashIso, Goto, files
  <2>2. IsoTypeOK'
    BY <1>3 DEF HashIso, Goto, files, stream, IsoInv, IsoTypeOK
  <2>3. VouchedFor'
    BY <1>3 DEF HashIso, HashMatches, Goto, files, stream, IsoInv, VouchedFor, Whole
  <2> QED
    BY <1>3, <2>1, <2>2, <2>3 DEF HashIso, Goto, files, stream, IsoInv, PhaseFits, LateFits
<1> QED
  BY <1>1, <1>2, <1>3

(* What a power loss leaves of contents is contents; the whole of it may   *)
(* be left. *)
LEMMA DamagedContents ==
  ASSUME NEW c \in Contents
  PROVE /\ Damaged(c) \subseteq Contents
        /\ c \in Damaged(c)
<1>1. c # NoIso /\ Len(c) \in Nat /\ c = [i \in 1 .. Len(c) |-> c[i]]
  BY IsoFetchAssumption DEF Contents
<1>2. ASSUME NEW n \in 0 .. Len(c), NEW lost \in SUBSET (1 .. Len(c))
      PROVE [i \in 1 .. n |-> IF i \in lost THEN Lost ELSE c[i]] \in Contents
  <2>1. \A i \in 1 .. n : (IF i \in lost THEN Lost ELSE c[i]) \in Body \cup {Lost}
    BY <1>1 DEF Contents
  <2>2. n \in Nat
    BY <1>1
  <2>3. [i \in 1 .. n |-> IF i \in lost THEN Lost ELSE c[i]] \in [1 .. n -> Body \cup {Lost}]
    BY <2>1
  <2> QED
    BY <2>2, <2>3 DEF Contents
<1>3. c = [i \in 1 .. Len(c) |-> IF i \in {} THEN Lost ELSE c[i]]
  BY <1>1
<1>4. Len(c) \in 0 .. Len(c) /\ {} \in SUBSET (1 .. Len(c))
  BY <1>1
<1>5. Damaged(c) =
        {[i \in 1 .. n |-> IF i \in lost THEN Lost ELSE c[i]] :
           n \in 0 .. Len(c), lost \in SUBSET (1 .. Len(c))}
  BY <1>1 DEF Damaged
<1>6. Damaged(c) \subseteq Contents
  BY <1>2, <1>5
<1>7. c \in Damaged(c)
  <2>1. \E n \in 0 .. Len(c), lost \in SUBSET (1 .. Len(c)) :
          c = [i \in 1 .. n |-> IF i \in lost THEN Lost ELSE c[i]]
    BY <1>3, <1>4
  <2> QED
    BY <1>5, <2>1
<1> QED
  BY <1>6, <1>7

LEMMA PublishInv == ASSUME IsoInv, Publish PROVE IsoInv'
<1>1. /\ step = "rename" /\ partial \in Contents /\ partial # NoIso
      /\ final' = partial /\ partial' = NoIso /\ torn' = FALSE
      /\ flash' = (IF in_tui THEN flash \cup Damaged(partial) ELSE {partial})
      /\ Return("Ok")
  BY DEF Publish, IsoInv, IsoTypeOK
<1>2. flash' \subseteq Contents \cup {NoIso} /\ final' \in flash' \cup Damaged(partial)
  BY <1>1, DamagedContents DEF IsoInv, IsoTypeOK
<1>3. FilesFit'
  <2>1. CASE ~ in_tui
    BY <1>1, <2>1 DEF Return, FilesFit, FinalIsSigned
  <2>2. CASE in_tui
    <3>1. body \in Signed /\ partial = Whole(body)
      BY <1>1, <2>2 DEF IsoInv, VouchedFor
    <3>2. final' \in flash' /\ in_tui'
      BY <1>1, <2>2, DamagedContents DEF Return
    <3>3. \A c \in flash' : c # NoIso => \E b \in Signed : c \in Damaged(Whole(b))
      BY <1>1, <2>2, <3>1 DEF IsoInv, FilesFit
    <3>4. FinalIsSigned'
      BY <1>1, <3>1 DEF FinalIsSigned
    <3> QED
      BY <3>2, <3>3, <3>4 DEF FilesFit
  <2> QED
    BY <2>1, <2>2
<1> QED
  BY <1>1, <1>2, <1>3, ReturnInv

(* The kernel's own writes, and a power loss. *)
LEMMA PowerInv == ASSUME IsoInv, WriteBack \/ PowerLoss PROVE IsoInv'
<1>1. CASE WriteBack
  <2>1. FilesFit'
    <3>1. /\ flash' = {final} /\ UNCHANGED <<in_tui, final, torn>>
          /\ in_tui => final \in flash
      BY <1>1 DEF WriteBack, IsoInv, FilesFit
    <3>2. FinalIsSigned'
      BY <3>1 DEF IsoInv, FilesFit, FinalIsSigned
    <3> QED
      BY <3>1, <3>2 DEF IsoInv, FilesFit
  <2>2. IsoTypeOK'
    BY <1>1 DEF WriteBack, stream, IsoInv, IsoTypeOK
  <2>3. VouchedFor'
    BY <1>1 DEF WriteBack, stream, IsoInv, VouchedFor, Whole
  <2> QED
    BY <1>1, <2>1, <2>2, <2>3 DEF WriteBack, stream, IsoInv, PhaseFits, LateFits
<1>2. CASE PowerLoss
  <2>1. /\ in_tui /\ final' \in flash /\ flash' = {final'}
        /\ torn' = (torn \/ flash # {final})
        /\ partial' \in {NoIso} \cup Damaged(partial) \cup Damaged(final)
        /\ Return("Rest")
    BY <1>2 DEF PowerLoss
  <2>2. Damaged(partial) \cup Damaged(final) \subseteq Contents \cup {NoIso}
    <3>1. ASSUME NEW c \in Contents \cup {NoIso}
          PROVE Damaged(c) \subseteq Contents \cup {NoIso}
      <4>1. CASE c = NoIso
        BY <4>1 DEF Damaged
      <4>2. CASE c \in Contents
        BY <4>2, DamagedContents
      <4> QED
        BY <4>1, <4>2
    <3> QED
      BY <3>1 DEF IsoInv, IsoTypeOK
  <2>3. /\ partial' \in Contents \cup {NoIso} /\ final' \in Contents \cup {NoIso}
        /\ flash' \subseteq Contents \cup {NoIso} /\ torn' \in BOOLEAN
    BY <2>1, <2>2 DEF IsoInv, IsoTypeOK
  <2>4. FinalIsSigned'
    <3>1. CASE torn'
      BY <2>1, <3>1 DEF IsoInv, FilesFit, FinalIsSigned
    <3>2. CASE ~ torn'
      BY <2>1, <3>2 DEF IsoInv, FilesFit, FinalIsSigned
    <3> QED
      BY <3>1, <3>2
  <2>5. FilesFit'
    BY <2>1, <2>4 DEF IsoInv, FilesFit
  <2> QED
    BY <2>1, <2>3, <2>5, ReturnInv
<1> QED
  BY <1>1, <1>2

LEMMA OthersInv == ASSUME IsoInv, OtherFetch PROVE IsoInv'
<1>1. /\ partial' \in Contents \cup {NoIso} /\ final' \in Contents \cup {NoIso}
      /\ flash' \subseteq Contents \cup {NoIso}
  BY IsoFetchAssumption DEF OtherFetch, IsoInv, IsoTypeOK
<1>2. IsoTypeOK'
  BY <1>1 DEF OtherFetch, stream, IsoInv, IsoTypeOK
<1>3. VouchedFor'
  BY DEF OtherFetch, stream, IsoInv, VouchedFor
<1> QED
  BY <1>2, <1>3 DEF OtherFetch, stream, IsoInv, PhaseFits, LateFits, FilesFit, FinalIsSigned

(* Where a fetch ends without a result for the operator to use. *)
LEMMA FailsInv ==
  ASSUME IsoInv,
         \/ BeginFails \/ RangeRefused \/ GetFails \/ ReadFails \/ SidecarsFail
         \/ HashFails \/ HashCancelled \/ PublishFails \/ FetchDies
  PROVE IsoInv'
<1>1. CASE SidecarsFail \/ HashFails
  BY <1>1, VerifyFailsInv DEF SidecarsFail, HashFails
<1>2. CASE BeginFails \/ RangeRefused \/ GetFails \/ ReadFails \/ PublishFails
  BY <1>2, GivesUpInv DEF BeginFails, RangeRefused, GetFails, ReadFails, PublishFails
<1>3. CASE HashCancelled \/ FetchDies
  BY <1>3, GivesUpInv DEF HashCancelled, FetchDies
<1> QED
  BY <1>1, <1>2, <1>3

LEMMA IsoStepInv == ASSUME IsoInv, [IsoNext]_isoVars PROVE IsoInv'
<1>1. CASE UNCHANGED isoVars
  <2>1. IsoTypeOK'
    BY <1>1 DEF isoVars, files, stream, IsoInv, IsoTypeOK
  <2>2. PhaseFits' /\ LateFits'
    BY <1>1 DEF isoVars, IsoInv, PhaseFits, LateFits
  <2>3. VouchedFor'
    BY <1>1 DEF isoVars, files, stream, IsoInv, VouchedFor, Whole
  <2>4. FilesFit'
    BY <1>1, FinalKept DEF isoVars, files
  <2> QED
    BY <1>1, <2>1, <2>2, <2>3, <2>4 DEF isoVars, IsoInv
<1>2. CASE IsoNext
  BY <1>2, RequestInv, BodyInv, CheckInv, PublishInv, OthersInv, FailsInv,
         PowerInv DEF IsoNext
<1> QED
  BY <1>1, <1>2

LEMMA DownloadsStep ==
  ASSUME [DownloadsNext]_downloadVars
  PROVE [IsoNext]_isoVars /\ [ImageNext]_imageVars
  BY DEF DownloadsNext, downloadVars

THEOREM IsoInvariant == DownloadsSpec => []IsoInv
<1>1. DownloadsInit => IsoInv
  BY IsoInitInv DEF DownloadsInit
<1>2. IsoInv /\ [DownloadsNext]_downloadVars => IsoInv'
  BY DownloadsStep, IsoStepInv
<1> QED
  BY <1>1, <1>2, PTL DEF DownloadsSpec

(* In rescue-tui's directory the final name has one ISO behind it that the *)
(* vendor signed, whatever the mirrors send and wherever a fetch ends: all *)
(* of it, or what a power loss before the write-back has left              *)
(* (fetch_catalog_entry).                                                  *)
THEOREM StickFinalSigned == DownloadsSpec => []FinalIsSigned
<1>1. IsoInv => FinalIsSigned
  BY DEF IsoInv, FilesFit
<1> QED
  BY <1>1, IsoInvariant, PTL

(* After Esc at most one more chunk is written (pump_to_writer). *)
THEOREM CancelHeld == DownloadsSpec => []CancelTakesHold
<1>1. IsoInv => CancelTakesHold
  BY DEF IsoInv, LateFits, CancelTakesHold
<1> QED
  BY <1>1, IsoInvariant, PTL

(* Only Publish answers Ok. *)
LEMMA OkIsPublished ==
  ASSUME IsoNext, phase # "Ok", phase' = "Ok" PROVE Publish
<1>1. CASE Begin \/ Probe \/ Resume \/ FullRestart \/ Get \/ Cancel \/ Read \/ BodyEnds
           \/ Sidecars \/ HashIso \/ OtherFetch \/ WriteBack \/ PowerLoss
  BY <1>1 DEF Begin, Probe, Resume, FullRestart, Get, Cancel, Read, BodyEnds, Sidecars,
              HashIso, OtherFetch, WriteBack, PowerLoss, Return
<1>2. CASE BeginFails \/ RangeRefused \/ GetFails \/ ReadFails \/ PublishFails \/ FetchDies
           \/ HashCancelled \/ SidecarsFail \/ HashFails
  BY <1>2 DEF BeginFails, RangeRefused, GetFails, ReadFails, PublishFails, FetchDies,
              HashCancelled, SidecarsFail, HashFails, VerifyFails, Return
<1>3. CASE Poll \/ CheckSignature
  BY <1>3 DEF Poll, CheckSignature, VerifyFails, Return
<1> QED
  BY <1>1, <1>2, <1>3 DEF IsoNext

(* A fetch that was alone with its files answers Ok only over a whole ISO  *)
(* the vendor signed, whatever <iso>.partial held before                   *)
(* (fetch_catalog_entry).                                                  *)
THEOREM OkIsSigned == DownloadsSpec => OkMeansSigned
<1>1. IsoInv /\ [DownloadsNext]_downloadVars =>
        [(phase # "Ok" /\ phase' = "Ok" /\ ~ crowded)
           => \E b \in Signed : final' = Whole(b)]_isoVars
  <2> SUFFICES ASSUME IsoInv, IsoNext, phase # "Ok", phase' = "Ok", ~ crowded
               PROVE \E b \in Signed : final' = Whole(b)
    BY DownloadsStep
  <2>1. Publish
    BY OkIsPublished
  <2>2. step = "rename" /\ final' = partial
    BY <2>1 DEF Publish
  <2>3. body \in Signed /\ partial = Whole(body)
    BY <2>2 DEF IsoInv, VouchedFor
  <2> QED
    BY <2>2, <2>3
<1> QED
  BY <1>1, IsoInvariant, PTL DEF DownloadsSpec, OkMeansSigned

-----------------------------------------------------------------------------
(* IsoFetch implements FetchProtocol. *)

LEMMA IsoInitImplements == ASSUME IsoInit PROVE Protocol!Init
  BY DEF IsoInit, Protocol!Init

LEMMA IsoStepImplements ==
  ASSUME IsoInv, [IsoNext]_isoVars PROVE [Protocol!Next]_phase
<1> USE DEF Protocol!Next, Protocol!Underway, Protocol!Phases
<1>0. phase \in Protocol!Phases /\ PhaseFits
  BY DEF IsoInv, IsoTypeOK
<1>1. CASE UNCHANGED isoVars
  BY <1>1 DEF isoVars
<1>2. CASE Begin
  BY <1>0, <1>2 DEF Begin, PhaseFits, Protocol!Start
<1>3. CASE Probe \/ Read \/ Sidecars
  BY <1>0, <1>3 DEF Probe, Read, Sidecars, PhaseFits, Protocol!Event
<1>4. CASE Resume \/ FullRestart \/ Get \/ Cancel \/ BodyEnds \/ HashIso \/ OtherFetch
           \/ WriteBack
  BY <1>4 DEF Resume, FullRestart, Get, Cancel, BodyEnds, HashIso, OtherFetch, WriteBack
<1>5. CASE BeginFails \/ RangeRefused \/ GetFails \/ ReadFails \/ SidecarsFail \/ HashFails
           \/ PublishFails
  <2>1. phase' = "Failed" /\ step # "idle"
    BY <1>5 DEF BeginFails, RangeRefused, GetFails, ReadFails, SidecarsFail, HashFails,
                PublishFails, VerifyFails, Return
  <2>2. phase \in Protocol!Underway
    BY <1>0, <2>1 DEF PhaseFits, IsoInv, IsoTypeOK
  <2> QED
    BY <2>1, <2>2 DEF Protocol!Finish
<1>6. CASE Poll \/ HashCancelled
  BY <1>0, <1>6 DEF Poll, HashCancelled, Return, PhaseFits, Protocol!Finish
<1>7. CASE CheckSignature
  BY <1>0, <1>7 DEF CheckSignature, VerifyFails, Return, PhaseFits, Protocol!Event,
                    Protocol!Finish
<1>8. CASE Publish
  BY <1>0, <1>8 DEF Publish, Return, PhaseFits, Protocol!Finish
<1>9. CASE FetchDies \/ PowerLoss
  BY <1>9 DEF FetchDies, PowerLoss, Return, Protocol!Die
<1> QED
  BY <1>1, <1>2, <1>3, <1>4, <1>5, <1>6, <1>7, <1>8, <1>9 DEF IsoNext

(* What the TUI's drain loop and the CLI's progress renderer are told      *)
(* comes in the order they are written for: see FetchProtocol.             *)
THEOREM ProtocolHolds == DownloadsSpec => ProtocolImplemented
<1>1. DownloadsInit => Protocol!Init
  BY IsoInitImplements DEF DownloadsInit
<1>2. IsoInv /\ [DownloadsNext]_downloadVars => [Protocol!Next]_phase
  BY DownloadsStep, IsoStepImplements
<1> QED
  BY <1>1, <1>2, IsoInvariant, PTL DEF DownloadsSpec, ProtocolImplemented, Protocol!Spec

-----------------------------------------------------------------------------
(* FetchImage *)

(* What the run has made of the file it downloaded, until another run      *)
(* writes the same path. *)
ImageInv ==
  /\ ImageTypeOK
  /\ image_step \in {"idle", "download"} => checks = {}
  /\ image_step \in {"sha256", "cosign", "return"} /\ ~ shared => image \in Image
  /\ image_step \in {"cosign", "return"} /\ ~ shared /\ pin # NoImage => image = pin
  /\ "cosign" \in checks => image_step = "return" /\ (~ shared => image \in Official)

LEMMA ImageStepInv == ASSUME ImageInv, [ImageNext]_imageVars PROVE ImageInv'
<1> USE FetchImageAssumption DEF ImageInv, ImageTypeOK
<1>1. CASE UNCHANGED imageVars
  BY <1>1 DEF imageVars
<1>2. CASE StartImage
  BY <1>2 DEF StartImage
<1>3. CASE DownloadImage
  BY <1>3 DEF DownloadImage, ImageGoto
<1>4. CASE DownloadImageFails
  BY <1>4 DEF DownloadImageFails, ImageExit
<1>5. CASE CheckSha256
  BY <1>5 DEF CheckSha256, ImageGoto
<1>6. CASE Sha256Fails
  BY <1>6 DEF Sha256Fails, ImageExit
<1>7. CASE SkipCosign
  BY <1>7 DEF SkipCosign, ImageGoto
<1>8. CASE CosignVerifies
  BY <1>8 DEF CosignVerifies, ImageGoto
<1>9. CASE CosignRejects
  BY <1>9 DEF CosignRejects, ImageExit
<1>10. CASE ReturnImage \/ ImageRunDies
  BY <1>10 DEF ReturnImage, ImageRunDies, ImageExit
<1>11. CASE OtherImageRun
  BY <1>11 DEF OtherImageRun
<1> QED
  BY <1>1, <1>2, <1>3, <1>4, <1>5, <1>6, <1>7, <1>8, <1>9, <1>10, <1>11 DEF ImageNext

LEMMA ImageInvariant == DownloadsSpec => []ImageInv
<1>1. DownloadsInit => ImageInv
  BY DEF DownloadsInit, ImageInit, ImageInv, ImageTypeOK
<1>2. ImageInv /\ [DownloadsNext]_downloadVars => ImageInv'
  BY DownloadsStep, ImageStepInv
<1> QED
  BY <1>1, <1>2, PTL DEF DownloadsSpec

(* A path that is printed leads to the bytes the run has checked, for any  *)
(* images and any leftovers of earlier runs (try_run of fetch_image.rs).   *)
THEOREM ReturnedImageChecked == DownloadsSpec => []ReturnedImageIsChecked
<1>1. ImageInv => ReturnedImageIsChecked
  BY DEF ImageInv, ReturnedImageIsChecked
<1> QED
  BY <1>1, ImageInvariant, PTL

-----------------------------------------------------------------------------
(* The three together *)

(* What fetch-trust-chain does among the downloads is what it does alone:  *)
(* its theorems are theorems of the downloads.                             *)
LEMMA TrustChainAlone == DownloadsSpec => Spec
<1>1. DownloadsInit => Init
  BY DEF DownloadsInit
<1>2. [DownloadsNext]_downloadVars => [Next]_vars
  BY DEF DownloadsNext, downloadVars
<1> QED
  BY <1>1, <1>2, PTL DEF DownloadsSpec, Spec

(* The files and runs of the commands that download keep their shape, for  *)
(* any number of processes, files, reads and images (try_run of            *)
(* fetch_trust_chain.rs and fetch_image.rs, fetch_catalog_entry).          *)
THEOREM DownloadsTypeCorrect == DownloadsSpec => []DownloadsTypeOK
<1>1. IsoInv => IsoTypeOK
  BY DEF IsoInv
<1>2. ImageInv => ImageTypeOK
  BY DEF ImageInv
<1> QED
  BY <1>1, <1>2, TrustChainAlone, TypeCorrect, IsoInvariant, ImageInvariant, PTL
     DEF DownloadsTypeOK

(* Beside the other downloads too, nothing of an unverified bundle is on   *)
(* disk, and stores that do not overlap keep the floor                     *)
(* (verify_bundle_manifest, store_seen_epoch_at).                          *)
THEOREM DownloadsKeepTrust ==
  DownloadsSpec => /\ []OnlyVerifiedOnDisk
                   /\ []FloorKeptUnlessOverlap
                   /\ ReturnedBundleIsWhole
BY TrustChainAlone, DiskIsVerified, FloorIsKept, ReturnsWhole
=============================================================================
