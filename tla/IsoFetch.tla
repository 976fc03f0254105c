------------------------------ MODULE IsoFetch ------------------------------
(***************************************************************************)
(* fetch_catalog_entry of aegis-fetch: one catalog entry's ISO is streamed *)
(* into <iso>.partial, resumed there if a part of it is already on disk,   *)
(* verified, and renamed.  The caller is `aegis-boot fetch', or the worker *)
(* of rescue-tui's catalog screen: the only one that can be cancelled, and *)
(* the only one in its directory.                                          *)
(*                                                                         *)
(* There is no lock on the directory.  What other runs of `aegis-boot      *)
(* fetch' do to the two files meanwhile (cut, append, write through an old *)
(* handle, remove, rename) is one action with any outcome, OtherFetch; so  *)
(* is, in a directory they share, what a power loss leaves.                *)
(* A body comes in Chunks reads of 1 MiB; bytes are told apart by the body *)
(* they are from.  Nothing is ever synced: what a power loss leaves of a   *)
(* file depends on what the kernel has written back by then.               *)
(***************************************************************************)
EXTENDS Naturals, Sequences, FiniteSets

CONSTANTS
  Body,          \* what mirrors may serve under the entry's iso_url
  Signed,        \* those the vendor has signed
  Chunks,        \* reads a whole body takes
  Leftover,      \* contents another fetch may give a file
  Lost,          \* a chunk that a power loss took, whatever is there instead
  NoIso          \* no file; no body

Contents == Seq(Body \cup {Lost})

ASSUME IsoFetchAssumption ==
  /\ Signed \subseteq Body /\ NoIso \notin Body \cup Contents
  /\ Lost \notin Body
  /\ Chunks \in Nat \ {0}
  /\ Leftover \subseteq Contents

VARIABLES
  in_tui,     \* is the caller rescue-tui's worker?
  on_iso,     \* is the entry's SigPattern DetachedSigOnIso?
  partial,    \* the chunks in <iso>.partial, or NoIso
  final,      \* the chunks in <iso>, or NoIso
  flash,      \* what a power loss may leave under that name (rescue-tui)
  step,       \* next step of the fetch
  phase,      \* its last event, or its result (see FetchProtocol)
  existing,   \* chunks it asked the server to leave out
  sent,       \* chunks of the body it is past
  body,       \* what the server sends; later, what is vouched for
  cancelled,  \* the flag its caller may set
  late,       \* history: chunks it wrote with the flag set
  crowded,    \* history: another fetch touched the files during this one
  torn        \* history: the power went before <iso> was written back

files == <<partial, final, flash, torn>>
stream == <<existing, sent, body>>
isoVars ==
  <<in_tui, on_iso, files, step, phase, stream, cancelled, late, crowded>>

Protocol == INSTANCE FetchProtocol

IsoInit ==
  /\ in_tui \in BOOLEAN /\ on_iso \in BOOLEAN
  /\ partial = NoIso /\ final = NoIso /\ flash = {NoIso} /\ torn = FALSE
  /\ step = "idle" /\ phase = "Rest"
  /\ existing = 0 /\ sent = 0 /\ body = NoIso
  /\ cancelled = FALSE /\ late = 0 /\ crowded = FALSE

-----------------------------------------------------------------------------
Whole(b) == [i \in 1 .. Chunks |-> b]

(* What a power loss may leave of a file that was not written back: it may *)
(* be shorter, and any part of it may be lost. *)
Damaged(c) ==
  IF c = NoIso THEN {NoIso}
  ELSE {[i \in 1 .. n |-> IF i \in lost THEN Lost ELSE c[i]] :
          n \in 0 .. Len(c), lost \in SUBSET (1 .. Len(c))}

Length == IF partial = NoIso THEN 0 ELSE Len(partial)

(* fetch_catalog_entry returns, with a FetchOutcome or a FetchError. *)
Return(result) ==
  /\ step' = "idle" /\ phase' = result
  /\ existing' = 0 /\ sent' = 0 /\ body' = NoIso
  /\ cancelled' = FALSE /\ late' = 0 /\ crowded' = FALSE
  /\ UNCHANGED <<in_tui, on_iso>>

Goto(s) == step' = s /\ UNCHANGED <<in_tui, on_iso, late, crowded>>

Begin ==
  /\ step = "idle"
  /\ step' = "probe" /\ phase' = "Started"
  /\ UNCHANGED <<in_tui, on_iso, files, stream, cancelled, late, crowded>>

(* The keyring has no certificate of the vendor, or create_dir_all fails. *)
BeginFails == step = "probe" /\ Return("Failed") /\ UNCHANGED files

(* The partial's length alone decides, whatever it holds. *)
Probe ==
  /\ step = "probe"
  /\ phase' = "Connecting"
  /\ existing' = Length
  /\ Goto(IF Length > 0 THEN "range" ELSE "get")
  /\ UNCHANGED <<files, sent, body, cancelled>>

(* A faulty variant: a range past the end is taken for an empty tail. *)
ResumePastEnd ==
  /\ step = "range" /\ partial # NoIso
  /\ sent' = existing
  /\ body' \in Body
  /\ Goto("poll")
  /\ UNCHANGED <<files, phase, existing, cancelled>>

(* 206: the tail of the mirror's body will be appended, whatever the head  *)
(* is of.  The file is opened by name and must be there.                   *)
Resume ==
  /\ step = "range" /\ existing < Chunks /\ partial # NoIso
  /\ sent' = existing
  /\ body' \in Body
  /\ Goto("poll")
  /\ UNCHANGED <<files, phase, existing, cancelled>>

(* 200: the mirror does not do ranges. *)
FullRestart ==
  /\ step = "range"
  /\ existing' = 0
  /\ Goto("get")
  /\ UNCHANGED <<files, phase, sent, body, cancelled>>

(* Any status but 200 and 206, any transport error, no file to append to:  *)
(* with a partial that is whole, the 416 of a server that is in order.     *)
RangeRefused == step = "range" /\ Return("Failed") /\ UNCHANGED files

(* The plain request; File::create empties what has the name. *)
Get ==
  /\ step = "get"
  /\ body' \in Body
  /\ partial' = <<>>
  /\ Goto("poll")
  /\ UNCHANGED <<final, flash, torn, phase, existing, sent, cancelled>>

GetFails == step = "get" /\ Return("Failed") /\ UNCHANGED files

-----------------------------------------------------------------------------
(* Esc on the catalog's confirm screen. *)
Cancel ==
  /\ in_tui /\ step # "idle" /\ ~ cancelled
  /\ cancelled' = TRUE
  /\ UNCHANGED <<in_tui, on_iso, files, step, phase, stream, late, crowded>>

(* A faulty variant: the flag is looked at before the first read only. *)
PollOnce ==
  /\ step = "poll"
  /\ IF cancelled /\ sent = existing
     THEN Return("Cancelled")
     ELSE Goto("read") /\ UNCHANGED <<phase, stream, cancelled>>
  /\ UNCHANGED files

(* pump_to_writer, before it blocks in read. *)
Poll ==
  /\ step = "poll"
  /\ IF cancelled
     THEN Return("Cancelled")
     ELSE Goto("read") /\ UNCHANGED <<phase, stream, cancelled>>
  /\ UNCHANGED files

(* A chunk is written.  When another fetch has removed or renamed the      *)
(* file, the handle leads to no name.                                      *)
Read ==
  /\ step = "read" /\ sent < Chunks
  /\ partial' = IF partial = NoIso THEN NoIso ELSE Append(partial, body)
  /\ sent' = sent + 1
  /\ phase' = "Downloading"
  /\ step' = "poll"
  /\ late' = late + (IF cancelled THEN 1 ELSE 0)
  /\ UNCHANGED <<in_tui, on_iso, final, flash, torn, existing, body, cancelled, crowded>>

(* read returns 0.  The length is not compared with what was announced.    *)
BodyEnds ==
  /\ step = "read"
  /\ existing' = 0 /\ sent' = 0 /\ body' = NoIso
  /\ Goto("sidecar")
  /\ UNCHANGED <<files, phase, cancelled>>

(* The connection breaks, or the disk is full.  What was written stays.    *)
ReadFails == step = "read" /\ Return("Failed") /\ UNCHANGED files

-----------------------------------------------------------------------------
(* Any error of the verification but Cancelled removes the partial; that   *)
(* this fails goes unnoticed.                                              *)
VerifyFails ==
  /\ Return("Failed")
  /\ partial' \in {NoIso, partial} /\ UNCHANGED <<final, flash, torn>>

(* A faulty variant: the hash is announced before the signature. *)
SidecarsHashFirst ==
  /\ step = "sidecar"
  /\ body' \in Signed \cup {NoIso}
  /\ phase' = "VerifyingHash"
  /\ Goto("signature")
  /\ UNCHANGED <<files, existing, sent, cancelled>>

(* The sums file and its signature, or the ISO's: of any state of the      *)
(* vendor's directory.  NoIso stands for one that does not verify.         *)
Sidecars ==
  /\ step = "sidecar"
  /\ body' \in Signed \cup {NoIso}
  /\ phase' = "VerifyingSig"
  /\ Goto("signature")
  /\ UNCHANGED <<files, existing, sent, cancelled>>

(* Not to be had, or no text. *)
SidecarsFail == step = "sidecar" /\ VerifyFails

(* try_verify_against_each: over the sums file, or over the bytes that are *)
(* on disk by now.                                                         *)
SignatureHolds ==
  /\ body # NoIso
  /\ on_iso => partial = Whole(body)

CheckSignature ==
  /\ step = "signature"
  /\ \/ /\ SignatureHolds
        /\ phase' = "VerifyingHash"
        /\ Goto("hash")
        /\ UNCHANGED <<files, stream, cancelled>>
     \/ ~ SignatureHolds /\ VerifyFails

(* A faulty variant: the digest is computed and not compared. *)
HashUncompared == partial # NoIso

(* The sums file lists the ISO by its digest.  With a signature on the ISO *)
(* itself the digest is for the record only.                               *)
HashMatches == partial # NoIso /\ (on_iso \/ partial = Whole(body))

HashIso ==
  /\ step = "hash" /\ HashMatches
  /\ Goto("rename")
  /\ UNCHANGED <<files, phase, stream, cancelled>>

(* The file cannot be read, the sums file does not list it, or the digest  *)
(* is another.                                                             *)
HashFails == step = "hash" /\ VerifyFails

(* hash_file polls the flag too, and the partial stays. *)
HashCancelled ==
  /\ step = "hash" /\ cancelled
  /\ Return("Cancelled") /\ UNCHANGED files

(* The renamed file's data was never synced. *)
Publish ==
  /\ step = "rename" /\ partial # NoIso
  /\ final' = partial /\ partial' = NoIso
  /\ flash' = (IF in_tui THEN flash \cup Damaged(partial) ELSE {partial})
  /\ torn' = FALSE
  /\ Return("Ok")

PublishFails == step = "rename" /\ Return("Failed") /\ UNCHANGED files

(* The process is killed; what it has written stays in the kernel.         *)
FetchDies == step # "idle" /\ Return("Rest") /\ UNCHANGED files

(* The kernel writes <iso> and its name back in its own time. *)
WriteBack ==
  /\ flash # {final}
  /\ flash' = {final}
  /\ UNCHANGED <<in_tui, on_iso, partial, final, torn, step, phase, stream,
                 cancelled, late, crowded>>

(* The power goes, or rescue-tui hands over to another kernel: load_and_exec *)
(* syncs no file system.  A rename not written back may be undone.         *)
PowerLoss ==
  /\ in_tui
  /\ final' \in flash /\ flash' = {final'}
  /\ partial' \in {NoIso} \cup Damaged(partial)
                   \cup (IF flash = {final} THEN {} ELSE Damaged(final))
  /\ torn' = (torn \/ flash # {final})
  /\ Return("Rest")

(* Other runs of `aegis-boot fetch' are at work in the same directory.     *)
OtherFetch ==
  /\ ~ in_tui
  /\ \/ partial' \in Leftover \cup {NoIso} /\ UNCHANGED <<final, flash>>
     \/ final' \in Leftover /\ flash' = {final'} /\ partial' \in {partial, NoIso}
  /\ crowded' = (step # "idle")
  /\ UNCHANGED <<in_tui, on_iso, torn, step, phase, stream, cancelled, late>>

IsoNext ==
  \/ Begin \/ BeginFails \/ Probe
  \/ Resume \/ FullRestart \/ RangeRefused \/ Get \/ GetFails
  \/ Cancel \/ Poll \/ Read \/ BodyEnds \/ ReadFails
  \/ Sidecars \/ SidecarsFail \/ CheckSignature
  \/ HashIso \/ HashFails \/ HashCancelled
  \/ Publish \/ PublishFails \/ FetchDies \/ OtherFetch
  \/ WriteBack \/ PowerLoss

-----------------------------------------------------------------------------
IsoTypeOK ==
  /\ in_tui \in BOOLEAN /\ on_iso \in BOOLEAN
  /\ partial \in Contents \cup {NoIso} /\ final \in Contents \cup {NoIso}
  /\ flash \subseteq Contents \cup {NoIso} /\ torn \in BOOLEAN
  /\ step \in {"idle", "probe", "range", "get", "poll", "read",
               "sidecar", "signature", "hash", "rename"}
  /\ phase \in Protocol!Phases
  /\ existing \in Nat /\ sent \in 0 .. Chunks /\ body \in Body \cup {NoIso}
  /\ cancelled \in BOOLEAN /\ late \in Nat /\ crowded \in BOOLEAN

(* A fetch whose files no other one touched returns Ok only with a whole   *)
(* ISO that the vendor signed under the final name, whatever earlier       *)
(* fetches, cancelled, killed or crowded, left in <iso>.partial, and       *)
(* however often the mirrors' body changed (fetch_catalog_entry).          *)
OkMeansSigned ==
  [][ (phase # "Ok" /\ phase' = "Ok" /\ ~ crowded)
        => \E b \in Signed : final' = Whole(b) ]_isoVars

(* In rescue-tui's directory, which iso-probe scans, what is under the     *)
(* final name comes from one ISO that the vendor signed: it is that ISO,   *)
(* whole, unless the power went (or a kernel was started) before the data  *)
(* was written back, and then what is left of it, never a mix of bodies,   *)
(* whatever torn partials were resumed (fetch_catalog_entry).              *)
FinalIsSigned ==
  in_tui /\ final # NoIso =>
    \E b \in Signed : IF torn THEN final \in Damaged(Whole(b)) ELSE final = Whole(b)

(* After Esc at most one more chunk is written (pump_to_writer). *)
CancelTakesHold == late <= 1

(* A fetch reports what its callers expect: see FetchProtocol. *)
ProtocolImplemented == Protocol!Spec

(* "Resume is opportunistic [..] at worst it falls back to a fresh         *)
(* download" (download_to_file): on rescue-tui's own partial, which no     *)
(* other process has touched, a retry does not fail for being complete.    *)
ResumeFallsBack ==
  [][in_tui /\ RangeRefused => existing < Chunks]_isoVars
=============================================================================
