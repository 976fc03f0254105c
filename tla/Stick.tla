-------------------------------- MODULE Stick --------------------------------
(***************************************************************************)
(* What the host-side commands of aegis-boot share: one USB stick and the  *)
(* operator's attestation directory.  The commands run one at a time       *)
(* (StickFlash, StickUpdate); `cmd' names the one that runs.               *)
(*                                                                         *)
(* The stick has a partition table with a disk GUID, an EFI partition      *)
(* (ESP) with one slot per boot file and the manifest, and the data        *)
(* partition AEGIS_ISOS.  mtools are external: a copy may                  *)
(* fail, leave a torn file, or report success for bytes that did not       *)
(* arrive; a rename or a delete happens or does not.                       *)
(***************************************************************************)
EXTENDS Naturals

CONSTANTS NSlots,      \* number of boot files
          MaxVersion,  \* bound: versions a boot file can have
          Torn,        \* contents that are no version: cut short or corrupted
          None,        \* absent
          Receipt,     \* what the host keeps of an image flash: no manifest
          MaxFlashes,  \* bound: flashes of the stick
          MaxSeq,      \* bound: manifest sequence numbers
          Rendered     \* slots whose source a command builds first (initrd, grub.cfg)

Slots == 1..NSlots
Versions == 1..MaxVersion

Content == Versions \cup {Torn}
Names == {"main", "new", "bak"}

\* Disk GUIDs: 0 for none, one per direct flash, ImageGuid for sticks written
\* from the image, and that of an earlier direct flash.
ImageGuid == MaxFlashes + 1
EarlierGuid == MaxFlashes + 2
Guids == 0..EarlierGuid

Manifests == [guid : Guids, seq : 1..MaxSeq, sum : [Slots -> Versions]]

\* Bodies found in the attestation directory: the manifest of a direct
\* flash or the receipt of an image flash, which is no manifest.
Bodies == Manifests \cup {Receipt}

ASSUME StickAssumption ==
    /\ NSlots \in Nat \ {0} /\ MaxVersion \in Nat \ {0} /\ MaxFlashes \in Nat /\ MaxSeq \in Nat \ {0}
    /\ Rendered \subseteq Slots
    /\ Torn \notin Versions /\ None \notin Versions /\ None # Torn
    /\ {Torn, None, Receipt} \cap Manifests = {}

VARIABLES
    guid,       \* disk GUID in the partition table
    table,      \* "none", "empty", "ready": partitions 1 and 2 exist and are named
    espFs,      \* the ESP carries a FAT file system
    file,       \* file[s][n]: contents of the slot's file, its .new and its .bak
    manifest,   \* the ESP's aegis-boot-manifest.json
    store,      \* the attestation directory: records [guid, body]
    host,       \* host[s]: the version installed on the host
    src,        \* the sources the running command built: the rendered ones, an image
    cmd, pc,    \* the command that runs, and where it is
    at,         \* the slot it works on
    outcome     \* what the last command reported; "failed" also if it died

stickVars == <<guid, table, espFs, file, manifest>>
runVars == <<cmd, pc, at, outcome>>

Commands == {"none", "flash", "image", "update", "rollback"}
Outcomes == {"none", "flashed", "failed", "rotated", "refreshed", "restored", "indeterminate"}

Nothing == [s \in Slots |-> None]
EmptySlot == [n \in Names |-> None]

StickTypeOK ==
    /\ guid \in Guids
    /\ table \in {"none", "empty", "ready"}
    /\ espFs \in BOOLEAN
    /\ file \in [Slots -> [Names -> Content \cup {None}]]
    /\ manifest \in Manifests \cup {None, Torn}
    /\ \A e \in store : e.guid \in Guids /\ e.body \in Bodies
    /\ host \in [Slots -> Versions]
    /\ src \in [Slots -> Versions \cup {None}]
    /\ cmd \in Commands
    /\ at \in 0..NSlots + 1
    /\ outcome \in Outcomes

\* A new stick.
Blank ==
    /\ guid = 0 /\ table = "none" /\ espFs = FALSE
    /\ file = [s \in Slots |-> EmptySlot]
    /\ manifest = None
    /\ store = {}

\* A stick that an earlier direct flash finished.
FlashedBefore ==
    /\ guid = EarlierGuid /\ table = "ready" /\ espFs = TRUE
    /\ file = [s \in Slots |-> [EmptySlot EXCEPT !["main"] = 1]]
    /\ manifest = [guid |-> EarlierGuid, seq |-> 1, sum |-> [s \in Slots |-> 1]]
    /\ store = {[guid |-> guid, body |-> manifest]}

StickInit ==
    /\ Blank \/ FlashedBefore
    /\ host = [s \in Slots |-> 1] /\ src = Nothing
    /\ cmd = "none" /\ pc = "idle" /\ at = 0 /\ outcome = "none"

(***************************************************************************)
(* The mtools calls on one slot, with every result they can have.          *)
(***************************************************************************)

\* mcopy reports success; the bytes arrived or they did not.
Mcopy(s, n, v) ==
    \E b \in {v, Torn} : file' = [file EXCEPT ![s][n] = b]

\* mcopy fails, before or after it created the file.
McopyFails(s, n) ==
    file' \in {file, [file EXCEPT ![s][n] = Torn]}

\* mren moves a file that is there; an existing target is replaced when mtools
\* is told to, and refused (MtoolFails) otherwise.
Mren(s, from, to) ==
    /\ file[s][from] # None
    /\ file' = [file EXCEPT ![s][to] = file[s][from], ![s][from] = None]

\* mdel removes a file that is there.
Mdel(s, n) ==
    /\ file[s][n] # None
    /\ file' = [file EXCEPT ![s][n] = None]

\* Any other end of mren or mdel: a non-zero exit and nothing changed.
MtoolFails == file' = file

\* The host's attestation of this stick is written anew, in place over the file
\* `before', and the write fails or is killed.  It is one write, of less than a
\* page, to a file that has just been truncated: nothing was done, or what is
\* left is empty and found for no disk.
StoreCut(before) == store' \in {store, store \ {before}}

\* The package manager replaces a boot file on the host, at any time, by a
\* newer one.
HostUpgrade ==
    /\ \E s \in Slots, v \in Versions : v > host[s] /\ host' = [host EXCEPT ![s] = v]
    /\ UNCHANGED <<stickVars, store, src, runVars>>

\* A faulty variant: every source is looked for in the work directory.
SourceFromWorkDir(s) == src[s]

\* Where the bytes of a slot come from: a rendered source as it was built, any
\* other as the host has it when it is read.
SourceFor(s) == IF s \in Rendered THEN src[s] ELSE host[s]
BuildSources == src' = [s \in Slots |-> IF s \in Rendered THEN host[s] ELSE None]

\* The file can be read on the stick.
Readable(s, n) == table = "ready" /\ espFs /\ file[s][n] # None

\* The command ends and says so; its intermediates are deleted.
End(o) ==
    /\ cmd' = "none" /\ pc' = "idle" /\ at' = 0 /\ outcome' = o /\ src' = Nothing

Goto(l) ==
    /\ pc' = l
    /\ UNCHANGED <<cmd, at, outcome, src>>
=============================================================================
