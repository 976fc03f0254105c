----------------------------- MODULE TrustChain -----------------------------
(***************************************************************************)
(* `aegis-boot fetch-trust-chain`: try_run of bundle_fetch.rs with         *)
(* fetch_bundle (bundle_cache.rs), verify_bundle_manifest                  *)
(* (bundle_verify.rs), verify_with_epoch (aegis-trust, anchor.rs) and the  *)
(* seen-epoch file (seen_epoch.rs).                                        *)
(*                                                                         *)
(* Processes share the bundle cache and the seen-epoch file and nothing    *)
(* else: there is no lock.  The seen-epoch file is staged under one name   *)
(* for all processes, and a process keeps writing to the file it opened    *)
(* whatever name that file has by then, so names and files (inodes) are    *)
(* told apart.  Epochs are taken to have the same number of digits.        *)
(***************************************************************************)
EXTENDS Naturals, Sequences, FiniteSets

CONSTANTS
  Process,     \* concurrent runs of the command
  Bundle,      \* releases an origin may serve
  Version,     \* bundle_version strings: the names of cache directories
  File,        \* the bundle's files, in manifest order
  KeyEpoch,    \* bundle -> key_epoch of its manifest
  VersionOf,   \* bundle -> bundle_version of its manifest
  Malformation,\* bundle -> what is wrong with its manifest's shape, or None
  Authentic,   \* bundles whose manifest is rightly signed
  MinRequired, \* MIN_REQUIRED_EPOCH of the binary
  Anchors,     \* epochs the binary has an anchor and a public key for
  Inode,       \* files a staged or stored seen-epoch may live in
  None,        \* no file, no manifest
  Torn         \* contents cut short

(* What a manifest may be refused for before its signature is looked at. *)
BundleVerifyErrors ==
  {"Parse", "SchemaTooNew", "EmptyFileList", "PathTraversal", "BadSha256", "ZeroSize"}

ASSUME TrustChainAssumption ==
  /\ KeyEpoch \in [Bundle -> Nat] /\ VersionOf \in [Bundle -> Version]
  /\ File \in Seq(STRING)
  /\ Malformation \in [Bundle -> BundleVerifyErrors \cup {None}]
  /\ Authentic \subseteq Bundle /\ Anchors \subseteq Nat
  /\ MinRequired \in Nat \ {0}
  /\ IsFiniteSet(Process) /\ IsFiniteSet(Inode)
  /\ Cardinality(Inode) > Cardinality(Process)  \* CreateTmp finds one
  /\ None \notin Bundle \cup Inode \cup {Torn} /\ Torn \notin Nat

VARIABLES
  seen,        \* inode under the name `seen-epoch`, or None
  tmp,         \* inode under the name `seen-epoch.tmp`, or None
  content,     \* inode -> an epoch, or Torn when it does not parse
  cache,       \* version -> file number -> bundle the bytes are of, None or Torn
  pc,          \* process -> next step
  floor,       \* process -> seen epoch it loaded
  manifest,    \* process -> bundle whose manifest it verified, or None
  index,       \* process -> number of the manifest entry it is at
  next,        \* process -> epoch it is about to store
  fd,          \* process -> inode it holds open, or None
  highest,     \* history: highest epoch a store has returned Ok for
  overlapped,  \* history: have two stores ever overlapped?
  disturbed    \* history: processes whose cache directory another has written

epoch_file == <<seen, tmp, content>>
local == <<pc, floor, manifest, index, next, fd>>
history == <<highest, overlapped, disturbed>>
vars == <<epoch_file, cache, local, history>>

Maximum(m, n) == IF m >= n THEN m ELSE n

Parses == seen # None => content[seen] # Torn

(* load_seen_epoch().map_or(0, ..): absent and unreadable both count as 0. *)
SeenEpoch == IF seen # None /\ Parses THEN content[seen] ELSE 0

Storing == {"create", "write_tmp", "rename"}

Init ==
  /\ seen = None /\ tmp = None /\ content = [i \in Inode |-> Torn]
  /\ cache = [v \in Version |-> [n \in DOMAIN File |-> None]]
  /\ pc = [p \in Process |-> "idle"] /\ floor = [p \in Process |-> 0]
  /\ manifest = [p \in Process |-> None] /\ index = [p \in Process |-> 0]
  /\ next = [p \in Process |-> 0] /\ fd = [p \in Process |-> None]
  /\ highest = 0 /\ overlapped = FALSE /\ disturbed = {}

-----------------------------------------------------------------------------
(* try_run returns: what it held in memory is gone. *)
Exit(p) ==
  /\ pc' = [pc EXCEPT ![p] = "idle"] /\ floor' = [floor EXCEPT ![p] = 0]
  /\ manifest' = [manifest EXCEPT ![p] = None] /\ index' = [index EXCEPT ![p] = 0]
  /\ next' = [next EXCEPT ![p] = 0] /\ fd' = [fd EXCEPT ![p] = None]

(* Any I/O or download error, or a kill, at any step. *)
Stops(p) ==
  /\ pc[p] # "idle"
  /\ Exit(p)
  /\ UNCHANGED <<epoch_file, cache, history>>

LoadSeen(p) ==
  /\ pc[p] = "idle"
  /\ pc' = [pc EXCEPT ![p] = "manifest"]
  /\ floor' = [floor EXCEPT ![p] = SeenEpoch]
  /\ disturbed' = disturbed \ {p}
  /\ UNCHANGED <<epoch_file, cache, manifest, index, next, fd, highest, overlapped>>

(* A faulty variant: the signature is not looked at. *)
VerifiesUnsigned(b, seen_epoch) ==
  KeyEpoch[b] >= MinRequired /\ KeyEpoch[b] >= seen_epoch /\ KeyEpoch[b] \in Anchors

(* verify_with_epoch *)
VerifiesWithEpoch(b, seen_epoch) ==
  /\ KeyEpoch[b] >= MinRequired /\ KeyEpoch[b] >= seen_epoch
  /\ KeyEpoch[b] \in Anchors
  /\ b \in Authentic

(* verify_bundle_manifest *)
Verifies(b, seen_epoch) ==
  Malformation[b] = None /\ VerifiesWithEpoch(b, seen_epoch)

(* The origin serves any bundle's manifest.  (The copies of manifest and   *)
(* signature in the cache directory are never read back.)                  *)
FetchManifest(p) ==
  /\ pc[p] = "manifest"
  /\ \E b \in Bundle :
       \/ /\ Verifies(b, floor[p])
          /\ manifest' = [manifest EXCEPT ![p] = b]
          /\ index' = [index EXCEPT ![p] = 1]
          /\ pc' = [pc EXCEPT ![p] = "files"]
          /\ UNCHANGED <<floor, next, fd>>
       \/ ~ Verifies(b, floor[p]) /\ Exit(p)
  /\ UNCHANGED <<epoch_file, cache, history>>

-----------------------------------------------------------------------------
(* The cache directory: what is there and right is kept, all else fetched. *)

Dir(p) == VersionOf[manifest[p]]

(* A faulty variant: a file that is there is taken to be right. *)
NeedsDownloadIfAbsent(p) == cache[Dir(p)][index[p]] = None

NeedsDownload(p) == cache[Dir(p)][index[p]] # manifest[p]

KeepFile(p) ==
  /\ pc[p] = "files" /\ index[p] \in DOMAIN File
  /\ ~ NeedsDownload(p)
  /\ index' = [index EXCEPT ![p] = @ + 1]
  /\ UNCHANGED <<epoch_file, cache, pc, floor, manifest, next, fd, history>>

(* Another process's directory is written under its hands. *)
Disturbs(p) ==
  disturbed' =
    disturbed \cup {q \in Process \ {p} : manifest[q] # None /\ Dir(q) = Dir(p)}

(* The decision and the write are apart: the download lies in between. *)
DecideDownload(p) ==
  /\ pc[p] = "files" /\ index[p] \in DOMAIN File
  /\ NeedsDownload(p)
  /\ pc' = [pc EXCEPT ![p] = "download"]
  /\ UNCHANGED <<epoch_file, cache, floor, manifest, index, next, fd, history>>

(* The origin may have moved on to another bundle: the hash tells.         *)
(* fs::write truncates before it writes.                                   *)
Download(p) ==
  /\ pc[p] = "download"
  /\ \E b \in Bundle :
       \/ /\ b = manifest[p]
          /\ cache' = [cache EXCEPT ![Dir(p)][index[p]] = Torn]
          /\ pc' = [pc EXCEPT ![p] = "write"]
          /\ Disturbs(p)
          /\ UNCHANGED <<floor, manifest, index, next, fd>>
       \/ b # manifest[p] /\ Exit(p) /\ UNCHANGED <<cache, disturbed>>
  /\ UNCHANGED <<epoch_file, highest, overlapped>>

WriteFile(p) ==
  /\ pc[p] = "write"
  /\ cache' = [cache EXCEPT ![Dir(p)][index[p]] = manifest[p]]
  /\ index' = [index EXCEPT ![p] = @ + 1]
  /\ pc' = [pc EXCEPT ![p] = "files"]
  /\ Disturbs(p)
  /\ UNCHANGED <<epoch_file, floor, manifest, next, fd, highest, overlapped>>

(* fetch_bundle returns Ok. *)
ReturnPaths(p) ==
  /\ pc[p] = "files" /\ index[p] \notin DOMAIN File
  /\ pc' = [pc EXCEPT ![p] = "store"]
  /\ UNCHANGED <<epoch_file, cache, floor, manifest, index, next, fd, history>>

-----------------------------------------------------------------------------
(* store_seen_epoch *)

(* A faulty variant: the value on disk is not consulted. *)
NextEpochNew(p) == KeyEpoch[manifest[p]]

NextEpoch(p) == Maximum(SeenEpoch, KeyEpoch[manifest[p]])

(* A file that does not parse is an error here: try_run only warns. *)
ReadCurrent(p) ==
  /\ pc[p] = "store"
  /\ \/ ~ Parses /\ Exit(p) /\ UNCHANGED overlapped
     \/ /\ Parses
        /\ next' = [next EXCEPT ![p] = NextEpoch(p)]
        /\ pc' = [pc EXCEPT ![p] = "create"]
        /\ overlapped' = (overlapped \/ \E q \in Process \ {p} : pc[q] \in Storing)
        /\ UNCHANGED <<floor, manifest, index, fd>>
  /\ UNCHANGED <<epoch_file, cache, highest, disturbed>>

Unused == Inode \ ({seen, tmp} \cup {fd[q] : q \in Process})

(* File::create: a new file, or the one that has the name, cut to nothing. *)
CreateTmp(p) ==
  /\ pc[p] = "create"
  /\ \E i \in IF tmp # None THEN {tmp} ELSE Unused :
       /\ tmp' = i
       /\ content' = [content EXCEPT ![i] = Torn]
       /\ fd' = [fd EXCEPT ![p] = i]
  /\ pc' = [pc EXCEPT ![p] = "write_tmp"]
  /\ UNCHANGED <<seen, cache, floor, manifest, index, next, history>>

(* Written and synced through the handle, which is then closed. *)
WriteTmp(p) ==
  /\ pc[p] = "write_tmp"
  /\ content' = [content EXCEPT ![fd[p]] = next[p]]
  /\ fd' = [fd EXCEPT ![p] = None]
  /\ pc' = [pc EXCEPT ![p] = "rename"]
  /\ UNCHANGED <<seen, tmp, cache, floor, manifest, index, next, history>>

(* Whatever file has the name by now is renamed; without one, an error. *)
Rename(p) ==
  /\ pc[p] = "rename"
  /\ \/ /\ tmp # None
        /\ seen' = tmp /\ tmp' = None
        /\ highest' = Maximum(highest, next[p])
     \/ tmp = None /\ UNCHANGED <<seen, tmp, highest>>
  /\ Exit(p)
  /\ UNCHANGED <<content, cache, overlapped, disturbed>>

-----------------------------------------------------------------------------
Next ==
  \E p \in Process :
    \/ Stops(p) \/ LoadSeen(p) \/ FetchManifest(p)
    \/ KeepFile(p) \/ DecideDownload(p) \/ Download(p) \/ WriteFile(p) \/ ReturnPaths(p)
    \/ ReadCurrent(p) \/ CreateTmp(p) \/ WriteTmp(p) \/ Rename(p)

Spec == Init /\ [][Next]_vars

-----------------------------------------------------------------------------
(* The shape of the files and of every process's memory. *)
TypeOK ==
  /\ seen \in Inode \cup {None} /\ tmp \in Inode \cup {None}
  /\ content \in [Inode -> Nat \cup {Torn}]
  /\ cache \in [Version -> [DOMAIN File -> Bundle \cup {None, Torn}]]
  /\ pc \in [Process -> {"idle", "manifest", "files", "download", "write", "store"} \cup Storing]
  /\ floor \in [Process -> Nat] /\ manifest \in [Process -> Bundle \cup {None}]
  /\ index \in [Process -> 0 .. Len(File) + 1] /\ next \in [Process -> Nat]
  /\ fd \in [Process -> Inode \cup {None}]
  /\ highest \in Nat /\ overlapped \in BOOLEAN /\ disturbed \subseteq Process

(* While no two stores overlap, the floor a next run starts from is never  *)
(* below an epoch that was stored, and the file always parses, whatever    *)
(* killed runs have left under the staging name (store_seen_epoch_at).     *)
FloorKeptUnlessOverlap ==
  overlapped \/ (Parses /\ SeenEpoch >= highest)

(* A run that returns a bundle returns one whose every file is the         *)
(* manifest's, over any leftovers of killed runs and of another bundle of  *)
(* the same version, unless another run wrote the directory meanwhile      *)
(* (fetch_bundle: "partial caches self-heal").                             *)
ReturnedBundleIsWhole ==
  [][\A p \in Process : ReturnPaths(p) /\ p \notin disturbed =>
       \A n \in DOMAIN File : cache[Dir(p)][n] = manifest[p]]_vars

(* Nothing of a bundle that is malformed, not rightly signed, or below the *)
(* binary's floor, is ever on disk: in the cache or as a seen epoch (fetch_bundle   *)
(* verifies before it writes, try_run stores last).                        *)
OnlyVerifiedOnDisk ==
  LET verified == {b \in Authentic : Malformation[b] = None /\ KeyEpoch[b] >= MinRequired}
  IN  /\ \A v \in Version, n \in DOMAIN File : cache[v][n] \in verified \cup {None, Torn}
      /\ seen # None => content[seen] \in {KeyEpoch[b] : b \in verified} \cup {Torn}

(* What seen_epoch.rs says of the file: the value on disk never regresses, *)
(* and a truncated file is never visible.                                  *)
SeenEpochNeverRegresses ==
  [][Parses => Parses' /\ SeenEpoch' >= SeenEpoch]_vars
=============================================================================
