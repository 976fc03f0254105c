-------------------------- MODULE TrustChainProofs --------------------------
(***************************************************************************)
(* Proofs about TrustChain.tla, for any number of processes, bundles,      *)
(* versions, files and epochs.                                             *)
(***************************************************************************)
EXTENDS TrustChain, TLAPS

(* The bundles whose bytes may reach the disk, and their epochs. *)
Verified ==
  {b \in Authentic : Malformation[b] = None /\ KeyEpoch[b] >= MinRequired}
Epochs == {KeyEpoch[b] : b \in Verified}

(* A process holds a verified manifest once it is past the verification,   *)
(* and only then; the entry it is at exists while it works on it, the      *)
(* handle it writes through is a file, and what it is about to store is a  *)
(* verified epoch.                                                         *)
ProcessFits(p) ==
  /\ manifest[p] \in Verified \cup {None}
  /\ IF pc[p] \in {"idle", "manifest"} THEN manifest[p] = None
     ELSE manifest[p] # None /\ index[p] # 0
  /\ pc[p] \in {"download", "write"} => index[p] \in DOMAIN File
  /\ pc[p] \in Storing => next[p] \in Epochs
  /\ pc[p] = "write_tmp" => fd[p] \in Inode

(* The inductive invariant. *)
IInv ==
  /\ TypeOK
  /\ \A i \in Inode : content[i] \in Epochs \cup {Torn}
  /\ \A v \in Version, n \in DOMAIN File : cache[v][n] \in Verified \cup {None, Torn}
  /\ \A p \in Process : ProcessFits(p)

LEMMA VerifiedTypes ==
  /\ Verified \subseteq Bundle /\ Epochs \subseteq Nat
  /\ \A b \in Verified : KeyEpoch[b] \in Epochs /\ VersionOf[b] \in Version
  /\ None \notin Bundle /\ None \notin Inode /\ None # Torn /\ Torn \notin Nat
  /\ Len(File) \in Nat /\ DOMAIN File = 1 .. Len(File)
<1>1. File \in Seq(STRING) => Len(File) \in Nat /\ DOMAIN File = 1 .. Len(File)
  OBVIOUS
<1> QED
  BY <1>1, TrustChainAssumption DEF Verified, Epochs

LEMMA InitIInv == Init => IInv
<1> USE VerifiedTypes
<1> SUFFICES ASSUME Init PROVE IInv
  OBVIOUS
<1>1. cache \in [Version -> [DOMAIN File -> Bundle \cup {None, Torn}]]
  BY DEF Init
<1>2. \A v \in Version, n \in DOMAIN File : cache[v][n] = None
  BY DEF Init
<1>3. TypeOK
  <2>1. 0 \in 0 .. Len(File) + 1
    OBVIOUS
  <2>2. content \in [Inode -> Nat \cup {Torn}] /\ floor \in [Process -> Nat]
    BY DEF Init
  <2>3. /\ index \in [Process -> 0 .. Len(File) + 1]
        /\ next \in [Process -> Nat] /\ fd \in [Process -> Inode \cup {None}]
        /\ manifest \in [Process -> Bundle \cup {None}]
    BY <2>1 DEF Init
  <2>4. pc \in [Process -> {"idle", "manifest", "files", "download", "write", "store"} \cup Storing]
    BY DEF Init
  <2> QED
    BY <1>1, <2>2, <2>3, <2>4 DEF Init, TypeOK
<1>4. \A p \in Process : ProcessFits(p)
  BY DEF Init, ProcessFits, Storing
<1> QED
  BY <1>2, <1>3, <1>4 DEF Init, IInv

(* Exit drops the process's memory and touches no other process. *)
LEMMA ExitFits ==
  ASSUME IInv, NEW p \in Process, Exit(p)
  PROVE  /\ pc' \in [Process -> {"idle", "manifest", "files", "download", "write",
                                 "store"} \cup Storing]
         /\ floor' \in [Process -> Nat] /\ manifest' \in [Process -> Bundle \cup {None}]
         /\ index' \in [Process -> 0 .. Len(File) + 1] /\ next' \in [Process -> Nat]
         /\ fd' \in [Process -> Inode \cup {None}]
         /\ \A q \in Process : ProcessFits(q)'
BY VerifiedTypes DEF Exit, IInv, TypeOK, ProcessFits, Storing

(* What SeenEpoch returns is a verified epoch, or 0 when there is none. *)
LEMMA SeenIsVerified ==
  ASSUME IInv
  PROVE  SeenEpoch \in Epochs \cup {0} /\ SeenEpoch \in Nat
BY VerifiedTypes DEF SeenEpoch, Parses, IInv, TypeOK

LEMMA StopsStep == ASSUME IInv, NEW p \in Process, Stops(p) PROVE IInv'
<1>1. Exit(p) /\ UNCHANGED <<epoch_file, cache, history>>
  BY DEF Stops
<1> QED
  BY <1>1, ExitFits DEF IInv, TypeOK, epoch_file, history

LEMMA LoadSeenStep == ASSUME IInv, NEW p \in Process, LoadSeen(p) PROVE IInv'
<1>1. SeenEpoch \in Nat
  BY SeenIsVerified
<1>2. TypeOK'
  BY <1>1 DEF LoadSeen, IInv, TypeOK, epoch_file
<1>3. \A q \in Process : ProcessFits(q)'
  BY DEF LoadSeen, IInv, TypeOK, ProcessFits, Storing
<1> QED
  BY <1>2, <1>3 DEF LoadSeen, IInv, epoch_file

LEMMA FetchManifestStep == ASSUME IInv, NEW p \in Process, FetchManifest(p) PROVE IInv'
<1> USE VerifiedTypes
<1>1. CASE Exit(p) /\ UNCHANGED <<epoch_file, cache, history>>
  BY <1>1, ExitFits DEF IInv, TypeOK, epoch_file, history
<1>2. ASSUME NEW b \in Bundle, Verifies(b, floor[p]),
             manifest' = [manifest EXCEPT ![p] = b],
             index' = [index EXCEPT ![p] = 1],
             pc' = [pc EXCEPT ![p] = "files"],
             UNCHANGED <<floor, next, fd, epoch_file, cache, history>>
      PROVE  IInv'
  <2>1. b \in Verified
    BY <1>2 DEF Verifies, VerifiesWithEpoch, Verified
  <2>2. TypeOK'
    BY <1>2 DEF IInv, TypeOK, epoch_file, history
  <2>3. \A q \in Process : ProcessFits(q)'
    BY <1>2, <2>1 DEF IInv, TypeOK, ProcessFits, Storing
  <2> QED
    BY <1>2, <2>2, <2>3 DEF IInv, epoch_file
<1> QED
  BY <1>1, <1>2 DEF FetchManifest

LEMMA KeepFileStep == ASSUME IInv, NEW p \in Process, KeepFile(p) PROVE IInv'
<1> USE VerifiedTypes
<1>1. TypeOK'
  BY DEF KeepFile, IInv, TypeOK, epoch_file, history
<1>2. \A q \in Process : ProcessFits(q)'
  BY DEF KeepFile, IInv, TypeOK, ProcessFits, Storing
<1> QED
  BY <1>1, <1>2 DEF KeepFile, IInv, epoch_file

LEMMA DecideDownloadStep == ASSUME IInv, NEW p \in Process, DecideDownload(p) PROVE IInv'
<1> USE VerifiedTypes
<1>1. TypeOK'
  BY DEF DecideDownload, IInv, TypeOK, epoch_file, history
<1>2. \A q \in Process : ProcessFits(q)'
  BY DEF DecideDownload, IInv, TypeOK, ProcessFits, Storing
<1> QED
  BY <1>1, <1>2 DEF DecideDownload, IInv, epoch_file

(* Writing one file of the directory of a verified manifest. *)
LEMMA CacheWrite ==
  ASSUME IInv, NEW p \in Process, pc[p] \in {"download", "write"},
         NEW bytes \in Verified \cup {None, Torn},
         cache' = [cache EXCEPT ![Dir(p)][index[p]] = bytes]
  PROVE  /\ cache' \in [Version -> [DOMAIN File -> Bundle \cup {None, Torn}]]
         /\ \A v \in Version, n \in DOMAIN File : cache'[v][n] \in Verified \cup {None, Torn}
<1> USE VerifiedTypes
<1>1. Dir(p) \in Version /\ index[p] \in DOMAIN File
  BY DEF IInv, ProcessFits, Dir
<1>2. cache \in [Version -> [DOMAIN File -> Bundle \cup {None, Torn}]]
  BY DEF IInv, TypeOK
<1>3. cache' = [cache EXCEPT ![Dir(p)] = [cache[Dir(p)] EXCEPT ![index[p]] = bytes]]
  OBVIOUS
<1>4. [cache[Dir(p)] EXCEPT ![index[p]] = bytes] \in [DOMAIN File -> Bundle \cup {None, Torn}]
  BY <1>1, <1>2
<1> QED
  BY <1>1, <1>2, <1>3, <1>4 DEF IInv

LEMMA DownloadStep == ASSUME IInv, NEW p \in Process, Download(p) PROVE IInv'
<1> USE VerifiedTypes
<1>0. UNCHANGED <<epoch_file, highest, overlapped>> /\ pc[p] = "download"
  BY DEF Download
<1>1. CASE Exit(p) /\ UNCHANGED <<cache, disturbed>>
  BY <1>0, <1>1, ExitFits DEF IInv, TypeOK, epoch_file
<1>2. ASSUME cache' = [cache EXCEPT ![Dir(p)][index[p]] = Torn],
             pc' = [pc EXCEPT ![p] = "write"], Disturbs(p),
             UNCHANGED <<floor, manifest, index, next, fd>>
      PROVE  IInv'
  <2>1. /\ cache' \in [Version -> [DOMAIN File -> Bundle \cup {None, Torn}]]
        /\ \A v \in Version, n \in DOMAIN File : cache'[v][n] \in Verified \cup {None, Torn}
    BY <1>0, <1>2, CacheWrite
  <2>2. TypeOK'
    BY <1>0, <1>2, <2>1 DEF IInv, TypeOK, epoch_file, Disturbs
  <2>3. \A q \in Process : ProcessFits(q)'
    BY <1>0, <1>2 DEF IInv, TypeOK, ProcessFits, Storing
  <2> QED
    BY <1>0, <2>1, <2>2, <2>3 DEF IInv, epoch_file
<1> QED
  BY <1>1, <1>2 DEF Download

LEMMA WriteFileStep == ASSUME IInv, NEW p \in Process, WriteFile(p) PROVE IInv'
<1> USE VerifiedTypes
<1>1. manifest[p] \in Verified
  BY DEF WriteFile, IInv, ProcessFits
<1>2. /\ cache' \in [Version -> [DOMAIN File -> Bundle \cup {None, Torn}]]
      /\ \A v \in Version, n \in DOMAIN File : cache'[v][n] \in Verified \cup {None, Torn}
  BY <1>1, CacheWrite DEF WriteFile
<1>3. index[p] \in DOMAIN File
  BY DEF WriteFile, IInv, ProcessFits
<1>4. TypeOK'
  BY <1>2, <1>3 DEF WriteFile, IInv, TypeOK, epoch_file, Disturbs
<1>5. \A q \in Process : ProcessFits(q)'
  BY DEF WriteFile, IInv, TypeOK, ProcessFits, Storing
<1> QED
  BY <1>2, <1>4, <1>5 DEF WriteFile, IInv, epoch_file

LEMMA ReturnPathsStep == ASSUME IInv, NEW p \in Process, ReturnPaths(p) PROVE IInv'
<1> USE VerifiedTypes
<1>1. TypeOK'
  BY DEF ReturnPaths, IInv, TypeOK, epoch_file, history
<1>2. \A q \in Process : ProcessFits(q)'
  BY DEF ReturnPaths, IInv, TypeOK, ProcessFits, Storing
<1> QED
  BY <1>1, <1>2 DEF ReturnPaths, IInv, epoch_file

LEMMA ReadCurrentStep == ASSUME IInv, NEW p \in Process, ReadCurrent(p) PROVE IInv'
<1> USE VerifiedTypes
<1>0. pc[p] = "store" /\ UNCHANGED <<epoch_file, cache, highest, disturbed>>
  BY DEF ReadCurrent
<1>1. CASE Exit(p) /\ UNCHANGED overlapped
  BY <1>0, <1>1, ExitFits DEF IInv, TypeOK, epoch_file
<1>2. ASSUME next' = [next EXCEPT ![p] = NextEpoch(p)],
             pc' = [pc EXCEPT ![p] = "create"],
             overlapped' \in BOOLEAN,
             UNCHANGED <<floor, manifest, index, fd>>
      PROVE  IInv'
  <2>1. KeyEpoch[manifest[p]] \in Epochs
    BY <1>0 DEF IInv, ProcessFits
  <2>2. NextEpoch(p) \in Epochs
    <3>1. \A m \in Epochs \cup {0}, k \in Epochs : m \in Nat /\ k \in Nat /\ Maximum(m, k) \in Epochs
      BY DEF Maximum
    <3> QED
      BY <2>1, <3>1, SeenIsVerified DEF NextEpoch
  <2>3. TypeOK'
    BY <1>0, <1>2, <2>2 DEF IInv, TypeOK, epoch_file, Storing
  <2>4. \A q \in Process : ProcessFits(q)'
    BY <1>0, <1>2, <2>2 DEF IInv, TypeOK, ProcessFits, Storing
  <2> QED
    BY <1>0, <2>3, <2>4 DEF IInv, epoch_file
<1>3. ASSUME overlapped' = (overlapped \/ \E q \in Process \ {p} : pc[q] \in Storing)
      PROVE  overlapped' \in BOOLEAN
  BY <1>3, Zenon
<1> QED
  BY <1>1, <1>2, <1>3 DEF ReadCurrent

LEMMA CreateTmpStep == ASSUME IInv, NEW p \in Process, CreateTmp(p) PROVE IInv'
<1> USE VerifiedTypes
<1>1. PICK i \in Inode : /\ tmp' = i
                         /\ content' = [content EXCEPT ![i] = Torn]
                         /\ fd' = [fd EXCEPT ![p] = i]
  BY DEF CreateTmp, Unused, IInv, TypeOK
<1>2. TypeOK'
  BY <1>1 DEF CreateTmp, IInv, TypeOK, history, Storing
<1>3. \A j \in Inode : content'[j] \in Epochs \cup {Torn}
  BY <1>1 DEF IInv, TypeOK
<1>4. \A q \in Process : ProcessFits(q)'
  BY <1>1 DEF CreateTmp, IInv, TypeOK, ProcessFits, Storing
<1> QED
  BY <1>2, <1>3, <1>4 DEF CreateTmp, IInv

LEMMA WriteTmpStep == ASSUME IInv, NEW p \in Process, WriteTmp(p) PROVE IInv'
<1> USE VerifiedTypes
<1>1. next[p] \in Epochs /\ fd[p] \in Inode
  BY DEF WriteTmp, IInv, ProcessFits, Storing
<1>2. TypeOK'
  BY <1>1 DEF WriteTmp, IInv, TypeOK, history, Storing
<1>3. \A j \in Inode : content'[j] \in Epochs \cup {Torn}
  BY <1>1 DEF WriteTmp, IInv, TypeOK
<1>4. \A q \in Process : ProcessFits(q)'
  BY <1>1 DEF WriteTmp, IInv, TypeOK, ProcessFits, Storing
<1> QED
  BY <1>2, <1>3, <1>4 DEF WriteTmp, IInv

LEMMA RenameStep == ASSUME IInv, NEW p \in Process, Rename(p) PROVE IInv'
<1> USE VerifiedTypes
<1>1. Exit(p) /\ UNCHANGED <<content, cache, overlapped, disturbed>>
  BY DEF Rename
<1>2. seen' \in Inode \cup {None} /\ tmp' \in Inode \cup {None} /\ highest' \in Nat
  BY DEF Rename, IInv, TypeOK, Maximum
<1> QED
  BY <1>1, <1>2, ExitFits DEF IInv, TypeOK

LEMMA StutterStep == IInv /\ UNCHANGED vars => IInv'
BY DEF IInv, TypeOK, ProcessFits, Storing, vars, epoch_file, local, history

LEMMA NextIInv == IInv /\ [Next]_vars => IInv'
<1> SUFFICES ASSUME IInv, [Next]_vars PROVE IInv'
  OBVIOUS
<1>1. CASE UNCHANGED vars
  BY <1>1, StutterStep
<1>2. CASE Next
  <2> PICK p \in Process :
        \/ Stops(p) \/ LoadSeen(p) \/ FetchManifest(p)
        \/ KeepFile(p) \/ DecideDownload(p) \/ Download(p) \/ WriteFile(p) \/ ReturnPaths(p)
        \/ ReadCurrent(p) \/ CreateTmp(p) \/ WriteTmp(p) \/ Rename(p)
    BY <1>2 DEF Next
  <2> QED
    BY StopsStep, LoadSeenStep, FetchManifestStep, KeepFileStep, DecideDownloadStep,
       DownloadStep, WriteFileStep, ReturnPathsStep, ReadCurrentStep, CreateTmpStep,
       WriteTmpStep, RenameStep
<1> QED
  BY <1>1, <1>2

THEOREM InvariantHolds == Spec => []IInv
BY InitIInv, NextIInv, PTL DEF Spec

-----------------------------------------------------------------------------
(* Every variable keeps its type: no process indexes an entry the manifest *)
(* does not have, or writes through a handle it has not opened (try_run).  *)
THEOREM TypeCorrect == Spec => []TypeOK
BY InvariantHolds, PTL DEF IInv

(* Whatever the number of runs, and wherever they are killed, nothing of   *)
(* an unverified bundle reaches the cache or the seen-epoch file           *)
(* (verify_bundle_manifest before any write, store_seen_epoch last).       *)
THEOREM DiskIsVerified == Spec => []OnlyVerifiedOnDisk
<1>1. IInv => OnlyVerifiedOnDisk
  BY DEF IInv, TypeOK, OnlyVerifiedOnDisk, Verified, Epochs
<1> QED
  BY <1>1, InvariantHolds, PTL

-----------------------------------------------------------------------------
(* The cache.  What a run has put behind it stays right until another run  *)
(* writes the directory, which marks it disturbed.                         *)
Behind(p) ==
  p \notin disturbed /\ manifest[p] # None =>
    \A n \in DOMAIN File : n < index[p] => cache[Dir(p)][n] = manifest[p]

CacheInv == IInv /\ \A p \in Process : Behind(p)

LEMMA InitCache == Init => CacheInv
BY InitIInv DEF Init, CacheInv, Behind

(* One process's write into its own directory. *)
LEMMA BehindWrite ==
  ASSUME CacheInv, NEW p \in Process, pc[p] \in {"download", "write"},
         NEW bytes \in Verified \cup {None, Torn},
         cache' = [cache EXCEPT ![Dir(p)][index[p]] = bytes],
         Disturbs(p), manifest' = manifest,
         NEW q \in Process, q # p, index'[q] = index[q]
  PROVE  Behind(q)'
<1> USE VerifiedTypes
<1> SUFFICES ASSUME q \notin disturbed', manifest[q] # None,
                    NEW n \in DOMAIN File, n < index[q]
             PROVE  cache'[Dir(q)][n] = manifest[q]
  BY DEF Behind, Dir
<1>1. Dir(q) # Dir(p) /\ q \notin disturbed
  BY DEF Disturbs
<1>2. cache[Dir(q)][n] = manifest[q]
  BY <1>1 DEF CacheInv, Behind
<1>3. Dir(q) \in Version
  BY DEF CacheInv, IInv, ProcessFits, Dir
<1>4. cache'[Dir(q)] = cache[Dir(q)]
  BY <1>1, <1>3 DEF CacheInv, IInv, TypeOK
<1> QED
  BY <1>2, <1>4

LEMMA NextCache == CacheInv /\ [Next]_vars => CacheInv'
<1> USE VerifiedTypes
<1> SUFFICES ASSUME CacheInv, [Next]_vars PROVE CacheInv'
  OBVIOUS
<1>1. IInv /\ IInv'
  BY NextIInv DEF CacheInv
<1>2. ASSUME NEW p \in Process, Exit(p), cache' = cache, disturbed' = disturbed,
             NEW q \in Process
      PROVE  Behind(q)'
  BY <1>1, <1>2 DEF Exit, CacheInv, Behind, Dir, IInv, TypeOK
<1>3. ASSUME NEW p \in Process, Stops(p) \/ ReadCurrent(p) \/ Rename(p), NEW q \in Process
      PROVE  Behind(q)'
  <2>1. CASE Exit(p) /\ cache' = cache /\ disturbed' = disturbed
    BY <1>2, <2>1
  <2>2. CASE UNCHANGED <<cache, disturbed, manifest, index>>
    BY <2>2 DEF CacheInv, Behind, Dir
  <2> QED
    BY <1>3, <2>1, <2>2 DEF Stops, ReadCurrent, Rename, history
<1>4. ASSUME NEW p \in Process, LoadSeen(p), NEW q \in Process
      PROVE  Behind(q)'
  <2>1. manifest[p] = None
    BY <1>1, <1>4 DEF LoadSeen, IInv, ProcessFits
  <2>2. pc[p] = "idle" /\ UNCHANGED <<cache, manifest, index>> /\ disturbed' = disturbed \ {p}
    BY <1>4 DEF LoadSeen
  <2> QED
    BY <2>1, <2>2 DEF CacheInv, Behind, Dir
<1>5. ASSUME NEW p \in Process, FetchManifest(p), NEW q \in Process
      PROVE  Behind(q)'
  <2>1. CASE Exit(p)
    BY <1>2, <1>5, <2>1 DEF FetchManifest, history
  <2>2. CASE ~ Exit(p)
    <3>1. /\ index' = [index EXCEPT ![p] = 1] /\ cache' = cache /\ disturbed' = disturbed
          /\ \E b \in Bundle : manifest' = [manifest EXCEPT ![p] = b]
      BY <1>5, <2>2 DEF FetchManifest, history
    <3> QED
      BY <1>1, <3>1 DEF CacheInv, Behind, Dir, IInv, TypeOK
  <2> QED
    BY <2>1, <2>2
<1>6. ASSUME NEW p \in Process, KeepFile(p), NEW q \in Process
      PROVE  Behind(q)'
  BY <1>1, <1>6 DEF KeepFile, NeedsDownload, CacheInv, Behind, Dir, IInv, TypeOK, history
<1>7. ASSUME NEW p \in Process, NEW q \in Process,
             DecideDownload(p) \/ ReturnPaths(p) \/ CreateTmp(p) \/ WriteTmp(p) \/ UNCHANGED vars
      PROVE  Behind(q)'
  <2>1. UNCHANGED <<cache, disturbed, manifest, index>>
    BY <1>7 DEF DecideDownload, ReturnPaths, CreateTmp, WriteTmp, history, vars, local
  <2> QED
    BY <2>1 DEF CacheInv, Behind, Dir
<1>8. ASSUME NEW p \in Process, Download(p), NEW q \in Process
      PROVE  Behind(q)'
  <2>1. CASE Exit(p) /\ UNCHANGED <<cache, disturbed>>
    BY <1>2, <2>1
  <2>2. CASE /\ cache' = [cache EXCEPT ![Dir(p)][index[p]] = Torn]
             /\ Disturbs(p) /\ UNCHANGED <<manifest, index>>
    <3>1. CASE q # p
      BY <1>8, <2>2, <3>1, BehindWrite DEF Download
    <3>2. CASE q = p
      <4>1. \A n \in DOMAIN File : n < index[p] => cache'[Dir(p)][n] = cache[Dir(p)][n]
        BY <1>1, <1>8, <2>2 DEF Download, IInv, TypeOK, ProcessFits, Dir
      <4>2. p \notin disturbed' => p \notin disturbed
        BY <2>2 DEF Disturbs
      <4> QED
        BY <2>2, <3>2, <4>1, <4>2 DEF CacheInv, Behind, Dir
    <3> QED
      BY <3>1, <3>2
  <2> QED
    BY <1>8, <2>1, <2>2 DEF Download
<1>9. ASSUME NEW p \in Process, WriteFile(p), NEW q \in Process
      PROVE  Behind(q)'
  <2>1. manifest[p] \in Verified /\ Dir(p) \in Version /\ index[p] \in DOMAIN File
    BY <1>1, <1>9 DEF WriteFile, IInv, ProcessFits, Dir
  <2>2. index' = [index EXCEPT ![p] = index[p] + 1] /\ manifest' = manifest /\ Disturbs(p)
    BY <1>9 DEF WriteFile
  <2>3. CASE q # p
    BY <1>1, <1>9, <2>1, <2>2, <2>3, BehindWrite DEF WriteFile, IInv, TypeOK
  <2>4. CASE q = p
    <3>1. \A n \in DOMAIN File : n < index[p] => cache'[Dir(p)][n] = cache[Dir(p)][n]
      BY <1>1, <1>9, <2>1 DEF WriteFile, IInv, TypeOK
    <3>2. cache'[Dir(p)][index[p]] = manifest[p]
      BY <1>1, <1>9, <2>1 DEF WriteFile, IInv, TypeOK
    <3>3. p \notin disturbed' => p \notin disturbed
      BY <2>2 DEF Disturbs
    <3>4. \A n \in DOMAIN File : n < index'[p] => n < index[p] \/ n = index[p]
      <4>1. index'[p] = index[p] + 1
        BY <1>1, <2>2 DEF IInv, TypeOK
      <4>2. index[p] \in Nat /\ \A n \in DOMAIN File : n \in Nat
        BY <2>1
      <4> QED
        BY <4>1, <4>2
    <3> QED
      BY <2>1, <2>2, <2>4, <3>1, <3>2, <3>3, <3>4 DEF CacheInv, Behind, Dir
  <2> QED
    BY <2>3, <2>4
<1>10. CASE Next
  <2>1. PICK p \in Process :
          \/ Stops(p) \/ LoadSeen(p) \/ FetchManifest(p)
          \/ KeepFile(p) \/ DecideDownload(p) \/ Download(p) \/ WriteFile(p) \/ ReturnPaths(p)
          \/ ReadCurrent(p) \/ CreateTmp(p) \/ WriteTmp(p) \/ Rename(p)
    BY <1>10 DEF Next
  <2>2. \A q \in Process : Behind(q)'
    BY <1>3, <1>4, <1>5, <1>6, <1>7, <1>8, <1>9, <2>1
  <2> QED
    BY <1>1, <2>2 DEF CacheInv
<1>11. CASE UNCHANGED vars
  BY <1>1, <1>7, <1>11 DEF CacheInv
<1> QED
  BY <1>10, <1>11

(* A returned bundle is whole, for any number of files, bundles, leftovers *)
(* and runs: an undisturbed run never returns over a file that is missing, *)
(* torn or another bundle's (fetch_bundle).                                *)
THEOREM ReturnsWhole == Spec => ReturnedBundleIsWhole
<1>1. Spec => []CacheInv
  BY InitCache, NextCache, PTL DEF Spec
<1>2. CacheInv /\ [Next]_vars =>
        [\A p \in Process : ReturnPaths(p) /\ p \notin disturbed =>
           \A n \in DOMAIN File : cache[Dir(p)][n] = manifest[p]]_vars
  <2> SUFFICES ASSUME CacheInv, NEW p \in Process, ReturnPaths(p), p \notin disturbed,
                      NEW n \in DOMAIN File
               PROVE  cache[Dir(p)][n] = manifest[p]
    OBVIOUS
  <2>1. manifest[p] # None /\ index[p] \in 0 .. Len(File) + 1 /\ index[p] \notin DOMAIN File
    BY DEF CacheInv, IInv, TypeOK, ProcessFits, ReturnPaths
  <2>2. Behind(p)
    BY DEF CacheInv
  <2>3. index[p] # 0
    BY DEF ReturnPaths, CacheInv, IInv, ProcessFits
  <2> QED
    BY <2>1, <2>2, <2>3, VerifiedTypes DEF Behind
<1> QED
  BY <1>1, <1>2, PTL DEF Spec, ReturnedBundleIsWhole

-----------------------------------------------------------------------------
(* The seen-epoch file while no two stores have overlapped: it parses, a   *)
(* store on its way holds a value that is not below the file's, and what   *)
(* is under the staging name is that store's own.                          *)
StoreFits(p) ==
  /\ pc[p] \in Storing => next[p] >= highest
  /\ pc[p] = "write_tmp" => fd[p] = tmp
  /\ pc[p] = "rename" => tmp # None /\ content[tmp] = next[p]

Quiet ==
  /\ Parses /\ SeenEpoch >= highest
  /\ \A p, q \in Process : pc[p] \in Storing /\ pc[q] \in Storing => p = q
  /\ \A p \in Process : StoreFits(p)

FloorInv == IInv /\ (tmp # None => tmp # seen) /\ (~ overlapped => Quiet)

LEMMA InitFloor == Init => FloorInv
BY InitIInv DEF Init, FloorInv, Quiet, StoreFits, Parses, SeenEpoch, Storing

(* A step that leaves the file alone and starts no store. *)
LEMMA CalmStep ==
  ASSUME FloorInv, UNCHANGED <<epoch_file, highest, overlapped>>,
         \A q \in Process :
           \/ pc'[q] \notin Storing
           \/ pc'[q] = pc[q] /\ next'[q] = next[q] /\ fd'[q] = fd[q]
  PROVE  (tmp # None => tmp # seen)' /\ (~ overlapped => Quiet)'
<1>1. (tmp # None => tmp # seen)'
  BY DEF FloorInv, epoch_file
<1>2. ASSUME ~ overlapped PROVE Quiet'
  <2>1. Quiet
    BY <1>2 DEF FloorInv
  <2>2. (Parses /\ SeenEpoch >= highest)'
    BY <2>1 DEF Quiet, Parses, SeenEpoch, epoch_file
  <2>3. \A q \in Process : StoreFits(q)'
    BY <2>1 DEF Quiet, StoreFits, epoch_file, Storing
  <2> QED
    BY <2>1, <2>2, <2>3 DEF Quiet
<1> QED
  BY <1>1, <1>2

LEMMA NextFloor == FloorInv /\ [Next]_vars => FloorInv'
<1> USE VerifiedTypes
<1> SUFFICES ASSUME FloorInv, [Next]_vars PROVE FloorInv'
  OBVIOUS
<1>1. IInv /\ IInv'
  BY NextIInv DEF FloorInv
<1>2. SeenEpoch \in Nat /\ highest \in Nat
  BY <1>1, SeenIsVerified DEF IInv, TypeOK, Storing
<1> DEFINE Kept == (tmp # None => tmp # seen)' /\ (~ overlapped => Quiet)'
<1>3. ASSUME NEW p \in Process,
             Stops(p) \/ LoadSeen(p) \/ FetchManifest(p) \/ KeepFile(p) \/ DecideDownload(p)
               \/ Download(p) \/ WriteFile(p) \/ ReturnPaths(p)
      PROVE  Kept
  <2>1. UNCHANGED <<epoch_file, highest, overlapped>>
    BY <1>3 DEF Stops, LoadSeen, FetchManifest, KeepFile, DecideDownload, Download, WriteFile,
                ReturnPaths, history
  <2>2. pc'[p] \notin Storing
    BY <1>1, <1>3 DEF Stops, LoadSeen, FetchManifest, KeepFile, DecideDownload, Download,
                      WriteFile, ReturnPaths, Exit, IInv, TypeOK, Storing
  <2>3. \A q \in Process \ {p} : pc'[q] = pc[q] /\ next'[q] = next[q] /\ fd'[q] = fd[q]
    BY <1>1, <1>3 DEF Stops, LoadSeen, FetchManifest, KeepFile, DecideDownload, Download,
                      WriteFile, ReturnPaths, Exit, IInv, TypeOK
  <2> QED
    BY <2>1, <2>2, <2>3, CalmStep
<1>4. ASSUME NEW p \in Process, ReadCurrent(p) PROVE Kept
  <2>1. CASE Exit(p) /\ UNCHANGED overlapped
    <3>1. UNCHANGED <<epoch_file, highest, overlapped>> /\ pc'[p] \notin Storing
      BY <1>1, <1>4, <2>1 DEF ReadCurrent, Exit, IInv, TypeOK, Storing
    <3>2. \A q \in Process \ {p} : pc'[q] = pc[q] /\ next'[q] = next[q] /\ fd'[q] = fd[q]
      BY <1>1, <2>1 DEF Exit, IInv, TypeOK
    <3> QED
      BY <3>1, <3>2, CalmStep
  <2>2. CASE /\ next' = [next EXCEPT ![p] = NextEpoch(p)]
             /\ pc' = [pc EXCEPT ![p] = "create"]
             /\ overlapped' = (overlapped \/ \E q \in Process \ {p} : pc[q] \in Storing)
             /\ UNCHANGED fd
    <3>1. UNCHANGED <<epoch_file, highest>> /\ pc[p] = "store"
      BY <1>4 DEF ReadCurrent
    <3>2. ASSUME ~ overlapped' PROVE Quiet'
      <4>1. ~ overlapped /\ \A q \in Process \ {p} : pc[q] \notin Storing
        BY <2>2, <3>2
      <4>2. Quiet
        BY <4>1 DEF FloorInv
      <4>3. manifest[p] \in Verified /\ KeyEpoch[manifest[p]] \in Nat
        BY <1>1, <3>1 DEF IInv, ProcessFits, Storing
      <4>4. NextEpoch(p) >= SeenEpoch /\ NextEpoch(p) \in Nat
        BY <1>2, <4>3 DEF NextEpoch, Maximum
      <4>5. next'[p] >= highest
        BY <1>1, <1>2, <2>2, <4>2, <4>4 DEF IInv, TypeOK, Quiet
      <4>6. pc'[p] = "create" /\ \A q \in Process \ {p} : pc'[q] = pc[q]
        BY <1>1, <2>2 DEF IInv, TypeOK
      <4>7. (Parses /\ SeenEpoch >= highest)'
        BY <3>1, <4>2 DEF Quiet, Parses, SeenEpoch, epoch_file
      <4>8. \A q \in Process : StoreFits(q)'
        BY <3>1, <4>1, <4>5, <4>6 DEF StoreFits, Storing
      <4> QED
        BY <4>1, <4>6, <4>7, <4>8 DEF Quiet
    <3> QED
      BY <3>1, <3>2 DEF FloorInv, epoch_file
  <2> QED
    BY <1>4, <2>1, <2>2 DEF ReadCurrent
<1>5. ASSUME NEW p \in Process, CreateTmp(p) PROVE Kept
  <2>1. PICK i \in Inode : /\ i = tmp \/ i \in Unused
                           /\ tmp' = i
                           /\ content' = [content EXCEPT ![i] = Torn]
                           /\ fd' = [fd EXCEPT ![p] = i]
    BY <1>1, <1>5 DEF CreateTmp, Unused, IInv, TypeOK
  <2>2. i # seen
    BY <2>1 DEF FloorInv, Unused
  <2>3. ASSUME ~ overlapped' PROVE Quiet'
    <3>1. Quiet /\ pc[p] \in Storing /\ UNCHANGED <<seen, highest, next>>
      BY <1>5, <2>3 DEF CreateTmp, FloorInv, history, Storing
    <3>2. (Parses /\ SeenEpoch >= highest)'
      BY <1>1, <2>1, <2>2, <3>1 DEF Quiet, Parses, SeenEpoch, IInv, TypeOK
    <3>3. pc'[p] = "write_tmp" /\ fd'[p] = tmp'
            /\ \A q \in Process \ {p} : pc'[q] = pc[q] /\ pc[q] \notin Storing
      BY <1>1, <1>5, <2>1, <3>1 DEF CreateTmp, IInv, TypeOK, Quiet
    <3>4. \A q \in Process : StoreFits(q)'
      BY <3>1, <3>3 DEF Quiet, StoreFits, Storing
    <3> QED
      BY <3>2, <3>3, <3>4 DEF Quiet
  <2> QED
    BY <1>5, <2>1, <2>2, <2>3 DEF CreateTmp
<1>6. ASSUME NEW p \in Process, WriteTmp(p) PROVE Kept
  <2>1. UNCHANGED <<seen, tmp, next, highest, overlapped>> /\ pc[p] = "write_tmp"
    BY <1>6 DEF WriteTmp, history
  <2>2. ASSUME ~ overlapped' PROVE Quiet'
    <3>1. Quiet /\ pc[p] \in Storing
      BY <2>1, <2>2 DEF FloorInv, Storing
    <3>2. fd[p] = tmp /\ tmp \in Inode /\ tmp # seen
      BY <1>1, <2>1, <3>1 DEF Quiet, StoreFits, FloorInv, IInv, ProcessFits
    <3>3. content'[tmp] = next[p] /\ \A j \in Inode \ {tmp} : content'[j] = content[j]
      BY <1>1, <1>6, <3>2 DEF WriteTmp, IInv, TypeOK
    <3>4. (Parses /\ SeenEpoch >= highest)'
      BY <1>1, <2>1, <3>1, <3>2, <3>3 DEF Quiet, Parses, SeenEpoch, IInv, TypeOK
    <3>5. pc'[p] = "rename" /\ \A q \in Process \ {p} : pc'[q] = pc[q] /\ pc[q] \notin Storing
      BY <1>1, <1>6, <3>1 DEF WriteTmp, IInv, TypeOK, Quiet
    <3>6. \A q \in Process : StoreFits(q)'
      BY <2>1, <3>1, <3>2, <3>3, <3>5 DEF Quiet, StoreFits, Storing
    <3> QED
      BY <3>4, <3>5, <3>6 DEF Quiet
  <2> QED
    BY <2>1, <2>2 DEF FloorInv
<1>7. ASSUME NEW p \in Process, Rename(p) PROVE Kept
  <2>1. pc[p] = "rename" /\ Exit(p) /\ UNCHANGED <<content, overlapped>>
    BY <1>7 DEF Rename
  <2>2. (tmp # None => tmp # seen)'
    BY <1>7 DEF Rename
  <2>3. ASSUME ~ overlapped' PROVE Quiet'
    <3>1. Quiet /\ pc[p] \in Storing
      BY <2>1, <2>3 DEF FloorInv, Storing
    <3>2. tmp # None /\ tmp \in Inode /\ content[tmp] = next[p] /\ next[p] >= highest
      BY <1>1, <2>1, <3>1 DEF Quiet, StoreFits, IInv, TypeOK
    <3>3. next[p] \in Nat
      BY <1>1 DEF IInv, TypeOK
    <3>4. seen' = tmp /\ highest' = next[p]
      BY <1>2, <1>7, <3>2, <3>3 DEF Rename, Maximum
    <3>5. (Parses /\ SeenEpoch >= highest)'
      BY <2>1, <3>2, <3>3, <3>4 DEF Parses, SeenEpoch
    <3>6. \A q \in Process : pc'[q] \notin Storing
      BY <1>1, <2>1, <3>1 DEF Exit, IInv, TypeOK, Quiet, Storing
    <3> QED
      BY <3>5, <3>6 DEF Quiet, StoreFits, Storing
  <2> QED
    BY <2>2, <2>3
<1>8. CASE UNCHANGED vars
  <2>1. UNCHANGED <<epoch_file, highest, overlapped, pc, next, fd>>
    BY <1>8 DEF vars, history, local
  <2> QED
    BY <1>1, <2>1, CalmStep DEF FloorInv
<1>9. CASE Next
  <2>1. PICK p \in Process :
          \/ Stops(p) \/ LoadSeen(p) \/ FetchManifest(p)
          \/ KeepFile(p) \/ DecideDownload(p) \/ Download(p) \/ WriteFile(p) \/ ReturnPaths(p)
          \/ ReadCurrent(p) \/ CreateTmp(p) \/ WriteTmp(p) \/ Rename(p)
    BY <1>9 DEF Next
  <2> QED
    BY <1>1, <1>3, <1>4, <1>5, <1>6, <1>7, <2>1 DEF FloorInv
<1> QED
  BY <1>8, <1>9

(* Stores that do not overlap keep the floor, whatever killed runs left    *)
(* under the staging name: the file parses and is at least as high as any  *)
(* store that returned Ok (store_seen_epoch_at).                           *)
THEOREM FloorIsKept == Spec => []FloorKeptUnlessOverlap
<1>1. Spec => []FloorInv
  BY InitFloor, NextFloor, PTL DEF Spec
<1>2. FloorInv => FloorKeptUnlessOverlap
  BY DEF FloorInv, Quiet, FloorKeptUnlessOverlap
<1> QED
  BY <1>1, <1>2, PTL
=============================================================================
