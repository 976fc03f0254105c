---------------------------- MODULE MCRescueDisk ----------------------------
(***************************************************************************)
(* A stick with one ISO name in two folders, and a machine with the stick, *)
(* an older one and a disk, whose ISOs have right, wrong and no sidecars.  *)
(***************************************************************************)
EXTENDS RescueDisk, TLC

CONSTANTS deb, win, k, loose

(* A download with its sum, and one whose sums file lies beside it. *)
MCDownload ==
  {[name |-> "n1", iso |-> deb, sha |-> deb, sums |-> FALSE, sig |-> None, other |-> FALSE,
    bulk |-> None],
   [name |-> "n1", iso |-> win, sha |-> None, sums |-> FALSE, sig |-> None, other |-> FALSE,
    bulk |-> win]}

(* A live image with two kernels, and an installer. *)
MCImage ==
  (deb :> [kernels |-> ("casper" :> <<"vmlinuz">>) @@ ("boot" :> <<"vmlinuz">>),
           marks |-> {"pool"}])
  @@ (win :> [kernels |-> <<>>, marks |-> {"bootmgr"}])
MCSize == (deb :> 1) @@ (win :> 2) @@ (Torn :> 1)

(* The machine's partitions: the stick, an older stick that is write-protected, *)
(* a disk of the machine, one without a file system.                         *)
MCFileSystem ==
  ("stick" :> "exfat") @@ ("old" :> "vfat") @@ ("disk" :> "ntfs") @@ ("raw" :> "unknown")

Shelved(iso, sha, sig) == [NoFiles EXCEPT !.iso = iso, !.sha = sha, !.sig = sig]
MCStock ==
  ("checked" :> [on |-> "stick", files |-> Shelved(deb, deb, None), distro |-> "Debian",
                 cmdline |-> "quiet", override |-> "debug"])
  @@ ("bare" :> [on |-> "old", files |-> Shelved(deb, None, None), distro |-> "Debian",
                 cmdline |-> "quiet", override |-> None])
  @@ ("arch" :> [on |-> "stick", files |-> Shelved(deb, deb, None), distro |-> "Arch",
                 cmdline |-> "quiet", override |-> None])
  @@ ("wrong" :> [on |-> "stick", files |-> Shelved(deb, win, [of |-> deb, key |-> k]),
                  distro |-> "Debian", cmdline |-> "quiet", override |-> None])
  @@ ("elsewhere" :> [on |-> "disk", files |-> Shelved(deb, deb, [of |-> deb, key |-> loose]),
                      distro |-> "Debian", cmdline |-> "quiet", override |-> None])
=============================================================================
