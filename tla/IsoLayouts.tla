----------------------------- MODULE IsoLayouts -----------------------------
(***************************************************************************)
(* The boot entries iso-parser finds on a mounted ISO.  An image has in    *)
(* `kernels' each directory the layouts look into, with the vmlinuz files  *)
(* in it in the order of its listing, and in `marks' the other paths whose *)
(* presence they test.  The vmlinuz-lts and -virt of Alpine count as one.  *)
(***************************************************************************)
EXTENDS Sequences, FiniteSets, Naturals

Directory == {"boot", "install", "casper", "images/pxeboot", "isolinux"}
DebianMarks == {".disk", "pool", "dists"}
WindowsMarks == {"bootmgr", "sources/boot.wim", "efi/microsoft/boot"}
Distribution == {"Arch", "Debian", "Fedora", "RedHat", "Alpine", "NixOS", "Windows", "Unknown"}

IsImage(t) ==
  /\ DOMAIN t.kernels \subseteq Directory
  /\ \A d \in DOMAIN t.kernels : t.kernels[d] \in Seq({"vmlinuz", "vmlinuz-lts"})
  /\ t.marks \subseteq DebianMarks \cup WindowsMarks

KernelsIn(t, d) == IF d \in DOMAIN t.kernels THEN t.kernels[d] ELSE <<>>
All(ks, distro) == [i \in DOMAIN ks |-> distro]

(* Distribution::from_paths, of a kernel in /boot. *)
FromPaths(kernel) == IF kernel = "vmlinuz-lts" THEN "Alpine" ELSE "Arch"

ArchLayout(t) ==
  LET ks == KernelsIn(t, "boot") IN [i \in DOMAIN ks |-> FromPaths(ks[i])]

DebianLayout(t) ==
  IF t.marks \cap DebianMarks = {} /\ DOMAIN t.kernels \cap {"install", "casper"} = {} THEN <<>>
  ELSE All(KernelsIn(t, "install") \o KernelsIn(t, "casper") \o KernelsIn(t, "boot"), "Debian")

(* /isolinux is looked at only when there is no /images/pxeboot. *)
FedoraLayout(t) ==
  IF "images/pxeboot" \in DOMAIN t.kernels THEN All(KernelsIn(t, "images/pxeboot"), "Fedora")
  ELSE All(KernelsIn(t, "isolinux"), "Fedora")

(* The entry is made up: nothing on it can be loaded. *)
WindowsLayout(t) == IF t.marks \cap WindowsMarks = {} THEN <<>> ELSE <<"Windows">>

(* extract_boot_entries, when every listing can be read. *)
BootEntries(t) == ArchLayout(t) \o DebianLayout(t) \o FedoraLayout(t) \o WindowsLayout(t)
=============================================================================
