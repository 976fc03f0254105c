---------------------------- MODULE MCRescueTui ----------------------------
(***************************************************************************)
(* Instances of RescueTui for TLC.  The boot instance has three ISOs (one  *)
(* bare installer, one signed installer, one with a forged signature) and  *)
(* no network; the net instance has one ISO, one that does not parse, two  *)
(* interfaces and two catalog entries.                                     *)
(***************************************************************************)
EXTENDS TuiView, TLC

CONSTANTS i1, i2, i3, f1, all, some

BootDiscovered == <<i1, i2, i3>>
BootDefaultCmdline == (i1 :> "quiet") @@ (i2 :> "quiet") @@ (i3 :> "quiet")
BootMatches == (all :> {i1, i2, i3, f1}) @@ (some :> {i2, i3})
(* Name order reverses discovery order, SizeDesc ties, Distro keeps it. *)
BootSortRank ==
  [Name |-> (i1 :> 3) @@ (i2 :> 2) @@ (i3 :> 1),
   SizeDesc |-> (i1 :> 1) @@ (i2 :> 1) @@ (i3 :> 1),
   Distro |-> (i1 :> 1) @@ (i2 :> 2) @@ (i3 :> 3)]

NetDiscovered == <<i1>>
NetDefaultCmdline == i1 :> "quiet"
NetMatches == all :> {i1, f1}
NetSortRank == [o \in SortOrder |-> i1 :> 1]
=============================================================================
