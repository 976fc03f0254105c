---------------------------- MODULE MCTrustChain ----------------------------
(***************************************************************************)
(* Two runs of fetch-trust-chain against an origin that has re-published a *)
(* version under a new key epoch, and that may also serve a forged         *)
(* manifest and a rightly signed one that names a path outside the bundle; *)
(* fetches of one ISO of two reads, of which mirrors have two signed       *)
(* bodies and a bad one; fetches of an official and a bad image.           *)
(***************************************************************************)
EXTENDS Downloads, TLC

CONSTANTS old, new, forged, broken

MCFile == <<"kernel", "initrd">>
MCKeyEpoch == (old :> 1) @@ (new :> 2) @@ (forged :> 3) @@ (broken :> 3)
MCMalformation == [b \in {old, new, forged} |-> None] @@ (broken :> "PathTraversal")
InodeSymmetry == Permutations(Inode)
MCVersionOf == [b \in {old, new, forged, broken} |-> "v1"]
MCLeftover ==
  UNION {[1 .. n -> Body] : n \in 0 .. Chunks} \cup {<<old, new, old>>, <<old, Lost>>}
=============================================================================
