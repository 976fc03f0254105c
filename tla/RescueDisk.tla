----------------------------- MODULE RescueDisk -----------------------------
(***************************************************************************)
(* The data partition over a stick's life: the host's commands fill it     *)
(* (DataPartition), then a machine boots the stick and rescue-tui looks    *)
(* for its ISOs (IsoScan).  Beside them, what rescue-tui itself keeps on   *)
(* the partition: the remembered choice (LastChoice) and the failure       *)
(* reports (RescueLogs), and the boot itself, from /init to the operator's *)
(* kernel (Handoff).  These three share no file with the rest: a behaviour *)
(* shows one of the four parts.                                            *)
(***************************************************************************)
EXTENDS DataPartition, IsoScan, LastChoice, RescueLogs, Handoff

CONSTANT MaxBootTools  \* bound: commands before the boot

ASSUME RescueDiskAssumption == MaxBootTools \in Nat

VARIABLE part  \* "host", then "target"; "choice"; "logs"; "boot"

besides == <<choiceVars, logVars, handoffVars>>
rescueDiskVars == <<part, diskVars, discoverVars, besides>>

RescueDiskTypeOK ==
  /\ part \in {"host", "target", "choice", "logs", "boot"}
  /\ part = "host" => DiskTypeOK
  /\ part = "target" => DiskTypeOK /\ DiscoverTypeOK
  /\ part = "choice" => ChoiceTypeOK
  /\ part = "logs" => LogTypeOK
  /\ part = "boot" => HandoffTypeOK

RescueDiskInit ==
  /\ part \in {"host", "choice", "logs", "boot"}
  /\ DiskInit /\ DiscoverInit /\ ChoiceInit /\ LogInit /\ HandoffInit
  /\ part # "host" => receipts = [r \in Receipts |-> None] /\ latest = "own"
  /\ part # "choice" => mounted
  /\ part # "logs" => onStick

HostStep ==
  /\ part = "host" /\ DiskNext
  /\ UNCHANGED <<part, phase, root, walk, ahead, current, device, stack, loops,
                 found, rows, failed, skipped, prepares, stale, besides>>

(* The stick is taken to the machine it boots; the host is forgotten. *)
Boot ==
  /\ part = "host" /\ tool = "none" /\ drag = None /\ tools <= MaxBootTools
  /\ part' = "target" /\ Discover
  /\ receipts' = [r \in Receipts |-> None] /\ latest' = "own"
  /\ whole' = [r \in Receipts |-> <<>>] /\ overlapped' = FALSE /\ held' = None
  /\ mounts' = 0 /\ umount_failed' = FALSE /\ killed' = FALSE
  /\ tools' = 0 /\ drags' = 0
  /\ UNCHANGED <<tool, step, place, parcel, todo, digest, flawed, mounting, drag, red,
                 besides>>

TargetStep ==
  /\ part = "target" /\ DiscoverNext
  /\ UNCHANGED <<part, toolVars, mountVars, receiptVars, dragVars, tools, killed, red,
                 besides>>

ChoiceStep ==
  /\ part = "choice" /\ ChoiceNext
  /\ UNCHANGED <<part, diskVars, discoverVars, logVars, handoffVars>>

LogStep ==
  /\ part = "logs" /\ LogNext
  /\ UNCHANGED <<part, diskVars, discoverVars, choiceVars, handoffVars>>

HandoffStep ==
  /\ part = "boot" /\ HandoffNext
  /\ UNCHANGED <<part, diskVars, discoverVars, choiceVars, logVars>>

RescueDiskNext == HostStep \/ Boot \/ TargetStep \/ ChoiceStep \/ LogStep \/ HandoffStep

RescueDiskSpec == RescueDiskInit /\ [][RescueDiskNext]_rescueDiskVars
=============================================================================
