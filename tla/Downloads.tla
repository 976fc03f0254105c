------------------------------ MODULE Downloads ------------------------------
(***************************************************************************)
(* The commands of aegis-boot that download: fetch-trust-chain             *)
(* (TrustChain), fetch and rescue-tui's catalog (IsoFetch), fetch-image    *)
(* (FetchImage).  They share no file, so that any interleaving of them     *)
(* projects to what each does alone; a behaviour of DownloadsSpec is of    *)
(* one of them, chosen at the start, and the others rest.                  *)
(***************************************************************************)
EXTENDS TrustChain, IsoFetch, FetchImage

VARIABLE command  \* the command whose runs are looked at

downloadVars == <<command, vars, isoVars, imageVars>>

DownloadsInit ==
  /\ command \in {"fetch-trust-chain", "fetch", "fetch-image"}
  /\ Init /\ ImageInit
  /\ IsoInit /\ (command # "fetch" => ~ in_tui /\ ~ on_iso)

DownloadsNext ==
  /\ UNCHANGED command
  /\ \/ command = "fetch-trust-chain" /\ Next /\ UNCHANGED <<isoVars, imageVars>>
     \/ command = "fetch" /\ IsoNext /\ UNCHANGED <<vars, imageVars>>
     \/ command = "fetch-image" /\ ImageNext /\ UNCHANGED <<vars, isoVars>>

DownloadsSpec == DownloadsInit /\ [][DownloadsNext]_downloadVars

(* The shape of the files and runs of the three commands. *)
DownloadsTypeOK == TypeOK /\ IsoTypeOK /\ ImageTypeOK
=============================================================================
