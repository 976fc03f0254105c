------------------------------- MODULE Handoff ------------------------------
(***************************************************************************)
(* From the booted rescue environment to the operator's kernel without the *)
(* graphical list: rescue-tui's text mode (AEGIS_A11Y=text) and automatic  *)
(* mode (AEGIS_AUTO_KEXEC), attempt_kexec step by step, the measurement    *)
(* into PCR 12 (tpm.rs) and the two system calls of kexec-loader.          *)
(*                                                                         *)
(* The ISOs are found where /init left them mounted (RescueInit); what the *)
(* verdicts say of their files is IsoShelf.  External: the kernel's        *)
(* signature check, the TPM and its tool.                                  *)
(***************************************************************************)
EXTENDS RescueInit, IsoShelf

CONSTANTS
  Stock,      \* Stock[i]: an ISO, where it lies, and the restored override
  Enforcing,  \* does the firmware enforce Secure Boot?
  MaxAttempts \* bound: calls of attempt_kexec

ASSUME HandoffAssumption ==
  /\ Enforcing \in BOOLEAN /\ MaxAttempts \in Nat /\ None \notin {"text", "auto"}
  /\ \A i \in DOMAIN Stock : Stock[i].on \in Partition /\ Stock[i].files \in Files

VARIABLES
  mode,     \* None until rescue-tui starts, "text", "auto"
  prompt,   \* "menu", "blocked", "confirm", "save", "prepare", "measure", "load", "exec"
  listed,   \* the ISOs discover found
  chosen,   \* the ISO confirmed or tried
  shown,    \* what run_text_confirm printed of it
  word,     \* the answer that started the attempt
  choice,   \* the ISO the last attempt recorded as last choice, None if it could not
  pcr,      \* what was extended into PCR 12, in order
  image,    \* the image staged in the kernel, or None
  failure,  \* the KexecError last shown, and its remedy
  booted,   \* the image the machine runs now, or None
  rc,       \* rescue-tui's exit code, or None
  attempts  \* counter behind its bound

handoffVars == <<initVars, mode, prompt, listed, chosen, shown, word, choice, pcr, image,
                 failure, booted, rc, attempts>>
line == <<listed, mode, attempts>>
target == <<choice, pcr, image, booted>>

Stocked == DOMAIN Stock
FilesOf(i) == Stock[i].files
Blocked(i) == KexecBlocked(FilesOf(i), Stock[i].distro)

(* effective_cmdline, and the request attempt_kexec makes. *)
EffectiveCmdline(i) ==
  IF Stock[i].override # None THEN Stock[i].override ELSE Stock[i].cmdline
Request(i) == [iso |-> i, cmdline |-> EffectiveCmdline(i)]

(* compute_measurement: a hash of the path and the command line, with a    *)
(* separator that keeps two requests apart.                                *)
Measurement(r) == r

Errno == {"EKEYREJECTED", "EPERM", "ENOEXEC", "EBUSY", "EFBIG", "EACCES", "ENOMEM", "EIO"}

(* classify_errno *)
ClassifyErrno(e) ==
  CASE e = "EKEYREJECTED" -> "SignatureRejected" [] e = "EPERM" -> "LockdownRefused"
    [] e = "ENOEXEC" -> "UnsupportedImage" [] e = "EBUSY" -> "AlreadyLoaded"
    [] e = "EFBIG" -> "ImageTooLarge" [] e = "EACCES" -> "PermissionDenied"
    [] e = "ENOMEM" -> "OutOfMemory" [] OTHER -> "Io"
KexecErrors == {ClassifyErrno(e) : e \in Errno} \cup {"InvalidPath"}

(* KEXEC_SIG under Secure Boot (external). *)
KernelAccepts(i) == ~ (Enforcing /\ "UnsignedKernel" \in Quirks(Stock[i].distro))

(* error_diagnostic_with_iso: what to do about it, if anything.  The text  *)
(* mode stays on the List screen, so that record_kexec_error has no ISO to *)
(* look for a key beside.                                                  *)
Remedy(e) ==
  CASE e = "SignatureRejected" -> "enroll a key"
    [] e = "InvalidPath" -> None
    [] e = "Io" -> "errno"
    [] OTHER -> "explained"

HandoffTypeOK ==
  /\ InitTypeOK
  /\ mode \in {None, "text", "auto"}
  /\ prompt \in {"menu", "blocked", "confirm", "save", "prepare", "measure", "load", "exec"}
  /\ listed \subseteq Stocked /\ {chosen, choice} \subseteq Stocked \cup {None}
  /\ failure = None \/ failure.error \in KexecErrors
  /\ rc \in {None, 0, 1, 42} /\ attempts \in 0..MaxAttempts

HandoffInit ==
  /\ InitInit
  /\ mode = None /\ prompt = "menu" /\ listed = {} /\ chosen = None /\ shown = None
  /\ word = None /\ choice = None /\ pcr = <<>> /\ image = None /\ failure = None
  /\ booted = None /\ rc = None /\ attempts = 0

BootRescue ==
  /\ InitNext
  /\ UNCHANGED <<mode, prompt, listed, chosen, shown, word, choice, pcr, image, failure,
                 booted, rc, attempts>>

-----------------------------------------------------------------------------
(* run *)
StartRescueTui ==
  /\ initStep = "tui" /\ mode = None
  /\ mode' \in {"text", "auto"}
  /\ listed' = {i \in Stocked : mountedAs[Stock[i].on] # None}
  /\ UNCHANGED <<initVars, prompt, chosen, shown, word, target, failure, rc, attempts>>

At(p) == initStep = "tui" /\ booted = None /\ prompt = p
AtText(p) == At(p) /\ mode = "text"

Leave(code) ==
  /\ initStep' = "shell" /\ rc' = code
  /\ UNCHANGED <<devices, nodes, aegis_dev, spec, mount_ok, mountedAs, initLog, inTime>>

(* `q' or the end of the input; the entry of the rescue shell. *)
TextQuit ==
  /\ AtText("menu")
  /\ \E code \in {0, 42} : Leave(code)
  /\ UNCHANGED <<line, prompt, chosen, shown, word, target, failure>>

(* run_text_confirm, up to its question. *)
TextPick ==
  /\ AtText("menu")
  /\ \E i \in listed :
       /\ chosen' = i
       /\ shown' = [request |-> Request(i), measures |-> Measurement(Request(i)),
                    verdict |-> TextVerdict(FilesOf(i), Stock[i].distro)]
       /\ prompt' = IF Blocked(i) THEN "blocked" ELSE "confirm"
  /\ UNCHANGED <<initVars, line, word, target, failure, rc>>

(* Any answer but the one asked for goes back to the menu. *)
TextReturn ==
  /\ AtText("blocked") \/ AtText("confirm")
  /\ prompt' = "menu"
  /\ UNCHANGED <<initVars, line, chosen, shown, word, target, failure, rc>>

(* The words that go on. *)
Accepted(i) == IF DegradedTrust(FilesOf(i)) THEN {"boot"} ELSE {"y", "yes"}

TextAccept ==
  /\ AtText("confirm") /\ attempts < MaxAttempts
  /\ word' \in Accepted(chosen)
  /\ prompt' = "save" /\ attempts' = attempts + 1
  /\ UNCHANGED <<initVars, mode, listed, chosen, shown, target, failure, rc>>

(* run_auto_kexec: the first path with the needle in it, no gate, no       *)
(* question, no saved choice and no measurement.                           *)
AutoStart ==
  /\ At("menu") /\ mode = "auto"
  /\ \E i \in listed : chosen' = i
  /\ prompt' = "prepare"
  /\ UNCHANGED <<initVars, line, shown, word, target, failure, rc>>

(* Nothing matches, or something failed: Err, which main turns into 1. *)
AutoFails ==
  /\ mode = "auto" /\ (At("menu") \/ At("prepare"))
  /\ Leave(1)
  /\ UNCHANGED <<line, prompt, chosen, shown, word, target, failure>>

-----------------------------------------------------------------------------
(* attempt_kexec *)

(* Both writes are best effort: one that fails is logged and the attempt   *)
(* goes on (what they leave on the media is LastChoice).                   *)
SaveChoice ==
  /\ At("save")
  /\ choice' \in {chosen, None} /\ prompt' = "prepare"
  /\ UNCHANGED <<initVars, line, chosen, shown, word, pcr, image, failure, booted, rc>>

(* prepare mounts root.join(file name), which is no file for an ISO in a   *)
(* folder of /run/media. *)
PrepareChosen ==
  /\ At("prepare")
  /\ mountedAs[Stock[chosen].on] = "main"
  /\ prompt' = IF mode = "text" THEN "measure" ELSE "load"
  /\ UNCHANGED <<initVars, line, chosen, shown, word, target, failure, rc>>

(* record_kexec_error and the text mode's report of it; the prepared mount *)
(* is dropped. *)
Fails(e) ==
  /\ failure' = [error |-> e, remedy |-> Remedy(e)]
  /\ IF mode = "text"
     THEN prompt' = "menu" /\ UNCHANGED <<initVars, rc>>
     ELSE Leave(1) /\ UNCHANGED prompt
  /\ UNCHANGED <<line, chosen, shown, word>>

PrepareChosenFails ==
  /\ At("prepare") /\ mode = "text" /\ Fails("Io")
  /\ UNCHANGED target

(* A faulty variant: the menu's command line is measured, not the request's. *)
MeasureDefault ==
  /\ At("measure") /\ prompt' = "load"
  /\ \/ pcr' = Append(pcr, Measurement([iso |-> chosen, cmdline |-> Stock[chosen].cmdline]))
     \/ UNCHANGED pcr
  /\ UNCHANGED <<initVars, line, chosen, shown, word, choice, image, failure, booted, rc>>

(* extend_pcr; no TPM, or a tool that fails, does not stop the boot. *)
Measure ==
  /\ At("measure") /\ prompt' = "load"
  /\ \/ pcr' = Append(pcr, Measurement(Request(chosen)))
     \/ UNCHANGED pcr
  /\ UNCHANGED <<initVars, line, chosen, shown, word, choice, image, failure, booted, rc>>

(* load_dry: kexec_file_load replaces an image staged before. *)
LoadKernel ==
  /\ At("load") /\ KernelAccepts(chosen)
  /\ image' = Request(chosen) /\ prompt' = "exec"
  /\ UNCHANGED <<initVars, line, chosen, shown, word, choice, pcr, failure, booted, rc>>

(* A file that does not open is Io, a NUL in the command line InvalidPath, *)
(* a refusal of the kernel its errno. *)
LoadKernelFails ==
  /\ At("load")
  /\ \E e \in KexecErrors : Fails(e)
  /\ UNCHANGED target

(* reboot_kexec *)
ExecKernel ==
  /\ At("exec") /\ booted' = image
  /\ UNCHANGED <<initVars, line, prompt, chosen, shown, word, choice, pcr, image, failure, rc>>

(* The image stays staged. *)
ExecKernelFails ==
  /\ At("exec") /\ Fails("Io")
  /\ UNCHANGED target

HandoffNext ==
  \/ BootRescue \/ StartRescueTui
  \/ TextQuit \/ TextPick \/ TextReturn \/ TextAccept \/ AutoStart \/ AutoFails
  \/ SaveChoice \/ PrepareChosen \/ PrepareChosenFails \/ Measure
  \/ LoadKernel \/ LoadKernelFails \/ ExecKernel \/ ExecKernelFails

-----------------------------------------------------------------------------
(* Through any number of refusals, failures and retries, the kernel the    *)
(* text mode boots is the one of the ISO and the command line it last      *)
(* showed, with a verdict that is not red, after the word that verdict     *)
(* asks for; what this attempt recorded as last choice, if it could, is    *)
(* that ISO; the values in PCR 12 that are about it, if the TPM took any,  *)
(* are the one shown; and the tier the graphical list would give the ISO   *)
(* is bootable, since where verdict.rs and the gates differ the kernel's   *)
(* own check decides.                                                      *)
BootedAsShown ==
  booted # None /\ mode = "text" =>
    /\ booted = shown.request /\ shown.verdict # "red"
    /\ shown.verdict = "green" \/ word = "boot"
    /\ choice \in {booted.iso, None}
    /\ \A i \in DOMAIN pcr : pcr[i].iso = booted.iso => pcr[i] = shown.measures
    /\ IsBootable(Tier(FilesOf(booted.iso), Stock[booted.iso].distro, Enforcing))
=============================================================================
