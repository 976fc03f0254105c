----------------------------- MODULE FetchImage -----------------------------
(***************************************************************************)
(* `aegis-boot fetch-image': try_run of fetch_image.rs.  An image is       *)
(* downloaded over whatever lies at its cache path, compared with the      *)
(* digest the operator pinned, if any, and attributed by cosign, if cosign *)
(* and the release's signature are to be had; its path is printed for      *)
(* `aegis-boot flash --image'.  Runs for the same URL share the path.      *)
(***************************************************************************)
EXTENDS Naturals, FiniteSets

CONSTANTS
  Image,      \* images the release page may serve
  Official,   \* those aegis-boot's release workflow has signed
  NoImage,    \* no file; no pin; no signature
  TornImage   \* a download cut short

ASSUME FetchImageAssumption ==
  /\ Official \subseteq Image /\ NoImage \notin Image /\ TornImage \notin Image \cup {NoImage}

VARIABLES
  image,       \* what is at the path
  signature,   \* whose signature and certificate lie beside it
  image_step,  \* next step of the run
  pin,         \* --sha256
  no_cosign,   \* --no-cosign
  checks,      \* the checks the run has passed
  shared       \* history: has another run written the path meanwhile?

imageVars == <<image, signature, image_step, pin, no_cosign, checks, shared>>

ImageInit ==
  /\ image = NoImage /\ signature = NoImage /\ image_step = "idle"
  /\ pin = NoImage /\ no_cosign = FALSE /\ checks = {} /\ shared = FALSE

ImageGoto(s) == image_step' = s /\ UNCHANGED <<pin, no_cosign, shared>>

(* try_run returns. *)
ImageExit ==
  /\ image_step' = "idle"
  /\ pin' = NoImage /\ no_cosign' = FALSE /\ checks' = {} /\ shared' = FALSE

(* Arguments that parse, a URL that is https.  All else ends here. *)
StartImage ==
  /\ image_step = "idle"
  /\ pin' \in Image \cup {NoImage} /\ no_cosign' \in BOOLEAN
  /\ image_step' = "download"
  /\ UNCHANGED <<image, signature, checks, shared>>

(* curl --output: the path is written as the bytes come. *)
DownloadImage ==
  /\ image_step = "download"
  /\ image' \in Image
  /\ ImageGoto("sha256")
  /\ UNCHANGED <<signature, checks>>

(* No cache directory, no curl, no connection, or one that breaks: what    *)
(* has come stays.                                                         *)
DownloadImageFails ==
  /\ image_step = "download"
  /\ image' \in {image, TornImage}
  /\ ImageExit /\ UNCHANGED signature

(* A faulty variant: the digest is computed, and a mismatch is a warning.  *)
Sha256Warns ==
  /\ image_step = "sha256"
  /\ checks' = IF pin # NoImage THEN checks \cup {"sha256"} ELSE checks
  /\ ImageGoto("cosign")
  /\ UNCHANGED <<image, signature>>

(* Without --sha256 the digest is printed, with a warning. *)
CheckSha256 ==
  /\ image_step = "sha256"
  /\ pin # NoImage => image = pin
  /\ checks' = IF pin # NoImage THEN checks \cup {"sha256"} ELSE checks
  /\ ImageGoto("cosign")
  /\ UNCHANGED <<image, signature>>

(* A mismatch removes the file.  sha256sum itself failing does not; then   *)
(* the run goes on if nothing is pinned.                                   *)
Sha256Fails ==
  /\ image_step = "sha256" /\ pin # NoImage
  /\ image' \in IF image # pin THEN {NoImage, image} ELSE {image}
  /\ ImageExit /\ UNCHANGED signature

(* --no-cosign, no cosign on PATH, or no .sig or .pem to be had: the run   *)
(* warns and succeeds.                                                     *)
SkipCosign ==
  /\ image_step = "cosign"
  /\ signature' \in {signature} \cup (IF no_cosign THEN {} ELSE Official)
  /\ ImageGoto("return")
  /\ UNCHANGED <<image, checks>>

(* .sig and .pem of what the URL leads to by now; cosign verify-blob. *)
CosignVerifies ==
  /\ image_step = "cosign" /\ ~ no_cosign
  /\ signature' \in Official /\ image = signature'
  /\ checks' = checks \cup {"cosign"}
  /\ ImageGoto("return")
  /\ UNCHANGED image

(* Image, signature and certificate are removed. *)
CosignRejects ==
  /\ image_step = "cosign" /\ ~ no_cosign
  /\ image' \in {NoImage, image} /\ signature' \in {NoImage} \cup Official
  /\ ImageExit

(* The path is printed. *)
ReturnImage == image_step = "return" /\ ImageExit /\ UNCHANGED <<image, signature>>

ImageRunDies ==
  /\ image_step # "idle"
  /\ ImageExit /\ UNCHANGED <<image, signature>>

(* Another run for the same URL, which names the same path. *)
OtherImageRun ==
  /\ image' \in Image \cup {NoImage, TornImage}
  /\ signature' \in Official \cup {NoImage, signature}
  /\ shared' = (image_step # "idle")
  /\ UNCHANGED <<image_step, pin, no_cosign, checks>>

ImageNext ==
  \/ StartImage \/ DownloadImage \/ DownloadImageFails
  \/ CheckSha256 \/ Sha256Fails
  \/ SkipCosign \/ CosignVerifies \/ CosignRejects
  \/ ReturnImage \/ ImageRunDies \/ OtherImageRun

-----------------------------------------------------------------------------
ImageTypeOK ==
  /\ image \in Image \cup {NoImage, TornImage} /\ signature \in Official \cup {NoImage}
  /\ image_step \in {"idle", "download", "sha256", "cosign", "return"}
  /\ pin \in Image \cup {NoImage} /\ no_cosign \in BOOLEAN
  /\ checks \subseteq {"sha256", "cosign"} /\ shared \in BOOLEAN

(* The path that is printed leads to the bytes the run has checked: the    *)
(* pinned ones, the attributed ones, and to a whole download in any case,  *)
(* whatever an earlier, broken or killed run left there (try_run).         *)
ReturnedImageIsChecked ==
  image_step = "return" /\ ~ shared =>
    /\ image \in Image
    /\ pin # NoImage => image = pin
    /\ "cosign" \in checks => image \in Official
=============================================================================
