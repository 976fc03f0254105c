----------------------------- MODULE VerifyStick -----------------------------
(* `aegis-boot verify --stick': hash the boot files of a stick and compare  *)
(* them with the manifest the host keeps for its disk GUID.  Nothing is     *)
(* written.                                                                 *)
EXTENDS StickUpdate

verify_esp_files(body) ==
    [s \in Slots |-> IF Hashed(s) = None THEN "unreadable"
                     ELSE IF Hashed(s) = body.sum[s] THEN "ok" ELSE "drift"]

has_failures(results) == \E s \in Slots : results[s] \in {"drift", "unreadable"}

\* The exit code, when e is the attestation file that was found (None if none
\* was); a receipt of an image flash is not a manifest.
verify_stick(e) ==
    IF guid = 0 \/ e = None \/ e.body \notin Manifests THEN 2
    ELSE IF has_failures(verify_esp_files(e.body)) THEN 1 ELSE 0
=============================================================================
