------------------------------- MODULE Doctor -------------------------------
(***************************************************************************)
(* `aegis-boot doctor': the rows of its report, as functions of what it    *)
(* finds on the host and on a stick; the score, the exit and the next      *)
(* action that follow from them.                                           *)
(***************************************************************************)
EXTENDS Naturals, Sequences, FiniteSets

\* Report::add and Report::add_with_next.
Row(check, v) == <<[check |-> check, verdict |-> v, advised |-> FALSE]>>
Advised(check, v) == <<[check |-> check, verdict |-> v, advised |-> TRUE]>>

\* A row that passes or else is a failure with advice.
Must(check, ok) == IF ok THEN Row(check, "pass") ELSE Advised(check, "fail")

\* A summary row and one row for each of n devices; v when there is none.
Inventory(check, n, v) ==
    IF n = 0 THEN Row(check, v) ELSE [i \in 1..n + 1 |-> Row(check, "pass")[1]]

-----------------------------------------------------------------------------
(* The host.  A record of facts:                                           *)
(*   identity  DMI says "nothing", or names a machine that the             *)
(*             compatibility table has ("known") or has not ("new")        *)
(*   tools     the commands on PATH                                        *)
(*   anchor    the trust anchor loads; seen: the epoch file is "torn",     *)
(*             "aligned" or "ahead" of the binary's floor                  *)
(*   sb        Secure Boot is "on", "off" or "unknown"; efi: UEFI booted   *)
(*   tpm       "present", "disabled" or "absent"; memory: MemTotal read    *)
(*   nics, removable, disks  how many there are                            *)
(*   smart     the health of each disk: "good", "bad" or "silent"          *)

Checked == <<"dd", "sudo", "sgdisk", "lsblk", "mcopy", "mkfs.vfat", "mkfs.exfat",
             "curl", "sha256sum", "gpg">>
HostTools == {Checked[i] : i \in DOMAIN Checked}
OtherTools == {"cosign", "smartctl", "partprobe", "mkfs.fat", "mmd"}

HostFacts ==
    [identity : {"nothing", "known", "new"}, tools : SUBSET (HostTools \cup OtherTools),
     anchor : BOOLEAN, seen : {"torn", "aligned", "ahead"}, sb : {"on", "off", "unknown"},
     efi : BOOLEAN, tpm : {"present", "disabled", "absent"}, nics : Nat,
     smart : SUBSET {"good", "bad", "silent"}, memory : BOOLEAN, removable : Nat, disks : Nat]

Identity(h) ==
    IF h.identity = "nothing" THEN Row("identity", "skip") \o Row("compat", "skip")
    ELSE Row("identity", "pass")
           \o Row("compat", IF h.identity = "known" THEN "pass" ELSE "warn")

HostCommands(h) ==
    [i \in DOMAIN Checked |-> Must(Checked[i], Checked[i] \in h.tools)[1]]

\* The first row that fails is the last one.
TrustAnchor(h) ==
    IF ~h.anchor THEN Advised("floor", "fail")
    ELSE IF h.seen = "torn" THEN Row("floor", "pass") \o Advised("seen-epoch", "fail")
    ELSE Row("floor", "pass") \o Row("seen-epoch", "pass")
           \o (IF h.seen = "ahead" THEN Advised("drift", "warn") ELSE Row("drift", "pass"))

Cosign(h) ==
    IF "cosign" \in h.tools THEN Row("cosign", "pass") ELSE Advised("cosign", "warn")

SecureBoot(h) ==
    Row("secure boot", CASE h.sb = "on" -> "pass" [] h.sb = "off" -> "warn" [] OTHER -> "skip")

BootMode(h) == Row("boot mode", IF h.efi THEN "pass" ELSE "warn")

Tpm(h) ==
    Row("tpm", CASE h.tpm = "present" -> "pass" [] h.tpm = "disabled" -> "warn" [] OTHER -> "skip")

Smart(h) ==
    IF "smartctl" \notin h.tools THEN Row("smart", "skip")
    ELSE IF "bad" \in h.smart THEN Advised("smart", "warn")
    ELSE Row("smart", IF "good" \in h.smart THEN "pass" ELSE "skip")

Memory(h) == Row("memory", IF h.memory THEN "pass" ELSE "skip")

Removable(h) == Row("removable", IF h.removable = 0 THEN "warn" ELSE "pass")

HostRows(h) ==
    Row("os", "pass") \o Identity(h) \o HostCommands(h) \o TrustAnchor(h) \o Cosign(h)
      \o SecureBoot(h) \o BootMode(h) \o Tpm(h) \o Inventory("nic", h.nics, "warn")
      \o Smart(h) \o Memory(h) \o Removable(h) \o Inventory("disk", h.disks, "skip")

-----------------------------------------------------------------------------
(* The stick.  A record of facts:                                          *)
(*   table     what sgdisk prints: "aegis" (ESP and AEGIS_ISOS), "esp"     *)
(*             (an ESP only), "other", or "error"                          *)
(*   mounted   some AEGIS_ISOS is mounted; isos: the trust of each ISO on  *)
(*             it, "green", "yellow", "odd" (a minisig without a sum) or   *)
(*             "red"                                                       *)
(*   manifest  the host's copy is "missing", "bad" or "good"               *)

Partitions(s) ==
    CASE s.table = "aegis" -> Row("partitions", "pass")
      [] s.table = "esp"   -> Advised("partitions", "warn")
      [] OTHER             -> Advised("partitions", "fail")

\* classify_trust_state.
IsoVerdict(t) == CASE t = "green" -> "pass" [] t \in {"yellow", "odd"} -> "warn" [] OTHER -> "fail"

\* The summary row counts an "odd" ISO among the red ones.
TrustCoverage(s) ==
    IF s.isos = <<>> THEN Advised("coverage", "warn")
    ELSE (IF \A i \in DOMAIN s.isos : s.isos[i] = "green"
          THEN Row("coverage", "pass") ELSE Advised("coverage", "warn"))
         \o [i \in DOMAIN s.isos |-> Row("iso", IsoVerdict(s.isos[i]))[1]]

\* check_aegis_isos_mount takes whichever AEGIS_ISOS is mounted first.
IsosMount(s) == IF s.mounted THEN TrustCoverage(s) ELSE Row("contents", "skip")

ManifestRow(s) ==
    Row("manifest", CASE s.manifest = "good" -> "pass" [] s.manifest = "bad" -> "warn" [] OTHER -> "skip")

StickRows(s) == Partitions(s) \o IsosMount(s) \o ManifestRow(s)

NoStickRows == Row("selection", "skip")

-----------------------------------------------------------------------------
Count(rows, v) == Cardinality({i \in DOMAIN rows : rows[i].verdict = v})

HasAnyFail(rows) == Count(rows, "fail") > 0

\* Rounded to the nearest; rows that were skipped do not count.
Score(rows) ==
    LET total == 10 * (Count(rows, "pass") + Count(rows, "warn") + Count(rows, "fail"))
        weight == 10 * Count(rows, "pass") + 7 * Count(rows, "warn")
    IN  IF total = 0 THEN 100 ELSE (weight * 100 + total \div 2) \div total

BandForScore(score) ==
    IF score >= 90 THEN "EXCELLENT" ELSE IF score >= 70 THEN "OK"
    ELSE IF score >= 40 THEN "DEGRADED" ELSE "BROKEN"

\* The advice of the first failure that has one.
NextAction(rows) ==
    LET advised == {i \in DOMAIN rows : rows[i].verdict = "fail" /\ rows[i].advised}
    IN  IF advised = {} THEN "none"
        ELSE rows[CHOOSE i \in advised : \A j \in advised : i <= j].check

\* What the command leaves: its exit is 1 exactly when a row failed.
ReportOf(rows) ==
    [failed |-> HasAnyFail(rows), band |-> BandForScore(Score(rows)),
     advice |-> NextAction(rows)]
=============================================================================
