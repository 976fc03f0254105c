------------------------------- MODULE MCStick -------------------------------
(* Two boot files, the second of them rendered by the host and too far into *)
(* the image for the read-back; two versions of each.  On the other hosts: *)
(* the host's disk, a disk of any kind and one more, both maybe old sticks. *)
(* For `init' two device nodes and three drives.                           *)
EXTENDS StickHosts, TLC

MCRendered == {2}
MCInReadback == {1}

Disk(e, l, b, s) == [external |-> e, large |-> l, sealed |-> b, system |-> s]

\* The host's disk, a stick, a small one, one with a BitLocker volume, and an
\* internal disk.
MCKinds == {Disk(FALSE, TRUE, FALSE, TRUE), Disk(TRUE, TRUE, FALSE, FALSE),
            Disk(TRUE, FALSE, FALSE, FALSE), Disk(TRUE, TRUE, TRUE, FALSE),
            Disk(FALSE, TRUE, FALSE, FALSE)}

-----------------------------------------------------------------------------
Drive(rm, tran, size, serial) ==
    [removable |-> rm, tran |-> tran, bus |-> "scsi", size |-> size, serial |-> serial]

\* A stick, one that tells no serial, and an internal disk.
Stick1 == Drive(TRUE, "usb", "fits", "1")
Stick2 == Drive(TRUE, "usb", "fits", "none")
Internal == Drive(FALSE, "sata", "huge", "2")
MCDrives == {Stick1, Stick2, Internal}

MCProfiles == {<<1, 2>>}

\* Scripts pass --yes, and then --direct-install; people do not.
MCRequests == {r \in Request : /\ r.force => r.named = NoPath /\ ~r.yes
                               /\ r.noDoctor => ~r.yes
                               /\ r.direct <=> r.yes}

GoodHost ==
    [identity |-> "known", tools |-> HostTools \cup DirectDeps \cup {"cosign", "smartctl"},
     anchor |-> TRUE, seen |-> "aligned", sb |-> "on", efi |-> TRUE, tpm |-> "present",
     nics |-> 1, smart |-> {"good"}, memory |-> TRUE, removable |-> 0, disks |-> 1]

\* Nothing fails, but there is little.
PoorHost ==
    [GoodHost EXCEPT !.identity = "new", !.tools = HostTools, !.seen = "ahead", !.sb = "off",
                     !.efi = FALSE, !.tpm = "disabled", !.nics = 0, !.smart = {}, !.disks = 0]

MCFacts == {GoodHost, PoorHost, [GoodHost EXCEPT !.anchor = FALSE],
            [GoodHost EXCEPT !.tools = @ \ {"gpg"}]}

Parts(t, u) == [d \in MCDrives |-> CASE d = Stick1 -> t [] d = Stick2 -> u [] OTHER -> "other"]
Holds(d, t) == [e \in MCDrives |-> IF e = d THEN [NoIsos EXCEPT ![1] = t] ELSE NoIsos]
World(first, second, p, k, m) ==
    [plug |-> "sda" :> first @@ "sdb" :> second, part |-> p, kit |-> k,
     mounted |-> IF m = NoDrive THEN <<>> ELSE <<[drive |-> m, stale |-> FALSE]>>]

\* One stick of any content; two blank rescue sticks; the stick behind the
\* internal disk, mounted with an ISO on it; another rescue stick mounted.
MCWorlds ==
    {World(Stick1, NoDrive, Parts(t, "other"), Holds(Stick1, "absent"), NoDrive) : t \in {"esp", "raw", "other"}}
      \cup {World(Stick1, Stick2, Parts("aegis", "aegis"), Holds(Stick1, "absent"), NoDrive)}
      \cup {World(Internal, Stick1, Parts("aegis", "other"), Holds(Stick1, t), Stick1) : t \in {"yellow", "red"}}
      \cup {World(Stick1, Stick2, Parts("other", "aegis"), Holds(Stick2, "yellow"), Stick2)}
=============================================================================
