# Verification of aegis-boot

TLA+ models of [aegis-boot](../src/README.md), checked with TLC and, where a
result matters for every configuration, proved with TLAPS. aegis-boot is a signed
rescue environment: a USB stick boots an initramfs whose `/init` starts a terminal
UI (`rescue-tui`), which lists the ISO files on the stick's data partition
(`AEGIS_ISOS`), verifies them, downloads more of them, and hands one of them to
`kexec`. A host-side tool (`aegis-boot`, crate `aegis-cli`) flashes the stick,
fills it, updates its EFI partition (ESP) and keeps a signed trust chain.

    tlasany M.tla                      parse a module
    tlc -workers 2 -config X.cfg M     model-check a configuration
    tlapm StickProofs.tla              check the proofs of a module

Paths below are relative to `src/crates/` unless they say otherwise. `PROJECT.json`
says which lines of the source each definition stands for, and lists the runs, the
theorems, the mutants, the findings and the hazards.

## 1. Inventory

### The program on the stick

| Component | State it keeps | Operations | Hard because |
|---|---|---|---|
| `/init` (`src/scripts/build-initramfs.sh`) | mounts | wait for disks, mount `AEGIS_ISOS` and every other partition, leave a log, run `rescue-tui` | disks appear late; resolvers miss labels; a write-protected stick mounts with a warning |
| `rescue-tui/src/state.rs`, `main.rs` (`event_loop`) | `AppState`: rows, verdicts, overrides, view settings, session consents, one `Screen`; three receivers of worker threads | one handler per key and screen; drains of the verify, DHCP and fetch workers | three workers report at any time, over any screen; overlays save and restore screens; a cursor is a view row, a screen's `selected` is sometimes a position, sometimes a view row |
| `render.rs`, `keybindings.rs`, `verdict.rs` | none | draw what the state is and which keys it takes; the tier of an ISO | lists of their own beside the dispatch and the gates |
| text mode, auto-kexec, `attempt_kexec` (`main.rs`), `tpm.rs` | PCR 12, the last choice | list, pick, confirm, measure, kexec | repeats some of the gates, not all; the TPM may fail |
| `persistence.rs` | `last-choice.json`, on tmpfs and on `AEGIS_ISOS` | `save`, `save_durable`, `atomic_write`, `load`, `migrate_tmpfs_to_aegis_isos` | process death between file operations, power loss, a stick mounted late |
| `failure_log.rs`, `tier_b_log.rs` | reports, spooled on tmpfs and then on the stick | record, migrate, rotate | the same two-stage storage, and a bound on the number of files |
| `network.rs` | none; `udhcpc` runs in a thread | enumerate, request a lease | retries and a report long after the request |
| `iso-probe`, `iso-parser` | loop devices and mounts | discover, mount, detect the layout, verify sidecar and signature, `prepare` | `mount` may report success and mount nothing; any `umount` may fail; two verdicts over several files |
| `kexec-loader` | the staged kernel | `load_and_exec` | never returns when it succeeds |
| `aegis-fetch` | `<iso>.partial`, a cancel flag | probe, resume, download, verify signature and hash, rename | cancellation, stale and foreign partials, a stalled server, other fetches |

### The program on the host

| Component | State it keeps | Operations | Hard because |
|---|---|---|---|
| `aegis-trust` | the `seen-epoch` file | load, store (maximum), verify against the floor | two processes, read-then-rename without a lock |
| bundle fetch, cache, verify | a cache directory per bundle version | fetch, reuse, verify | interrupted and concurrent fetches |
| `fetch`, `fetch-image` | files in the cache | as `aegis-fetch`; curl, `--sha256`, cosign | leftovers of killed runs under the same path |
| `flash` with direct install (Linux, macOS, Windows) | a block device | select, check, partition, format, stage, attest | destructive stages that stop half way and undo nothing |
| `flash` with an image (`flash.rs`, `progress.rs`, `readback.rs`) | a block device | dd, read-back, expand the data partition | the desktop mounts what it finds; old mounts still hold blocks; the kernel may keep the old table |
| `update` (`update_apply.rs`) | ESP files, their `.new` and `.bak` | plan, rotate, verify, refresh the manifest, roll back | failure or death between the renames of a slot |
| `verify --stick`, `attest` | manifests and receipts per disk GUID | record, find, compare | GUIDs that images share; records appended without a lock |
| `list`, `add`, `add --scan`, `verify` (`inventory.rs`, `verify.rs`) | files and mounts of the data partition | mount, copy, sidecars, sums, unmount | each command mounts for itself and must release on every path |
| `doctor`, `init`, `quickstart` | none | probe the host; wizard, flash, fetch, add | drives come and go at the prompts |
| `eject` | the drive | sync, flush, power off | what is mounted, dirty or busy meanwhile |
| `aegis-catalog`, `aegis-core`, `aegis-fitness`, `aegis-wire-formats` | none | data and types | nothing that changes |

### How they interact

`/init` mounts what it can, runs `rescue-tui` and then drops to a shell, from which
the operator may mount the stick or run the TUI again. The TUI's single thread draws,
drains every worker's channel without blocking, and polls one key. Workers never touch
`AppState`: they send messages, and share one `AtomicBool` (fetch cancel).
`attempt_kexec` saves the last choice, mounts the ISO, measures, and calls
`kexec-loader`; when that succeeds, nothing of the TUI remains but the files it wrote.
On the host, processes of `aegis-boot` share files only, never a lock. Host and stick
meet in the files of the stick: the ESP's boot files and manifest, and on the data
partition the ISOs and what a verdict is made from, sums, signatures and sidecars.

### What makes each component correct

* **TUI**: no path to `load_and_exec` misses a gate; a worker's message is applied to
  the thing the worker worked on, or to nothing; a row number used after a re-sort,
  a filter or a deletion still means the ISO the operator saw; a started worker is
  given up again; a key the frame offers is a key the loop acts on.
* **Boot**: nothing is seen at a mount point but the ISO that was asked for; what boots is
  what was shown, after the word its verdict asks for.
* **What the TUI keeps**: a retry in the same boot sees the whole choice; the stick's
  copy only moves forward; a failure report that is whole stays.
* **Trust chain**: the seen epoch never regresses; nothing below the floor is accepted;
  a bundle that is reported complete is complete.
* **Downloads**: a file is reported verified only if signature and hash both held for
  the bytes that are on disk, whatever lay there before.
* **Sticks**: one command at a time, failing or dying anywhere, never leaves a boot file
  without its old or its new bytes; what the host knows of a stick is true; only the
  drive that was agreed to is erased.

The hazards behind these, each with its source line, are in `PROJECT.json`.

## 2. Modules

| Module | Models | Extends |
|---|---|---|
| `TuiScreens` | what discovery found (constants), the `Screen` enum as records | |
| `BootGate` | *abstract*: one ISO is picked, asked about and handed over | |
| `RescueTui` | `AppState` and `event_loop`: one action per key handler and worker message; implements `BootGate` | `TuiScreens` (instantiates `BootGate`) |
| `TuiView` | the hints of footer and panels, and whether `event_loop` honours them | `RescueTui` |
| `TornFiles` | an absent file, and what a write that was cut short leaves | |
| `LastChoice` | the two copies of `last-choice.json`, one action per file operation | `TornFiles` |
| `RescueLogs` | failure reports: spool, migration, rotation | `TornFiles` |
| `IsoLayouts` | which boot entries iso-parser finds on an ISO | |
| `IsoShelf` | the files a verdict is made from, the two verdicts, the trust tiers and what the screens make of them | `TornFiles` |
| `IsoScan` | `discover` over two roots, `mount_iso`, `prepare` | `IsoShelf`, `IsoLayouts` |
| `DataPartition` | `list`, `add`, `add --scan`, `verify`, receipts, files dragged by the operator | `IsoShelf` |
| `RescueInit` | `/init`: labels, mounts, log, exit codes of the TUI | `TornFiles` |
| `Handoff` | text mode, auto-kexec, `attempt_kexec`, TPM, `kexec-loader` | `RescueInit`, `IsoShelf` |
| `RescueDisk` | composition: the host fills a stick, a machine boots it; the choice, the reports and the boot beside it | the above |
| `TrustChain` | `fetch-trust-chain`: concurrent runs over the bundle cache and `seen-epoch` | |
| `FetchProtocol` | *abstract*: the events a caller of `fetch_catalog_entry` is told of | |
| `IsoFetch` | `fetch_catalog_entry` in full, implementing `FetchProtocol` | (instantiates `FetchProtocol`) |
| `FetchImage` | `fetch-image` | |
| `Downloads` | composition of the three commands that download | the above |
| `SparedSlots` | *abstract*: replacing boot files in place, one of two names kept at any time | |
| `Stick` | the stick, the operator's attestations, the rules all commands share | |
| `StickUpdate`, `StickFlash`, `VerifyStick` | `update` and `--rollback`; `flash` on Linux; `verify --stick` | `Stick` |
| `StickLife` | composition: one stick flashed, updated, rolled back; implements `SparedSlots` | the above (instantiates `SparedSlots`) |
| `ImageFlash` | `flash` with an image, seen from the device | |
| `InstallTarget`, `WindowsInstall`, `MacosInstall` | direct install on the other systems | |
| `Doctor`, `RescueKit` | `doctor`'s rows and score; `init` and its wizard | |
| `EjectStick` | `eject` | |
| `StickHosts` | composition: a stick is made on one kind of host | the above |
| `MCRescueTui`, `MCRescueDisk`, `MCTrustChain`, `MCStick` | instances for TLC | |
| `RescueTuiProofs`, `ListingProofs` | theorems about `RescueTui` | |
| `TrustChainProofs`, `DownloadsProofs` | theorems about `TrustChain`; about `Downloads` | |
| `StickProofs`, `StickHostsProofs` | theorems about `StickLife`; about `StickHosts` | |
| `DataPartitionProofs`, `RescueDiskProofs` | theorems about the verdicts, the lemmas of `DataPartition` and `IsoScan`; theorems about `RescueDisk` | |

A composition interleaves components that share state and puts beside each other
those that do not: there a variable chosen in the initial state (`part`, `system`,
`command`) says which component a behaviour shows, and the others rest.
Interleaving them would multiply the states and show nothing: no
action of one reads a variable of the other.

### RescueTui, TuiView

Variables carry the names of `AppState`'s fields (`isos`, `hash_verification`,
`cmdline_overrides`, `screen`, `sort_order`, `filter`, `filter_editing`, `pane`,
`session_consent`, `session_network_consent`, `network_lease`) and of `event_loop`'s
locals (`active_verify`, `active_dhcp`, `active_fetch`). `disk` and `sidecars` are the
files the delete handler unlinks. `exec` and `asked` are history: the request last
handed to `load_and_exec`, and the ISO the open delete prompt was opened for.

Each action is one handler with everything it calls: `ConfirmEnter` is the whole
Enter arm of the Confirm screen with its four outcomes, `DeleteYes` is
`perform_iso_delete` with its partial failures followed by `delete_completed` or
`record_delete_error`, and `VerifyDone` is the drain arm with `verify_finish`. A screen
that swallows keys (`Verifying`, `Help`, `ConfirmQuit`, `BlockedToast`, the filter
field) does so through the guards `Key` and `GlobalKeys`.

`BootGate` is what an operator may believe of booting: one ISO is `picked` until it is
left; only its verdict, its command line and the answers about it change meanwhile; what
is handed over is that ISO with them, and a deletion takes one ISO and moves nothing. It
knows no rows, cursors, overlays or workers. `RescueTui` maps to it by `Flow(screen)`, the
screen of the flow below any modal or overlay: `OnScreen` is the ISO at its position,
`Answered` says that the challenge holds the word, `OverrideOf` reads the overrides, which
the code keeps by position, by ISO. A sort, a filter, a worker's other messages and each
overlay are stutters.

`TuiView` adds the two lists the code keeps beside the dispatch: the `KEYBINDINGS`
registry behind the footer and the hints each panel of `render.rs` writes itself. A
hint is named by what it promises, `Honoured` says which handler must be enabled for
it, and `Deaf` is the list of hints the code shows and does not honour (see section 5).

Abstractions, and why no property can tell:

* rows and positions count from 1; text that is only displayed is absent (messages,
  remedies, byte counts, rates, audit warnings, cursors inside a field or an overlay's
  list, the info pane's scroll);
* the boxed `prior` screen is a nested record; overlays nest at most as deep as in the
  code, which the type invariant states and the proof confirms;
* `HashVerification::NotPresent` and `Unreadable` are one verdict: no gate separates them;
* the trust-challenge buffer is "boot" or not yet;
* a stale `y` in the delete prompt does what `n` does, and is part of `CancelDelete`;
* `Kexeced` is added to the screens: the process image has been replaced;
* what discovery returns, how sort keys rank, what a filter keeps, and which ISOs are
  installers, signed, forged or not bootable are constants, so that a theorem holds
  for all of them.

### LastChoice, RescueLogs

`tmpfs` is the copy in `/run/aegis-boot`. The path under `AEGIS_ISOS` leads to `stick`
when the stick is mounted and to `ramdir`, a directory of the initramfs, when it is not:
`aegis_isos_state_dir` does not look. `flash` is the set of copies a power loss may
leave. `Rename` adds the new body and `Torn` (its data was never synced), `SyncDir`
removes the old copies, and `WriteBack` is the kernel's own flushing. `kexec` is a power
loss: `load_and_exec` syncs no file system. `proc` is the program counter of
`apply_persisted_choice` (migrate, load) and `attempt_kexec` (save to tmpfs, save
durably, attempt). Any file operation may fail, the process may die between any two,
and `fs::write` to tmpfs may stop half way. Mount and unmount while the TUI runs are left
out: `/init` mounts before it starts, the operator's shell exists only after it ended.

`RescueLogs` has the same two places for failure reports. A report's name is the second
of the clock and a hash of its text; rotation keeps `MaxRetained` of them, by name, and
the clock may stand still or go back.

### IsoShelf, DataPartition, IsoScan, RescueDisk

A file's bytes are a model value; a sum is named by the bytes it is the sum of, a
signature by its bytes and key. A key is trusted when it is offered where
`load_trusted_keys` looks and its file is safely owned. `verify_iso_hash` and
`verify_iso_signature` are translated with all their answers, and so are the five
functions that turn them into what an operator sees: `trust_verdict`,
`is_kexec_blocked`, `is_degraded_trust`, the spans of the Confirm screen and the info
pane's lines, and the text mode's colours.

`DataPartition` runs one host command at a time: mount if needed, copy, write sidecars and
sums, append the receipt, unmount on every way out. A file that is being written is
`Torn`. The operator may copy files meanwhile, and an `add` to another stick writes
receipts too. `IsoScan` is what the booted stick then does: for each root and each ISO the
three attempts of `mount_iso`, the layouts of `IsoLayouts`, `umount`, the rows, and `prepare`
when a row is booted. Of the three attempts the first (`mount -o loop`) and the last
(`fuseiso`) count only if something is seen at the mount point; the one between, with a
loop device from `losetup`, is believed on its exit status, so that `Mount` may leave an
empty directory. When that attempt fails the device is detached and the result ignored
(`Detached`). A failed `umount` leaves the mount on a stack under the next one.

### RescueInit, Handoff

A partition has a label, a file system, and a moment at which it appears; a resolver finds a label or
not. What `/init` mounts decides what `rescue-tui` lists. `Handoff` takes text mode and
automatic mode through menu, confirmation, last choice, `prepare`, measurement,
`load_and_exec` and the exit code, each step failing as its caller distinguishes.
`shown` is what the operator was last told, `word` what was answered.

### TrustChain

Each process is one run of `try_run` (`bundle_fetch.rs`) with everything it calls:
load the seen epoch, download and verify the manifest (`verify_bundle_manifest`,
`verify_with_epoch`), keep or fetch each file (`fetch_bundle`), store the epoch
(`store_seen_epoch_at`). Processes share files and no lock, so that each access to a
shared file is an action: the decision to download is apart from the write, and a write
is a truncation and then the bytes. `Stops` is any I/O or download error and any kill, at
any step. Because all processes stage under the same name, the model tells names
(`seen`, `tmp`) from files (`Inode`): `File::create` on an existing name opens and
truncates the file somebody else may be about to rename, and a handle still writes into
a file that has been renamed since. `cache` says whose bytes a file holds, which is all
a hash comparison sees; `Malformation` is the error that `verify_bundle_manifest` finds in
a rightly signed bundle, if any. `highest`, `overlapped` and `disturbed` are history.

Left out: the copies of manifest and signature in the cache, which are never read; the
argument parser; `curl`, whose outcomes are "bytes of some bundle" and "error"; power loss
(the rename is not followed by a directory sync, so a power loss may undo it; it cannot
tear the file); epochs of different decimal width, whose bytes could mix.

### IsoFetch, FetchProtocol, FetchImage

`IsoFetch` follows `fetch_catalog_entry`: probe, range request or whole request, one poll
and one read per chunk, the signed sums, the hash, the rename. A body comes in `Chunks`
reads; bytes are told apart by the body they are from, so that a partial made of two
bodies is a sequence of two values. The mirror may change its body between any two
requests. `OtherFetch` stands for everything another `aegis-boot fetch` may do to the two
files; in `rescue-tui`'s directory there is none. `crowded` is its history. `FetchDies` is a
kill, after which the kernel still writes what it was given. `PowerLoss` is the power going
or another kernel starting, and it leaves any part of what was not written back: nothing is
synced, neither the data before the rename nor the directory after it, and `load_and_exec`
syncs nothing either. `flash` is what may then be found under the final name, `WriteBack` the
kernel's own flushing, `torn` the history of a loss. The events a
caller sees are `phase`, and `Protocol` instantiates `FetchProtocol` with it: this is the
order on which `RescueTui`'s `FetchOrder` and the CLI's renderer rely.

### Stick and its commands

`Stick` has the partition table with its disk GUID, the ESP with one slot per boot file
(`main`, `new`, `bak` names), the stick's manifest, and `store`, the host's manifests and
receipts by GUID. Each mtools call is a step that may fail, leave a torn file, report
success for bytes that did not arrive, or be the last before a death. `StickUpdate` is
`update --apply` (eligibility, plan by hash, materialise, rotate, refresh) with its
unwinding, and `--rollback`. `StickFlash` is `flash` on Linux, by direct install stage by
stage and by an image as what it leaves on the stick. The host's attestation is rewritten in
place (`StoreCut`): a write that is cut short leaves an empty file, which is found for no
stick. mcopy's exit status is all that `update` asks of the stick's manifest, so that it may
be torn under "Manifest refreshed". `HostUpgrade` changes the host's packages
between any two calls.

`ImageFlash` is the image flash again with `dd`, its progress pipe, the read-back and the
growth of the data partition, and with the mounts around them. `InstallTarget` has the
disks that Windows and macOS show; their pipelines check, erase and copy by stages.
`RescueKit` is `init` with `doctor` as its preflight; a drive may be pulled, plugged or
swapped at a prompt, and the desktop mounts what it finds.

## 3. Runs

Distinct states are in brackets.

| Run | Instance | Checks |
|---|---|---|
| `tui_boot` [3.8 M] | three ISOs: an unsigned installer with a sidecar, a signed installer, one with a forged signature; one parse failure; two filters; a sort order that reverses discovery and one that ties; no network | `TypeOK`, `KexecGated`, `DeletionIsComplete`, `VerdictBelongsToIso`, `OverridesFollowIso`, `DeletesOnlyWhatWasAsked`, `BootGateImplemented` |
| `tui_net` [1.6 M] | one ISO, one that does not parse, two interfaces, two catalog entries | `WorkersFitScreens`, `DhcpNeedsConsent`, `HintsAreHonest`, `WorkersEnd` |
| `disk` [4.6 M] | two host commands, one file dragged, one overlapping receipt, then a boot over what the host left; a choice among two ISOs with one override; three failure reports; four partitions and five ISOs to boot | `RescueDiskTypeOK`, `TemporaryMountReleased`, `RedStaysRed`, `RecordsKept`; `OnlyTheIsoIsSeen`; `SyncedCopySurvives`, `FreshestChoice`; `ReportsKept`; `ShelfIsSeen`, `BootedAsShown` |
| `trust` [1.2 M, symmetric in inodes] | two processes, two files, an old and a re-published bundle of one version, a forged one and a rightly signed malformed one; an ISO of two reads with two signed bodies and a bad one; an official image and a bad one | `DownloadsTypeOK`, `FloorKeptUnlessOverlap`, `OnlyVerifiedOnDisk`, `ReturnedBundleIsWhole`; `FinalIsSigned`, `CancelTakesHold`, `OkMeansSigned`, `ProtocolImplemented`; `ReturnedImageIsChecked` |
| `stick` [2.2 M] | two boot files in two versions, a blank or an earlier flashed stick, one flash, any number of updates and rollbacks; three disks of five kinds; two device nodes and three drives for `init`; every option of the image flash; two devices to eject | `HostsTypeOK`, `RotatedIsVerified`, `KnownMeansStaged`, `OldBytesSurvive`, `RefreshedManifestTruthful`, `SparedSlotsImplemented`; `InstalledIsDurable`, `ErasesOnlyApproved`; `DoneMeansComplete`; `FlashReportFits` |
| `tui_error_row` | as `tui_boot` | `ErrorReturnsToFailedIso` is violated |
| `tui_fetch_lost` | as `tui_net` | `FetchResultIsApplied` is violated |
| `choice_override_leaks`, `choice_torn` | two ISOs, one override | `OverrideStaysInBoot`, `SavedCopyIsWhole` are violated |
| `trust_regress`, `fetch_retry` | as `trust` | `SeenEpochNeverRegresses`, `ResumeFallsBack` are violated |
| `stick_unwind` | as `stick` | `UnwindRestores` is violated |

Each property has its statement in words above its definition, and a mutant in
`PROJECT.json`: a variant of one action with a plausible fault (marked "A faulty variant"
in the module) under which TLC finds the property violated.

**Why these bounds.**

* `tui_boot`: three rows are the least for which a deletion moves one row and leaves
  another, and a view order can disagree with discovery order in more than one way; each
  gate has an ISO that meets it and one that does not. The network is not part of it: its
  screens touch no variable of the boot flow but `screen`, and `tui_net` has them together
  with Confirm. Two interfaces and two entries let an old worker's answer meet a new
  request.
* `disk`: an ISO name in two folders and two bodies tells a stale sum from a fresh one;
  two commands (`MaxTools`) are what one leaves and the next finds; a boot follows at most
  one (`MaxBootTools`), which leaves every state of a shelf that two bodies can have. With
  one loop device (`MaxLoops`, 16 in the code) a device that was not given back is felt at
  once; one `prepare` (`MaxPrepares`) is enough to show an old mount through a new one. Three reports against `MaxRetained` = 2 make the rotation
  delete; three clock readings order, tie and fail. In `LastChoice` an ISO and an override different from the previous ones
  are all a stale copy can be told by. Of the four partitions two are labelled, one
  write-protected, one not mountable; the ISOs have a right, a wrong and no sidecar and a
  signature by a trusted and by an exposed key; two attempts (`MaxAttempts`) are one and its retry.
* `trust`: two bundles share one version, since different versions share nothing; two
  files let one be right and the other not; three inodes are one for each name and one that
  a handle alone keeps. Two reads are the least for which a partial can be of two bodies;
  initial leftovers are all of these, and one that is longer than the body.
* `stick`: with two slots one is behind and the other ahead of every step; the second is
  rendered on the host and lies beyond the part that is read back. Two versions are the old
  and the new one; `MaxSeq` = 2 is one refresh. One flash (`MaxFlashes`) on a stick that may
  be flashed before is a re-flash. On Windows and macOS the kinds of disk are one for each
  check of the pipelines; `Requests`, `Facts` and `Worlds` of `init` are one for each
  branch of the wizard and the doctor, with one swap of drives in a run. `MaxLines` = 1 fills the pipe from `dd`
  to its progress bar.

Everything else is finite as it stands.

**Deadlock** is not looked for in the TUI, which stops at `Quitting` and `Kexeced`, nor in
`disk`, which ends when its bounds are used up or another kernel runs. It is in `trust` and
`stick`, whose commands can always start again.

**Fairness.** `Fairness == WF_vars(VerifyReport) /\ (AlwaysAsksAgain \/ WF_vars(DhcpReport))`.
The verify worker hashes a finite file and then reports, or dies and disconnects, and no key
replaces it; the DHCP worker runs `udhcpc` with five tries of two seconds; `event_loop` drains
both channels on each turn. A DHCP worker can be replaced: `r` and Enter give the receiver to
a new one before the old one reports, as often as the operator likes, and then no worker need
ever report. `AlwaysAsksAgain` is the operator who does that for ever; of every other operator
nothing is assumed, as there is a last worker and its report is owed. `WorkersEnd` makes the
same exception. Nothing is assumed of the fetch worker: its body read has
no timeout, so that a stalled server keeps it for ever. This is why `WorkersEnd` speaks of
the two workers only, and `CancelTakesHold` bounds what is written after Esc, not when the
fetch ends. The commands on the host are sequential programs that end at each prompt and failure;
nothing is claimed of them but safety.

### What the violated properties show

* `ErrorReturnsToFailedIso`: `record_kexec_error` stores a position in `return_to` and the
  List takes it for a view row, so with a sorted or filtered view the cursor goes to
  another ISO (`rescue-tui/src/state.rs:36` promises the failed one). From the trust
  challenge it always goes to the first row.
* `FetchResultIsApplied`: a fetch that ends while Help or the quit prompt is up is dropped;
  the confirm screen stays busy with no worker, and neither Enter nor Esc leaves it
  (only quitting does).
* `OverrideStaysInBoot`: the start-up migration copies the tmpfs file as it is, override
  included, to the stick. Save, restart the TUI, reboot: the override is back.
* `SavedCopyIsWhole`: the renamed file's data is not synced before the rename, which
  `docs/architecture/LAST_BOOTED_PERSISTENCE.md` lists as step 6. `SyncedCopySurvives`
  says what does hold: after a synced save the copy is the new one or torn, never an
  older one.
* `SeenEpochNeverRegresses`: one process is about to rename its staged file when another
  one's `File::create` truncates it, and an empty file becomes `seen-epoch`. If the second
  process dies there, the file stays unreadable: later runs take the floor for 0
  (`bundle_fetch.rs:226`), and every later store fails. One epoch is enough to reach it.
  With two epochs the second process may also write the older one into the live file.
  `FloorKeptUnlessOverlap` says what does hold.
* `UnwindRestores`: an update killed between its two renames leaves a slot with a `.bak` and
  no live file. `--rollback` deletes the live file first, that fails, and the restoring
  rename is skipped, however often it runs. `OldBytesSurvive` says what does hold: the old bytes
  are still there, under the other name.
* `ResumeFallsBack`: a fetch that ends while it hashes leaves a whole `.partial`. Each later
  one asks for the range past its end, is refused with 416, and fails, where
  `aegis-fetch/src/download.rs:70` promises a fresh download.

### What some properties stop short of

Each of these is worded around a behaviour of the code that its comments deny. The models
have the behaviour as a step; that it occurs is no run of its own.

* `DhcpNeedsConsent` is about the network overlay. `rescue-tui/src/state.rs:139` says that the
  rescue environment is offline until the operator opts in, and 431 that the lease gates the
  catalog's fetch; but `f`, Enter, Enter (`main.rs:737`, 752, 765) starts the fetch worker with
  neither. `tui_fetch_lost` begins like that. Without a lease the fetch fails at its first
  connection, unless something else has configured an interface.
* `OnlyTheIsoIsSeen` says that no *other* ISO is seen at a mount point and none is booted. It does
  not say that the ISO is seen. A comment in `mount_iso` (`iso-parser/src/lib.rs:667`) tells why a
  mount that reports success must be looked at; the attempt with a loop device (645-653) is not,
  and Ok may stand for an empty directory. The ISO then has no entries, or its kernel is not found.
* `FinalIsSigned` says that what has the final name is a signed ISO or left of one.
  `aegis-fetch/src/lib.rs:224-228` promises the ISO itself, but it is renamed without ever being
  synced: after a power loss, or a kexec, which syncs nothing, the name may lead to less, in the
  directory scanned at the next boot. The fetch writes no sidecar, so that the scan cannot tell.
* `OldBytesSurvive` and `SparedSlotsImplemented` speak of one command and of names. What `update`
  prints of its steps (`update.rs:855-858`) has the staged bytes verified before they go live; the
  code hashes them after the rename, and does not hash the `.bak`. A stage that mcopy tore
  silently is then live, the update stops, and the next one backs the torn file up over the
  `.bak` that was the last whole copy.
* `InstalledIsDurable` says on Windows that the boot files are on a volume of the disk that was
  named. `stage_esp` speaks of the ESP and of partition 1 (`raw_write.rs:371`, 773), but
  `find_esp_volume_guid` returns the first volume with an extent on the disk (810), and
  AEGIS_ISOS is formatted by then. The boot files may go there: the pipeline reports an
  installation, and the stick does not boot.
* `RefreshedManifestTruthful` lets the stick's manifest be torn under "Manifest refreshed", which
  is printed on mcopy's exit status (`update.rs:1297-1312`).
* `BootedAsShown` has the last choice saved or not: `save_last_choice` (`main.rs:1545-1552`) logs
  a failed write and the machine boots.

## 4. Proofs

The theorems hold for every value of the constants that satisfies the named assumptions,
none of which bounds a number. `PROJECT.json` says in a sentence what each one establishes.

### RescueTuiProofs and ListingProofs

From `ScreensAssumption`: distinct discovered ISOs, a default command line for each, filters
and ranks that are functions, and that `None` is no position.

| Theorem | Property |
|---|---|
| `TypeCorrect` | `Spec => []TypeOK` |
| `KexecIsGated` | `Spec => []KexecGated` |
| `WorkersFit` | `Spec => []WorkersFitScreens`, of `FetchIsSingle` and `DhcpMatches` |
| `DhcpConsented` | `Spec => []DhcpNeedsConsent` |
| `VerdictIsOfIso` | `Spec => VerdictBelongsToIso` |
| `DeletionCompletes` | `Spec => []DeletionIsComplete` |
| `DeletesOnlyAsked` | `Spec => DeletesOnlyWhatWasAsked` |
| `OverridesFollow` | `Spec => OverridesFollowIso` |
| `BootGateRefined` | `Spec => BootGateImplemented` |
| `RowsShowEachIso` | each ISO the filter keeps has exactly one row, the rows are in the order of the sort, and each row of the list is either an ISO's, a parse failure's or the shell's |
| `EscFindsTheIso` | Esc on Confirm puts the cursor on the ISO it was about, if the filter still keeps it |
| `OverlaysGiveBack` | help, the quit prompt, the network and the catalog screens give back the screen below with its cursor, and the list as it was |

None of these is inductive: they say nothing of a screen that waits under
an overlay and will be restored, and nothing of how a screen was reached. `IInv` adds

* `TypeOK`, whose screen sets already say what may lie under what (an overlay only over
  the List or Confirm, a modal over anything but a modal);
* `Fits(screen)`: a position held by a screen, at any depth, is a row the list still has.
  `isos` shrinks only in `DeleteYes`, whose screen afterwards is the List or the delete
  error, so that no stale position can be below;
* for the gates: a `Consent` or `TrustChallenge` screen is only up, or under a modal, for
  an ISO that has passed the gates before it and that the question applies to, so that
  the check a later handler does *not* repeat is known from the screen (`FlowFits`);
* for the workers: which screen an attached worker belongs to, and which phase it may be in;
* for the network: no network screen, DHCP worker or lease without the session's consent.

`Init => IInv` and one lemma per action (`IInv /\ A => IInv'`) give `[]IInv`; the theorems
follow, and `VerdictIsOfIso` from the invariant and the shape of `VerifyDone`: while the
worker is attached the screen's position is the row it was started for.

`ListInv` adds what a deletion needs: no ISO is listed twice, and an open delete prompt,
perhaps under a modal, has a row that resolves to `asked`. A step either is one of the
prompt's own, or it leaves the rows alone and, if a prompt is up afterwards, the view too
(`OtherStays`); so the second resolution of the row finds what the first one found.
`OverridesFollow` then is arithmetic on `Vec::remove`: the row of an ISO behind the deleted
one and the key of its override both move by one.

`BootGateRefined` has a lemma per group of handlers. Most rest on what happens to
`Flow(screen)`: it stays (`SameFlow`, for modals, overlays and workers), is entered, is left
or goes on about the same ISO (`FlowEntered`, `FlowLeft`, `FlowStays`). `FlowFits` supplies the
conditions that `BootGate`'s `Answer` and `Load` state and the handlers leave to earlier screens.
Two steps need `ListInv` as well, since only while no ISO is listed twice is a position the
ISO's only one: a committed command line changes one entry of `OverrideOf`, and after a
deletion every other ISO still reads its own.

The list is sorted by rank (`RowOf`: how many ISOs come sooner) and read by row
(`RealIndex`: the ISO whose rank is that row), where the code sorts a vector. That these are
inverse to each other needs that each row is some ISO's, which is the pigeonhole principle
for the finite set of rows (`RowIsTaken`); `Sooner` is a strict order, ties broken by
position as in a stable sort (`SoonerOrders`). `EscFindsTheIso` rests on it.

### TrustChainProofs

From `TrustChainAssumption`: epochs are naturals, the binary's floor is positive.

| Theorem | Property |
|---|---|
| `TypeCorrect` | `Spec => []TypeOK` |
| `DiskIsVerified` | `Spec => []OnlyVerifiedOnDisk` |
| `ReturnsWhole` | `Spec => ReturnedBundleIsWhole` |
| `FloorIsKept` | `Spec => []FloorKeptUnlessOverlap` |

`IInv` ties each process's program counter to what it holds (a verified manifest, an
existing entry, an open handle, a verified epoch) and says that all bytes on disk are
verified or torn. `CacheInv` adds that what an undisturbed run has put behind it stays
right: each write by another run into the same directory marks it disturbed. `FloorInv`
adds, while no two stores have overlapped, that at most one store is on its way, that
its value is not below the file's, and that the staging name leads to its own file and
never to the live one.

### DownloadsProofs

From `IsoFetchAssumption` and `FetchImageAssumption`.

| Theorem | Property |
|---|---|
| `StickFinalSigned` | `DownloadsSpec => []FinalIsSigned` |
| `CancelHeld` | `DownloadsSpec => []CancelTakesHold` |
| `OkIsSigned` | `DownloadsSpec => OkMeansSigned` |
| `ProtocolHolds` | `DownloadsSpec => ProtocolImplemented` |
| `ReturnedImageChecked` | `DownloadsSpec => []ReturnedImageIsChecked` |
| `DownloadsTypeCorrect` | `DownloadsSpec => []DownloadsTypeOK` |
| `DownloadsKeepTrust` | `DownloadsSpec` implies what is proved of `TrustChain` alone |

`IsoInv` says what stands behind the checks that are over, step by step (`VouchedFor`):
first a body the vendor signed, in the end that it is what lies on disk unless another
fetch has been at the files; `FilesFit`, that what the name leads to, and what it may lead to
after a power loss, is a signed ISO or left of one; with them `PhaseFits`, the event last told, from where the fetch
is, and `LateFits`, that a chunk written after Esc is the last. The refinement of
`FetchProtocol` is step by step from `PhaseFits`. `ImageInv` does the same for an image.

### StickProofs

About `StickLife`, from `StickAssumption`, for any number of boot files and versions.

| Theorem | Property |
|---|---|
| `TypeCorrect` | `Spec => []TypeOK` |
| `Implements` | `Spec => SparedSlotsImplemented` |
| `OldBytes` | `Spec => OldBytesSurvive` |
| `RotatedVerified` | `Spec => []RotatedIsVerified` |
| `KnownStaged` | `Spec => []KnownMeansStaged` |
| `ManifestTruthful` | `Spec => RefreshedManifestTruthful` |
| `ReadbackSound`, `SequenceGrows` | a read-back that could hash its image leaves no torn file in its part; on one disk GUID a changed manifest has a higher sequence number |
| `CleanMeansLive` | exit 0 of `verify --stick` means that every boot file is live and is the manifest's |

`IInv` has a part per command: where it can be (`PcOK`); that a direct flash fills the slots
in order before it writes a manifest (`FlashInv`); that an image flash records after it
compared (`ImageInv`); slot by slot, which names hold the old and the new bytes while a
rotation is on its way (`RotateInv`), and what its unwinding can count on (`UndoInv`). Two
more are about the host: one manifest per GUID, none for a GUID to come (`StoreInv`), and
whose sequence number is ahead (`SeqInv`). A flash erases, which `SparedSlots` allows; every
other step maps to one that removes a file only beside the other one of its slot. Neither is
said to be whole: the one that stays may be the one mcopy tore (section 3).

### StickHostsProofs

About `StickHosts`, from `StickAssumption` and what a host can tell: disk 0 is one of the
host's and the traits of a system disk exist (`InstallAssumption`), a profile has a slug
at least and there is a command line and a host to run on (`KitAssumption`), there is a
drive to eject (`EjectAssumption`), dd prints a line (`ImageFlashAssumption`). The numbers of disks,
drives, boot files, slugs, profiles and lines are free.

| Theorem | Property |
|---|---|
| `HostsTypeCorrect` | `HostsSpec => []HostsTypeOK` |
| `InstalledDurable` | `HostsSpec => []InstalledIsDurable` |
| `DoneComplete` | `HostsSpec => []DoneMeansComplete` |
| `ReportFits` | `HostsSpec => []FlashReportFits` |
| `ErasesApproved` | `HostsSpec => ErasesOnlyApproved` |
| `HostsKeepSticks` | `HostsSpec` implies what is proved of `StickLife` alone, `SparedSlotsImplemented` included |
| `ScoreIsPercentage` | the score of a report is from 0 to 100 |
| `AdviceIsForTheFirstFailure` | `doctor` advises on the first failure that is not an ISO's, and on none only if no other row failed |

`HostsInv` is `IInv` of `StickProofs` and one invariant for each other kind of host; a step
of one host is a step of its commands and a stutter of the rest (`HostsProject`).

* `PipelineInv`, for Windows and macOS together: which checks the receipt holds before a
  stage that erases (`CheckedFirst`); that the files before the next one are on the volume
  they go to, flushed at once on Windows and from the sync on macOS (`CopiedSoFar`); that
  macOS's fixed mount path leads to an ESP (`MountedEsp`); and that an installed disk stays
  so when the stick is pulled (`AllDurable`).
* `KitInv`, for `init`: who agreed to which drive, and that it still is the one that was
  shown unless drives were swapped (`AgreedTo`); that a run that needs a preflight had a
  good one (`PreflightPassed`); that the slugs behind `nth` are verified (`FetchedSoFar`)
  and, while no other AEGIS_ISOS can be taken for the new one, on it (`AddedSoFar`). The
  second part rests on lemmas about `doctor`: a report without a failure scores 70 or more,
  since a warning weighs seven tenths (`WarningsScoreWell`), and a drive that is plugged out
  or has no ESP is a failure (`CheckupIsReport`).
  `AdviceIsForTheFirstFailure` goes through the rows of each check (`Helpful`: a failure that
  is not an ISO's brings advice of its own) and takes the least index (`LeastNumber`).
* `DdInv`, for an image: what is done or warned of by the time each call is reached
  (`DoneBy`), and which parts of the device cannot have changed yet (`Untouched`); with it
  goes `Classified`, the class of every failure.
* `EjectInv`: `safe` is said once no partition of the drive is mounted.

### DataPartitionProofs

The verdicts of one ISO are functions of its files, and the theorems compare the five
places that compute them: `TierAgreesWithGates`, `TextAgreesWithTier`, `ConfirmAgrees`,
`PaneAgreesWithGates`, `PaneNamesTampering`, `AxesExplainBanner` and
`OffersMayBeTampered`. Where two of them differ, the theorem names the case: an
unbootable tier that no gate blocks is an unsigned kernel under Secure Boot; a wrong sidecar
beside a good signature is tampered by the banner and by neither axis; an ISO that the
Windows pane offers to try instead may be one the Confirm screen blocks.

`LayoutsFind` is about `extract_boot_entries`: which files of an image make it yield an Arch or
Alpine, a Debian, a Fedora and a Windows entry, for any set of directories and marks. A
`/images/pxeboot` without a kernel hides the kernels of `/isolinux`, and a kernel of `/boot`
is read a second time as Debian's where the image has any mark of Debian.

The rest are lemmas for `RescueDiskProofs`. `DiskInv` counts a command's own mounts
(`MountsCounted`), says that an ISO a scan knows to be red is on its list (`RedIsListed`)
and that what a command holds is the receipt it read and one record more unless another
command overlapped (`HeldExtends`). `ScanInv` says that unless an unmount failed nothing is
mounted but the ISO at hand, if that is (`OneMounted`), whatever the walk found before, and that
each entry and each row tells of the file it names (`RowsTell`).

### RescueDiskProofs

About `RescueDisk`, from the assumptions of the parts (`LastChoiceAssumption`,
`RescueLogsAssumption`, `RescueInitAssumption`, `HandoffAssumption`, `IsoScanAssumption`,
`DataPartitionAssumption`, `TornFilesAssumption`): types, that `None` and `Torn` are no
data, and that at least one report is retained.

| Theorem | Property |
|---|---|
| `RescueDiskTypeCorrect` | `RescueDiskSpec => []RescueDiskTypeOK` |
| `MountReleased` | `RescueDiskSpec => []TemporaryMountReleased` |
| `RedIsKept` | `RescueDiskSpec => RedStaysRed` |
| `ReceiptsGrow` | `RescueDiskSpec => RecordsKept` |
| `IsoSeen` | `RescueDiskSpec => []OnlyTheIsoIsSeen` |
| `SyncedSurvives` | `RescueDiskSpec => []SyncedCopySurvives` |
| `ChoiceStaysFresh` | `RescueDiskSpec => FreshestChoice` |
| `WholeReportsKept` | `RescueDiskSpec => ReportsKept` |
| `ShelfSeen` | `RescueDiskSpec => []ShelfIsSeen` |
| `BootsAsShown` | `RescueDiskSpec => []BootedAsShown` |

* `ChoiceInv`: the body being written is the confirmed choice or the migrated one
  (`BodyFits`), the choice to be retried is on tmpfs or migrated away from there
  (`Retryable`), and tmpfs has the newest choice unless a write there failed
  (`TmpfsIsNewest`): without it a migration could put an older choice on the stick.
* `LogInv`: every name in either directory was recorded (`NamesRecorded`), what lies in the
  spool fits the place in the program (`SpoolFits`), and each report a rotation has doomed
  has `MaxRetained` others that are not older, through deaths and power cuts
  (`DoomedHaveHeirs`); the last is a count of finite sets, and the longest of these proofs.
* `InitInv`: only `AEGIS_DEV` is ever on the main mount point, and what each loop of the
  script has passed by is mounted if it could be.
* `HandoffInv`: what was asked, measured and staged so far is of the ISO and command line
  shown, and so is what was saved, if it could be (`AskedAndSaved`, `StagedAsRequested`, `MeasuresRequests`).

### Model-checked only

`WorkersEnd`, since it is liveness under fairness, and `HintsAreHonest`, which says of each
hint that a handler is ENABLED: both are outside the prover's reach. Every other property of
a passing run is the statement of a theorem.

## 5. Not modelled, and what the models say beside the runs

### Left out

* `aegis-catalog`, `aegis-core`, `aegis-fitness`, `aegis-wire-formats`: tables, serialised
  types and a report generator. The fields of manifest and receipt are records here.
* `bug-report`, `compat`, `completions`, the catalog listing, `attest list` and `show`, the
  docs generators: reports over read-only probes. `rescue-tui`'s test modes: self tests that
  replace it.
* The tier-B log: one JSONL file of parse failures for each start of `rescue-tui`, named by
  the second of the clock, on the data partition or in `/tmp`. It is best effort, and the
  program reads none of it back.
* Rendering is kept where it offers keys or names a verdict; layout, colour, themes and
  wording are left out. So is scrolling of the info pane.
* External are the kernel, firmware, TPM, mtools, sgdisk, mkfs, dd, curl, cosign, diskpart,
  diskutil, udisksctl, udhcpc, OpenPGP and TLS: they appear as the outcomes their callers
  distinguish.
* Loop devices as drives (`AEGIS_ALLOW_LOOP_DEVICE`, for tests): `Paths` of `RescueKit` are
  the nodes of drives.
* Not claimed: that every loop device is given back (the code detaches one whose mount
  failed and does not look whether that worked); that a stalled read ends; anything of automatic mode's gates (it has none);
  what a second run does to a downloaded image between check and print; disks that Windows
  renumbers between its check and `diskpart`.

### Differences met while modelling

Seven are runs of their own, and seven more are told beside the properties they limit (section 3). The others, by place:

*Terminal UI.* `keybindings.rs:13` says that the footer matches what is available. `?` and `q` are
shown where they are typed (the command line editor), swallowed (Verifying) or dismiss (the
toast), `q` also where it closes (Confirm, Network); Verify and Delete are offered on rows that
are not ISOs, `[Enter] kexec` while the body says BLOCKED, `[Enter] DHCP` while one is
pending, `n` on the catalog screen, and Esc to cancel a fetch whose worker is dead. These are
`Deaf`. Enter also boots with the info pane focused. Error evidence names row 0 after a failed
trust challenge; `record_delete_error` uses a view row as an index; the info pane shows the ISO's
command line, not the override.

*Boot.* Text mode never asks the installer's consent; automatic mode asks no gate, measures
nothing and saves no last choice, though its comment says that it mirrors `attempt_kexec`.
`run()` promises exit codes 2 and 3, and every error is 1. Tier 5 says that boot is disabled,
which `is_kexec_blocked` leaves to the kernel. In `/init` a warning counts as a failed mount; the
partition is then mounted under a message that says it is not, and a `cp` to a directory that is not
mounted succeeds in memory and says that it wrote to `AEGIS_ISOS`; ISOs on the other partitions
may be listed under a path that `prepare` does not find. `failure_log` is not a no-op without a
stick, since `create_dir_all` succeeds on the empty mount point.

*Flash.* A stick's kernel table that `partprobe` could not refresh makes `mkfs.exfat` format the
old span under "now spans the full stick"; nothing is unmounted before `dd` on Linux; the typed
`DirectInstall` error becomes a string, so that its advice does not reach the operator, and that
advice says "untouched" after the partitioning; `ShortReadback` cannot occur; the plan printed is
the same for direct install; "you can still add ISOs" is not so when `mkfs.exfat` died half way.
Windows without `--yes` exits, macOS never asks.

*Update, verify, eject.* The host's attestation is truncated in place before it is written
(`update.rs:1284`): a failure or a kill leaves an empty file, which is no longer found for the
stick. The plan `update` prints is in another order than the one it executes,
and "every slot is current" is also said when all are unknown. `update` picks a kernel by other
rules than `flash` and ignores the overrides of its paths. A `--rollback` after a refresh leaves
a stick that `verify --stick` reports as drifted; sticks from one image share a GUID. `eject`'s
"The stick IS synced" holds for the device, not for a file system still mounted on it.

*init and doctor.* The interactive wizard on a blank stick is refused by the doctor's own row;
"Cancelled." from `flash` is an Ok, and `init` goes on; `add` is not told the stick and takes the
first that is mounted; a drive may be swapped between the serial and the flash; `findmnt` on a
whole disk does not see its partitions; the doctor does not look for `partprobe`, `mkfs.fat` and
`mmd`.

*Downloads.* `download.rs:77` speaks of sync errors of the file, and nothing is synced.

*Data partition.* `write_generated_sha256` says that the sidecar exists completely or not at all
(`inventory.rs:541`); where the mount is not the operator's, `sudo cp` writes it in place, and a
torn sidecar is an unreadable one. A sidecar that arrives between the listing of `--scan` and its write is
overwritten; an ISO without any layout is in neither list of the discovery report; a Debian ISO
with `/boot/vmlinuz` is an Arch entry too.

## 6. Plan

The plan of the first models is carried out: the TUI, the choice, the trust chain, the ESP
rotation with its abstract specification, the downloads with theirs, the hand-off, flash on
three systems, the verdicts, and the proofs of what the runs check. What would come next:

1. An abstract specification of the data partition, a map from names to checked bytes, that
   `DataPartition` implements as long as no command is killed.
2. A direct comparison of `ImageFlash` and `StickFlash`'s image flash as a refinement.
3. The tier-B log, and two starts within a second that give their files one name.
