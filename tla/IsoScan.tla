------------------------------ MODULE IsoScan -------------------------------
(***************************************************************************)
(* The rescue environment looks for ISOs: iso-probe's discover over the    *)
(* two roots /init gives it, the stick's mount point and the directory     *)
(* above it, iso-parser's mount, layout detection and unmount of each ISO, *)
(* the rows rescue-tui gets of them, and prepare, which mounts the ISO of  *)
(* a row again for kexec.                                                  *)
(*                                                                         *)
(* External: mount, losetup, fuseiso and umount.  Each of them may fail,   *)
(* and mount and fuseiso may report success and mount nothing.             *)
(***************************************************************************)
EXTENDS IsoShelf, IsoLayouts

CONSTANTS
  Image,      \* Image[b]: what is on the file system of b
  Size,       \* Size[b]: the length of the file
  MaxLoops,   \* loop devices (16 in allocate_loop_device)
  MaxPrepares \* bound: rows prepared

ASSUME IsoScanAssumption ==
  /\ MaxLoops \in Nat /\ MaxPrepares \in Nat
  /\ DOMAIN Image = Body /\ Size \in [Bytes -> Nat]
  /\ \A b \in Body : IsImage(Image[b])

VARIABLES
  phase,      \* "off", "mount", "mounted", "rows", "menu", "prepared", "end"
  root,       \* the root being scanned: 1 is /run/media/aegis-isos, 2 /run/media
  walk,       \* the order of a walk over the ISO files
  ahead,      \* the files of this root still to mount
  current,    \* the file last mounted
  device,     \* did its mount take a loop device of its own?
  stack,      \* stack[n]: what is mounted on mount_<n>, the visible file last
  loops,      \* loop devices that are attached
  found,      \* this root's boot entries: the file, its distribution
  rows,       \* the DiscoveredIso list
  failed,     \* the FailedIso list, by path
  skipped,    \* what the start-up banner says was skipped
  prepares,   \* counter behind its bound
  stale       \* history: an unmount failed

discoverVars == <<shelf, phase, root, walk, ahead, current, device, stack, loops,
              found, rows, failed, skipped, prepares, stale>>

(* search_root.join(file name): a file only if it lies in the root itself. *)
PathOf(r, n) == IF r = 1 THEN <<Root, n>> ELSE None
FilesAt(path) == IF path = None THEN NoFiles ELSE shelf[path]

Row == [from : Place, path : Place \cup {None}, distro : Distribution,
        size : Nat, files : Files]

DiscoverTypeOK ==
  /\ phase \in {"off", "mount", "mounted", "rows", "menu", "prepared", "end"}
  /\ root \in 1..3 /\ current \in Place \cup {None}
  /\ \A n \in Name : \A i \in DOMAIN stack[n] : stack[n][i] \in Place
  /\ loops \in 0..MaxLoops
  /\ \A i \in DOMAIN rows : rows[i] \in Row
  /\ failed \subseteq Place

Orders(S) == {s \in [1..Cardinality(S) -> S] : \A i, j \in DOMAIN s : i # j => s[i] # s[j]}

DiscoverInit ==
  /\ walk = <<>> /\ ahead = <<>>
  /\ phase = "off" /\ root = 1
  /\ current = None /\ device = FALSE
  /\ stack = [n \in Name |-> <<>>] /\ loops = 0
  /\ found = <<>> /\ rows = <<>> /\ failed = {} /\ skipped = 0
  /\ prepares = 0 /\ stale = FALSE

(* rescue-tui starts; a walk gives the files in the directory's order. *)
Discover ==
  /\ phase = "off" /\ phase' = "mount"
  /\ walk' \in Orders(Isos) /\ ahead' = walk'
  /\ UNCHANGED <<shelf, root, current, device, stack, loops, found, rows, failed,
                 skipped, prepares, stale>>

-----------------------------------------------------------------------------
(* What mount_iso(p) can return Ok with: what is mounted on its mount      *)
(* point, whether a loop device of its own backs that, and how many are    *)
(* attached.                                                               *)
Mounted(p) == Append(stack[p[2]], p)
Populated(n) == stack[n] # <<>>
Outcome(s, own, n) == [stack |-> s, device |-> own, loops |-> n]

(* `mount -o loop' mounts, or reports success for nothing at all, which    *)
(* counts only if something is seen there. *)
LoopMount(p) ==
  {Outcome(Mounted(p), FALSE, loops)}
    \cup {Outcome(stack[n], FALSE, loops) : n \in {m \in {p[2]} : Populated(m)}}

(* allocate_loop_device and `mount -r', whose exit status is believed. *)
DeviceMount(p) ==
  {Outcome(s, TRUE, loops + 1) : s \in {t \in {Mounted(p), stack[p[2]]} : loops < MaxLoops}}

(* If that fails the device is detached, and nobody asks whether it was. *)
Detached == {n \in {loops, loops + 1} : n <= MaxLoops}

(* fuseiso, looked at like the first attempt. *)
FuseMount(p) == {[m EXCEPT !.loops = n] : m \in LoopMount(p), n \in Detached}

MountIso(p) == LoopMount(p) \cup DeviceMount(p) \cup FuseMount(p)

(* mount_iso returns Ok. *)
Mount(p) ==
  \E m \in MountIso(p) :
    /\ stack' = [stack EXCEPT ![p[2]] = m.stack]
    /\ device' = m.device /\ loops' = m.loops
    /\ current' = p

(* It returns Err; nothing is taken from the mount point but the directory. *)
MountFails == loops' \in Detached /\ UNCHANGED <<stack, device, current>>

(* What is seen at a mount point. *)
Visible(n) == stack[n][Len(stack[n])]

(* extract_boot_entries on an image; of a torn one, anything. *)
EntriesOf(b) ==
  IF b = Torn THEN {<<>>} \cup {BootEntries(Image[c]) : c \in Body} ELSE {BootEntries(Image[b])}

(* On what is seen, which may be an empty directory. *)
Extracted ==
  IF Populated(current[2]) THEN EntriesOf(shelf[Visible(current[2])].iso) ELSE {<<>>}

(* unmount: umount, then fusermount.  A device from losetup stays attached *)
(* unless umount detaches it.  Where nothing is mounted both fail. *)
Unmount ==
  \/ /\ Populated(current[2])
     /\ stack' = [stack EXCEPT ![current[2]] = SubSeq(@, 1, Len(@) - 1)]
     /\ loops' \in {loops, loops - IF device THEN 1 ELSE 0}
     /\ UNCHANGED stale
  \/ stale' = (stale \/ Populated(current[2])) /\ UNCHANGED <<stack, loops>>

-----------------------------------------------------------------------------
(* process_iso of the next file. *)
MountNext ==
  /\ phase = "mount" /\ ahead # <<>>
  /\ Mount(Head(ahead)) /\ ahead' = Tail(ahead) /\ phase' = "mounted"
  /\ UNCHANGED <<shelf, root, walk, found, rows, failed, skipped, prepares, stale>>

MountNextFails ==
  /\ phase = "mount" /\ ahead # <<>>
  /\ MountFails
  /\ failed' = failed \cup {Head(ahead)} /\ ahead' = Tail(ahead)
  /\ UNCHANGED <<shelf, phase, root, walk, found, rows, skipped, prepares, stale>>

(* The entries are kept, none included; the unmount's result is not.       *)
Extract ==
  /\ phase = "mounted"
  /\ \E ks \in Extracted :
       found' = found \o [i \in DOMAIN ks |-> [from |-> current, distro |-> ks[i]]]
  /\ Unmount /\ phase' = "mount"
  /\ UNCHANGED <<shelf, root, walk, ahead, current, device, rows, failed, skipped, prepares>>

(* A faulty variant: `?' returns the error before the unmount. *)
ExtractFailsEarly ==
  /\ phase = "mounted" /\ Populated(current[2]) /\ failed' = failed \cup {current} /\ phase' = "mount"
  /\ UNCHANGED <<shelf, root, walk, ahead, current, device, stack, loops, found, rows,
                 skipped, prepares, stale>>

(* A directory that is there cannot be listed. *)
ExtractFails ==
  /\ phase = "mounted" /\ Populated(current[2]) /\ failed' = failed \cup {current}
  /\ Unmount /\ phase' = "mount"
  /\ UNCHANGED <<shelf, root, walk, ahead, current, device, found, rows, skipped, prepares>>

(* find_iso_size: the file in the root itself, else the first of that name *)
(* a walk meets. *)
SizesOf(r, n) ==
  IF r = 1 /\ <<Root, n>> \in Isos THEN {Size[shelf[<<Root, n>>].iso]}
  ELSE {Size[shelf[p].iso] : p \in {q \in Isos : q[2] = n}}

AddRow(e, size) ==
  LET path == PathOf(root, e.from[2])
      seen == \E i \in DOMAIN rows : rows[i].from[2] = e.from[2] /\ rows[i].size = size
  IN  IF seen THEN rows
      ELSE Append(rows, [from |-> e.from, path |-> path, distro |-> e.distro,
                         size |-> size, files |-> FilesAt(path)])

(* discover, one entry of the root's report after the other. *)
MakeRow ==
  /\ phase = "mount" /\ ahead = <<>> /\ found # <<>>
  /\ \E size \in SizesOf(root, Head(found).from[2]) : rows' = AddRow(Head(found), size)
  /\ found' = Tail(found)
  /\ UNCHANGED <<shelf, phase, root, walk, ahead, current, device, stack, loops,
                 failed, skipped, prepares, stale>>

Saturating(a, b) == IF a > b THEN a - b ELSE 0

(* The next root, or run()'s counts after the last. *)
RootEnds ==
  /\ phase = "mount" /\ ahead = <<>> /\ found = <<>>
  /\ root' = root + 1
  /\ IF root = 1
     THEN ahead' = walk /\ UNCHANGED <<phase, skipped>>
     ELSE /\ phase' = "menu" /\ UNCHANGED ahead
          /\ skipped' = Cardinality(failed)
               + Saturating(Cardinality(Isos), Len(rows) + Cardinality(failed))
  /\ UNCHANGED <<shelf, walk, current, device, stack, loops, found, rows, failed,
                 prepares, stale>>

-----------------------------------------------------------------------------
(* attempt_kexec prepares the ISO of a row that is not blocked. *)
Offers == {rows[i].path : i \in {j \in DOMAIN rows : /\ rows[j].distro # "Windows"
                                                    /\ ~Tampered(rows[j].files)}}

Prepare ==
  /\ phase = "menu" /\ prepares < MaxPrepares
  /\ \E p \in Offers \cap Isos : Mount(p)
  /\ prepares' = prepares + 1 /\ phase' = "prepared"
  /\ UNCHANGED <<shelf, root, walk, ahead, found, rows, failed, skipped, stale>>

(* The mount fails, with a path that is no file before a loop device. *)
PrepareFails ==
  /\ phase = "menu" /\ prepares < MaxPrepares
  /\ MountFails
  /\ \E p \in Offers : p \in Isos \/ loops' = loops
  /\ prepares' = prepares + 1
  /\ UNCHANGED <<shelf, phase, root, walk, ahead, found, rows, failed, skipped, stale>>

(* PreparedIso is dropped when kexec returns. *)
DropPrepared ==
  /\ phase = "prepared" /\ Unmount /\ phase' = "menu"
  /\ UNCHANGED <<shelf, root, walk, ahead, current, device, found, rows, failed,
                 skipped, prepares>>

(* The kernel file opens and is loaded, and the machine leaves.  Otherwise *)
(* kexec returns. *)
Kexec ==
  /\ phase = "prepared" /\ Populated(current[2]) /\ phase' = "end"
  /\ UNCHANGED <<shelf, root, walk, ahead, current, device, stack, loops, found,
                 rows, failed, skipped, prepares, stale>>

DiscoverNext ==
  \/ Discover \/ MountNext \/ MountNextFails \/ Extract \/ ExtractFails
  \/ MakeRow \/ RootEnds
  \/ Prepare \/ PrepareFails \/ DropPrepared \/ Kexec

DiscoverSpec == DiscoverInit /\ [][DiscoverNext]_discoverVars

-----------------------------------------------------------------------------
(* One of the entries that extract_boot_entries can find on p. *)
Tells(p, distro) == \E ks \in EntriesOf(shelf[p].iso) : \E k \in DOMAIN ks : ks[k] = distro

(* What is seen at a mount point is the ISO it was made for or nothing,    *)
(* although ISOs of one name share it; the kernel that is booted is of the *)
(* file whose verdict the row shows; and a row tells of its own file's     *)
(* entries.  Only a mount that could not be undone before may show through *)
(* (mount_iso, unmount, process_iso, PreparedIso::drop).                   *)
OnlyTheIsoIsSeen ==
  ~stale =>
    /\ phase \in {"mounted", "prepared"} /\ Populated(current[2]) => Visible(current[2]) = current
    /\ phase = "end" => Populated(current[2]) /\ Visible(current[2]) = current
    /\ \A i \in DOMAIN rows : Tells(rows[i].from, rows[i].distro)
=============================================================================
