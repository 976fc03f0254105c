SPECIFICATION Spec
CONSTANTS
  i1 = i1
  i2 = i2
  i3 = i3
  f1 = f1
  all = all
  some = some
  None = None
  ISO = {i1, i2, i3}
  FailedIso = {f1}
  Iface = {}
  Entry = {}
  Cmdline = {"quiet"}
  Filter = {all, some}
  Discovered <- BootDiscovered
  DefaultCmdline <- BootDefaultCmdline
  Installer = {i1, i2}
  NotKexecBootable = {}
  SigVerified = {i2}
  Forged = {i3}
  WithSidecar = {i1}
  NoFilter = all
  Matches <- BootMatches
  SortRank <- BootSortRank
INVARIANTS
  TypeOK
  KexecGated
  DeletionIsComplete
PROPERTIES
  VerdictBelongsToIso
  OverridesFollowIso
  DeletesOnlyWhatWasAsked
  BootGateImplemented
CHECK_DEADLOCK FALSE
