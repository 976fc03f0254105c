SPECIFICATION Spec
CONSTANTS
  i1 = i1
  i2 = i2
  i3 = i3
  f1 = f1
  all = all
  some = some
  None = None
  ISO = {i1}
  FailedIso = {f1}
  Iface = {"eth0", "eth1"}
  Entry = {"ubuntu", "debian"}
  Cmdline = {"quiet"}
  Filter = {all}
  Discovered <- NetDiscovered
  DefaultCmdline <- NetDefaultCmdline
  Installer = {i1}
  NotKexecBootable = {}
  SigVerified = {}
  Forged = {}
  WithSidecar = {}
  NoFilter = all
  Matches <- NetMatches
  SortRank <- NetSortRank
INVARIANTS
  WorkersFitScreens
  DhcpNeedsConsent
  HintsAreHonest
PROPERTIES
  WorkersEnd
CHECK_DEADLOCK FALSE
