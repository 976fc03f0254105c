SPECIFICATION RescueDiskSpec
CONSTANTS
  None = None
  Torn = Torn
  Garbled = Garbled
  deb = deb
  win = win
  k = k
  loose = loose
  Iso = {"ubuntu", "debian"}
  Override = {"debug"}
  Folder = {"root", "sub"}
  Root = "root"
  Name = {"n1"}
  Body = {deb, win}
  Key = {k, loose}
  Offered = {k, loose}
  Exposed = {loose}
  Download <- MCDownload
  MaxTools = 2
  MaxDrags = 1
  MaxRecords = 1
  Image <- MCImage
  Size <- MCSize
  MaxBootTools = 1
  MaxLoops = 1
  MaxPrepares = 1
  Seconds = {0, 1, 2}
  Text = {"a"}
  MaxRetained = 2
  MaxReports = 3
  Partition = {"stick", "old", "disk", "raw"}
  Labelled = {"stick", "old"}
  FileSystem <- MCFileSystem
  Protected = {"old"}
  Stock <- MCStock
  Enforcing = TRUE
  MaxAttempts = 2
INVARIANTS
  RescueDiskTypeOK
  TemporaryMountReleased
  OnlyTheIsoIsSeen
  SyncedCopySurvives
  ShelfIsSeen
  BootedAsShown
PROPERTIES
  RedStaysRed
  RecordsKept
  ReportsKept
  FreshestChoice
CHECK_DEADLOCK FALSE
