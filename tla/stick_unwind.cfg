CONSTANTS
    NSlots = 2
    MaxVersion = 2
    Torn = Torn
    None = None
    Receipt = Receipt
    MaxFlashes = 1
    MaxSeq = 2
    Rendered <- MCRendered
    InReadback <- MCInReadback
    Disks = {0, 1, 2}
    HostDisk = 0
    Kinds <- MCKinds
    NFiles = 2
    Nowhere = Nowhere
    Paths = {"sda", "sdb"}
    Drives <- MCDrives
    NoDrive = NoDrive
    NoPath = NoPath
    NSlugs = 2
    Profiles <- MCProfiles
    Requests <- MCRequests
    Facts <- MCFacts
    Worlds <- MCWorlds
    MaxLines = 1
    Devices = {"sda", "sdb"}
SPECIFICATION HostsSpec
PROPERTY UnwindRestores
