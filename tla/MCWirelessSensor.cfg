SPECIFICATION FairSpec
CONSTANTS
    Devices = {1, 2}
    Servers = {1, 2}
    ScanEnd = 2
    PreassignedEnd = 4
    Offline = 9
    Stored <- TheStored
    Lease = 1
    RestartSec = 2
    Pressures = {900}
    Outages = 1
INVARIANTS LiveIdsAreLeftAlone OfflineIsNotPublished OneIdPerDevice
PROPERTIES RefusedForOthersOnly BackOnline
