SPECIFICATION FairSpec
CONSTANTS
    Channels = 8
    MaxReadFails = 10
    Leak = {"leak"}
INVARIANTS MutualExclusion ConversionsReachTheAdc OutletsReachTheirModule
PROPERTIES MutexIsReleased
