SPECIFICATION FairSpec
CONSTANTS
    Rise = 230
    Near = 80
    Far = 100
    None = None
    N = 2
    ERROR_THRESHOLD = 2
    MAX_RETRIES = 1
    Base = 930000
    Gain = 0
    Wild = 1100000
    Garbage = {0}
    Worlds <- BothBreak
PROPERTIES AllBrokenRestarts Recovers
