SPECIFICATION Spec
CONSTANTS
    Rise = 230
    Near = 80
    Far = 100
    None = None
    N = 1
    ERROR_THRESHOLD = 1
    MAX_RETRIES = 1
    Base = 930000
    Gain = 300
    Wild = 1100000
    Garbage = {0}
    Worlds <- Restarts
INVARIANTS RestorableHash ValidSensorsListed StoredStatusIsCurrent NoFalseOpening
