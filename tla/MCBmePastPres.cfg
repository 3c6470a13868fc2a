SPECIFICATION Spec
CONSTANTS
    Rise = 230
    Near = 80
    Far = 100
    None = None
    N = 2
    ERROR_THRESHOLD = 5
    MAX_RETRIES = 10
    Base = 930000
    Gain = 300
    Wild = 1100000
    Garbage = {0}
    Worlds <- SecondMoves
INVARIANTS ComparedWithOwnReading
