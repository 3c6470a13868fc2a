SPECIFICATION FairSpec
CONSTANTS
    Rise = 230
    Near = 80
    Far = 100
    MaxSince = 5
    Pressure = {900000, 900250}
    Closed = 900000
    Opened = 900250
PROPERTIES SettlesClosed
