SPECIFICATION FairSpec
CONSTANTS
    Rise = 230
    Near = 80
    Far = 100
    MaxSince = 5
    Pressure = {900000, 900090, 900300}
    Closed = 900000
    Opened = 900300
INVARIANTS AveragesRealistic
PROPERTIES Debounced SettlesClosed SettlesOpen
