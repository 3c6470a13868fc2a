SPECIFICATION Spec
CONSTANTS
    Channels = 8
    MaxReadFails = 10
    Leak = {"leak"}
INVARIANTS WritesAtGivenAddress
