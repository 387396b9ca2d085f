\* The scan handler alone, to see what E2BIG says.
CONSTANTS
    AllowedChannels = {2}
    FreqRequests = {}
    Indices = {}
    KeyLengths = {}
    Thresholds = {}
    ScanLists <- MCScanLists
    BufferLengths = {0, 100, 4000}
SPECIFICATION Spec
INVARIANTS
    E2bigMeansFull
