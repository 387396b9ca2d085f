\* Every handler, the channels of 2.4 GHz and one of 5 GHz, buffers up to 360 bytes.
CONSTANTS
    AllowedChannels = {2, 14, 36}
    FreqRequests <- MCFreqRequests
    Indices = {0, 1, 2, 4, 5}
    KeyLengths = {0, 13}
    Thresholds <- MCThresholds
    ScanLists <- MCScanLists
    BufferLengths <- MCBufferLengths
SPECIFICATION Spec
INVARIANTS
    ChannelMeansFreq
    RangeIsHonest
    ScanComplete
    ScanFailureExplained
