CONSTANTS
    HTTP = http
    BLE = ble
    Starters = {shell}
    Caller = {http, shell}
    NONE = NONE
    SlotSize = 2
    MaxChunk = 2
    RxChunk = 2
    HeaderMax = 2
    MaxRedirects = 1
    U32 = 4
    Sizes <- MCSizes
    Offsets <- MCOffsets
    Lens <- MCLens
    Opts <- AllOpts
SPECIFICATION HttpFairSpec
INVARIANTS HttpTypeOK StreamAligned DoneMeansStaged NoLockout
PROPERTIES DownloadEnds
