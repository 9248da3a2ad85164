CONSTANTS
    HTTP = http
    BLE = ble
    Starters = {shell}
    Caller = {http, shell}
    NONE = NONE
    SlotSize = 1
    MaxChunk = 1
    RxChunk = 1
    HeaderMax = 1
    MaxRedirects = 0
    U32 = 2
    Sizes <- MCSizes
    Offsets <- MCOffsets
    Lens <- MCLens
    Opts <- AutoOnly
SPECIFICATION HttpSpec
INVARIANTS StartOnlyWhenFree
