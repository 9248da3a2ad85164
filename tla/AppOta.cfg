CONSTANTS
    Caller = {c1, c2}
    NONE = NONE
    SlotSize = 2
    MaxChunk = 2
    Sizes <- MCSizes
    Offsets <- MCOffsets
    Lens <- MCLens
SPECIFICATION FairSpec
INVARIANTS TypeOK StagedPrefix CommittedComplete
PROPERTIES PendingImageStable ImplementsSlot CommitReboots
