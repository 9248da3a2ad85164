SPECIFICATION WifiFairSpec
CONSTANTS
    Bands <- MCBands
    MaxEvents = 2
INVARIANTS WifiTypeOK ResetQuiesces
PROPERTIES AttemptEnds
