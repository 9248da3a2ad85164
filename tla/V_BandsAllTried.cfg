SPECIFICATION WifiSpec
CONSTANTS
    Bands <- MCBands
    MaxEvents = 2
PROPERTIES BandsAllTried
