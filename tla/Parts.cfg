SPECIFICATION MCSpec
CONSTANTS
    Fds = {0, 1}
    Stoppers = {wifi, workq}
    OtherUsers = {ota}
    RetryMin = 1
    RetryMax = 5
    Ssids = {"", "a"}
    Passwords = {"", "p"}
    Securities = {"OPEN", "WPA2", "WEP"}
    Hosts = {"h"}
    Ports = {0, 1}
    NoRecord = NoRecord
    RxMaxSymbols = 2
    RxMinSymbols = 1
    Epochs = 3
    Samples <- MCSamples
    Buttons <- MCButtons
    MaxFabrics = 2
    Durations = {0, 1}
    DefaultDuration = 2
    MaxUptime = 4
    LedCount = 2
    BreathingTicks = 6
    StrobeTicks = 3
    HueStep = 60
    TickMod = 6
    Colours <- MCColours
    Brights = {100}
    Percents = {200}
    MaxPosition = 3
    MaxPresses = 2
INVARIANTS
    TcpTypeOK NoFdLeak SendCurrent
    ProvTypeOK OnlyValidRecords CommittedStored StationFollowsFlash
    FrameFresh DecodesWhatWasSent ChecksumGuards SectionsAgree PrefsDurable WindowTimed
    StripShowsStatus AbsentSensorQuiet CountTracksShaft BuffersLentOnce
