SPECIFICATION MCSpec
CONSTANTS
    Fds = {0, 1, 2}
    Stoppers = {wifi, workq}
    OtherUsers = {ota}
    TempMin = 16
    TempMax = 17
    OnTemp = 17
    TempArgs = {0, 255}
    CarrierMin = 2
    CarrierMax = 2
    DefaultCarrier = 2
    CarrierArgs = {0, 2, 3}
INVARIANTS
    NoServerFdLeak OthersKept SendServed
    IrTypeOK FrameSent PowerFollows
PROPERTIES StopEndsTask SendReturns
