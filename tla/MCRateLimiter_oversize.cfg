CONSTANTS
    USEC <- MC_USEC
    BucketSizes = {3}
    DrainRates <- MC_DrainRates
    Lens <- MC_OversizeLens
    MaxPkts = 3
    MaxParamSets = 1
    Win32 = FALSE
    ClockBack = {}
    MaxClockSteps = 0
SPECIFICATION FairSpec
PROPERTY EveryQueuedPacketSent
