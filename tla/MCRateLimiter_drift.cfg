CONSTANTS
    USEC <- MC_USEC
    BucketSizes = {3}
    DrainRates <- MC_DrainRates
    Lens <- MC_Lens
    MaxPkts = 3
    MaxParamSets = 2
    Win32 = FALSE
    ClockBack = {}
    MaxClockSteps = 0
SPECIFICATION Spec
INVARIANT LeakTracksElapsedTime
