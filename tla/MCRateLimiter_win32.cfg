CONSTANTS
    USEC <- MC_USEC
    BucketSizes = {3}
    DrainRates = {24}
    Lens <- MC_Lens
    MaxPkts = 2
    MaxParamSets = 1
    Win32 = TRUE
    ClockBack = {}
    MaxClockSteps = 0
SPECIFICATION Spec
INVARIANT AdmittedPacketsWritten
