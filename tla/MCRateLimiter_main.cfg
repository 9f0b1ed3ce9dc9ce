CONSTANTS
    USEC = 2
    BucketSizes = {3}
    DrainRates <- MC_DrainRates
    Lens <- MC_Lens
    MaxPkts = 3
    MaxParamSets = 2
    Win32 = FALSE
    ClockBack = {1}
    MaxClockSteps = 1
SPECIFICATION FairSpec
INVARIANT TypeOK
INVARIANT SentInFifoOrder
INVARIANT TimerIffQueued
INVARIANT BucketWithinCapacity
PROPERTY EveryQueuedPacketSent
PROPERTY ImplementsTxFifo
