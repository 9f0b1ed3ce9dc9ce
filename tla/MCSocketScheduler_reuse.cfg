CONSTANTS
    USEC = 2
    BucketSizes = {1}
    DrainRates = {8}
    Lens = {1}
    MaxPkts = 2
    MaxParamSets = 1
    Win32 = FALSE
    ClockBack = {}
    MaxClockSteps = 0
    v4Local = v4Local
    NULL = NULL
    ANY = ANY
    Texts <- MC_Texts
    Form <- MC_Form
    LocalTexts <- MC_Texts
    Fds = {3}
    MaxOpens = 2
SPECIFICATION Spec
PROPERTY SentOnSubmittingSocket
