CONSTANTS
    Family = "AF_INET"
    Sizes <- MC_Sizes
    LocalMtu = 1500
    PathMtu = 1400
    Quotes <- MC_FullQuotes
    MaxEvents = 4
SPECIFICATION FairSpec
\* The socket may sit idle with nothing to read once the sends are done.
CHECK_DEADLOCK FALSE
INVARIANT TypeOK
INVARIANT CallbackOnlyForFragNeeded
PROPERTY EveryFragNeededReported
