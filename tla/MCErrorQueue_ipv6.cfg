CONSTANTS
    Family = "AF_INET6"
    Sizes <- MC_Sizes
    LocalMtu = 1500
    PathMtu = 1400
    Quotes <- MC_FullQuotes
    MaxEvents = 3
SPECIFICATION FairSpec
\* The socket may sit idle with nothing to read once the sends are done.
CHECK_DEADLOCK FALSE
PROPERTY EveryFragNeededReported
