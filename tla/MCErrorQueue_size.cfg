CONSTANTS
    Family = "AF_INET"
    Sizes <- MC_Sizes
    LocalMtu = 1500
    PathMtu = 1400
    Quotes <- MC_FullQuotes
    MaxEvents = 3
SPECIFICATION Spec
\* The socket may sit idle with nothing to read once the sends are done.
CHECK_DEADLOCK FALSE
INVARIANT CallbackGetsDatagramSize
