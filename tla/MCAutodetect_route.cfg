CONSTANTS
    Ifaces <- MC_Ifaces
    MaxRoutes = 2
    MaxEntries = 2
    FreeFds = 3
SPECIFICATION Spec
INVARIANT AutodetectFindsDefaultRoute
