SPECIFICATION FairSpec
CHECK_DEADLOCK FALSE
CONSTANTS
    proxy = proxy
    home = home
    lan = lan
    Absent = Absent
    Malformed = Malformed
    NoReader = NoReader
    Addresses = {proxy, home, lan}
    Public = {proxy, home}
    TrustedNets = {proxy}
    Requests = {c1}
    Inputs <- AllInputs
    Configs <- Deployments
    Readers = {r1, r2, r3}
    City <- CityOf
    MaxUpdates = 2
INVARIANTS
    ReadersAccounted
    TrustBoundary
    InferenceFailsAs503
PROPERTIES
    ServesOnward
    FreshEventually
    ShutdownEnds
