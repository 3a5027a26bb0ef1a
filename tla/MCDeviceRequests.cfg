SPECIFICATION Spec
CONSTANTS
    Requests = {r1, r2}
    Devices = {d1}
    Scopes = {s1, s2}
    Capacity = 2
    Interval = 2
    LookupCapacity = 1
    LookupInterval = 2
    Concurrency = 1
    SecondUnits = 2
    MaxTime = 2
    MaxRuntimes = 2
SYMMETRY Symmetry
CONSTRAINT OvertakenEarly
INVARIANTS
    MovesAreRated
    LookupsAreRated
    SlotsMatchLookups
    ProviderOpenInUse
    LimitersForgetRevoked
PROPERTIES
    HonestRetryAfter
