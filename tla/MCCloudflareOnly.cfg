SPECIFICATION Spec
CHECK_DEADLOCK FALSE
CONSTANTS
    proxy = proxy
    home = home
    lan = lan
    Absent = Absent
    Malformed = Malformed
    NoReader = NoReader
    Addresses = {proxy, home, lan}
    Public = {proxy, home}
    TrustedNets = {proxy}
    Requests = {c1}
    Inputs <- AllInputs
    Configs <- CloudflareOnly
    Readers = {r1, r2, r3}
    City <- CityOf
    MaxUpdates = 2
INVARIANT
    InferenceFailsAs503
