SPECIFICATION Spec
CONSTANTS
    NoService = NoService
    Nobody = Nobody
    Admins = {a1, a2}
    Requests = {r1}
    Configs = {c1, c2}
    Devices = {d1, d2}
    Origins = {o1, o2}
    Passwords = {w1}
    Services = {1, 2}
    Operations = {"login", "putQWeather", "createToken", "deleteToken", "close", "addAdminOrigin", "deleteAdminOrigin"}
    MaxTokens = 2
    MaxOrigins = 2
    BehindProxy = TRUE
SYMMETRY ClientSymmetry
INVARIANTS
    RuntimeMatchesDisk
    NoStaleRequest
    NoServiceLeak
PROPERTIES
    NoLostAdminUpdate
