SPECIFICATION Spec
CONSTANTS
    NoService = NoService
    Nobody = Nobody
    Admins = {a1, a2}
    Requests = {}
    Configs = {c1}
    Devices = {d1}
    Origins = {o1, o2}
    Passwords = {w1}
    Services = {1, 2}
    Operations = {"login", "deleteAdminOrigin"}
    MaxTokens = 2
    MaxOrigins = 2
    BehindProxy = TRUE
INVARIANTS
    NoSessionOfRemovedOrigin
