SPECIFICATION SetupSpec
CONSTANTS
    NoService = NoService
    Nobody = Nobody
    Admins = {a1, a2}
    Requests = {}
    Configs = {c1, c2}
    Devices = {d1}
    Origins = {o1}
    Passwords = {w1}
    Services = {1, 2, 3}
    Operations = {"setup", "login", "putQWeather"}
    MaxTokens = 2
    MaxOrigins = 2
    BehindProxy = TRUE
INVARIANTS
    RuntimeMatchesDisk
