SPECIFICATION FairSetupSpec
CONSTANTS
    NoService = NoService
    Nobody = Nobody
    Admins = {a1, a2}
    Requests = {r1}
    Configs = {c1}
    Devices = {d1, d2}
    Origins = {o1}
    Passwords = {w1, w2}
    Services = {1, 2, 3}
    Operations = {"setup", "login", "logout", "testQWeather", "changePassword", "createToken"}
    MaxTokens = 2
    MaxOrigins = 2
    BehindProxy = FALSE
PROPERTIES
    EveryWriteReturns
