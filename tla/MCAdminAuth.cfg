SPECIFICATION Spec
CONSTANTS
    Calls = {c1, c2}
    Tokens = {t1, t2, t3}
    NoToken = NoToken
    Maximum = 1
    Window = 2
    Lifetime = 3
    IdleTime = 2
    MaxSessions = 2
    PasswordSlots = 1
    MaxTime = 3
    MaxAttempts = 2
    Hosts = {public, local}
    PublicHosts = {public}
    NoPort = NoPort
    Refused = Refused
    MaximumPublicOrigins = 2
SYMMETRY Symmetry
INVARIANTS
    AttemptsBounded
    LoginsBounded
    EndedStaysEnded
PROPERTIES
    RefusedOnlyWhenBusy
    NoOverstay
