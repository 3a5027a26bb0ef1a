SPECIFICATION Spec
CONSTANTS
    Requests = {r1, r2, r3}
    Headers <- SomeHeaders
    MaxConcurrency = 2
    CircuitCooldown = 4
    MaxBlock = 3
    DefaultDelay = 2
    SecondUnits = 4
    Width = 8
    MaxTime = 3
    Blank = Blank
    Invalid = Invalid
    MaximumAlerts = 2
SYMMETRY RequestSymmetry
INVARIANTS
    SlotsMatchCalls
    OpenCircuitStopsTraffic
PROPERTIES
    FittingFailureBlocks
    CircuitMoves
