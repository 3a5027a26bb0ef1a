SPECIFICATION MCSpec
CONSTANTS
    blocked = blocked
    first = l1
    NoEntry = NoEntry
    Ok = Ok
    Calls = {1, 2, 3}
    Locations = {l1, l2}
    Kinds = {current}
    EntryIds = {1, 2, 3}
    Errors = {blocked, cancelled}
    CtxError = cancelled
    FreshFor <- MCFreshFor
    StaleFor <- MCStaleFor
    Maximum = 1
    ErrorDelay <- MCErrorDelay
    InitialRetryDelay = 1
    MaximumRetryDelay = 2
    MaxTime = 2
INVARIANTS
    OneOwnerPerRefresh
    NoLostWaiter
    ReplyForKey
    ReplyAge
    EntriesTracked
PROPERTIES
    ValueNeverRegresses
    CooldownRespected
    EveryCallReturns
    WorkersStop
