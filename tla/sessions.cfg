SPECIFICATION MCFairSpec
CONSTANTS
    Dids = {d, e}
    Browsers = {b1, b2}
    Flows = {f1, f2}
    Rechecks = {r}
    Passes = {p}
    Ticks = {}
    None = none
    First = f1
    Home = b1
    Owner = d
    MaxWrites = 1
    MaxRefresh = 2
    MaxAge = 4
    MaxFaults = 1
CHECK_DEADLOCK FALSE
INVARIANTS
    TypeOK
    TokenFresh
    OwnSession
    BrowserBound
    RequestOutlivesCookie
    HoldersGetOn
PROPERTIES
    TokensInStep
    EveryoneReturns
