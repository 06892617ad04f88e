SPECIFICATION MCFairSpec
CONSTANTS
    Sources = {steam, discord}
    Steam = steam
    Games = {g1}
    Unmatched = unmatched
    Tickers = {}
    Presences = {p}
    Handlers = {p}
    Revokers = {p}
    Sweepers = {s}
    HandlerOps = {"disable"}
    RivalGames = {g1}
    MaxFaults = 1
    Shared = shared
    Rival = rival
    None = none
INVARIANTS
    LockDiscipline
    OffStaysOff
PROPERTY
    StaleRemoved
