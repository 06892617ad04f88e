SPECIFICATION MCFairSpec
CONSTANTS
    Sources = {steam, discord}
    Steam = steam
    Games = {g1}
    Unmatched = unmatched
    Tickers = {t}
    Presences = {p}
    Handlers = {}
    Revokers = {}
    Sweepers = {}
    HandlerOps = {}
    RivalGames = {}
    MaxFaults = 1
    Shared = shared
    Rival = rival
    None = none
PROPERTY
    TickHeals
