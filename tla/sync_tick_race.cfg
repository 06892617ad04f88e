SPECIFICATION MCSpec
CONSTANTS
    Sources = {steam, discord}
    Steam = steam
    Games = {g1}
    Unmatched = unmatched
    Tickers = {t}
    Presences = {p}
    Handlers = {}
    Revokers = {}
    Sweepers = {}
    HandlerOps = {}
    RivalGames = {}
    MaxFaults = 0
    Shared = shared
    Rival = rival
    None = none
INVARIANT
    AtRestPublished
