SPECIFICATION MCSpec
CONSTANTS
    Sources = {steam, discord}
    Steam = steam
    Games = {g1}
    Unmatched = unmatched
    Tickers = {}
    Presences = {p}
    Handlers = {h}
    Revokers = {r}
    Sweepers = {}
    HandlerOps = {"enable"}
    RivalGames = {}
    MaxFaults = 0
    Shared = shared
    Rival = rival
    None = none
INVARIANT
    FreshSession
