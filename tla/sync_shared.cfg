SPECIFICATION MCSpec
CONSTANTS
    Sources = {steam, discord}
    Steam = steam
    Games = {g1}
    Unmatched = unmatched
    Tickers = {}
    Presences = {a, b}
    Handlers = {a, b}
    Revokers = {a, b}
    Sweepers = {}
    HandlerOps = {"enable", "order"}
    RivalGames = {}
    MaxFaults = 0
    Shared = shared
    Rival = rival
    None = none
SYMMETRY MCSymmetry
INVARIANTS
    TypeOK
    LockDiscipline
    AtRestPublished
    StopIsFinal
PROPERTIES
    SyncsBoard
