SPECIFICATION FairSpec
CONSTANTS
    Pages = {p1, p2}
    Conns = {c1, c2}
    Writers = {w1, w2}
    Outcomes = {x, y}
    Nothing = nothing
    None = none
    Gone = gone
    InitOutcome = x
    MaxChanges = 2
    MaxFaults = 1
CHECK_DEADLOCK FALSE
INVARIANTS
    TypeOK
    LiveShowsLast
    LastIsLatest
    SettledCurrent
PROPERTIES
    TabsMoveOn
    HubFeeds
    PagesCatchUp
