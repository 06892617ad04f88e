SPECIFICATION FairSpec
CONSTANTS
    Pages = {p}
    Conns = {c}
    Writers = {w}
    Outcomes = {x, y}
    Nothing = nothing
    None = none
    Gone = gone
    InitOutcome = x
    MaxChanges = 1
    MaxFaults = 0
CHECK_DEADLOCK FALSE
PROPERTIES
    PagesCurrent
