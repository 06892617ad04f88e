SPECIFICATION MCSpec
CONSTANTS
    k = k
    u1 = u1
    u2 = u2
    n = n
    m = m
    Rkeys = {k}
    Users = {u1, u2}
    Names = {n, m}
    Gone = gone
    Forged = forged
    Unsure = unsure
    None = none
    Listeners = {l1, l2}
    Rechecks = {h}
    Sweepers = {s}
    Leavers = {h}
    Enables = {h}
    First = l1
    InitNames <- MCInitNames
    MaxCommits = 2
    MaxMoves = 1
    MaxAsked = 1
    MaxFaults = 1
CHECK_DEADLOCK FALSE
INVARIANTS
    TypeOK
    Attested
    RedialLosesNothing
    AlwaysWatched
    NoneLeftBehind
PROPERTIES
    WrongLinkGoesDark
