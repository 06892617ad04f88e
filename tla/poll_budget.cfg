SPECIFICATION FairSpec
CONSTANTS
    Day = 6
    MinPollGap = 1
    Max = 3
    BatchSize = 2
    MaxAccounts = 4
    MaxFaults = 1
INVARIANTS
    TypeOK
    CeilingKept
    LimitHeeded
    NeverThreeSkips
PROPERTY
    PollsGoOn
