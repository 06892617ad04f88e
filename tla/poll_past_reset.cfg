SPECIFICATION Spec
CONSTANTS
    Day = 6
    MinPollGap = 1
    Max = 3
    BatchSize = 2
    MaxAccounts = 2
    MaxFaults = 0
INVARIANT
    WakesForReset
