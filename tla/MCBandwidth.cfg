\* Reset days that every month has; configurations may change.
CONSTANTS
    KiBPerGiB = 1
    MaxKiB = 2
    MaxUsed = 1
    MaxStarts = 1
    MaxReports = 2
    Configs <- EveryMonth
    MonthDays <- TwoMonths
SPECIFICATION Spec
INVARIANTS
    NeverOvercharged
    LimitIsEnforced
    PeersAreTold
    NothingLeftIsExhausted
PROPERTIES
    UsageIsKept
    ResetEveryMonth
