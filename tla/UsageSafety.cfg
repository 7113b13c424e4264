SPECIFICATION Spec
CONSTANTS
    a = a
    b = b
    c = c
    Conn = {a, b, c}
    IpOf <- MCIpOf
    IPLimit = 1
    MaxBytes <- MCMaxBytes
    MaxDay = 2
    ResetDays = {2}
    CycleDays = 1
    RenewDays = 1
    FirstDays = 1
    MaxFaults = 1
    MaxEdits = 1
INVARIANT TypeOK
INVARIANT NeverOvercharged
INVARIANT ChargedIsRecorded
INVARIANT MonthlyOnce
INVARIANT UsageInv
PROPERTY IPLimitEnforced
