SPECIFICATION QuotaSpec
CONSTANTS
    k0 = k0
    k1 = k1
    NumKeys = 2
    Key <- TwoKeys
    ApiKey <- TwoApiKeys
    Calls = {a, b}
    Domains = {"shop"}
    HeardReports <- MCReports
    Interval = 1
    Cooldown = 1
    Day = 3
    MaxTime = 3
INVARIANT NoFabricatedVerdict
