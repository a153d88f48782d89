CONSTANTS
    k0 = k0
    k1 = k1
    a = a
    b = b
    NumKeys = 2
    Key <- TwoKeys
    ApiKey <- TwoApiKeys
    Calls <- TwoCalls
    Effects <- ClientEffects
    FiveMinutes = 1
    Hour = 2
    EnrichMobile = FALSE
    MaxTime = 1
    MaxFinds = 3
SPECIFICATION Spec
INVARIANTS
    EveryKeyTried
