CONSTANTS
    k0 = k0
    k1 = k1
    k2 = k2
    NumKeys = 3
    Key <- ThreeKeys
    ApiKey <- ThreeApiKeys
    Cooldowns <- TwoCooldowns
    MaxTime = 3
SPECIFICATION ScanSpec
PROPERTIES
    ImplementsKeyPool
