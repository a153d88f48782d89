CONSTANTS
    k0 = k0
    k1 = k1
    k2 = k2
    NumKeys = 3
    Key <- ThreeKeys
    ApiKey <- ThreeApiKeys
    Cooldowns <- OneCooldown
    MaxTime = 3
SPECIFICATION Spec
INVARIANTS
    TypeOK
    NoKeyOvertakenTwice
    DeadKeyRetired
    ParkedKeyRests
