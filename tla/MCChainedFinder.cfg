SPECIFICATION Spec
CONSTANTS
    NumTiers = 3
    Calls = {f1, f2}
INVARIANT TypeOK
PROPERTY KeepsPromise
