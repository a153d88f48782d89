SPECIFICATION Spec
CONSTANTS
    Calls = {c1, c2, c3}
    Envs <- MCEnvs
INVARIANTS TypeOK GuardedAsAsked PoolsBounded WorksOnWhatIsBuilt
PROPERTY SharedOnceSettled
