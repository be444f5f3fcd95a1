SPECIFICATION FairAuthoritySpec
CONSTANTS
    c1 = c1
    c2 = c2
    t1 = t1
    t2 = t2
    Effects = {c1, c2}
    Releasers = {t1, t2}
    MaxRuntimes = 2
    MaxConfigs = 2
    MaxEpochs = 2
    AuthorityBudgets <- AuthorityInstances
INVARIANT EffectsAreAuthorised OwnershipConsistent
PROPERTY NobodyWaitsForever
CHECK_DEADLOCK FALSE
