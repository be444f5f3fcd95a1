SPECIFICATION FairSpec
CONSTANTS
    proxy = proxy
    log = log
    default = default
    tenant = tenant
    Online = {proxy, log}
    Names = {default, tenant}
    Implicit = default
    MaxValue = 2
    QueueCap = 2
    Instances <- ConfigInstances
INVARIANT ConfigConsistent
PROPERTY DefaultsDoNotOverwrite ViewCatchesUp
CHECK_DEADLOCK FALSE
