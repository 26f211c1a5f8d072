SPECIFICATION MCSpec
CONSTANTS
    Items = {k1, k2}
    Hosting = {k2}
    Workers = {w1, w2}
    Triggers = {t1}
    Nobody = Nobody
    BatchSize = 10
    MaxCrashes = 1
    MaxSlow = 1
    MaxFaults = 1
    MaxAdmin = 2
    MaxDisturbances = 2
INVARIANTS
    ProvTypeOK
    WorkJustified
PROPERTIES
    ProvisioningSettles
CHECK_DEADLOCK FALSE
