SPECIFICATION RegistrySpec
CONSTANTS
    Services = {s1, s2}
    Ordered = {s1}
    Names = {n1}
    Requests = {r1, r2}
    Cron = cron
    Registrars = {"dynadot"}
    NoService = NoService
    NoName = NoName
    Batch = 1
    MaxTime = 1
    MaxOps = 2
    MaxFaults = 1
INVARIANTS
    DomainTypeOK
    LinkedOnce
PROPERTIES
    RecordsConverge
CHECK_DEADLOCK FALSE
