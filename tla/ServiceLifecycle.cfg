SPECIFICATION MCSpec
CONSTANTS
    s1 = s1
    i1 = i1
    Services = {s1}
    Invoices = {i1}
    NoInvoice = NoInvoice
    Workers = {w1}
    Nobody = Nobody
    MaxAttempts = 1
    BatchSize = 10
    MaxCrashes = 0
    MaxSlow = 0
    MaxRetries = 0
    MaxFaults = 1
    Linked <- MCLinked
    AdminActions = {"TERMINATE"}
    Dates = {"none", "later", "due"}
INVARIANTS
    LifecycleTypeOK
    ActionsDecided
PROPERTIES
    SuspensionQueued
    QueueRefinement
CHECK_DEADLOCK FALSE
