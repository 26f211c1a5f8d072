SPECIFICATION Spec
CONSTANTS
    s1 = s1
    i1 = i1
    Services = {s1}
    Invoices = {i1}
    NoInvoice = NoInvoice
    Workers = {w1}
    Nobody = Nobody
    MaxAttempts = 3
    BatchSize = 10
    MaxCrashes = 0
    MaxSlow = 0
    MaxRetries = 0
    MaxFaults = 0
    Linked <- MCLinked
    AdminActions = {}
    Dates = {"none"}
INVARIANT PaidNotSuspended
CHECK_DEADLOCK FALSE
