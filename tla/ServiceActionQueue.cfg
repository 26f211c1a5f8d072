SPECIFICATION MCSpec
CONSTANTS
    Services = {s1}
    Invoices = {}
    NoInvoice = NoInvoice
    Workers = {w1, w2}
    Nobody = Nobody
    MaxAttempts = 2
    BatchSize = 10
    MaxCrashes = 1
    MaxSlow = 2
    MaxRetries = 1
    MaxJobs = 1
    MaxDisturbances = 2
INVARIANTS
    QueueTypeOK
    ResultsJustified
CHECK_DEADLOCK FALSE
PROPERTY JobSettles
