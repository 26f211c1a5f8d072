SPECIFICATION RenewalSpec
CONSTANTS
    Invoices = {1, 2}
    Clients = {c1, c2}
    Payments = {h1, h2}
    Workers = {w1, w2}
    Cycles = {1, 2}
    Registries = {"dynadot", "namely"}
    NoInvoice = 0
    NoWorker = NoWorker
    MaxAttempts = 2
    MaxTrouble = 1
INVARIANTS
    RenewalJobsTypeOK
    RenewedOnce
    PaidIsRenewed
SYMMETRY Alike
CHECK_DEADLOCK FALSE
