SPECIFICATION MCSpec
CONSTANTS
    Services = {s1, s2}
    Crons = {c1}
    Appliers = {a1, a2}
    MaxCycle = 1
    MaxInvoices = 2
    MaxChanges = 1
    MaxFaults = 1
    MaxAdmin = 1
    MaxRepeats = 1
    MaxDisturbances = 1
INVARIANTS
    RenewalTypeOK
    InvoicedOnceUndisturbed
    CyclesPaid
PROPERTIES
    RenewalsGoOn
CHECK_DEADLOCK FALSE
