SPECIFICATION MCSpec
CONSTANTS
    Services = {s1, s2}
    Crons = {c1}
    Appliers = {a1, a2}
    MaxCycle = 1
    MaxInvoices = 2
    MaxChanges = 1
    MaxFaults = 1
    MaxAdmin = 1
    MaxRepeats = 1
    MaxDisturbances = 1
INVARIANT InvoicedOnce
CHECK_DEADLOCK FALSE
