SPECIFICATION MCSpec
CONSTANTS
    Transactions = {1, 2}
    Calls = {1, 2, 3}
    Nobody = 0
    Total = 2
    MaxFaults = 1
INVARIANTS
    PaymentTypeOK
    MoneyAccounted
    PaymentReachesAll
CHECK_DEADLOCK FALSE
