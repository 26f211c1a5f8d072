SPECIFICATION BusinessSpec
CONSTANTS
    Firsts = {a1, a2}
    Seconds = {b1, b2}
    Thirds = {c1, c2}
    Fourths = {d1, d2}
    Ones = {e1}
    Nobody = nobody
    Earned = 2
    MaxDocs = 3
    MaxCalls = 4
    Items = 2
    MaxEdits = 1
    Charge = 2
    MaxWrites = 3
    MaxCycle = 2
    MaxRuns = 4
    MaxChanges = 2
    Capacity = 1
    MaxCreates = 2
    MaxAttempts = 2
    MaxVisits = 4
    Chosen = {"answered", "customer_reply"}
    MaxPosts = 4
    ReminderDays = {1, 2}
    Threshold = 2
    Repeat = 2
    Term = 3
    LastDay = 3
    MaxFailures = 5
    TldValues = {"absent", "unset", "namely"}
    StaticRegistrar = "unset"
    Ttl = 2
    LastTick = 2
    MaxItems = 3
    MaxAccounts = 1
    MaxRequests = 3
    Codes = {"BDT", "USD"}
    DefaultCode = "BDT"
    Pids = {1, 2}
    QuoteDay = 1
    Rates = {2, 3}
INVARIANTS
    BusinessTypeOK
    AccountsAgree
    BilledOnce
    HostingSound
    AccountsKept
    ReplyAsksAnswer
    NoticesReach
    RegistrationsSound
PROPERTIES
    CouponWithinLimits
    PaidKept
    EditsKept
SYMMETRY Interchangeable
CHECK_DEADLOCK FALSE
