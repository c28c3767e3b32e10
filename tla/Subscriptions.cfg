SPECIFICATION FairSpec
CONSTANTS
    Upgrades = {u1}
    Hooks = {h1, h2}
    Cancels = {x1}
    Admins = {a1}
    Updates <- MCUpdates
    Readers = {r1}
    Cron = Cron
    NoSub = NoSub
    NoPeriod = NoPeriod
    Parallel = 2
    Calls = 2
CHECK_DEADLOCK FALSE
INVARIANTS
    CacheIsTrue
    PaidStaysPaid
    ServedHasPaid
PROPERTY
    OverIsNotServed
