\* Three processes, one of which may die anywhere; no live owner outlasts its lease.
CONSTANTS
    a = a  b = b  c = c
    t1 = t1  t2 = t2  t3 = t3  t4 = t4
    Procs = {a, b, c}
    Tokens = {t1, t2, t3, t4}
    NoToken = NoToken
    Slow = FALSE
    MayDie <- Anywhere
    MaxDeaths = 1
SPECIFICATION LockFairSpec
PROPERTIES OnlyStaleRemoved ImplementsMutex OwnerRecovered
