CONSTANTS
 a = a
 b = b
 k1 = k1
 k2 = k2
 NoSession = NoSession
 Calls = {c1, c2, c3, c4}
 Sessions = {s1, s2}
 Conversations = {a, b}
 Keys = {k1, k2}
 LockKey <- DistinctKeys
SPECIFICATION FairLockSpec
PROPERTY WaitsOnlyBehindLeak
INVARIANT InsideShareSession
INVARIANT HoldsAccounted
