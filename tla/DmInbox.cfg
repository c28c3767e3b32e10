CONSTANTS
 m1 = m1
 m2 = m2
 m3 = m3
 k1 = k1
 k2 = k2
 Msgs = {m1, m2, m3}
 DebounceKeys = {k1, k2}
 NoKey = NoKey
 KeyOf <- BurstKeys
 Ticks = {t1, t2}
 MaxFaults = 1
SPECIFICATION FairInboxSpec
INVARIANT NothingVanishes
INVARIANT HandedOnceWithoutOverlap
PROPERTY QueuedIsAnswered
