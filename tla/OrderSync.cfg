CONSTANTS
 NoSession = NoSession
 NoOrder = 0
 Sessions = {s1}
 Orders = {1, 2}
 Calls = {c1, c2, c3}
 MaxFaults = 1
SPECIFICATION FairSpec
INVARIANTS SessionIsBacked SecondDraftOnlyByRace SyncedHasItsId
PROPERTIES KeepsPromise PendingIsAnswered
