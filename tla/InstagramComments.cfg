SPECIFICATION FairSpec
CONSTANTS
    Comments = {c1, c2}
    Author <- ByAnn
    Handlers = {1, 2}
    MaxAttempts = 3
    MaxFaults = 3
    MaxPauses = 1
    ann = ann
    None = None
CHECK_DEADLOCK FALSE
INVARIANTS
    AnsweredTwiceOnlyByRace
    OpenTwiceOnlyByRace
PROPERTY
    TakenIsAnswered
