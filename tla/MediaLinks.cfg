SPECIFICATION Spec
CONSTANTS
    post = post
    story = story
    a = a
    b = b
    va = va
    vb = vb
    Media = {post, story}
    Stories = {story}
    Feed <- PostThenStory
    Products = {a, b}
    Variants = {va, vb}
    ProductOf <- Owner
    Captions <- SomeCaptions
    Fetches = {1}
    Editors = {1, 2}
    None = None
    Kept = Kept
    Patches <- SomePatches
    MaxRows = 3
CHECK_DEADLOCK FALSE
INVARIANTS
    StaffLinkLostOnlyToCaption
    GuessConfirmedOnlyByRace
    MixedOnlyByStaff
    RemovedReturnsOnlyByRace
