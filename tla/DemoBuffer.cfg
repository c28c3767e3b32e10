CONSTANTS
 p1 = p1
 p2 = p2
 p3 = p3
 NoPost = NoPost
 Posts = {p1, p2, p3}
 MaxFailures = 2
SPECIFICATION FairDemoSpec
INVARIANT EachTextOnce
PROPERTY EntryIsFlushed
PROPERTY WaitingIsAnswered
