CONSTANTS
 c1 = c1
 b1 = b1
 g1 = g1
 g2 = g2
 t1 = t1
 t2 = t2
 Boot = Boot
 NoConv = NoConv
 Convs = {c1}
 Batches = {b1}
 Managers = {g1}
 ConvOf <- OneConversation
 Ticks = {t1, t2}
 MaxFaults = 1
SPECIFICATION FairHcSpec
INVARIANT ManagerIsTimed
PROPERTY OnlyOverrunReplies
PROPERTY NoResumeBeforeReply
PROPERTY DueIsResumed
