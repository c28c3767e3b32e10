------------------------- MODULE HumanControlProofs -------------------------
(***************************************************************************)
(* Who answers a conversation, for any number of conversations, batches,   *)
(* manager's messages, pollers and restarts.                               *)
(*                                                                         *)
(* Both action properties are about a step that trusts something read      *)
(* earlier.  What a batch in flight may trust is FlightKnown: if a human   *)
(* holds its conversation by now, the batch is on record as overrun.  What *)
(* a poller may trust is ListReplied: whatever it has on its list had a    *)
(* deadline, and only the handling of an echo that was taken for a         *)
(* manager's message sets one (EchoReplied).                               *)
(***************************************************************************)
EXTENDS HumanControl, TLAPS

Flying(b) == at[b] \notin {"new", "done"}

FlightKnown == \A b \in Batches : Flying(b) /\ IsHuman(ConvOf[b]) => b \in overrun

Replied(c) == ManagerWrote(c) \/ EchoMistaken(c)

EchoReplied == \A e \in Echoes : eat[e] \notin {"coming", "done"} => e \in taken

DeadlineReplied == \A c \in Convs : deadline[c] # "none" => Replied(c)

ListReplied == \A p \in Pollers : \A c \in list[p] : Replied(c)

ClearKnown == \A p \in Pollers : pat[p] = "clear" => cur[p] \in Convs

HcInv ==
    /\ HcTypeOK
    /\ HandoffIsHuman
    /\ FlightKnown
    /\ EchoReplied
    /\ DeadlineReplied
    /\ ListReplied
    /\ ClearKnown

-----------------------------------------------------------------------------
LEMMA HcInitInv == HcInit => HcInv
BY HumanControlAssumption
   DEF HumanControlAssumption, HcInit, HcInv, HcTypeOK, HandoffIsHuman, FlightKnown, Flying,
       EchoReplied, DeadlineReplied, ListReplied, ClearKnown, Statuses, Pollers

\* Steps of a batch keep the types.
LEMMA HcTypeBatch ==
    ASSUME HcTypeOK, NEW b \in Batches, BatchStep(b) \/ BatchThrows(b) \/ ForgetMid(b)
    PROVE  HcTypeOK'
<1> USE HumanControlAssumption
    DEF HumanControlAssumption, HcTypeOK, rowVars, batchVars, echoVars, windowVars, pollVars, Statuses, Echoes
<1>1. CASE Check(b)
  BY <1>1 DEF Check
<1>2. CASE Decide(b)
  BY <1>2 DEF Decide
<1>3. CASE Escalate(b)
  BY <1>3 DEF Escalate, escalate, ToHuman, InFlight
<1>4. CASE SaveText(b)
  BY <1>4 DEF SaveText
<1>5. CASE StartSend(b)
  BY <1>5 DEF StartSend
<1>6. CASE Deliver(b) \/ Respond(b) \/ SendFails(b) \/ ForgetMid(b)
  <2>1. CASE Deliver(b)
    BY <2>1 DEF Deliver
  <2>2. CASE Respond(b)
    BY <2>2 DEF Respond
  <2>3. CASE SendFails(b)
    BY <2>3 DEF SendFails
  <2>4. CASE ForgetMid(b)
    BY <2>4 DEF ForgetMid
  <2> QED
    BY <1>6, <2>1, <2>2, <2>3, <2>4
<1>7. CASE BatchThrows(b)
  BY <1>7 DEF BatchThrows
<1> QED
  BY <1>1, <1>2, <1>3, <1>4, <1>5, <1>6, <1>7 DEF BatchStep

\* Steps of an echo keep the types.
LEMMA HcTypeEcho ==
    ASSUME HcTypeOK, NEW e \in Echoes, EchoArrives(e) \/ EchoAgain(e) \/ EchoStep(e) \/ EchoThrows(e)
    PROVE  HcTypeOK'
<1> USE HumanControlAssumption
    DEF HumanControlAssumption, HcTypeOK, rowVars, batchVars, windowVars, pollVars, Statuses
<1>1. CASE EchoArrives(e)
  <2>1. /\ eat' = [eat EXCEPT ![e] = "done"] \/ eat' = [eat EXCEPT ![e] = "admitted"]
        /\ mids' = mids \ {e}
        /\ taken' = taken \/ taken' = taken \cup {e}
        /\ e \in Managers \cup delivered
        /\ UNCHANGED <<rowVars, batchVars, seen, sendWindow, rowWindow, pollVars, faults>>
    BY <1>1 DEF EchoArrives
  <2> QED
    BY <2>1
<1>2. CASE EchoFinds(e)
  BY <1>2 DEF EchoFinds
<1>3. CASE EchoSaves(e)
  BY <1>3 DEF EchoSaves
<1>4. CASE EchoTakesOver(e)
  <2>1. /\ eat' = [eat EXCEPT ![e] = "taken"]
        /\ UNCHANGED <<at, outcome, delivered, seen, taken, windowVars, pollVars, faults>>
    BY <1>4 DEF EchoTakesOver
  <2>2. CASE takeover(ConvOf[e], "manager")
    BY <2>1, <2>2 DEF takeover, ToHuman, InFlight
  <2>3. CASE UNCHANGED <<rowVars, overrun>>
    BY <2>1, <2>3
  <2> QED
    BY <1>4, <2>2, <2>3 DEF EchoTakesOver
<1>5. CASE EchoArms(e)
  BY <1>5 DEF EchoArms
<1>6. CASE EchoThrows(e)
  BY <1>6 DEF EchoThrows
<1>7. CASE EchoAgain(e)
  BY <1>7 DEF EchoAgain
<1> QED
  BY <1>1, <1>2, <1>3, <1>4, <1>5, <1>6, <1>7 DEF EchoStep

\* Steps of a poller keep the types.
LEMMA HcTypePoll ==
    ASSUME HcTypeOK, ClearKnown, NEW p \in Pollers, PollStep(p) \/ ResumeFails(p)
    PROVE  HcTypeOK'
<1> USE DEF HcTypeOK, rowVars, batchVars, echoVars, windowVars, Statuses
<1>1. CASE ListExpired(p)
  BY <1>1 DEF ListExpired
<1>2. CASE Resume(p)
  BY <1>2 DEF Resume, release
<1>3. CASE ClearDeadline(p)
  BY <1>3 DEF ClearDeadline, ClearKnown
<1>4. CASE EndPoll(p)
  BY <1>4 DEF EndPoll
<1>5. CASE ResumeFails(p)
  BY <1>5, HumanControlAssumption DEF ResumeFails, HumanControlAssumption
<1> QED
  BY <1>1, <1>2, <1>3, <1>4, <1>5 DEF PollStep

\* The admin panel, time and restarts keep the types.
LEMMA HcTypeOther ==
    ASSUME HcTypeOK,
           \/ \E c \in Convs : \/ AdminTakeover(c) \/ AdminRelease(c) \/ CloseStale(c)
                              \/ DeadlinePasses(c) \/ WindowCloses(c)
           \/ Restart
    PROVE  HcTypeOK'
<1> USE HumanControlAssumption
    DEF HumanControlAssumption, HcTypeOK, rowVars, batchVars, echoVars, windowVars, pollVars, Statuses
<1>1. ASSUME NEW c \in Convs, AdminTakeover(c)
      PROVE  HcTypeOK'
  BY <1>1 DEF AdminTakeover, takeover, ToHuman, InFlight
<1>2. ASSUME NEW c \in Convs, AdminRelease(c)
      PROVE  HcTypeOK'
  BY <1>2 DEF AdminRelease, release
<1>3. ASSUME NEW c \in Convs, DeadlinePasses(c) \/ WindowCloses(c)
      PROVE  HcTypeOK'
  BY <1>3 DEF DeadlinePasses, WindowCloses
<1>4. ASSUME NEW c \in Convs, CloseStale(c)
      PROVE  HcTypeOK'
  BY <1>4 DEF CloseStale
<1>5. CASE Restart
  BY <1>5 DEF Restart
<1> QED
  BY <1>1, <1>2, <1>3, <1>4, <1>5

\* Every step keeps the types.
LEMMA HcTypeStep ==
    ASSUME HcTypeOK, ClearKnown, [HcNext]_hcVars
    PROVE  HcTypeOK'
<1>1. CASE UNCHANGED hcVars
  BY <1>1 DEF hcVars, rowVars, batchVars, echoVars, windowVars, pollVars, HcTypeOK
<1> QED
  BY <1>1, HcTypeBatch, HcTypeEcho, HcTypePoll, HcTypeOther DEF HcNext
-----------------------------------------------------------------------------
(* The rest of the invariant, actor by actor.                              *)

Known == /\ HandoffIsHuman /\ FlightKnown /\ EchoReplied
         /\ DeadlineReplied /\ ListReplied /\ ClearKnown

\* Nothing takes back that an echo was taken for a manager's message.
LEMMA RepliedStays ==
    ASSUME taken \subseteq taken', NEW c, Replied(c)
    PROVE  Replied(c)'
BY DEF Replied, ManagerWrote, EchoMistaken

\* A conversation goes to a human: the batches in flight are put on record.
LEMMA ToHumanKnown ==
    ASSUME HcTypeOK, HandoffIsHuman, FlightKnown,
           NEW c \in Convs, NEW who, NEW flag \in BOOLEAN, ToHuman(c, who, flag),
           \A b \in Batches : Flying(b)' => Flying(b)
    PROVE  HandoffIsHuman' /\ FlightKnown'
<1> USE HumanControlAssumption
    DEF HumanControlAssumption, HcTypeOK, ToHuman, Statuses, Echoes
<1>1. HandoffIsHuman'
  BY DEF HandoffIsHuman, IsHuman, IsClosed
<1>2. ASSUME NEW b \in Batches, Flying(b)', IsHuman(ConvOf[b])'
      PROVE  b \in overrun'
  <2>1. Flying(b) /\ ConvOf[b] \in Convs
    BY <1>2
  <2>2. CASE IsHuman(ConvOf[b])
    BY <2>1, <2>2 DEF FlightKnown
  <2>3. CASE ~IsHuman(ConvOf[b])
    <3>1. ConvOf[b] = c
      BY <1>2, <2>1, <2>3 DEF IsHuman
    <3> QED
      BY <2>1, <2>3, <3>1 DEF InFlight, Flying
  <2> QED
    BY <2>2, <2>3
<1> QED
  BY <1>1, <1>2 DEF FlightKnown

\* A step that takes no echo arms no deadline and lists nothing that nobody answered.
LEMMA KeepsReplied ==
    ASSUME taken' = taken,
           \A c \in Convs : deadline'[c] # "none" => Replied(c),
           \A p \in Pollers : \A c \in list'[p] : Replied(c)
    PROVE  DeadlineReplied' /\ ListReplied'
BY RepliedStays DEF DeadlineReplied, ListReplied

\* A step that only changes who holds a conversation.
LEMMA HoldKnown ==
    ASSUME Known, UNCHANGED <<deadline, eat, taken, pat, list, cur>>
    PROVE  EchoReplied' /\ DeadlineReplied' /\ ListReplied' /\ ClearKnown'
BY RepliedStays DEF Known, EchoReplied, DeadlineReplied, ListReplied, ClearKnown

\* A step that leaves the rows, the lists and the pollers alone, and takes no batch
\* past its check.
LEMMA FrameKnown ==
    ASSUME Known, UNCHANGED <<rowVars, overrun, pollVars>>, taken \subseteq taken', EchoReplied',
           \A b \in Batches : Flying(b)' => Flying(b)
    PROVE  Known'
<1> USE DEF Known, rowVars, pollVars
<1>1. HandoffIsHuman' /\ FlightKnown' /\ ClearKnown'
  BY DEF HandoffIsHuman, IsHuman, IsClosed, FlightKnown, ClearKnown
<1>2. DeadlineReplied' /\ ListReplied'
  BY RepliedStays DEF DeadlineReplied, ListReplied
<1> QED
  BY <1>1, <1>2

\* A step that leaves the echoes alone as well.
LEMMA FrameEchoes ==
    ASSUME Known, UNCHANGED <<rowVars, overrun, pollVars, echoVars>>,
           \A b \in Batches : Flying(b)' => Flying(b)
    PROVE  Known'
BY FrameKnown DEF Known, EchoReplied, echoVars

LEMMA BatchKnown ==
    ASSUME HcTypeOK, Known, NEW b \in Batches, BatchStep(b) \/ BatchThrows(b) \/ ForgetMid(b)
    PROVE  Known'
<1> USE HumanControlAssumption
    DEF HumanControlAssumption, HcTypeOK, rowVars, batchVars, echoVars, windowVars, pollVars, Echoes
<1>1. CASE Check(b)
  <2>1. FlightKnown'
    BY <1>1 DEF Check, Known, FlightKnown, Flying, IsHuman
  <2>2. HandoffIsHuman' /\ ClearKnown' /\ EchoReplied' /\ UNCHANGED <<deadline, list, taken>>
    BY <1>1 DEF Check, Known, HandoffIsHuman, IsHuman, IsClosed, EchoReplied, ClearKnown
  <2>3. DeadlineReplied' /\ ListReplied'
    BY <2>2, RepliedStays DEF Known, DeadlineReplied, ListReplied
  <2> QED
    BY <2>1, <2>2, <2>3 DEF Known
<1>2. CASE Escalate(b)
  <2>1. \A a \in Batches : Flying(a)' => Flying(a)
    BY <1>2 DEF Escalate, Flying
  <2>2. ToHuman(ConvOf[b], "escalation", TRUE) /\ ConvOf[b] \in Convs
    BY <1>2 DEF Escalate, escalate
  <2>3. HandoffIsHuman' /\ FlightKnown'
    BY <2>1, <2>2, ToHumanKnown DEF Known
  <2>4. UNCHANGED <<deadline, eat, taken, pat, list, cur>>
    BY <1>2, <2>2 DEF Escalate, ToHuman
  <2> QED
    BY <2>3, <2>4, HoldKnown DEF Known
<1>3. CASE Decide(b)
  <2>1. \A a \in Batches : Flying(a)' => Flying(a)
    BY <1>3 DEF Decide, Flying
  <2> QED
    BY <1>3, <2>1, FrameEchoes DEF Decide
<1>4. CASE SaveText(b)
  <2>1. \A a \in Batches : Flying(a)' => Flying(a)
    BY <1>4 DEF SaveText, Flying
  <2> QED
    BY <1>4, <2>1, FrameEchoes DEF SaveText
<1>5. CASE StartSend(b)
  <2>1. \A a \in Batches : Flying(a)' => Flying(a)
    BY <1>5 DEF StartSend, Flying
  <2> QED
    BY <1>5, <2>1, FrameEchoes DEF StartSend
<1>6. CASE Deliver(b)
  <2>1. \A a \in Batches : Flying(a)' => Flying(a)
    BY <1>6 DEF Deliver, Flying
  <2> QED
    BY <1>6, <2>1, FrameEchoes DEF Deliver
<1>7. CASE Respond(b)
  <2>1. \A a \in Batches : Flying(a)' => Flying(a)
    BY <1>7 DEF Respond, Flying
  <2> QED
    BY <1>7, <2>1, FrameEchoes DEF Respond
<1>8. CASE SendFails(b)
  <2>1. \A a \in Batches : Flying(a)' => Flying(a)
    BY <1>8 DEF SendFails, Flying
  <2> QED
    BY <1>8, <2>1, FrameEchoes DEF SendFails
<1>9. CASE ForgetMid(b)
  <2>1. \A a \in Batches : Flying(a)' => Flying(a)
    BY <1>9 DEF ForgetMid, Flying
  <2> QED
    BY <1>9, <2>1, FrameEchoes DEF ForgetMid
<1>10. CASE BatchThrows(b)
  <2>1. \A a \in Batches : Flying(a)' => Flying(a)
    BY <1>10 DEF BatchThrows, Flying
  <2> QED
    BY <1>10, <2>1, FrameEchoes DEF BatchThrows
<1> QED
  BY <1>1, <1>2, <1>3, <1>4, <1>5, <1>6, <1>7, <1>8, <1>9, <1>10 DEF BatchStep

LEMMA EchoKnown ==
    ASSUME HcTypeOK, Known, NEW e \in Echoes, EchoArrives(e) \/ EchoAgain(e) \/ EchoStep(e) \/ EchoThrows(e)
    PROVE  Known'
<1> USE DEF rowVars, batchVars, windowVars, pollVars
<1>1. ConvOf[e] \in Convs
  BY HumanControlAssumption DEF HumanControlAssumption
<1>2. \A b \in Batches : Flying(b)' => Flying(b)
  BY DEF EchoStep, EchoArrives, EchoAgain, EchoFinds, EchoSaves, EchoTakesOver, EchoArms, EchoThrows, Flying
<1>3. EchoReplied' /\ taken \subseteq taken'
  <2>1. CASE EchoArrives(e)
    <3>1. \/ eat' = [eat EXCEPT ![e] = "done"] /\ taken' = taken
          \/ eat' = [eat EXCEPT ![e] = "admitted"] /\ taken' = taken \cup {e}
      BY <2>1 DEF EchoArrives
    <3> QED
      BY <3>1 DEF Known, EchoReplied, HcTypeOK
  <2>2. CASE EchoTakesOver(e)
    BY <2>2 DEF EchoTakesOver, Known, EchoReplied, HcTypeOK
  <2>3. CASE EchoAgain(e) \/ EchoFinds(e) \/ EchoSaves(e) \/ EchoArms(e) \/ EchoThrows(e)
    BY <2>3 DEF EchoAgain, EchoFinds, EchoSaves, EchoArms, EchoThrows, Known, EchoReplied, HcTypeOK
  <2> QED
    BY <2>1, <2>2, <2>3 DEF EchoStep
<1>4. CASE EchoArrives(e) \/ EchoAgain(e) \/ EchoFinds(e) \/ EchoSaves(e) \/ EchoThrows(e)
  BY <1>2, <1>3, <1>4, FrameKnown DEF EchoArrives, EchoAgain, EchoFinds, EchoSaves, EchoThrows
<1>5. CASE EchoTakesOver(e)
  <2>1. CASE takeover(ConvOf[e], "manager")
    <3>1. HandoffIsHuman' /\ FlightKnown'
      BY <1>1, <1>2, <2>1, ToHumanKnown DEF takeover, Known
    <3>2. UNCHANGED <<deadline, taken, pat, list, cur>>
      BY <1>5, <2>1 DEF EchoTakesOver, takeover, ToHuman
    <3>3. DeadlineReplied' /\ ListReplied' /\ ClearKnown'
      BY <3>2, RepliedStays DEF Known, DeadlineReplied, ListReplied, ClearKnown
    <3> QED
      BY <1>3, <3>1, <3>3 DEF Known
  <2>2. CASE UNCHANGED <<rowVars, overrun>>
    BY <1>2, <1>3, <1>5, <2>2, FrameKnown DEF EchoTakesOver
  <2> QED
    BY <1>5, <2>1, <2>2 DEF EchoTakesOver
<1>6. CASE EchoArms(e)
  <2>1. HandoffIsHuman' /\ FlightKnown' /\ ClearKnown'
    BY <1>6 DEF EchoArms, Known, HandoffIsHuman, IsHuman, IsClosed, FlightKnown, Flying, ClearKnown
  <2>2. Replied(ConvOf[e])
    BY <1>6, HumanControlAssumption
       DEF EchoArms, Known, EchoReplied, Echoes, Replied, ManagerWrote, EchoMistaken
  <2>3. DeadlineReplied' /\ ListReplied'
    <3>1. \A c \in Convs : deadline'[c] # "none" => Replied(c)
      BY <1>6, <2>2 DEF EchoArms, Known, HcTypeOK, DeadlineReplied
    <3> QED
      BY <1>3, <1>6, <3>1, RepliedStays DEF EchoArms, Known, HcTypeOK, DeadlineReplied, ListReplied
  <2> QED
    BY <1>3, <2>1, <2>3 DEF Known
<1> QED
  BY <1>4, <1>5, <1>6 DEF EchoStep

\* release, called by a poller or by the admin panel.
LEMMA ReleaseKnown ==
    ASSUME HcTypeOK, HandoffIsHuman, FlightKnown, NEW c \in Convs, release(c), UNCHANGED at
    PROVE  HandoffIsHuman' /\ FlightKnown'
<1> USE HumanControlAssumption
    DEF HumanControlAssumption, HcTypeOK, release, IsHuman, IsClosed, Statuses, Echoes
<1>1. HandoffIsHuman'
  BY DEF HandoffIsHuman
<1>2. FlightKnown'
  BY DEF FlightKnown, Flying
<1> QED
  BY <1>1, <1>2

LEMMA PollKnown ==
    ASSUME HcTypeOK, Known, NEW p \in Pollers, PollStep(p) \/ ResumeFails(p)
    PROVE  Known'
<1> USE DEF HcTypeOK, rowVars, batchVars, echoVars, windowVars
<1>1. CASE ListExpired(p)
  <2>1. HandoffIsHuman' /\ FlightKnown' /\ EchoReplied' /\ ClearKnown' /\ UNCHANGED <<taken, deadline>>
    BY <1>1 DEF ListExpired, Known, HandoffIsHuman, IsHuman, IsClosed, FlightKnown, Flying, EchoReplied, ClearKnown
  <2>2. DeadlineReplied' /\ ListReplied'
    <3>1. \A q \in Pollers : \A c \in list'[q] : Replied(c)
      BY <1>1 DEF ListExpired, Known, ListReplied, DeadlineReplied
    <3> QED
      BY <2>1, <3>1, KeepsReplied DEF Known, DeadlineReplied
  <2> QED
    BY <2>1, <2>2 DEF Known
<1>2. CASE Resume(p)
  <2>1. PICK c \in list[p] : release(c) /\ cur' = [cur EXCEPT ![p] = c]
    BY <1>2 DEF Resume
  <2>2. c \in Convs
    BY <2>1
  <2>3. UNCHANGED <<deadline, at, eat, taken, list>>
    BY <1>2, <2>1 DEF Resume, release
  <2>4. HandoffIsHuman' /\ FlightKnown'
    BY <2>1, <2>2, <2>3, ReleaseKnown DEF Known
  <2>5. ClearKnown'
    BY <1>2, <2>1, <2>2 DEF Resume, Known, ClearKnown
  <2>6. EchoReplied' /\ DeadlineReplied' /\ ListReplied'
    BY <2>3, RepliedStays DEF Known, EchoReplied, DeadlineReplied, ListReplied
  <2> QED
    BY <2>4, <2>5, <2>6 DEF Known
<1>3. CASE ClearDeadline(p)
  <2>1. cur[p] \in Convs
    BY <1>3 DEF ClearDeadline, Known, ClearKnown
  <2>2. HandoffIsHuman' /\ FlightKnown' /\ EchoReplied' /\ ClearKnown' /\ taken' = taken
    BY <1>3 DEF ClearDeadline, Known, HandoffIsHuman, IsHuman, IsClosed, FlightKnown, Flying, EchoReplied, ClearKnown
  <2>3. DeadlineReplied' /\ ListReplied'
    <3>1. \A c \in Convs : deadline'[c] # "none" => Replied(c)
      BY <1>3, <2>1 DEF ClearDeadline, Known, DeadlineReplied
    <3>2. \A q \in Pollers : \A c \in list'[q] : Replied(c)
      BY <1>3 DEF ClearDeadline, Known, ListReplied
    <3> QED
      BY <2>2, <3>1, <3>2, KeepsReplied
  <2> QED
    BY <2>2, <2>3 DEF Known
<1>4. CASE EndPoll(p)
  <2>1. HandoffIsHuman' /\ FlightKnown' /\ EchoReplied' /\ ClearKnown'
    BY <1>4 DEF EndPoll, Known, HandoffIsHuman, IsHuman, IsClosed, FlightKnown, Flying, EchoReplied, ClearKnown
  <2>2. DeadlineReplied' /\ ListReplied'
    BY <1>4, RepliedStays DEF EndPoll, Known, DeadlineReplied, ListReplied
  <2> QED
    BY <2>1, <2>2 DEF Known
<1>5. CASE ResumeFails(p)
  <2>1. HandoffIsHuman' /\ FlightKnown' /\ EchoReplied' /\ ClearKnown' /\ UNCHANGED <<taken, deadline>>
    BY <1>5 DEF ResumeFails, Known, HandoffIsHuman, IsHuman, IsClosed, FlightKnown, Flying, EchoReplied, ClearKnown
  <2>2. DeadlineReplied' /\ ListReplied'
    <3>1. \A q \in Pollers : \A c \in list'[q] : Replied(c)
      BY <1>5 DEF ResumeFails, Known, ListReplied
    <3> QED
      BY <2>1, <3>1, KeepsReplied DEF Known, DeadlineReplied
  <2> QED
    BY <2>1, <2>2 DEF Known
<1> QED
  BY <1>1, <1>2, <1>3, <1>4, <1>5 DEF PollStep

LEMMA OtherKnown ==
    ASSUME HcTypeOK, Known,
           \/ \E c \in Convs : \/ AdminTakeover(c) \/ AdminRelease(c) \/ CloseStale(c)
                              \/ DeadlinePasses(c) \/ WindowCloses(c)
           \/ Restart
    PROVE  Known'
<1> USE DEF rowVars, batchVars, echoVars, windowVars, pollVars
<1>1. ASSUME NEW c \in Convs, AdminTakeover(c)
      PROVE  Known'
  <2>1. HandoffIsHuman' /\ FlightKnown'
    BY <1>1, ToHumanKnown DEF AdminTakeover, takeover, Known, Flying
  <2>2. UNCHANGED <<deadline, eat, taken, pat, list, cur>>
    BY <1>1 DEF AdminTakeover, takeover, ToHuman
  <2> QED
    BY <2>1, <2>2, HoldKnown DEF Known
<1>2. ASSUME NEW c \in Convs, AdminRelease(c)
      PROVE  Known'
  <2>1. HandoffIsHuman' /\ FlightKnown'
    BY <1>2, ReleaseKnown DEF AdminRelease, Known
  <2>2. UNCHANGED <<deadline, eat, taken, pat, list, cur>>
    BY <1>2 DEF AdminRelease, release
  <2> QED
    BY <2>1, <2>2, HoldKnown DEF Known
<1>3. ASSUME NEW c \in Convs, DeadlinePasses(c)
      PROVE  Known'
  <2>1. HandoffIsHuman' /\ FlightKnown' /\ EchoReplied' /\ ClearKnown' /\ UNCHANGED <<taken, list>>
    BY <1>3 DEF DeadlinePasses, Known, HandoffIsHuman, IsHuman, IsClosed, FlightKnown, Flying, EchoReplied, ClearKnown
  <2>2. DeadlineReplied' /\ ListReplied'
    <3>1. \A d \in Convs : deadline'[d] # "none" => Replied(d)
      BY <1>3 DEF DeadlinePasses, Known, DeadlineReplied, HcTypeOK
    <3> QED
      BY <2>1, <3>1, KeepsReplied DEF Known, ListReplied
  <2> QED
    BY <2>1, <2>2 DEF Known
<1>4. ASSUME NEW c \in Convs, WindowCloses(c)
      PROVE  Known'
  <2>1. UNCHANGED <<rowVars, batchVars, echoVars, pollVars>>
    BY <1>4 DEF WindowCloses
  <2> QED
    BY <2>1, FrameEchoes DEF Flying
<1>5. ASSUME NEW c \in Convs, CloseStale(c)
      PROVE  Known'
  <2>1. HandoffIsHuman' /\ FlightKnown'
    BY <1>5 DEF CloseStale, Known, HcTypeOK, HandoffIsHuman, IsHuman, IsClosed, FlightKnown, Flying
  <2>2. UNCHANGED <<deadline, eat, taken, pat, list, cur>>
    BY <1>5 DEF CloseStale
  <2> QED
    BY <2>1, <2>2, HoldKnown DEF Known
<1>6. CASE Restart
  <2>1. ListReplied' /\ ClearKnown'
    BY <1>6 DEF Restart, ListReplied, ClearKnown
  <2>2. \A b \in Batches : ~Flying(b)'
    BY <1>6 DEF Restart, Flying
  <2>3. HandoffIsHuman' /\ FlightKnown' /\ EchoReplied'
    BY <1>6, <2>2 DEF Restart, Known, HandoffIsHuman, IsHuman, IsClosed, FlightKnown, EchoReplied
  <2>4. DeadlineReplied'
    BY <1>6, RepliedStays DEF Restart, Known, DeadlineReplied
  <2> QED
    BY <2>1, <2>3, <2>4 DEF Known
<1> QED
  BY <1>1, <1>2, <1>3, <1>4, <1>5, <1>6

-----------------------------------------------------------------------------
LEMMA HcStepInv ==
    ASSUME HcInv, [HcNext]_hcVars
    PROVE  HcInv'
<1>1. HcTypeOK /\ Known /\ ClearKnown
  BY DEF HcInv, Known
<1>2. HcTypeOK'
  BY <1>1, HcTypeStep
<1>3. Known'
  <2>1. CASE UNCHANGED hcVars
    BY <1>1, <2>1, FrameEchoes DEF hcVars, batchVars, Flying
  <2> QED
    BY <1>1, <2>1, BatchKnown, EchoKnown, PollKnown, OtherKnown DEF HcNext
<1> QED
  BY <1>2, <1>3 DEF HcInv, Known

\* The inductive invariant of the conversation's control.
THEOREM HcInvariant == HcSpec => []HcInv
BY HcInitInv, HcStepInv, PTL DEF HcSpec

\* Rows, batches, echoes and pollers keep their types, and a message id is remembered
\* only when Meta has delivered its message.
THEOREM HcTypeCorrect == HcSpec => []HcTypeOK
<1>1. HcInv => HcTypeOK
  BY DEF HcInv
<1> QED
  BY <1>1, HcInvariant, PTL

\* A conversation that asks for a human is never the bot's.
THEOREM HandoffStaysHuman == HcSpec => []HandoffIsHuman
<1>1. HcInv => HandoffIsHuman
  BY DEF HcInv
<1> QED
  BY <1>1, HcInvariant, PTL

\* Only Meta's acceptance of a batch that is being sent delivers anything.
LEMMA OnlyFlyingDelivers ==
    ASSUME HcTypeOK, [HcNext]_hcVars, NEW b \in Batches, b \in delivered' \ delivered
    PROVE  Flying(b)
<1> USE DEF batchVars, hcVars
<1>1. delivered' # delivered
  OBVIOUS
<1>2. \E d \in Batches : Deliver(d)
  <2>1. ASSUME NEW d \in Batches, BatchStep(d) \/ BatchThrows(d) \/ ForgetMid(d)
        PROVE  Deliver(d)
    BY <1>1, <2>1 DEF BatchStep, Check, Decide, Escalate, SaveText, StartSend, Respond, SendFails, ForgetMid, BatchThrows
  <2>2. ~(\E e \in Echoes : EchoArrives(e) \/ EchoAgain(e) \/ EchoStep(e) \/ EchoThrows(e))
    BY <1>1 DEF EchoStep, EchoArrives, EchoAgain, EchoFinds, EchoSaves, EchoTakesOver, EchoArms, EchoThrows
  <2>3. ~(\E p \in Pollers : PollStep(p) \/ ResumeFails(p))
    BY <1>1 DEF PollStep, ListExpired, Resume, ClearDeadline, EndPoll, ResumeFails
  <2>4. ~(\E c \in Convs : \/ AdminTakeover(c) \/ AdminRelease(c) \/ CloseStale(c)
                           \/ DeadlinePasses(c) \/ WindowCloses(c))
    BY <1>1 DEF AdminTakeover, AdminRelease, CloseStale, DeadlinePasses, WindowCloses
  <2>5. ~Restart
    BY <1>1 DEF Restart
  <2> QED
    BY <1>1, <2>1, <2>2, <2>3, <2>4, <2>5 DEF HcNext
<1>3. PICK d \in Batches : Deliver(d)
  BY <1>2
<1>4. b = d
  BY <1>3 DEF Deliver
<1> QED
  BY <1>3, <1>4 DEF Deliver, Flying

\* A reply reaches a conversation in human control only from a batch that was past its
\* check of the status when the human took over.
THEOREM RepliesAreOverrun == HcSpec => OnlyOverrunReplies
<1>1. HcInv /\ [HcNext]_hcVars
        => [\A b \in Batches : DeliversReply(b) /\ IsHuman(ConvOf[b]) => b \in overrun]_hcVars
  <2> SUFFICES ASSUME HcInv, [HcNext]_hcVars, NEW b \in Batches,
                      DeliversReply(b), IsHuman(ConvOf[b])
               PROVE  b \in overrun
    OBVIOUS
  <2>1. Flying(b)
    BY OnlyFlyingDelivers DEF HcInv, DeliversReply
  <2> QED
    BY <2>1 DEF HcInv, FlightKnown
<1> QED
  BY <1>1, HcInvariant, PTL DEF HcSpec, OnlyOverrunReplies

\* The poller gives back only conversations in which a manager wrote, or an echo of the
\* bot's own text passed for a manager's message.
THEOREM ResumesAreReplied == HcSpec => NoResumeBeforeReply
<1>1. HcInv /\ [HcNext]_hcVars => [\A c \in Convs : Resumes(c) => ManagerWrote(c) \/ EchoMistaken(c)]_hcVars
  <2> SUFFICES ASSUME HcInv, NEW c \in Convs, NEW p \in Pollers, Resume(p), cur'[p] = c
               PROVE  ManagerWrote(c) \/ EchoMistaken(c)
    BY DEF Resumes
  <2>1. PICK d \in list[p] : cur' = [cur EXCEPT ![p] = d]
    BY DEF Resume
  <2>2. c = d
    BY <2>1 DEF HcInv, HcTypeOK
  <2> QED
    BY <2>1, <2>2 DEF HcInv, ListReplied, Replied
<1> QED
  BY <1>1, HcInvariant, PTL DEF HcSpec, NoResumeBeforeReply

-----------------------------------------------------------------------------
(* A conversation of a manager and its deadline.                           *)

\* A step that leaves the row alone and no takeover without its deadline.
LEMMA FrameTimed ==
    ASSUME ManagerIsTimed, UNCHANGED <<rowVars, eat, faults>>
    PROVE  ManagerIsTimed'
BY DEF ManagerIsTimed, IsHuman, rowVars

\* After a fault nothing is promised.
LEMMA FaultTimed ==
    ASSUME HcTypeOK, faults' = faults + 1
    PROVE  ManagerIsTimed'
<1>1. faults' > 0
  BY HumanControlAssumption DEF HcTypeOK, HumanControlAssumption
<1> QED
  BY <1>1 DEF ManagerIsTimed

LEMMA BatchTimed ==
    ASSUME HcTypeOK, ManagerIsTimed, NEW b \in Batches, BatchStep(b) \/ BatchThrows(b) \/ ForgetMid(b)
    PROVE  ManagerIsTimed'
<1> USE DEF batchVars, echoVars, windowVars
<1>1. CASE Escalate(b)
  BY <1>1 DEF Escalate, escalate, ToHuman, HcTypeOK, ManagerIsTimed, IsHuman
<1>2. CASE BatchThrows(b)
  BY <1>2, FaultTimed DEF BatchThrows
<1>3. CASE Check(b) \/ Decide(b) \/ SaveText(b) \/ StartSend(b)
  BY <1>3, FrameTimed DEF Check, Decide, SaveText, StartSend
<1>4. CASE Deliver(b) \/ Respond(b) \/ SendFails(b) \/ ForgetMid(b)
  BY <1>4, FrameTimed DEF Deliver, Respond, SendFails, ForgetMid
<1> QED
  BY <1>1, <1>2, <1>3, <1>4 DEF BatchStep

LEMMA EchoTimed ==
    ASSUME HcTypeOK, ManagerIsTimed, NEW e \in Echoes, EchoArrives(e) \/ EchoAgain(e) \/ EchoStep(e) \/ EchoThrows(e)
    PROVE  ManagerIsTimed'
<1> USE DEF batchVars, rowVars, windowVars, HcTypeOK, ManagerIsTimed, IsHuman
<1>1. CASE EchoArrives(e)
  BY <1>1 DEF EchoArrives
<1>2. CASE EchoFinds(e) \/ EchoSaves(e)
  BY <1>2 DEF EchoFinds, EchoSaves
<1>3. CASE EchoTakesOver(e)
  <2>1. eat' = [eat EXCEPT ![e] = "taken"] /\ faults' = faults
    BY <1>3 DEF EchoTakesOver
  <2>2. CASE UNCHANGED rowVars
    BY <2>1, <2>2
  <2>3. CASE takeover(ConvOf[e], "manager")
    BY <2>1, <2>3 DEF takeover, ToHuman
  <2> QED
    BY <1>3, <2>2, <2>3 DEF EchoTakesOver
<1>4. CASE EchoArms(e)
  BY <1>4 DEF EchoArms
<1>5. CASE EchoThrows(e) \/ EchoAgain(e)
  BY <1>5, FaultTimed DEF EchoThrows, EchoAgain
<1> QED
  BY <1>1, <1>2, <1>3, <1>4, <1>5 DEF EchoStep

LEMMA PollTimed ==
    ASSUME HcTypeOK, ClearKnown, ManagerIsTimed, NEW p \in Pollers, PollStep(p) \/ ResumeFails(p)
    PROVE  ManagerIsTimed'
<1> USE DEF echoVars, batchVars
<1>1. CASE ListExpired(p) \/ EndPoll(p)
  BY <1>1, FrameTimed DEF ListExpired, EndPoll
<1>2. CASE Resume(p)
  BY <1>2 DEF Resume, release, HcTypeOK, ManagerIsTimed, IsHuman
<1>3. CASE ClearDeadline(p)
  BY <1>3 DEF ClearDeadline, ClearKnown, HcTypeOK, ManagerIsTimed, IsHuman
<1>4. CASE ResumeFails(p)
  BY <1>4, FaultTimed DEF ResumeFails
<1> QED
  BY <1>1, <1>2, <1>3, <1>4 DEF PollStep

LEMMA OtherTimed ==
    ASSUME HcTypeOK, ManagerIsTimed,
           \/ \E c \in Convs : \/ AdminTakeover(c) \/ AdminRelease(c) \/ CloseStale(c)
                              \/ DeadlinePasses(c) \/ WindowCloses(c)
           \/ Restart
    PROVE  ManagerIsTimed'
<1> USE DEF echoVars, HcTypeOK, ManagerIsTimed, IsHuman
<1>1. ASSUME NEW c \in Convs, AdminTakeover(c)
      PROVE  ManagerIsTimed'
  BY <1>1 DEF AdminTakeover, takeover, ToHuman
<1>2. ASSUME NEW c \in Convs, AdminRelease(c)
      PROVE  ManagerIsTimed'
  BY <1>2 DEF AdminRelease, release
<1>3. ASSUME NEW c \in Convs, CloseStale(c) \/ DeadlinePasses(c)
      PROVE  ManagerIsTimed'
  BY <1>3 DEF CloseStale, DeadlinePasses
<1>4. ASSUME NEW c \in Convs, WindowCloses(c)
      PROVE  ManagerIsTimed'
  BY <1>4, FrameTimed DEF WindowCloses
<1>5. CASE Restart
  BY <1>5, FaultTimed DEF Restart
<1> QED
  BY <1>1, <1>2, <1>3, <1>4, <1>5

\* A conversation a manager took over is without a deadline only while the echo is
\* handled, after a fault, or where a poller cleared it.
THEOREM ManagersAreTimed == HcSpec => []ManagerIsTimed
<1>1. HcInit => ManagerIsTimed
  BY DEF HcInit, ManagerIsTimed, IsHuman
<1>2. HcInv /\ ManagerIsTimed /\ [HcNext]_hcVars => ManagerIsTimed'
  <2> SUFFICES ASSUME HcInv, ManagerIsTimed, [HcNext]_hcVars
               PROVE  ManagerIsTimed'
    OBVIOUS
  <2>1. HcTypeOK /\ ClearKnown
    BY DEF HcInv
  <2>2. CASE UNCHANGED hcVars
    BY <2>2, FrameTimed DEF hcVars, echoVars
  <2> QED
    BY <2>1, <2>2, BatchTimed, EchoTimed, PollTimed, OtherTimed DEF HcNext
<1> QED
  BY <1>1, <1>2, HcInvariant, PTL DEF HcSpec
=============================================================================
