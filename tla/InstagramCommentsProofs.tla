----------------------- MODULE InstagramCommentsProofs -----------------------
(***************************************************************************)
(* Comments, for any number of comments, deliveries, faults and pauses.    *)
(*                                                                         *)
(* AnsweredTwiceOnlyByRace needs that a comment somebody decided to answer *)
(* stays in the set until it is forgotten, and that as long as it has not  *)
(* come again one handler at most is on its way to the private message     *)
(* (OnePath).  AnswersAreRecorded needs what a handler has behind it at    *)
(* each place (Behind).  OpenTwiceOnlyByRace needs what a handler that is  *)
(* alone between find and save knows of the table (Alone).                 *)
(***************************************************************************)
EXTENDS InstagramComments, FiniteSetTheorems, TLAPS

\* The places from the decision to the private message, and to the end.
Past == Finding \cup {"inbound", "public", "private"}
Found == {"conversation", "close", "newConversation", "state", "newState",
          "inbound", "public", "private", "outbound"}
Unsaved == {"idle", "deciding", "customer", "newCustomer", "conversation", "close", "newConversation"}
Entered == {"close", "state", "newState", "inbound", "public", "private", "outbound"}
Clean == Comments \ (again \cup forgotten \cup unheard)

\* Who is past the decision has marked its comment; nobody else sends.
Marked ==
    /\ \A h \in Handlers : pc(h) \in Past \cup {"deciding", "outbound"} => of(h) \in Comments
    /\ \A h \in Handlers : pc(h) \in Past => of(h) \in taken
    /\ \A c \in Comments : c \notin taken => private[c] = 0
    /\ taken \subseteq processed \cup forgotten

\* A comment that came once, is still in the set, and whose message was heard of,
\* is on its way in one handler, or sent.
OnePath ==
    \A c \in Clean :
        /\ private[c] \in {0, 1}
        /\ \A g, h \in Handlers :
              pc(g) \in Past /\ of(g) = c =>
                  /\ private[c] = 0
                  /\ pc(h) \in Past /\ of(h) = c => g = h

\* What handler h has behind it at each place.
BehindOf(h) ==
    /\ pc(h) \in Unsaved => h \notin DOMAIN convs
    /\ pc(h) \in Found => Who(h) \in customers
    /\ pc(h) \in Entered => into(h) \in DOMAIN convs /\ convs[into(h)].person = Who(h)
    /\ pc(h) \in {"inbound", "public", "private", "outbound"} => convs[into(h)].state
    /\ pc(h) \in {"public", "private", "outbound"} => of(h) \in inbound

Behind == \A h \in Handlers : BehindOf(h)

\* Until two handlers meet, one at most is between find and save, and what it found
\* is still so.
OneFinding == \A g, h \in Handlers : pc(g) \in Finding /\ pc(h) \in Finding => g = h
OneOpen == \A p \in People : \A j, k \in OpenOf(p) : j = k
KnowsOpen(h) ==
    /\ pc(h) = "close" => OpenOf(Who(h)) \subseteq {into(h)}
    /\ pc(h) = "newConversation" => OpenOf(Who(h)) = {}

Alone == ~met => OneFinding /\ OneOpen /\ \A h \in Handlers : KnowsOpen(h)

CommentsInv == CommentsTypeOK /\ Marked /\ OnePath /\ Behind /\ AnswersAreRecorded /\ Alone

LEMMA CommentsInitially == Init => CommentsInv
<1> SUFFICES ASSUME Init PROVE CommentsInv
    OBVIOUS
<1> USE CommentsAssumption DEF CommentsAssumption, Init, NoCall, pc, of, into
<1>1. CommentsTypeOK
  <2>1. NoCall("idle") \in Call
    <3>1. 0 \in 0 .. MaxAttempts - 1
      OBVIOUS
    <3> QED BY <3>1 DEF Call
  <2>2. faults \in 0 .. MaxFaults /\ pauses \in 0 .. MaxPauses
    OBVIOUS
  <2> QED BY <2>1, <2>2 DEF CommentsTypeOK
<1>2. Marked
  BY DEF Marked, Past, Finding
<1>3. OnePath
  BY DEF OnePath, Past, Finding, Clean
<1>4. Behind
  BY DEF Behind, BehindOf, Found, Unsaved, Entered
<1>5. AnswersAreRecorded
  BY DEF AnswersAreRecorded
<1>6. Alone
  BY DEF Alone, OneFinding, OneOpen, KnowsOpen, Finding, OpenOf
<1> QED BY <1>1, <1>2, <1>3, <1>4, <1>5, <1>6 DEF CommentsInv

(***************************************************************************)
(* The types                                                               *)
(***************************************************************************)
\* What a handler's step makes of the call.
LEMMA CallTypes ==
    ASSUME CommentsTypeOK, NEW h \in Handlers
    PROVE  /\ call[h] \in Call
           /\ \A where \in Finding \cup Sends \cup {"deciding", "inbound", "outbound", "over"} :
                 Goes(h, where) => call' \in [Handlers -> Call]
           /\ \A where \in Finding : \A k \in Handlers \cup {None} :
                 Holding(h, where, k) => call' \in [Handlers -> Call]
           /\ pc(h) \in Sends /\ TriesAgain(h) => call' \in [Handlers -> Call]
<1> USE CommentsAssumption DEF CommentsAssumption, CommentsTypeOK
<1>1. call[h] \in Call
  OBVIOUS
<1>2. NoCall("over") \in Call
  BY DEF NoCall, Call
<1>3. \A where \in Finding \cup Sends \cup {"deciding", "inbound", "outbound", "over"} :
          Goes(h, where) => call' \in [Handlers -> Call]
  BY <1>1, <1>2 DEF Goes, Call
<1>4. \A where \in Finding : \A k \in Handlers \cup {None} :
          Holding(h, where, k) => call' \in [Handlers -> Call]
  <2> SUFFICES ASSUME NEW where \in Finding, NEW k \in Handlers \cup {None}, Holding(h, where, k)
               PROVE  call' \in [Handlers -> Call]
      OBVIOUS
  <2>1. [call[h] EXCEPT !.at = where] \in Call
    BY <1>1 DEF Call
  <2>2. [[call[h] EXCEPT !.at = where] EXCEPT !.into = k] \in Call
    BY <2>1 DEF Call
  <2> QED BY <2>2 DEF Holding
<1>5. ASSUME pc(h) \in Sends, TriesAgain(h)
      PROVE  call' \in [Handlers -> Call]
  <2>1. CASE call[h].failed + 1 < MaxAttempts
    <3>1. call[h].failed + 1 \in 0 .. MaxAttempts - 1
      BY <1>1, <2>1 DEF Call
    <3>2. [call[h] EXCEPT !.failed = @ + 1] \in Call
      BY <1>1, <3>1 DEF Call
    <3> QED BY <1>5, <2>1, <3>2 DEF TriesAgain
  <2>2. CASE ~(call[h].failed + 1 < MaxAttempts)
    <3>1. GiveUp(h)
      BY <1>5, <2>2 DEF TriesAgain
    <3>2. 0 \in 0 .. MaxAttempts - 1
      OBVIOUS
    <3>3. [call[h] EXCEPT !.at = "private", !.failed = 0] \in Call
      BY <1>1, <3>2 DEF Call, Sends
    <3> QED BY <3>1, <3>3, <1>3 DEF GiveUp
  <2> QED BY <2>1, <2>2
<1> QED BY <1>1, <1>3, <1>4, <1>5

\* What an update of a row, and a new row, make of the table.
ConvsOK(table) == DOMAIN table \subseteq Handlers /\ \A k \in DOMAIN table : table[k] \in ConvRow

LEMMA ConvTypes ==
    ASSUME CommentsTypeOK, NEW k
    PROVE  /\ ConvsOK([convs EXCEPT ![k].open = FALSE])
           /\ ConvsOK([convs EXCEPT ![k].state = TRUE])
           /\ ConvsOK([convs EXCEPT ![k].dated = "lately"])
<1>1. \A j \in DOMAIN convs :
          /\ [convs[j] EXCEPT !.open = FALSE] \in ConvRow
          /\ [convs[j] EXCEPT !.state = TRUE] \in ConvRow
          /\ [convs[j] EXCEPT !.dated = "lately"] \in ConvRow
  BY DEF CommentsTypeOK, ConvRow
<1>2. DOMAIN convs \subseteq Handlers /\ \A j \in DOMAIN convs : convs[j] \in ConvRow
  BY DEF CommentsTypeOK
<1>3. ConvsOK([convs EXCEPT ![k].open = FALSE])
  BY <1>1, <1>2 DEF ConvsOK
<1>4. ConvsOK([convs EXCEPT ![k].state = TRUE])
  BY <1>1, <1>2 DEF ConvsOK
<1>5. ConvsOK([convs EXCEPT ![k].dated = "lately"])
  BY <1>1, <1>2 DEF ConvsOK
<1> QED BY <1>3, <1>4, <1>5

LEMMA TypesKept ==
    ASSUME CommentsTypeOK, Marked, [Next]_vars
    PROVE  CommentsTypeOK'
<1> USE CommentsAssumption DEF CommentsAssumption, CommentsTypeOK, rowVars, sentVars, setVars, pc, of, into, Who
<1>1. ASSUME NEW h \in Handlers, NEW c \in Comments, Arrive(h, c)
      PROVE  CommentsTypeOK'
  <2>1. call[h] \in Call
    OBVIOUS
  <2>2. [[call[h] EXCEPT !.at = "deciding"] EXCEPT !.of = c] \in Call
    <3>1. [call[h] EXCEPT !.at = "deciding"] \in Call
      BY <2>1 DEF Call
    <3> QED BY <3>1 DEF Call
  <2>3. NoCall("over") \in Call
    BY CallTypes DEF NoCall, Call
  <2>4. call' \in [Handlers -> Call]
    BY <1>1, <2>2, <2>3 DEF Arrive
  <2> QED BY <1>1, <2>4 DEF Arrive
<1>2. ASSUME NEW h \in Handlers, Ignore(h) \/ Decide(h) \/ Handles(h)
             \/ StatementFails(h) \/ SendFails(h) \/ ResponseLost(h)
      PROVE  CommentsTypeOK'
  <2>1. call[h] \in Call
    OBVIOUS
  <2>a. pc(h) \in Past \cup {"deciding", "outbound"} => of(h) \in Comments /\ Who(h) \in People
    BY DEF Marked, People
  <2>2. CASE Ignore(h)
    BY <2>2, CallTypes DEF Ignore
  <2>3. CASE Decide(h)
    <3>1. of(h) \in Comments
      BY <2>3, <2>a DEF Decide
    <3>2. call' \in [Handlers -> Call]
      BY <2>3, CallTypes DEF Decide, Finding
    <3> QED BY <2>3, <3>1, <3>2 DEF Decide, Meets
  <2>4. CASE FindCustomer(h)
    BY <2>4, CallTypes DEF FindCustomer, Finding
  <2>5. CASE SaveCustomer(h)
    <3>1. Who(h) \in People
      BY <2>5, <2>a DEF SaveCustomer, Past, Finding
    <3>2. call' \in [Handlers -> Call]
      BY <2>5, CallTypes DEF SaveCustomer, Finding
    <3> QED BY <2>5, <3>1, <3>2 DEF SaveCustomer
  <2>6. CASE FindConversation(h)
    BY <2>6, CallTypes DEF FindConversation, Finding, OpenOf
  <2>7. CASE CloseConversation(h)
    <3>1. call' \in [Handlers -> Call]
      BY <2>7, CallTypes DEF CloseConversation, Finding
    <3> QED BY <2>7, <3>1, ConvTypes DEF CloseConversation, ConvsOK
  <2>8. CASE SaveConversation(h)
    <3>1. Who(h) \in People
      BY <2>8, <2>a DEF SaveConversation, Past, Finding
    <3>2. call' \in [Handlers -> Call]
      BY <2>8, CallTypes DEF SaveConversation, Finding
    <3>3. [person |-> Who(h), open |-> TRUE, state |-> FALSE, dated |-> "never"] \in ConvRow
      BY <3>1 DEF ConvRow
    <3>4. DOMAIN convs' \subseteq Handlers /\ \A k \in DOMAIN convs' : convs'[k] \in ConvRow
      BY <2>8, <3>3 DEF SaveConversation
    <3> QED BY <2>8, <3>2, <3>4 DEF SaveConversation
  <2>9. CASE FindState(h)
    BY <2>9, CallTypes DEF FindState, Finding
  <2>10. CASE SaveState(h)
    <3>1. call' \in [Handlers -> Call]
      BY <2>10, CallTypes DEF SaveState, Finding
    <3> QED BY <2>10, <3>1, ConvTypes DEF SaveState, ConvsOK
  <2>11. CASE SaveInbound(h)
    <3>1. of(h) \in Comments
      BY <2>11, <2>a DEF SaveInbound, Past
    <3>2. call' \in [Handlers -> Call]
      BY <2>11, CallTypes DEF SaveInbound, Sends
    <3> QED BY <2>11, <3>1, <3>2, ConvTypes DEF SaveInbound, Dated, ConvsOK
  <2>12. CASE Send(h)
    <3>1. [call[h] EXCEPT !.at = AfterSend(pc(h)), !.failed = 0] \in Call
      <4>1. 0 \in 0 .. MaxAttempts - 1 /\ AfterSend(pc(h)) \in {"private", "outbound"}
        BY DEF AfterSend
      <4> QED BY <2>1, <4>1 DEF Call, Sends
    <3>2. call' \in [Handlers -> Call]
      BY <2>12, <3>1 DEF Send
    <3>3. public' \in [Comments -> Nat] /\ private' \in [Comments -> Nat]
      BY <2>12, <2>a DEF Send, Posted, Past, Sends
    <3> QED BY <2>12, <3>2, <3>3 DEF Send
  <2>13. CASE SaveOutbound(h)
    <3>1. of(h) \in Comments
      BY <2>13, <2>a DEF SaveOutbound
    <3>2. call' \in [Handlers -> Call]
      BY <2>13, CallTypes DEF SaveOutbound
    <3> QED BY <2>13, <3>1, <3>2, ConvTypes DEF SaveOutbound, Dated, ConvsOK
  <2>14. CASE StatementFails(h)
    <3>1. call' \in [Handlers -> Call]
      BY <2>14, CallTypes DEF StatementFails
    <3>2. faults' \in 0 .. MaxFaults
      BY <2>14 DEF StatementFails, Fault
    <3>3. DOMAIN convs' \subseteq Handlers /\ \A k \in DOMAIN convs' : convs'[k] \in ConvRow
      BY <2>14, ConvTypes DEF StatementFails, Dated, ConvsOK
    <3> QED BY <2>14, <3>1, <3>2, <3>3 DEF StatementFails
  <2>15. CASE SendFails(h)
    BY <2>15, CallTypes DEF SendFails, Fault
  <2>16. CASE ResponseLost(h)
    <3>1. of(h) \in Comments
      BY <2>16, <2>a DEF ResponseLost, Past, Sends
    <3>2. call' \in [Handlers -> Call]
      BY <2>16, CallTypes DEF ResponseLost
    <3>3. public' \in [Comments -> Nat] /\ private' \in [Comments -> Nat]
      BY <2>16, <3>1 DEF ResponseLost, Posted
    <3>4. faults' \in 0 .. MaxFaults
      BY <2>16 DEF ResponseLost, Fault
    <3> QED BY <2>16, <3>1, <3>2, <3>3, <3>4 DEF ResponseLost
  <2> QED BY <1>2, <2>2, <2>3, <2>4, <2>5, <2>6, <2>7, <2>8, <2>9, <2>10, <2>11, <2>12,
             <2>13, <2>14, <2>15, <2>16 DEF Handles
<1>3. ASSUME NEW c \in Comments, Forget(c)
      PROVE  CommentsTypeOK'
  BY <1>3 DEF Forget
<1>4. CASE Crash
  <2>1. \A where \in {"idle", "over"} : NoCall(where) \in Call
    <3>1. 0 \in 0 .. MaxAttempts - 1
      OBVIOUS
    <3> QED BY <3>1 DEF NoCall, Call
  <2>2. call' \in [Handlers -> Call]
    BY <1>4, <2>1 DEF Crash
  <2>3. faults' \in 0 .. MaxFaults
    BY <1>4 DEF Crash, Fault
  <2> QED BY <1>4, <2>2, <2>3 DEF Crash
<1>5. CASE Pause
  <2>1. \A k \in DOMAIN convs :
            [convs[k] EXCEPT !.dated = IF @ = "lately" THEN "long ago" ELSE @] \in ConvRow
    BY DEF ConvRow
  <2>2. DOMAIN convs' = DOMAIN convs /\ \A k \in DOMAIN convs' : convs'[k] \in ConvRow
    BY <1>5, <2>1 DEF Pause
  <2>3. pauses' \in 0 .. MaxPauses
    <3>1. pauses < MaxPauses /\ pauses' = pauses + 1
      BY <1>5 DEF Pause
    <3>2. pauses \in 0 .. MaxPauses /\ MaxPauses \in Nat
      OBVIOUS
    <3> QED BY ONLY <3>1, <3>2
  <2> QED BY <1>5, <2>2, <2>3 DEF Pause
<1>6. CASE UNCHANGED vars
  BY <1>6 DEF vars
<1> QED BY <1>1, <1>2, <1>3, <1>4, <1>5, <1>6 DEF Next

(***************************************************************************)
(* The path of one comment                                                 *)
(***************************************************************************)
\* Every step of a handler but the first two: its comment stays, or it is over.
Steps(h) == Ignore(h) \/ Handles(h) \/ StatementFails(h) \/ SendFails(h) \/ ResponseLost(h)

LEMMA StepsKeep ==
    ASSUME CommentsTypeOK, NEW h \in Handlers, Steps(h)
    PROVE  /\ call' \in [Handlers -> Call]
           /\ \A g \in Handlers \ {h} : call'[g] = call[g]
           /\ \/ pc(h)' = "over"
              \/ /\ of(h)' = of(h) /\ pc(h) \in Past /\ pc(h)' \in Past \cup {"outbound"}
                 /\ pc(h)' = "outbound" => pc(h) = "private"
                 /\ pc(h) \in Finding \/ pc(h)' \notin Finding
           /\ UNCHANGED <<processed, taken, again, forgotten>>
           /\ unheard \subseteq unheard'
           /\ \/ private' = private
              \/ /\ pc(h) = "private" /\ private' = [private EXCEPT ![of(h)] = @ + 1]
                 /\ pc(h)' = "outbound" \/ of(h) \in unheard'
<1> USE DEF CommentsTypeOK, rowVars, sentVars, setVars, pc, of, into, Who, Past, Finding, Sends, NoCall
<1>1. call[h] \in Call
  OBVIOUS
<1>2. CASE Ignore(h) \/ FindCustomer(h) \/ SaveCustomer(h) \/ FindState(h) \/ SaveState(h)
           \/ SaveInbound(h) \/ SaveOutbound(h) \/ StatementFails(h)
  <2>1. ASSUME NEW where \in Finding \cup {"inbound", "public", "over"}, Goes(h, where)
        PROVE  /\ call' \in [Handlers -> Call] /\ call'[h].at = where
               /\ where # "over" => of(h)' = of(h)
               /\ \A g \in Handlers \ {h} : call'[g] = call[g]
    <3>1. /\ call'[h] = IF where = "over" THEN NoCall("over") ELSE [call[h] EXCEPT !.at = where]
          /\ \A g \in Handlers \ {h} : call'[g] = call[g]
      BY <2>1 DEF Goes
    <3>2. call' \in [Handlers -> Call]
      BY <2>1, CallTypes DEF Goes
    <3>3. where # "over" => call'[h].at = where /\ call'[h].of = call[h].of
      BY <3>1, <1>1 DEF Call
    <3> QED BY <3>1, <3>2, <3>3
  <2>2. CASE Ignore(h) \/ StatementFails(h) \/ SaveOutbound(h)
    BY <2>1, <2>2 DEF Ignore, StatementFails, SaveOutbound
  <2>3. CASE FindCustomer(h) \/ SaveCustomer(h)
    BY <2>1, <2>3 DEF FindCustomer, SaveCustomer
  <2>4. CASE FindState(h) \/ SaveState(h) \/ SaveInbound(h)
    BY <2>1, <2>4 DEF FindState, SaveState, SaveInbound
  <2> QED BY <1>2, <2>2, <2>3, <2>4
<1>3. CASE FindConversation(h) \/ CloseConversation(h) \/ SaveConversation(h)
  <2>1. ASSUME NEW where \in Finding, NEW k \in Handlers \cup {None}, Holding(h, where, k)
        PROVE  /\ call' \in [Handlers -> Call] /\ call'[h].at = where /\ of(h)' = of(h)
               /\ \A g \in Handlers \ {h} : call'[g] = call[g]
    <3>1. /\ call'[h] = [call[h] EXCEPT !.at = where, !.into = k]
          /\ \A g \in Handlers \ {h} : call'[g] = call[g]
      BY <2>1 DEF Holding
    <3>2. call' \in [Handlers -> Call]
      BY <2>1, CallTypes
    <3>3. call'[h].at = where /\ call'[h].of = call[h].of
      BY <3>1, <1>1 DEF Call
    <3> QED BY <3>1, <3>2, <3>3
  <2>2. CASE FindConversation(h)
    <3>1. CASE Goes(h, "newConversation")
      <4>1. /\ call'[h] = [call[h] EXCEPT !.at = "newConversation"]
            /\ \A g \in Handlers \ {h} : call'[g] = call[g]
        BY <3>1 DEF Goes
      <4>2. call' \in [Handlers -> Call]
        BY <3>1, CallTypes
      <4>3. call'[h].at = "newConversation" /\ call'[h].of = call[h].of
        BY <4>1, <1>1 DEF Call
      <4> QED BY <2>2, <4>1, <4>2, <4>3 DEF FindConversation
    <3>2. CASE \E k \in OpenOf(Who(h)) : Holding(h, IF convs[k].dated = "long ago" THEN "close" ELSE "state", k)
      BY <2>1, <2>2, <3>2 DEF FindConversation, OpenOf
    <3> QED BY <2>2, <3>1, <3>2 DEF FindConversation
  <2>3. CASE CloseConversation(h)
    BY <2>1, <2>3 DEF CloseConversation
  <2>4. CASE SaveConversation(h)
    BY <2>1, <2>4 DEF SaveConversation
  <2> QED BY <1>3, <2>2, <2>3, <2>4
<1>4. CASE Send(h)
  <2>1. /\ call'[h].at = AfterSend(pc(h)) /\ call'[h].of = call[h].of
        /\ \A g \in Handlers \ {h} : call'[g] = call[g]
    BY <1>1, <1>4 DEF Send
  <2>2. call' \in [Handlers -> Call]
    <3>1. 0 \in 0 .. MaxAttempts - 1 /\ AfterSend(pc(h)) \in {"private", "outbound"}
      BY CommentsAssumption DEF CommentsAssumption, AfterSend
    <3>2. [call[h] EXCEPT !.at = AfterSend(pc(h)), !.failed = 0] \in Call
      BY <1>1, <3>1 DEF Call
    <3> QED BY <1>4, <3>2 DEF Send
  <2> QED BY <1>4, <2>1, <2>2 DEF Send, Posted, AfterSend
<1>5. CASE SendFails(h) \/ ResponseLost(h)
  <2>1. TriesAgain(h) /\ pc(h) \in Sends
    BY <1>5 DEF SendFails, ResponseLost
  <2>2. call' \in [Handlers -> Call] /\ \A g \in Handlers \ {h} : call'[g] = call[g]
    BY <2>1, CallTypes DEF TriesAgain, GiveUp, Goes
  <2>3. call'[h].at = "over" \/ (call'[h].at \in Sends /\ call'[h].of = call[h].of)
    <3>1. \/ call'[h] = NoCall("over")
          \/ call'[h] = [call[h] EXCEPT !.failed = @ + 1]
          \/ call'[h] = [call[h] EXCEPT !.at = "private", !.failed = 0]
      BY <2>1 DEF TriesAgain, GiveUp, Goes
    <3>2. CASE call'[h] = NoCall("over")
      BY <3>2
    <3>3. CASE call'[h] = [call[h] EXCEPT !.failed = @ + 1]
      BY <3>3, <1>1, <2>1 DEF Call
    <3>4. CASE call'[h] = [call[h] EXCEPT !.at = "private", !.failed = 0]
      BY <3>4, <1>1 DEF Call
    <3> QED BY <3>1, <3>2, <3>3, <3>4
  <2> QED BY <1>5, <2>1, <2>2, <2>3 DEF SendFails, ResponseLost, Posted
<1> QED BY <1>2, <1>3, <1>4, <1>5 DEF Steps, Handles

LEMMA PathKept ==
    ASSUME CommentsTypeOK, Marked, OnePath, [Next]_vars
    PROVE  Marked' /\ OnePath'
<1> USE DEF CommentsTypeOK, Marked, OnePath, pc, of, Past, Finding, Clean
<1>1. ASSUME NEW h \in Handlers, NEW c \in Comments, Arrive(h, c)
      PROVE  Marked' /\ OnePath'
  <2>1. /\ \A g \in Handlers \ {h} : call'[g] = call[g]
        /\ call'[h].at = "over" \/ (call'[h].at = "deciding" /\ call'[h].of = c)
    BY <1>1 DEF Arrive, NoCall
  <2>2. Marked'
    BY <1>1, <2>1 DEF Arrive, setVars, sentVars
  <2>3. OnePath'
    BY <1>1, <2>1 DEF Arrive, setVars, sentVars
  <2> QED BY <2>2, <2>3
<1>2. ASSUME NEW h \in Handlers, Steps(h)
      PROVE  Marked' /\ OnePath'
  <2>1. Marked'
    BY <1>2, StepsKeep
  <2>2. OnePath'
    BY <1>2, StepsKeep
  <2> QED BY <2>1, <2>2
<1>3. ASSUME NEW h \in Handlers, Decide(h)
      PROVE  Marked' /\ OnePath'
  <2>1. /\ \A g \in Handlers \ {h} : call'[g] = call[g]
        /\ call'[h].at = "customer" /\ call'[h].of = call[h].of
    BY <1>3 DEF Decide, Goes
  <2>2. Marked'
    BY <1>3, <2>1 DEF Decide, sentVars
  <2>3. OnePath'
    BY <1>3, <2>1 DEF Decide, sentVars
  <2> QED BY <2>2, <2>3
<1>4. ASSUME NEW c \in Comments, Forget(c)
      PROVE  Marked' /\ OnePath'
  BY <1>4 DEF Forget, sentVars
<1>5. CASE Crash
  BY <1>5 DEF Crash, NoCall, sentVars
<1>6. CASE Pause \/ UNCHANGED vars
  <2>1. UNCHANGED <<call, processed, taken, again, forgotten, private, unheard>>
    BY <1>6 DEF Pause, vars, setVars, sentVars
  <2> QED BY <2>1
<1> QED BY <1>1, <1>2, <1>3, <1>4, <1>5, <1>6 DEF Next, Steps

(***************************************************************************)
(* What is in the tables                                                   *)
(***************************************************************************)
\* Rows stay, with their customer and their state; h alone may add its own.
RowsGrow(h) ==
    /\ customers \subseteq customers' /\ inbound \subseteq inbound'
    /\ DOMAIN convs \subseteq DOMAIN convs' /\ DOMAIN convs' \subseteq DOMAIN convs \cup {h}
    /\ \A k \in DOMAIN convs :
          convs'[k].person = convs[k].person /\ (convs[k].state => convs'[k].state)

LEMMA StepsGrow ==
    ASSUME CommentsTypeOK, Behind, NEW h \in Handlers, Steps(h)
    PROVE  RowsGrow(h)
<1> USE DEF RowsGrow, CommentsTypeOK, rowVars
<1>1. \A k \in DOMAIN convs : convs[k] \in ConvRow
  OBVIOUS
<1>2. CASE Ignore(h) \/ FindCustomer(h) \/ SaveCustomer(h) \/ FindConversation(h) \/ FindState(h)
           \/ Send(h) \/ SendFails(h) \/ ResponseLost(h)
  BY <1>2 DEF Ignore, FindCustomer, SaveCustomer, FindConversation, FindState, Send, SendFails, ResponseLost
<1>3. CASE CloseConversation(h)
  BY <1>1, <1>3 DEF CloseConversation, ConvRow
<1>4. CASE SaveConversation(h)
  <2>1. h \notin DOMAIN convs
    BY <1>4 DEF Behind, BehindOf, SaveConversation, Unsaved
  <2> QED BY <1>4, <2>1 DEF SaveConversation
<1>5. CASE SaveState(h)
  BY <1>1, <1>5 DEF SaveState, ConvRow
<1>6. CASE SaveInbound(h) \/ SaveOutbound(h) \/ StatementFails(h)
  <2>1. /\ DOMAIN Dated(h) = DOMAIN convs
        /\ \A k \in DOMAIN convs : Dated(h)[k].person = convs[k].person /\ Dated(h)[k].state = convs[k].state
    BY <1>1 DEF Dated, ConvRow
  <2>2. convs' = convs \/ convs' = Dated(h)
    BY <1>6 DEF SaveInbound, SaveOutbound, StatementFails
  <2> QED BY <1>6, <2>1, <2>2 DEF SaveInbound, SaveOutbound, StatementFails
<1> QED BY <1>2, <1>3, <1>4, <1>5, <1>6 DEF Steps, Handles

\* What a handler that goes on takes with it.
LEMMA GoesOn ==
    ASSUME CommentsTypeOK, NEW h \in Handlers
    PROVE  /\ \A where \in Finding \cup Sends \cup {"inbound", "outbound"} :
                 Goes(h, where) => call'[h].at = where /\ call'[h].of = call[h].of /\ call'[h].into = call[h].into
           /\ Goes(h, "over") => call'[h].at = "over"
           /\ \A where, k : Holding(h, where, k) =>
                 call'[h].at = where /\ call'[h].of = call[h].of /\ call'[h].into = k
<1>1. call[h] \in Call /\ h \in DOMAIN call
  BY DEF CommentsTypeOK
<1>2. ASSUME NEW where \in Finding \cup Sends \cup {"inbound", "outbound"}, Goes(h, where)
      PROVE  call'[h].at = where /\ call'[h].of = call[h].of /\ call'[h].into = call[h].into
  <2>1. where # "over"
    BY DEF Finding, Sends
  <2>2. call'[h] = [call[h] EXCEPT !.at = where]
    BY <1>1, <1>2, <2>1 DEF Goes
  <2> QED BY <1>1, <2>2 DEF Call
<1>3. Goes(h, "over") => call'[h].at = "over"
  BY <1>1 DEF Goes, NoCall
<1>4. ASSUME NEW where, NEW k, Holding(h, where, k)
      PROVE  call'[h].at = where /\ call'[h].of = call[h].of /\ call'[h].into = k
  <2>1. call'[h] = [call[h] EXCEPT !.at = where, !.into = k]
    BY <1>1, <1>4 DEF Holding
  <2> QED BY <1>1, <2>1 DEF Call
<1> QED BY <1>2, <1>3, <1>4

LEMMA OwnKept ==
    ASSUME CommentsTypeOK, Marked, Behind, NEW h \in Handlers, Steps(h)
    PROVE  BehindOf(h)'
<1>0. BehindOf(h) /\ RowsGrow(h)
  BY StepsGrow DEF Behind
<1> USE <1>0 DEF BehindOf, RowsGrow, pc, of, into, Who, Unsaved, Found, Entered
<1>1. CASE Goes(h, "over")
  BY <1>1, GoesOn
<1>2. CASE FindCustomer(h) \/ SaveCustomer(h)
  BY <1>1, <1>2, GoesOn DEF FindCustomer, SaveCustomer, Finding, rowVars
<1>3. CASE FindConversation(h)
  <2>1. CASE Goes(h, "newConversation")
    <3>1. call'[h].at = "newConversation" /\ call'[h].of = call[h].of
      BY <2>1, GoesOn DEF Finding
    <3> QED BY <1>3, <3>1 DEF FindConversation, rowVars
  <2>2. ASSUME NEW k \in OpenOf(Who(h)), Holding(h, IF convs[k].dated = "long ago" THEN "close" ELSE "state", k)
        PROVE  BehindOf(h)'
    <3>1. call'[h].at \in {"close", "state"} /\ call'[h].of = call[h].of /\ call'[h].into = k
      <4>1. CASE convs[k].dated = "long ago"
        <5>1. Holding(h, "close", k)
          BY <2>2, <4>1
        <5> QED BY <5>1, GoesOn
      <4>2. CASE convs[k].dated # "long ago"
        <5>1. Holding(h, "state", k)
          BY <2>2, <4>2
        <5> QED BY <5>1, GoesOn
      <4> QED BY <4>1, <4>2
    <3>2. k \in DOMAIN convs /\ convs[k].person = Who(h)
      BY DEF OpenOf
    <3>3. h \notin DOMAIN convs /\ Who(h) \in customers /\ UNCHANGED <<convs, customers>>
      BY <1>3 DEF FindConversation, rowVars
    <3> QED BY <3>1, <3>2, <3>3
  <2> QED BY <1>3, <2>1, <2>2 DEF FindConversation
<1>4. CASE CloseConversation(h)
  BY <1>4, GoesOn DEF CloseConversation
<1>5. CASE SaveConversation(h)
  BY <1>5, GoesOn DEF SaveConversation
<1>6. CASE FindState(h) \/ SaveState(h)
  <2>1. CASE Goes(h, "newState")
    BY <1>6, <2>1, GoesOn DEF FindState, SaveState, Finding, rowVars
  <2>2. CASE Goes(h, "inbound")
    <3>1. call'[h].at = "inbound" /\ call'[h].of = call[h].of /\ call'[h].into = call[h].into
      BY <2>2, GoesOn
    <3>2. into(h) \in DOMAIN convs /\ convs[into(h)] \in ConvRow
      BY <1>6 DEF FindState, SaveState, CommentsTypeOK
    <3>3. CASE FindState(h)
      <4>1. convs[into(h)].state
        BY <3>1, <3>3 DEF FindState, Goes, CommentsTypeOK, Call
      <4> QED BY <3>1, <3>3, <4>1 DEF FindState, rowVars
    <3>4. CASE SaveState(h)
      <4>1. convs'[into(h)].state
        BY <3>2, <3>4 DEF SaveState, ConvRow
      <4> QED BY <3>1, <3>4, <4>1 DEF SaveState
    <3> QED BY <1>6, <3>3, <3>4
  <2> QED BY <1>1, <1>6, <2>1, <2>2 DEF FindState, SaveState
<1>7. CASE SaveInbound(h)
  BY <1>1, <1>7, GoesOn DEF SaveInbound, Dated, Sends
<1>8. CASE Send(h)
  <2>1. call'[h] = [call[h] EXCEPT !.at = AfterSend(pc(h)), !.failed = 0]
    BY <1>8 DEF Send, CommentsTypeOK
  <2>2. call'[h].at = AfterSend(pc(h)) /\ call'[h].of = call[h].of /\ call'[h].into = call[h].into
    BY <2>1 DEF CommentsTypeOK, Call
  <2> QED BY <1>8, <2>2 DEF Send, Sends, AfterSend, rowVars
<1>9. CASE SendFails(h) \/ ResponseLost(h)
  <2>1. TriesAgain(h) /\ pc(h) \in Sends /\ UNCHANGED rowVars
    BY <1>9 DEF SendFails, ResponseLost
  <2>2. CASE call'[h] = [call[h] EXCEPT !.failed = @ + 1] \/ call'[h] = [call[h] EXCEPT !.at = "private", !.failed = 0]
    <3>1. call'[h].at \in Sends /\ call'[h].of = call[h].of /\ call'[h].into = call[h].into
      <4>1. CASE call'[h] = [call[h] EXCEPT !.failed = @ + 1]
        BY <4>1, <2>1 DEF CommentsTypeOK, Call
      <4>2. CASE call'[h] = [call[h] EXCEPT !.at = "private", !.failed = 0]
        BY <4>2 DEF CommentsTypeOK, Call, Sends
      <4> QED BY <2>2, <4>1, <4>2
    <3> QED BY <2>1, <3>1 DEF Sends, rowVars
  <2> QED BY <1>1, <2>1, <2>2 DEF TriesAgain, GiveUp, CommentsTypeOK
<1> QED BY <1>1, <1>2, <1>3, <1>4, <1>5, <1>6, <1>7, <1>8, <1>9
        DEF Steps, Handles, Ignore, StatementFails, SaveOutbound

LEMMA RecordsKept ==
    ASSUME CommentsTypeOK, Marked, Behind, AnswersAreRecorded, [Next]_vars
    PROVE  Behind' /\ AnswersAreRecorded'
<1> USE DEF Behind, AnswersAreRecorded, pc, of, into, Who
<1>1. ASSUME NEW h \in Handlers, Steps(h)
      PROVE  Behind' /\ AnswersAreRecorded'
  <2>1. RowsGrow(h) /\ BehindOf(h)' /\ \A g \in Handlers \ {h} : call'[g] = call[g]
    BY <1>1, StepsGrow, OwnKept, StepsKeep
  <2>2. ASSUME NEW g \in Handlers, g # h
        PROVE  BehindOf(g)'
    BY <2>1, <2>2 DEF RowsGrow, BehindOf, Entered
  <2>3. \/ UNCHANGED <<public, private>>
        \/ /\ pc(h) \in Sends
           /\ \A c \in Comments \ {of(h)} : public'[c] = public[c] /\ private'[c] = private[c]
    BY <1>1 DEF Steps, Handles, Ignore, FindCustomer, SaveCustomer, FindConversation, CloseConversation,
            SaveConversation, FindState, SaveState, SaveInbound, Send, SaveOutbound, StatementFails,
            SendFails, ResponseLost, Posted, sentVars, CommentsTypeOK
  <2>4. ASSUME NEW c \in Comments, public'[c] + private'[c] > 0
        PROVE  /\ c \in inbound' /\ Author[c] \in customers'
               /\ \E k \in DOMAIN convs' : convs'[k].person = Author[c] /\ convs'[k].state
    <3>1. CASE public'[c] = public[c] /\ private'[c] = private[c]
      BY <2>1, <2>4, <3>1 DEF RowsGrow
    <3>2. CASE pc(h) \in Sends /\ c = of(h)
      BY <2>1, <3>2 DEF RowsGrow, BehindOf, Sends, Found, Entered
    <3> QED BY <2>3, <3>1, <3>2
  <2> QED BY <2>1, <2>2, <2>4
<1>2. ASSUME NEW h \in Handlers, NEW c \in Comments, Arrive(h, c)
      PROVE  Behind' /\ AnswersAreRecorded'
  <2>1. /\ \A g \in Handlers \ {h} : call'[g] = call[g]
        /\ call'[h].at \in {"over", "deciding"}
    BY <1>2 DEF Arrive, NoCall, CommentsTypeOK, Call
  <2> QED BY <1>2, <2>1 DEF Arrive, rowVars, sentVars, BehindOf, Unsaved, Found, Entered
<1>3. ASSUME NEW h \in Handlers, Decide(h)
      PROVE  Behind' /\ AnswersAreRecorded'
  <2>1. /\ \A g \in Handlers \ {h} : call'[g] = call[g]
        /\ call'[h].at = "customer"
    BY <1>3, GoesOn DEF Decide, Goes, Finding, CommentsTypeOK
  <2> QED BY <1>3, <2>1 DEF Decide, rowVars, sentVars, BehindOf, Unsaved, Found, Entered
<1>4. ASSUME NEW c \in Comments, Forget(c)
      PROVE  Behind' /\ AnswersAreRecorded'
  BY <1>4 DEF Forget, rowVars, sentVars, BehindOf
<1>5. CASE Crash
  BY <1>5 DEF Crash, NoCall, rowVars, sentVars, BehindOf, Unsaved, Found, Entered, CommentsTypeOK
<1>6. CASE Pause
  <2>1. /\ DOMAIN convs' = DOMAIN convs
        /\ \A k \in DOMAIN convs : convs'[k].person = convs[k].person /\ convs'[k].state = convs[k].state
    <3>1. ASSUME NEW k \in DOMAIN convs
          PROVE  convs'[k].person = convs[k].person /\ convs'[k].state = convs[k].state
      <4>1. convs'[k] = [convs[k] EXCEPT !.dated = IF @ = "lately" THEN "long ago" ELSE @]
        BY <1>6 DEF Pause
      <4>2. convs[k] \in ConvRow
        BY DEF CommentsTypeOK
      <4> QED BY <4>1, <4>2 DEF ConvRow
    <3> QED BY <1>6, <3>1 DEF Pause
  <2>2. UNCHANGED <<call, customers, inbound, public, private>>
    BY <1>6 DEF Pause, sentVars
  <2>3. Behind'
    BY <2>1, <2>2 DEF BehindOf, Entered
  <2>4. AnswersAreRecorded'
    BY <2>1, <2>2
  <2> QED BY <2>3, <2>4
<1>7. CASE UNCHANGED vars
  BY <1>7 DEF vars, rowVars, sentVars, BehindOf
<1> QED BY <1>1, <1>2, <1>3, <1>4, <1>5, <1>6, <1>7 DEF Next, Steps

(***************************************************************************)
(* The open conversations                                                  *)
(***************************************************************************)
\* Which rows are open, and whose they are, is as before.
SameOpen == \A p : OpenOf(p)' = OpenOf(p)

LEMMA OthersLeaveOpen ==
    ASSUME CommentsTypeOK, NEW h \in Handlers, Steps(h),
           pc(h) \notin {"close", "newConversation"} \/ pc(h)' = "over"
    PROVE  SameOpen
<1>1. \A k \in DOMAIN convs : convs[k] \in ConvRow
  BY DEF CommentsTypeOK
<1>2. UNCHANGED convs \/ convs' = Dated(h) \/ SaveState(h)
  <2>1. ASSUME CloseConversation(h) \/ SaveConversation(h)
        PROVE  FALSE
    BY <2>1, GoesOn DEF CloseConversation, SaveConversation, Finding, pc
  <2> QED BY <2>1 DEF Steps, Handles, Ignore, FindCustomer, SaveCustomer, FindConversation, FindState,
                      SaveInbound, SaveOutbound, Send, StatementFails, SendFails, ResponseLost, rowVars
<1>3. ASSUME DOMAIN convs' = DOMAIN convs,
             \A k \in DOMAIN convs : convs'[k].person = convs[k].person /\ convs'[k].open = convs[k].open
      PROVE  SameOpen
  BY <1>3 DEF SameOpen, OpenOf
<1>4. CASE UNCHANGED convs
  BY <1>3, <1>4
<1>5. CASE convs' = Dated(h)
  BY <1>1, <1>3, <1>5 DEF Dated, ConvRow
<1>6. CASE SaveState(h)
  BY <1>1, <1>3, <1>6 DEF SaveState, ConvRow
<1> QED BY <1>2, <1>4, <1>5, <1>6

\* Who neither finds, closes nor saves a conversation does not get to these places,
\* nor leaves them but to fail.
LEMMA PlainStep ==
    ASSUME CommentsTypeOK, NEW h \in Handlers, Steps(h),
           ~(FindConversation(h) \/ CloseConversation(h) \/ SaveConversation(h))
    PROVE  /\ pc(h)' \notin {"close", "newConversation"}
           /\ pc(h) \notin {"close", "newConversation"} \/ pc(h)' = "over"
<1> USE DEF pc
<1>1. CASE FindCustomer(h) \/ SaveCustomer(h)
  <2>1. Goes(h, "over") \/ Goes(h, "conversation") \/ Goes(h, "newCustomer")
    BY <1>1 DEF FindCustomer, SaveCustomer
  <2>2. call'[h].at \in {"over", "conversation", "newCustomer"}
    BY <2>1, GoesOn DEF Finding
  <2> QED BY <1>1, <2>2 DEF FindCustomer, SaveCustomer
<1>2. CASE FindState(h) \/ SaveState(h) \/ SaveInbound(h)
  <2>1. Goes(h, "over") \/ Goes(h, "newState") \/ Goes(h, "inbound") \/ Goes(h, "public")
    BY <1>2 DEF FindState, SaveState, SaveInbound
  <2>2. call'[h].at \in {"over", "newState", "inbound", "public"}
    BY <2>1, GoesOn DEF Finding, Sends
  <2> QED BY <1>2, <2>2 DEF FindState, SaveState, SaveInbound
<1>3. CASE Ignore(h) \/ StatementFails(h) \/ SaveOutbound(h)
  BY <1>3, GoesOn DEF Ignore, StatementFails, SaveOutbound
<1>4. CASE Send(h) \/ SendFails(h) \/ ResponseLost(h)
  <2>1. pc(h) \in Sends
    BY <1>4 DEF Send, SendFails, ResponseLost
  <2>2. pc(h)' \in Sends \cup {"inbound", "outbound", "over"}
    BY <2>1, StepsKeep DEF Sends, Past, Finding
  <2> QED BY <2>1, <2>2 DEF Sends
<1> QED BY <1>1, <1>2, <1>3, <1>4 DEF Steps, Handles

LEMMA AloneKept ==
    ASSUME CommentsTypeOK, Marked, Behind, Alone, [Next]_vars
    PROVE  Alone'
<1> SUFFICES ASSUME ~met'
             PROVE  OneFinding' /\ OneOpen' /\ \A h \in Handlers : KnowsOpen(h)'
    BY DEF Alone
<1>0. ~met /\ OneFinding /\ OneOpen /\ \A h \in Handlers : KnowsOpen(h)
  <2>1. ~met
    BY DEF Next, Arrive, Ignore, Decide, Meets, Handles, FindCustomer, SaveCustomer, FindConversation,
           CloseConversation, SaveConversation, FindState, SaveState, SaveInbound, Send, SaveOutbound,
           StatementFails, SendFails, ResponseLost, Forget, Crash, Pause, vars
  <2> QED BY <2>1 DEF Alone
\* Who does not look for a conversation, or is over, changes nothing of this.
<1>1. ASSUME NEW h \in Handlers, SameOpen, \A g \in Handlers \ {h} : call'[g] = call[g],
             pc(h)' \in Finding => pc(h) \in Finding, pc(h)' \notin {"close", "newConversation"}
      PROVE  OneFinding' /\ OneOpen' /\ \A g \in Handlers : KnowsOpen(g)'
  <2>1. OneFinding'
    BY <1>0, <1>1 DEF OneFinding, pc
  <2>2. OneOpen'
    BY <1>0, <1>1 DEF OneOpen, SameOpen
  <2>3. ASSUME NEW g \in Handlers
        PROVE  KnowsOpen(g)'
    <3>1. CASE g = h
      BY <1>1, <3>1 DEF KnowsOpen
    <3>2. CASE g # h
      <4>1. pc(g)' = pc(g) /\ of(g)' = of(g) /\ into(g)' = into(g)
        BY <1>1, <3>2 DEF pc, of, into
      <4>2. OpenOf(Who(g))' = OpenOf(Who(g))
        BY <1>1, <4>1 DEF SameOpen, OpenOf, Who
      <4> QED BY <1>0, <4>1, <4>2 DEF KnowsOpen
    <3> QED BY <3>1, <3>2
  <2> QED BY <2>1, <2>2, <2>3
<1>2. ASSUME NEW h \in Handlers, Steps(h)
      PROVE  OneFinding' /\ OneOpen' /\ \A g \in Handlers : KnowsOpen(g)'
  <2>1. /\ \A g \in Handlers \ {h} : call'[g] = call[g]
        /\ pc(h)' \in Finding => pc(h) \in Finding
    BY <1>2, StepsKeep DEF Finding
  <2>2. OneFinding'
    BY <1>0, <2>1 DEF OneFinding, pc
  \* While h looks for a conversation nobody else does.
  <2>3. ASSUME pc(h) \in Finding
        PROVE  \A g \in Handlers \ {h} : KnowsOpen(g)'
    BY <1>0, <2>1, <2>3 DEF OneFinding, KnowsOpen, pc, Finding
  <2>4. CASE FindConversation(h)
    <3>1. SameOpen
      BY <2>4 DEF FindConversation, rowVars, SameOpen, OpenOf
    <3>2. OneOpen'
      BY <1>0, <3>1 DEF OneOpen, SameOpen
    <3>3. KnowsOpen(h)'
      <4>1. CASE OpenOf(Who(h)) = {} /\ Goes(h, "newConversation")
        <5>1. pc(h)' = "newConversation" /\ Who(h)' = Who(h)
          BY <4>1, GoesOn DEF Finding, pc, Who, of
        <5>2. OpenOf(Who(h))' = OpenOf(Who(h))
          BY <3>1, <5>1 DEF SameOpen, OpenOf
        <5> QED BY <4>1, <5>1, <5>2 DEF KnowsOpen
      <4>2. ASSUME NEW k \in OpenOf(Who(h)),
                   Holding(h, IF convs[k].dated = "long ago" THEN "close" ELSE "state", k)
            PROVE  KnowsOpen(h)'
        <5>1. pc(h)' \in {"close", "state"} /\ Who(h)' = Who(h) /\ into(h)' = k
          <6>1. CASE convs[k].dated = "long ago"
            BY <4>2, <6>1, GoesOn DEF pc, Who, of, into
          <6>2. CASE convs[k].dated # "long ago"
            BY <4>2, <6>2, GoesOn DEF pc, Who, of, into
          <6> QED BY <6>1, <6>2
        <5>2. OpenOf(Who(h))' = OpenOf(Who(h))
          BY <3>1, <5>1 DEF SameOpen, OpenOf
        <5>3. Who(h) \in People
          BY <2>4 DEF FindConversation, Marked, Past, Finding, Who, People
        <5>4. OpenOf(Who(h)) \subseteq {k}
          BY <1>0, <5>3 DEF OneOpen
        <5> QED BY <5>1, <5>2, <5>4 DEF KnowsOpen
      <4> QED BY <2>4, <4>1, <4>2 DEF FindConversation
    <3> QED BY <2>2, <2>3, <2>4, <3>2, <3>3 DEF FindConversation, Finding
  <2>5. CASE CloseConversation(h)
    <3>1. pc(h) = "close" /\ pc(h)' = "newConversation" /\ Who(h)' = Who(h)
      BY <2>5, GoesOn DEF CloseConversation, Finding, pc, Who, of
    <3>2. into(h) \in DOMAIN convs /\ convs[into(h)] \in ConvRow
      BY <3>1 DEF Behind, BehindOf, Entered, CommentsTypeOK
    <3>3. \A p : OpenOf(p)' = OpenOf(p) \ {into(h)}
      BY <2>5, <3>2 DEF CloseConversation, OpenOf, ConvRow
    <3>4. OneOpen'
      BY <1>0, <3>3 DEF OneOpen
    <3>5. OpenOf(Who(h))' = OpenOf(Who(h)) \ {into(h)}
      BY <3>1, <3>3 DEF OpenOf
    <3>6. KnowsOpen(h)'
      BY <1>0, <3>1, <3>5 DEF KnowsOpen
    <3> QED BY <2>2, <2>3, <3>1, <3>4, <3>6 DEF Finding
  <2>6. CASE SaveConversation(h)
    <3>1. pc(h) = "newConversation" /\ pc(h)' = "state"
      BY <2>6, GoesOn DEF SaveConversation, Finding, pc
    <3>2. h \notin DOMAIN convs /\ OpenOf(Who(h)) = {}
      BY <1>0, <3>1 DEF Behind, BehindOf, Unsaved, KnowsOpen
    <3>3. \A p : OpenOf(p)' = IF p = Who(h) THEN OpenOf(p) \cup {h} ELSE OpenOf(p)
      BY <2>6, <3>2 DEF SaveConversation, OpenOf
    <3>4. OneOpen'
      BY <1>0, <3>2, <3>3 DEF OneOpen
    <3> QED BY <2>2, <2>3, <3>1, <3>4 DEF Finding, KnowsOpen
  <2>7. CASE ~(FindConversation(h) \/ CloseConversation(h) \/ SaveConversation(h))
    <3>1. pc(h)' \notin {"close", "newConversation"}
      BY <1>2, <2>7, GoesOn, PlainStep DEF pc
    <3>2. pc(h) \notin {"close", "newConversation"} \/ pc(h)' = "over"
      BY <1>2, <2>7, PlainStep
    <3> QED BY <1>1, <1>2, <2>1, <3>1, <3>2, OthersLeaveOpen
  <2> QED BY <2>4, <2>5, <2>6, <2>7
<1>3. ASSUME NEW h \in Handlers, NEW c \in Comments, Arrive(h, c)
      PROVE  OneFinding' /\ OneOpen' /\ \A g \in Handlers : KnowsOpen(g)'
  <2>1. /\ \A g \in Handlers \ {h} : call'[g] = call[g]
        /\ call'[h].at \in {"over", "deciding"}
    BY <1>3 DEF Arrive, NoCall, CommentsTypeOK, Call
  <2>2. SameOpen
    BY <1>3 DEF Arrive, rowVars, SameOpen, OpenOf
  <2> QED BY <1>1, <2>1, <2>2 DEF pc, Finding
<1>4. ASSUME NEW h \in Handlers, Decide(h)
      PROVE  OneFinding' /\ OneOpen' /\ \A g \in Handlers : KnowsOpen(g)'
  <2>1. /\ \A g \in Handlers \ {h} : call'[g] = call[g]
        /\ call'[h].at = "customer"
    BY <1>4, GoesOn DEF Decide, Goes, Finding, CommentsTypeOK
  <2>2. \A g \in Handlers \ {h} : pc(g) \notin Finding
    BY <1>4 DEF Decide, Meets
  <2>3. SameOpen
    BY <1>4 DEF Decide, rowVars, SameOpen, OpenOf
  <2>4. OneFinding'
    BY <2>1, <2>2 DEF OneFinding, pc
  <2>5. OneOpen'
    BY <1>0, <2>3 DEF OneOpen, SameOpen
  <2>6. \A g \in Handlers : KnowsOpen(g)'
    BY <2>1, <2>2 DEF KnowsOpen, pc, Finding
  <2> QED BY <2>4, <2>5, <2>6
<1>5. ASSUME NEW c \in Comments, Forget(c)
      PROVE  OneFinding' /\ OneOpen' /\ \A g \in Handlers : KnowsOpen(g)'
  BY <1>0, <1>5 DEF Forget, rowVars, OneFinding, OneOpen, KnowsOpen, OpenOf, pc, Who, of, into
<1>6. CASE Crash
  <2>1. \A g \in Handlers : pc(g)' \in {"idle", "over"}
    BY <1>6 DEF Crash, NoCall, pc
  <2>2. SameOpen
    BY <1>6 DEF Crash, rowVars, SameOpen, OpenOf
  <2> QED BY <1>0, <2>1, <2>2 DEF OneFinding, OneOpen, SameOpen, KnowsOpen, Finding
<1>7. CASE Pause
  <2>1. SameOpen
    <3>1. ASSUME NEW k \in DOMAIN convs
          PROVE  convs'[k].person = convs[k].person /\ convs'[k].open = convs[k].open
      <4>1. convs'[k] = [convs[k] EXCEPT !.dated = IF @ = "lately" THEN "long ago" ELSE @]
        BY <1>7 DEF Pause
      <4>2. convs[k] \in ConvRow
        BY DEF CommentsTypeOK
      <4> QED BY <4>1, <4>2 DEF ConvRow
    <3>2. DOMAIN convs' = DOMAIN convs
      BY <1>7 DEF Pause
    <3> QED BY <3>1, <3>2 DEF SameOpen, OpenOf
  <2>2. \A g \in Handlers : pc(g)' \in {"idle", "over"}
    BY <1>7 DEF Pause, pc
  <2> QED BY <1>0, <2>1, <2>2 DEF OneFinding, OneOpen, SameOpen, KnowsOpen, Finding
<1>8. CASE UNCHANGED vars
  BY <1>0, <1>8 DEF vars, rowVars, OneFinding, OneOpen, KnowsOpen, OpenOf, pc, Who, of, into
<1> QED BY <1>2, <1>3, <1>4, <1>5, <1>6, <1>7, <1>8 DEF Next, Steps

LEMMA CommentsInductive == CommentsInv /\ [Next]_vars => CommentsInv'
BY TypesKept, PathKept, RecordsKept, AloneKept DEF CommentsInv

THEOREM CommentsInvariant == Spec => []CommentsInv
<1>1. Init => CommentsInv
  BY CommentsInitially
<1>2. CommentsInv /\ [Next]_vars => CommentsInv'
  BY CommentsInductive
<1> QED BY <1>1, <1>2, PTL DEF Spec

\* Every variable keeps its type: the statements and sends of the handlers, a
\* restart and the pauses leave rows that are rows.
THEOREM CommentsTypes == Spec => []CommentsTypeOK
<1>1. CommentsInv => CommentsTypeOK
  BY DEF CommentsInv
<1> QED BY <1>1, CommentsInvariant, PTL

\* A second private message under a comment has one of three causes: the comment
\* came again before the first handler decided, the set of processed comments had
\* forgotten it, or the response to the first message was lost.
THEOREM AnsweredTwiceByRace == Spec => []AnsweredTwiceOnlyByRace
<1>1. CommentsInv => AnsweredTwiceOnlyByRace
  <2>1. CommentsInv => \A c \in Clean : private[c] \in {0, 1}
    BY DEF CommentsInv, OnePath
  <2> QED BY <2>1 DEF AnsweredTwiceOnlyByRace, Clean
<1> QED BY <1>1, CommentsInvariant, PTL

\* Whatever was sent under a comment or to its author, the comment, the customer,
\* a conversation of theirs and its state are rows of the database.
THEOREM AnswersRecorded == Spec => []AnswersAreRecorded
<1>1. CommentsInv => AnswersAreRecorded
  BY DEF CommentsInv
<1> QED BY <1>1, CommentsInvariant, PTL

\* The conversation table has no unique index: a customer has two open rows only
\* after two handlers were between find and save at once.
THEOREM OpenTwiceByRace == Spec => []OpenTwiceOnlyByRace
<1>1. CommentsInv => OpenTwiceOnlyByRace
  <2> SUFFICES ASSUME CommentsInv, ~met, NEW p \in People
               PROVE  ~(Cardinality(OpenOf(p)) > 1)
      BY DEF OpenTwiceOnlyByRace, CommentsInv, CommentsTypeOK
  <2>1. \A j, k \in OpenOf(p) : j = k
    BY DEF CommentsInv, Alone, OneOpen
  <2>2. CASE OpenOf(p) = {}
    BY <2>2, FS_EmptySet
  <2>3. ASSUME NEW k \in OpenOf(p)
        PROVE  ~(Cardinality(OpenOf(p)) > 1)
    <3>1. OpenOf(p) = {k}
      BY <2>1
    <3>2. Cardinality(OpenOf(p)) = 1
      BY <3>1, FS_Singleton
    <3> QED BY <3>2
  <2> QED BY <2>2, <2>3
<1> QED BY <1>1, CommentsInvariant, PTL
=============================================================================
