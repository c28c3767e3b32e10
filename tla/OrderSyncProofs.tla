-------------------------- MODULE OrderSyncProofs --------------------------
(***************************************************************************)
(* Checkout and order synchronisation, for any number of sessions, orders, *)
(* calls and faults.                                                       *)
(*                                                                         *)
(* Every property is about a step that acts on what an earlier step of the *)
(* same call saw.  What a call between two statements may still rely on is *)
(* CallKnown (its session has customer info, has an order), what a stale   *)
(* entity may carry is EntityKnown (synced only if the platform has the    *)
(* order), and what a session that was never raced looks like to the one   *)
(* call on it is Alone.                                                    *)
(***************************************************************************)
EXTENDS OrderSync, TLAPS

OnSession == {"infoFound", "infoSaved", "draftFound", "draftSaved"}
OnStatus == {"statusFound", "statusCompared"}
Triggering == {"find", "found", "marked"}

\* A call that is under way has its session or its order in hand.
InHand ==
    /\ \A c \in Calls : at[c] \in OnSession => sess[c] \in Sessions
    /\ \A c \in Calls : at[c] \in OnStatus \cup {"retryFound"} => ord[c] \in Orders
    /\ \A t \in Calls : tat[t] \in Triggering => tord[t] \in Orders

CallKnown ==
    /\ \A c \in Calls : at[c] \in {"infoSaved", "draftFound", "draftSaved"} => sess[c] \in info
    /\ \A c \in Calls : at[c] = "draftSaved" => OrdersOf(sess[c]) # {}

EntityKnown ==
    \A c \in Calls : at[c] \in OnStatus /\ entity[c].sync = "synced" => ord[c] \in shop

SyncKnown ==
    /\ \A o \in Orders : sync[o] = "synced" => o \in shop
    /\ \A o \in Orders : \A answer \in Answers \ {"failed"} : <<o, answer>> \in callbacks => o \in shop
    /\ \A o \in Orders : <<o, "createdNoId">> \in callbacks => o \in idless
    /\ shop \cup posts \subseteq posted

SessionOpen == \A c \in Calls : at[c] \in OnSession => session[sess[c]] # "none"

\* What holds of a session nobody raced on.
AloneOn(s) ==
    /\ \A c, d \in Halfway(s) : c = d
    /\ OrdersOf(s) # {} => session[s] = "draft_created" \/ \E c \in Halfway(s) : at[c] = "draftSaved"
    /\ \A c \in Halfway(s) : at[c] # "draftSaved" => OrdersOf(s) = {}
    /\ \A o, p \in OrdersOf(s) : o = p

Alone == \A s \in Sessions \ raced : AloneOn(s)

OrderInv ==
    /\ TypeOK /\ InHand
    /\ SessionIsBacked /\ CallKnown
    /\ SyncKnown /\ EntityKnown /\ SyncedHasItsId
    /\ SessionOpen /\ Alone

-----------------------------------------------------------------------------
\* The row no call holds is a row.
LEMMA RowTyped == NoRow \in Row
BY DEF NoRow, Row, Statuses, SyncStates

LEMMA InitInv == Init => OrderInv
<1> USE OrderSyncAssumption DEF OrderSyncAssumption
<1>1. Init => TypeOK
  BY RowTyped DEF Init, TypeOK, Statuses, SyncStates
<1>2. Init => InHand /\ SessionIsBacked /\ CallKnown /\ SessionOpen
  BY DEF Init, InHand, SessionIsBacked, CallKnown, SessionOpen, OnSession, OnStatus, Triggering
<1>3. Init => SyncKnown /\ EntityKnown /\ SyncedHasItsId
  BY DEF Init, SyncKnown, EntityKnown, SyncedHasItsId, OnStatus
<1>4. Init => Alone
  <2> SUFFICES ASSUME Init, NEW s \in Sessions
               PROVE  AloneOn(s)
    BY DEF Alone
  <2>1. Halfway(s) = {} /\ OrdersOf(s) = {}
    BY DEF Init, Halfway, OrdersOf
  <2> QED
    BY <2>1 DEF AloneOn
<1> QED
  BY <1>1, <1>2, <1>3, <1>4 DEF OrderInv

-----------------------------------------------------------------------------
(* Types.                                                                  *)

\* A call that is over leaves well-typed locals.
LEMMA FinishType ==
    ASSUME TypeOK, NEW c \in Calls, Finish(c)
    PROVE  /\ at' \in [Calls -> {"idle", "infoFound", "infoSaved", "draftFound", "draftSaved",
                                 "statusFound", "statusCompared", "retryFound", "done"}]
           /\ sess' \in [Calls -> Sessions \cup {NoSession}]
           /\ ord' \in [Calls -> Orders \cup {NoOrder}]
           /\ entity' \in [Calls -> Row]
           /\ diff' \in [Calls -> SUBSET Columns]
BY DEF TypeOK, Finish, Goto, NoRow, Row, Statuses, SyncStates

LEMMA TypeBegins ==
    ASSUME TypeOK, NEW c \in Calls, CallBegins(c)
    PROVE  TypeOK'
<1> USE DEF TypeOK, rowVars, sessionVars, callVars, trigVars, n8nVars, histVars, Goto, Meets
<1>1. ASSUME NEW s \in Sessions, InfoFinds(c, s)
      PROVE  TypeOK'
  BY <1>1 DEF InfoFinds
<1>2. ASSUME NEW s \in Sessions, DraftFinds(c, s)
      PROVE  TypeOK'
  BY <1>2 DEF DraftFinds
<1>3. ASSUME NEW s \in Sessions, NEW o \in Orders, CreateFromConversation(c, s, o)
      PROVE  TypeOK'
  BY <1>3, FinishType DEF CreateFromConversation, PlaceOrder, Spawn, Statuses
<1>4. ASSUME NEW o \in Orders, NEW new \in {"confirmed", "cancelled"}, StatusFinds(c, o, new)
      PROVE  TypeOK'
  <2>1. [RowOf(o) EXCEPT !.status = new] \in Row
    BY DEF RowOf, Row, Statuses
  <2> QED
    BY <1>4, <2>1 DEF StatusFinds
<1>5. ASSUME NEW o \in Orders, RetryFinds(c, o)
      PROVE  TypeOK'
  BY <1>5 DEF RetryFinds
<1> QED
  BY <1>1, <1>2, <1>3, <1>4, <1>5 DEF CallBegins

LEMMA TypeCall ==
    ASSUME TypeOK, InHand, NEW c \in Calls, CallStep(c)
    PROVE  TypeOK'
<1> USE DEF TypeOK, rowVars, sessionVars, callVars, trigVars, n8nVars, histVars, Goto, InHand,
        OnSession, OnStatus
<1>1. CASE InfoSaves(c)
  BY <1>1 DEF InfoSaves
<1>2. CASE InfoMarksReady(c)
  BY <1>2, FinishType DEF InfoMarksReady
<1>3. CASE DraftSaves(c)
  BY <1>3 DEF DraftSaves, PlaceOrder, Statuses
<1>4. CASE DraftMarks(c)
  BY <1>4, FinishType DEF DraftMarks
<1>5. CASE StatusCompares(c)
  BY <1>5 DEF StatusCompares
<1>6. CASE StatusWrites(c)
  <2>1. /\ status' \in [Orders -> Statuses] /\ sync' \in [Orders -> SyncStates]
        /\ ext' \in [Orders -> BOOLEAN] /\ overwritten' \subseteq Orders
    BY <1>6 DEF StatusWrites, Row
  <2>2. tat' \in [Calls -> {"idle", "find", "found", "marked", "done"}] /\ tord' \in [Calls -> Orders \cup {NoOrder}]
    BY <1>6 DEF StatusWrites, Spawn
  <2> QED
    BY <1>6, <2>1, <2>2, FinishType DEF StatusWrites
<1>7. CASE RetryResets(c)
  BY <1>7, FinishType DEF RetryResets, Spawn, SyncStates
<1> QED
  BY <1>1, <1>2, <1>3, <1>4, <1>5, <1>6, <1>7 DEF CallStep

LEMMA TypeOther ==
    ASSUME TypeOK, InHand,
           \/ \E s \in Sessions : Start(s)
           \/ \E t \in Calls : TriggerStep(t)
           \/ \E o \in Orders, answer \in Answers, again \in BOOLEAN : HandleSyncCallback(o, answer, again)
           \/ N8nStep
    PROVE  TypeOK'
<1> USE DEF TypeOK, rowVars, sessionVars, callVars, trigVars, n8nVars, histVars, InHand, Triggering, SyncStates
<1>1. ASSUME NEW s \in Sessions, Start(s)
      PROVE  TypeOK'
  BY <1>1 DEF Start
<1>2. ASSUME NEW t \in Calls, TriggerStep(t)
      PROVE  TypeOK'
  BY <1>2 DEF TriggerStep, TriggerSkips, TriggerFinds, TriggerMarksPending, TriggerPosts, FinishTrigger
<1>3. ASSUME NEW o \in Orders, NEW answer \in Answers, NEW again \in BOOLEAN, HandleSyncCallback(o, answer, again)
      PROVE  TypeOK'
  BY <1>3 DEF HandleSyncCallback, Answers
<1>4. ASSUME NEW o \in Orders, N8nSyncs(o) \/ N8nRefuses(o)
      PROVE  TypeOK'
  <2>1. /\ posts' \subseteq Orders /\ shop' \subseteq Orders /\ idless' \subseteq Orders
        /\ UNCHANGED <<rowVars, sessionVars, callVars, trigVars, posted, histVars, faults>>
    BY <1>4 DEF N8nSyncs, N8nRefuses
  <2>2. PICK answer \in Answers : callbacks' = callbacks \cup {<<o, answer>>}
    BY <1>4 DEF N8nSyncs, N8nRefuses, Answers
  <2>3. callbacks' \subseteq Orders \X Answers
    BY <2>2
  <2> QED
    BY <2>1, <2>3
<1> QED
  BY <1>1, <1>2, <1>3, <1>4 DEF N8nStep

LEMMA TypeFault ==
    ASSUME TypeOK, InHand, FaultStep
    PROVE  TypeOK'
<1>1. ASSUME NEW c \in Calls, CallFails(c)
      PROVE  TypeOK'
  <2>1. raced' \subseteq Sessions /\ faults' \in 0 .. MaxFaults
    BY <1>1, OrderSyncAssumption DEF CallFails, Fault, TypeOK, InHand, OnSession, OrderSyncAssumption
  <2> QED
    BY <1>1, <2>1, FinishType DEF CallFails, TypeOK, rowVars, trigVars, n8nVars, histVars
<1>2. ASSUME NEW t \in Calls, TriggerThrows(t)
      PROVE  TypeOK'
  <2>1. faults' \in 0 .. MaxFaults
    BY <1>2, OrderSyncAssumption DEF TriggerThrows, Fault, TypeOK, OrderSyncAssumption
  <2> QED
    BY <1>2, <2>1 DEF TriggerThrows, FinishTrigger, TypeOK, rowVars, sessionVars, callVars, n8nVars, histVars
<1>3. ASSUME NEW t \in Calls, PostFails(t)
      PROVE  TypeOK'
  <2>1. tord[t] \in Orders
    BY <1>3 DEF PostFails, InHand, Triggering
  <2>2. lost' \subseteq Orders
    BY <1>3, <2>1 DEF PostFails, TypeOK
  <2>3. faults' \in 0 .. MaxFaults
    BY <1>3, OrderSyncAssumption DEF PostFails, Fault, TypeOK, OrderSyncAssumption
  <2> QED
    BY <1>3, <2>2, <2>3 DEF PostFails, FinishTrigger, TypeOK, rowVars, sessionVars, callVars, n8nVars
<1>4. ASSUME NEW o \in Orders, NEW answer \in Answers, CallbackLost(o, answer)
      PROVE  TypeOK'
  <2>1. faults' \in 0 .. MaxFaults
    BY <1>4, OrderSyncAssumption DEF CallbackLost, Fault, TypeOK, OrderSyncAssumption
  <2> QED
    BY <1>4, <2>1 DEF CallbackLost, TypeOK, rowVars, sessionVars, callVars, trigVars
<1>5. CASE Restart
  <2>1. /\ raced' \subseteq Sessions
        /\ lost' \subseteq Orders
    BY <1>5 DEF Restart, TypeOK
  <2>2. faults' \in 0 .. MaxFaults
    BY <1>5, OrderSyncAssumption DEF Restart, Fault, TypeOK, OrderSyncAssumption
  <2>3. /\ at' \in [Calls -> {"idle", "done"}] /\ tat' \in [Calls -> {"idle", "done"}]
        /\ sess' \in [Calls -> {NoSession}] /\ ord' \in [Calls -> {NoOrder}] /\ tord' \in [Calls -> {NoOrder}]
        /\ entity' \in [Calls -> Row] /\ diff' \in [Calls -> SUBSET Columns] /\ patient' = {}
    BY <1>5, RowTyped DEF Restart
  <2> QED
    BY <1>5, <2>1, <2>2, <2>3 DEF Restart, TypeOK, rowVars, n8nVars
<1> QED
  BY <1>1, <1>2, <1>3, <1>4, <1>5 DEF FaultStep

LEMMA TypeStep ==
    ASSUME TypeOK, InHand, [Next]_vars
    PROVE  TypeOK'
<1>1. CASE UNCHANGED vars
  BY <1>1 DEF vars, rowVars, sessionVars, callVars, trigVars, n8nVars, histVars, TypeOK
<1> QED
  BY <1>1, TypeBegins, TypeCall, TypeOther, TypeFault DEF Next, Settled

-----------------------------------------------------------------------------
(* What a call has in hand.                                                *)

LEMMA HandStep ==
    ASSUME TypeOK, InHand, [Next]_vars
    PROVE  InHand'
<1> USE DEF InHand, OnSession, OnStatus, Triggering, TypeOK, rowVars, sessionVars, callVars, trigVars,
        n8nVars, histVars, Goto
<1>1. ASSUME NEW c \in Calls, CallBegins(c)
      PROVE  InHand'
  <2>1. ASSUME NEW s \in Sessions, InfoFinds(c, s) \/ DraftFinds(c, s)
        PROVE  InHand'
    BY <2>1 DEF InfoFinds, DraftFinds
  <2>2. ASSUME NEW s \in Sessions, NEW o \in Orders, CreateFromConversation(c, s, o)
        PROVE  InHand'
    BY <2>2 DEF CreateFromConversation, Spawn, Finish
  <2>3. ASSUME NEW o \in Orders, NEW new \in {"confirmed", "cancelled"}, StatusFinds(c, o, new)
        PROVE  InHand'
    BY <2>3 DEF StatusFinds
  <2>4. ASSUME NEW o \in Orders, RetryFinds(c, o)
        PROVE  InHand'
    BY <2>4 DEF RetryFinds
  <2> QED
    BY <1>1, <2>1, <2>2, <2>3, <2>4 DEF CallBegins
<1>2. ASSUME NEW c \in Calls, CallStep(c)
      PROVE  InHand'
  <2>1. CASE InfoSaves(c) \/ DraftSaves(c) \/ StatusCompares(c)
    BY <2>1 DEF InfoSaves, DraftSaves, StatusCompares
  <2>2. CASE InfoMarksReady(c) \/ DraftMarks(c)
    BY <2>2 DEF InfoMarksReady, DraftMarks, Finish
  <2>3. CASE StatusWrites(c)
    <3>1. ord[c] \in Orders
      BY <2>3 DEF StatusWrites
    <3>2. Finish(c) /\ (Spawn(c, ord[c]) \/ UNCHANGED <<tat, tord>>)
      BY <2>3 DEF StatusWrites
    <3> QED
      BY <3>1, <3>2 DEF Spawn, Finish
  <2>4. CASE RetryResets(c)
    BY <2>4 DEF RetryResets, Spawn, Finish
  <2> QED
    BY <1>2, <2>1, <2>2, <2>3, <2>4 DEF CallStep
<1>3. ASSUME NEW t \in Calls, TriggerStep(t)
      PROVE  InHand'
  BY <1>3 DEF TriggerStep, TriggerSkips, TriggerFinds, TriggerMarksPending, TriggerPosts, FinishTrigger
<1>4. CASE FaultStep
  <2>1. ASSUME NEW c \in Calls, CallFails(c)
        PROVE  InHand'
    BY <2>1 DEF CallFails, Finish
  <2>2. ASSUME NEW t \in Calls, TriggerThrows(t) \/ PostFails(t)
        PROVE  InHand'
    BY <2>2 DEF TriggerThrows, PostFails, FinishTrigger
  <2>3. ASSUME NEW o \in Orders, NEW answer \in Answers, CallbackLost(o, answer)
        PROVE  InHand'
    BY <2>3 DEF CallbackLost
  <2>4. CASE Restart
    BY <2>4 DEF Restart
  <2> QED
    BY <1>4, <2>1, <2>2, <2>3, <2>4 DEF FaultStep
<1>5. CASE UNCHANGED <<callVars, trigVars>>
  BY <1>5
<1>6. \/ \E s \in Sessions : Start(s)
      \/ \E o \in Orders, answer \in Answers, again \in BOOLEAN : HandleSyncCallback(o, answer, again)
      \/ N8nStep \/ UNCHANGED vars
      => UNCHANGED <<callVars, trigVars>>
  BY DEF Start, HandleSyncCallback, N8nStep, N8nSyncs, N8nRefuses, vars
<1> QED
  BY <1>1, <1>2, <1>3, <1>4, <1>5, <1>6 DEF Next, Settled

-----------------------------------------------------------------------------
(* What the platform has, and what is shown and carried around of it.      *)

Shown == SyncKnown /\ EntityKnown /\ SyncedHasItsId

\* A step that leaves the columns, the callbacks and n8n alone, and takes no new entity.
LEMMA ShownFrame ==
    ASSUME Shown, UNCHANGED <<sync, ext, n8nVars, overwritten>>,
           \A c \in Calls : at'[c] \in OnStatus => UNCHANGED <<entity[c], ord[c]>> /\ at[c] \in OnStatus
    PROVE  Shown'
<1> USE DEF n8nVars
<1>1. SyncKnown' /\ SyncedHasItsId'
  BY DEF Shown, SyncKnown, SyncedHasItsId
<1>2. EntityKnown'
  BY DEF Shown, EntityKnown
<1> QED
  BY <1>1, <1>2 DEF Shown

LEMMA ShownBegins ==
    ASSUME TypeOK, InHand, Shown, NEW c \in Calls, CallBegins(c)
    PROVE  Shown'
<1> USE DEF TypeOK, rowVars, sessionVars, callVars, trigVars, n8nVars, histVars, Goto, OnStatus
<1>1. ASSUME NEW s \in Sessions, InfoFinds(c, s) \/ DraftFinds(c, s)
      PROVE  Shown'
  BY <1>1, ShownFrame DEF InfoFinds, DraftFinds
<1>2. ASSUME NEW s \in Sessions, NEW o \in Orders, CreateFromConversation(c, s, o)
      PROVE  Shown'
  BY <1>2, ShownFrame DEF CreateFromConversation, PlaceOrder, Finish
<1>3. ASSUME NEW o \in Orders, NEW new \in {"confirmed", "cancelled"}, StatusFinds(c, o, new)
      PROVE  Shown'
  <2>1. SyncKnown' /\ SyncedHasItsId'
    BY <1>3 DEF StatusFinds, Shown, SyncKnown, SyncedHasItsId
  <2>2. entity'[c].sync = sync[o] /\ ord'[c] = o
    BY <1>3 DEF StatusFinds, RowOf
  <2>3. \A d \in Calls \ {c} : UNCHANGED <<at[d], entity[d], ord[d]>>
    BY <1>3 DEF StatusFinds
  <2>4. EntityKnown'
    BY <1>3, <2>2, <2>3 DEF StatusFinds, Shown, SyncKnown, EntityKnown
  <2> QED
    BY <2>1, <2>4 DEF Shown
<1>4. ASSUME NEW o \in Orders, RetryFinds(c, o)
      PROVE  Shown'
  BY <1>4, ShownFrame DEF RetryFinds
<1> QED
  BY <1>1, <1>2, <1>3, <1>4 DEF CallBegins

\* The save of updateStatus: what it writes back of the sync columns was true once, and
\* what the platform has it keeps.
LEMMA ShownSave ==
    ASSUME TypeOK, InHand, Shown, NEW c \in Calls, StatusWrites(c)
    PROVE  Shown'
<1>1. /\ ord[c] \in Orders /\ UNCHANGED n8nVars
      /\ \A o \in Orders \ {ord[c]} : UNCHANGED <<sync[o], ext[o]>>
      /\ overwritten \subseteq overwritten'
  BY DEF StatusWrites, InHand, OnStatus, TypeOK, n8nVars
<1>2. sync'[ord[c]] \in {sync[ord[c]], entity[c].sync}
  BY <1>1 DEF StatusWrites, TypeOK
<1>3. UNCHANGED <<sync, ext>> \/ ord[c] \in overwritten'
  BY <1>1 DEF StatusWrites
<1>4. SyncKnown'
  BY <1>1, <1>2 DEF Shown, SyncKnown, EntityKnown, StatusWrites, OnStatus, n8nVars
<1>5. EntityKnown'
  BY <1>1 DEF Shown, EntityKnown, StatusWrites, Finish, Goto, OnStatus, TypeOK, n8nVars
<1>6. SyncedHasItsId'
  BY <1>1, <1>3 DEF Shown, SyncedHasItsId, n8nVars
<1> QED
  BY <1>4, <1>5, <1>6 DEF Shown

LEMMA ShownCall ==
    ASSUME TypeOK, InHand, Shown, NEW c \in Calls, CallStep(c)
    PROVE  Shown'
<1> USE DEF TypeOK, rowVars, sessionVars, callVars, trigVars, n8nVars, histVars, Goto, OnStatus
<1>1. CASE InfoSaves(c) \/ DraftSaves(c) \/ StatusCompares(c)
  BY <1>1, ShownFrame DEF InfoSaves, DraftSaves, StatusCompares, PlaceOrder
<1>2. CASE InfoMarksReady(c) \/ DraftMarks(c)
  BY <1>2, ShownFrame DEF InfoMarksReady, DraftMarks, Finish
<1>3. CASE RetryResets(c)
  <2>1. SyncKnown' /\ SyncedHasItsId'
    BY <1>3 DEF RetryResets, Shown, SyncKnown, SyncedHasItsId
  <2>2. EntityKnown'
    BY <1>3 DEF RetryResets, Finish, Shown, EntityKnown
  <2> QED
    BY <2>1, <2>2 DEF Shown
<1> QED
  BY <1>1, <1>2, <1>3, ShownSave DEF CallStep

LEMMA ShownOther ==
    ASSUME TypeOK, InHand, Shown,
           \/ \E s \in Sessions : Start(s)
           \/ \E t \in Calls : TriggerStep(t)
           \/ \E o \in Orders, answer \in Answers, again \in BOOLEAN : HandleSyncCallback(o, answer, again)
           \/ N8nStep
    PROVE  Shown'
<1> USE DEF TypeOK, rowVars, sessionVars, callVars, trigVars, n8nVars, histVars
<1>1. ASSUME NEW s \in Sessions, Start(s)
      PROVE  Shown'
  BY <1>1, ShownFrame DEF Start
<1>2. ASSUME NEW t \in Calls, TriggerSkips(t) \/ TriggerFinds(t)
      PROVE  Shown'
  BY <1>2, ShownFrame DEF TriggerSkips, TriggerFinds
<1>3. ASSUME NEW t \in Calls, TriggerMarksPending(t)
      PROVE  Shown'
  BY <1>3 DEF TriggerMarksPending, Shown, SyncKnown, SyncedHasItsId, EntityKnown
<1>4. ASSUME NEW t \in Calls, TriggerPosts(t)
      PROVE  Shown'
  BY <1>4 DEF TriggerPosts, Shown, SyncKnown, SyncedHasItsId, EntityKnown
<1>5. ASSUME NEW o \in Orders, NEW answer \in Answers, NEW again \in BOOLEAN, HandleSyncCallback(o, answer, again)
      PROVE  Shown'
  <2>1. SyncKnown'
    BY <1>5 DEF HandleSyncCallback, Shown, SyncKnown, Answers
  <2>2. SyncedHasItsId' /\ EntityKnown'
    BY <1>5 DEF HandleSyncCallback, Shown, SyncKnown, SyncedHasItsId, EntityKnown, Answers
  <2> QED
    BY <2>1, <2>2 DEF Shown
<1>6. ASSUME NEW o \in Orders, N8nSyncs(o) \/ N8nRefuses(o)
      PROVE  Shown'
  <2>1. SyncKnown'
    BY <1>6 DEF N8nSyncs, N8nRefuses, Shown, SyncKnown, Answers
  <2>2. SyncedHasItsId' /\ EntityKnown'
    BY <1>6 DEF N8nSyncs, N8nRefuses, Shown, SyncedHasItsId, EntityKnown
  <2> QED
    BY <2>1, <2>2 DEF Shown
<1> QED
  BY <1>1, <1>2, <1>3, <1>4, <1>5, <1>6 DEF N8nStep, TriggerStep

LEMMA ShownFault ==
    ASSUME TypeOK, Shown, FaultStep
    PROVE  Shown'
<1> USE DEF TypeOK, rowVars, sessionVars, callVars, trigVars, n8nVars, histVars, OnStatus
<1>1. ASSUME NEW c \in Calls, CallFails(c)
      PROVE  Shown'
  BY <1>1, ShownFrame DEF CallFails, Finish, Goto
<1>2. ASSUME NEW t \in Calls, TriggerThrows(t) \/ PostFails(t)
      PROVE  Shown'
  BY <1>2, ShownFrame DEF TriggerThrows, PostFails
<1>3. ASSUME NEW o \in Orders, NEW answer \in Answers, CallbackLost(o, answer)
      PROVE  Shown'
  BY <1>3 DEF CallbackLost, Shown, SyncKnown, SyncedHasItsId, EntityKnown
<1>4. CASE Restart
  BY <1>4, ShownFrame DEF Restart
<1> QED
  BY <1>1, <1>2, <1>3, <1>4 DEF FaultStep

LEMMA ShownStep ==
    ASSUME TypeOK, InHand, Shown, [Next]_vars
    PROVE  Shown'
<1>1. CASE UNCHANGED vars
  BY <1>1, ShownFrame DEF vars, rowVars, callVars, n8nVars, histVars
<1> QED
  BY <1>1, ShownBegins, ShownCall, ShownOther, ShownFault DEF Next, Settled

-----------------------------------------------------------------------------
(* Sessions and the calls on them.                                         *)

Backed == SessionIsBacked /\ CallKnown /\ SessionOpen

\* A step that starts no call on a session and moves none, and leaves the sessions alone.
LEMMA BackedFrame ==
    ASSUME Backed, UNCHANGED <<session, info, from>>,
           \A c \in Calls : at'[c] \in OnSession => UNCHANGED <<at[c], sess[c]>>
    PROVE  Backed'
<1>1. SessionIsBacked'
  BY DEF Backed, SessionIsBacked, OrdersOf
<1>2. CallKnown' /\ SessionOpen'
  BY DEF Backed, CallKnown, SessionOpen, OrdersOf, OnSession
<1> QED
  BY <1>1, <1>2 DEF Backed

\* A new order of session s is one more of its orders, and of nobody else's.
LEMMA PlacedOrders ==
    ASSUME TypeOK, NEW o \in Orders, NEW s \in Sessions, PlaceOrder(o, s)
    PROVE  /\ OrdersOf(s)' = OrdersOf(s) \cup {o}
           /\ \A r \in Sessions \ {s} : OrdersOf(r)' = OrdersOf(r)
BY OrderSyncAssumption DEF OrderSyncAssumption, TypeOK, PlaceOrder, Placed, OrdersOf

LEMMA BackedBegins ==
    ASSUME TypeOK, InHand, Backed, NEW c \in Calls, CallBegins(c)
    PROVE  Backed'
<1> USE DEF TypeOK, rowVars, sessionVars, callVars, trigVars, n8nVars, histVars, Goto, OnSession
<1>1. ASSUME NEW s \in Sessions, InfoFinds(c, s)
      PROVE  Backed'
  <2>1. SessionIsBacked' /\ CallKnown'
    BY <1>1 DEF InfoFinds, Backed, SessionIsBacked, CallKnown, OrdersOf
  <2>2. SessionOpen'
    BY <1>1 DEF InfoFinds, Backed, SessionOpen
  <2> QED
    BY <2>1, <2>2 DEF Backed
<1>2. ASSUME NEW s \in Sessions, DraftFinds(c, s)
      PROVE  Backed'
  <2>1. SessionIsBacked' /\ CallKnown'
    BY <1>2 DEF DraftFinds, Backed, SessionIsBacked, CallKnown, OrdersOf
  <2>2. SessionOpen'
    BY <1>2 DEF DraftFinds, Backed, SessionOpen
  <2> QED
    BY <2>1, <2>2 DEF Backed
<1>3. ASSUME NEW s \in Sessions, NEW o \in Orders, CreateFromConversation(c, s, o)
      PROVE  Backed'
  <2>1. /\ OrdersOf(s)' = OrdersOf(s) \cup {o}
        /\ \A r \in Sessions \ {s} : OrdersOf(r)' = OrdersOf(r)
    BY <1>3, PlacedOrders DEF CreateFromConversation
  <2>2. /\ session' = [session EXCEPT ![s] = "draft_created"] /\ info' = info \cup {s}
        /\ at' = [at EXCEPT ![c] = "done"] /\ sess' = [sess EXCEPT ![c] = NoSession]
    BY <1>3 DEF CreateFromConversation, Finish
  <2>3. SessionIsBacked'
    BY <2>1, <2>2 DEF Backed, SessionIsBacked
  <2>4. CallKnown'
    BY <2>1, <2>2 DEF Backed, CallKnown, InHand
  <2>5. SessionOpen'
    BY <2>2 DEF Backed, SessionOpen, InHand
  <2> QED
    BY <2>3, <2>4, <2>5 DEF Backed
<1>4. ASSUME NEW o \in Orders, NEW new \in {"confirmed", "cancelled"}, StatusFinds(c, o, new)
      PROVE  Backed'
  BY <1>4, BackedFrame DEF StatusFinds
<1>5. ASSUME NEW o \in Orders, RetryFinds(c, o)
      PROVE  Backed'
  BY <1>5, BackedFrame DEF RetryFinds
<1> QED
  BY <1>1, <1>2, <1>3, <1>4, <1>5 DEF CallBegins

LEMMA BackedCall ==
    ASSUME TypeOK, InHand, Backed, NEW c \in Calls, CallStep(c)
    PROVE  Backed'
<1> USE DEF TypeOK, rowVars, sessionVars, callVars, trigVars, n8nVars, histVars, Goto, OnSession
<1>1. CASE InfoSaves(c)
  BY <1>1 DEF InfoSaves, Backed, SessionIsBacked, CallKnown, SessionOpen, OrdersOf
<1>2. CASE InfoMarksReady(c)
  <2>1. SessionIsBacked'
    BY <1>2 DEF InfoMarksReady, Backed, SessionIsBacked, CallKnown, OrdersOf
  <2>2. CallKnown' /\ SessionOpen'
    BY <1>2 DEF InfoMarksReady, Finish, Backed, CallKnown, SessionOpen, OrdersOf, InHand
  <2> QED
    BY <2>1, <2>2 DEF Backed
<1>3. CASE DraftSaves(c)
  <2>1. PICK s \in Sessions : s = sess[c]
    BY <1>3 DEF DraftSaves, InHand
  <2>2. PICK o \in Orders : PlaceOrder(o, s)
    BY <1>3, <2>1 DEF DraftSaves
  <2>3. /\ OrdersOf(s)' = OrdersOf(s) \cup {o}
        /\ \A r \in Sessions \ {s} : OrdersOf(r)' = OrdersOf(r)
    BY <2>2, PlacedOrders
  <2>4. at' = [at EXCEPT ![c] = "draftSaved"] /\ UNCHANGED <<session, info, sess>>
    BY <1>3 DEF DraftSaves
  <2>5. SessionIsBacked'
    BY <2>3, <2>4 DEF Backed, SessionIsBacked
  <2>6. CallKnown'
    <3>1. ASSUME NEW d \in Calls, at'[d] = "draftSaved"
          PROVE  OrdersOf(sess[d])' # {}
      <4>1. PICK r \in Sessions : r = sess[d]
        BY <1>3, <2>4, <3>1 DEF DraftSaves, InHand
      <4>2. OrdersOf(r)' # {}
        BY <1>3, <2>1, <2>3, <2>4, <3>1, <4>1 DEF Backed, CallKnown
      <4> QED
        BY <2>4, <4>1, <4>2 DEF OrdersOf
    <3>2. \A d \in Calls : at'[d] \in {"infoSaved", "draftFound", "draftSaved"} => sess'[d] \in info'
      BY <1>3, <2>4 DEF DraftSaves, Backed, CallKnown
    <3> QED
      BY <3>1, <3>2 DEF CallKnown
  <2>7. SessionOpen'
    BY <1>3, <2>4 DEF DraftSaves, Backed, SessionOpen
  <2> QED
    BY <2>5, <2>6, <2>7 DEF Backed
<1>4. CASE DraftMarks(c)
  <2>1. SessionIsBacked'
    BY <1>4 DEF DraftMarks, Backed, SessionIsBacked, CallKnown, OrdersOf
  <2>2. CallKnown' /\ SessionOpen'
    BY <1>4 DEF DraftMarks, Finish, Backed, CallKnown, SessionOpen, OrdersOf, InHand
  <2> QED
    BY <2>1, <2>2 DEF Backed
<1>5. CASE StatusCompares(c)
  BY <1>5, BackedFrame DEF StatusCompares
<1>6. CASE StatusWrites(c) \/ RetryResets(c)
  BY <1>6, BackedFrame DEF StatusWrites, RetryResets, Finish
<1> QED
  BY <1>1, <1>2, <1>3, <1>4, <1>5, <1>6 DEF CallStep

LEMMA BackedStep ==
    ASSUME TypeOK, InHand, Backed, [Next]_vars
    PROVE  Backed'
<1> USE DEF TypeOK, rowVars, sessionVars, callVars, trigVars, n8nVars, histVars, OnSession
<1>1. ASSUME NEW s \in Sessions, Start(s)
      PROVE  Backed'
  <2>1. SessionIsBacked'
    BY <1>1 DEF Start, Backed, SessionIsBacked, OrdersOf
  <2>2. CallKnown' /\ SessionOpen'
    BY <1>1 DEF Start, Backed, CallKnown, SessionOpen, OrdersOf
  <2> QED
    BY <2>1, <2>2 DEF Backed
<1>2. ASSUME NEW c \in Calls, CallFails(c)
      PROVE  Backed'
  BY <1>2, BackedFrame DEF CallFails, Finish, Goto
<1>3. CASE Restart
  BY <1>3, BackedFrame DEF Restart
<1>4. CASE UNCHANGED <<session, info, from, callVars>>
  BY <1>4, BackedFrame
<1>5. \/ \E t \in Calls : TriggerStep(t) \/ TriggerThrows(t) \/ PostFails(t)
      \/ \E o \in Orders, answer \in Answers, again \in BOOLEAN : HandleSyncCallback(o, answer, again)
      \/ \E o \in Orders, answer \in Answers : CallbackLost(o, answer)
      \/ N8nStep \/ UNCHANGED vars
      => UNCHANGED <<session, info, from, callVars>>
  BY DEF TriggerStep, TriggerSkips, TriggerFinds, TriggerMarksPending, TriggerPosts, TriggerThrows,
         PostFails, HandleSyncCallback, CallbackLost, N8nStep, N8nSyncs, N8nRefuses, vars
<1> QED
  BY <1>1, <1>2, <1>3, <1>4, <1>5, BackedBegins, BackedCall DEF Next, FaultStep, Settled

-----------------------------------------------------------------------------
(* A session nobody raced on: at most one call is on it, and at most one   *)
(* order is made of it.                                                    *)

\* A step that leaves the orders of s and the calls on it alone, and does not take back
\* that its draft is created.
LEMMA AloneFrame ==
    ASSUME NEW s \in Sessions, AloneOn(s), OrdersOf(s)' = OrdersOf(s), Halfway(s)' = Halfway(s),
           \A c \in Halfway(s) : at'[c] = at[c] \/ {at'[c], at[c]} = {"infoFound", "infoSaved"},
           session'[s] = session[s] \/ session[s] # "draft_created"
    PROVE  AloneOn(s)'
BY DEF AloneOn

\* The call that was alone on s leaves it.
LEMMA AloneLeaves ==
    ASSUME NEW s \in Sessions, NEW c \in Halfway(s), AloneOn(s), OrdersOf(s)' = OrdersOf(s),
           Halfway(s)' = Halfway(s) \ {c}, at[c] = "draftSaved" => session'[s] = "draft_created"
    PROVE  AloneOn(s)'
BY DEF AloneOn

\* What happens to a call that is not on s happens elsewhere.
LEMMA Elsewhere ==
    ASSUME TypeOK, NEW s \in Sessions, NEW c \in Calls, c \notin Halfway(s), AloneOn(s),
           \A d \in Calls \ {c} : UNCHANGED <<at[d], sess[d]>>,
           at'[c] \in OnSession => sess'[c] # s,
           OrdersOf(s)' = OrdersOf(s), UNCHANGED session \/ session'[s] = session[s]
    PROVE  AloneOn(s)'
<1>1. Halfway(s)' = Halfway(s)
  BY DEF Halfway, OnSession
<1>2. \A d \in Halfway(s) : at'[d] = at[d]
  BY DEF Halfway
<1> QED
  BY <1>1, <1>2, AloneFrame

LEMMA AloneBegins ==
    ASSUME TypeOK, InHand, Backed, NEW c \in Calls, CallBegins(c),
           NEW s \in Sessions, s \notin raced', AloneOn(s)
    PROVE  AloneOn(s)'
<1> USE DEF TypeOK, rowVars, sessionVars, callVars, trigVars, n8nVars, histVars, Goto
<1>1. ASSUME NEW r \in Sessions, InfoFinds(c, r) \/ DraftFinds(c, r)
      PROVE  AloneOn(s)'
  <2>1. /\ at[c] = "idle" /\ session[r] \notin {"none", "draft_created"} /\ Meets(r)
        /\ \/ at' = [at EXCEPT ![c] = "infoFound"]
           \/ at' = [at EXCEPT ![c] = "draftFound"]
        /\ sess' = [sess EXCEPT ![c] = r] /\ UNCHANGED <<session, from>>
    BY <1>1 DEF InfoFinds, DraftFinds
  <2>2. OrdersOf(s)' = OrdersOf(s) /\ c \notin Halfway(s)
    BY <2>1 DEF OrdersOf, Halfway
  <2>3. CASE r # s
    BY <2>1, <2>2, <2>3, Elsewhere
  <2>4. CASE r = s
    <3>1. Halfway(s) = {}
      BY <2>1, <2>4 DEF Meets
    <3>2. Halfway(s)' = {c} /\ at'[c] # "draftSaved"
      BY <2>1, <2>4, <3>1 DEF Halfway
    <3>3. OrdersOf(s) = {}
      BY <2>1, <2>4, <3>1 DEF AloneOn
    <3> QED
      BY <2>2, <3>2, <3>3 DEF AloneOn
  <2> QED
    BY <2>3, <2>4
<1>2. ASSUME NEW r \in Sessions, NEW o \in Orders, CreateFromConversation(c, r, o)
      PROVE  AloneOn(s)'
  <2>1. /\ at[c] = "idle" /\ session[r] = "none"
        /\ session' = [session EXCEPT ![r] = "draft_created"]
        /\ at' = [at EXCEPT ![c] = "done"] /\ sess' = [sess EXCEPT ![c] = NoSession]
        /\ PlaceOrder(o, r)
    BY <1>2 DEF CreateFromConversation, Finish
  <2>2. c \notin Halfway(s)
    BY <2>1 DEF Halfway
  <2>3. CASE r # s
    <3>1. OrdersOf(s)' = OrdersOf(s)
      BY <2>1, <2>3, PlacedOrders
    <3> QED
      BY <2>1, <2>2, <2>3, <3>1, Elsewhere DEF OnSession
  <2>4. CASE r = s
    <3>1. Halfway(s) = {}
      BY <2>1, <2>4 DEF Halfway, Backed, SessionOpen, OnSession
    <3>2. Halfway(s)' = {}
      BY <2>1, <3>1 DEF Halfway
    <3>3. OrdersOf(s) = {}
      BY <2>1, <2>4, <3>1 DEF AloneOn
    <3>4. OrdersOf(s)' = {o} /\ session'[s] = "draft_created"
      BY <2>1, <2>4, <3>3, PlacedOrders
    <3> QED
      BY <3>2, <3>4 DEF AloneOn
  <2> QED
    BY <2>3, <2>4
<1>3. ASSUME NEW o \in Orders,
             RetryFinds(c, o) \/ \E new \in {"confirmed", "cancelled"} : StatusFinds(c, o, new)
      PROVE  AloneOn(s)'
  <2>1. /\ at[c] = "idle" /\ UNCHANGED <<session, from, sess>>
        /\ \/ at' = [at EXCEPT ![c] = "retryFound"]
           \/ at' = [at EXCEPT ![c] = "statusFound"]
    BY <1>3 DEF RetryFinds, StatusFinds
  <2>2. OrdersOf(s)' = OrdersOf(s) /\ c \notin Halfway(s)
    BY <2>1 DEF OrdersOf, Halfway
  <2> QED
    BY <2>1, <2>2, Elsewhere DEF OnSession
<1> QED
  BY <1>1, <1>2, <1>3 DEF CallBegins

LEMMA AloneCall ==
    ASSUME TypeOK, InHand, NEW c \in Calls, CallStep(c),
           NEW s \in Sessions, s \notin raced', AloneOn(s)
    PROVE  AloneOn(s)'
<1> USE DEF TypeOK, rowVars, sessionVars, callVars, trigVars, n8nVars, histVars, Goto
<1>1. CASE InfoSaves(c)
  <2>1. /\ at[c] = "infoFound" /\ at' = [at EXCEPT ![c] = "infoSaved"]
        /\ UNCHANGED <<session, from, sess>>
    BY <1>1 DEF InfoSaves
  <2>2. OrdersOf(s)' = OrdersOf(s) /\ Halfway(s)' = Halfway(s)
    BY <2>1 DEF OrdersOf, Halfway
  <2>3. \A d \in Halfway(s) : at'[d] = at[d] \/ {at'[d], at[d]} = {"infoFound", "infoSaved"}
    BY <2>1 DEF Halfway
  <2> QED
    BY <2>1, <2>2, <2>3, AloneFrame
<1>2. CASE InfoMarksReady(c) \/ DraftMarks(c)
  <2>1. /\ at[c] \in {"infoSaved", "draftSaved"} /\ sess[c] \in Sessions
        /\ at' = [at EXCEPT ![c] = "done"] /\ sess' = [sess EXCEPT ![c] = NoSession]
        /\ \E new : session' = [session EXCEPT ![sess[c]] = new] /\ (at[c] = "draftSaved" => new = "draft_created")
        /\ UNCHANGED from
    BY <1>2 DEF InfoMarksReady, DraftMarks, Finish, InHand, OnSession
  <2>2. OrdersOf(s)' = OrdersOf(s)
    BY <2>1 DEF OrdersOf
  <2>3. CASE sess[c] # s
    <3>1. c \notin Halfway(s) /\ session'[s] = session[s]
      BY <2>1, <2>3 DEF Halfway
    <3> QED
      BY <2>1, <2>2, <3>1, Elsewhere DEF OnSession
  <2>4. CASE sess[c] = s
    <3>1. c \in Halfway(s) /\ Halfway(s)' = Halfway(s) \ {c}
      BY <2>1, <2>4 DEF Halfway
    <3>2. at[c] = "draftSaved" => session'[s] = "draft_created"
      BY <2>1, <2>4
    <3> QED
      BY <2>2, <3>1, <3>2, AloneLeaves
  <2> QED
    BY <2>3, <2>4
<1>3. CASE DraftSaves(c)
  <2>1. PICK r \in Sessions : r = sess[c]
    BY <1>3 DEF DraftSaves, InHand, OnSession
  <2>2. PICK o \in Orders : PlaceOrder(o, r)
    BY <1>3, <2>1 DEF DraftSaves
  <2>3. at[c] = "draftFound" /\ at' = [at EXCEPT ![c] = "draftSaved"] /\ UNCHANGED <<session, sess>>
    BY <1>3 DEF DraftSaves
  <2>4. CASE r # s
    <3>1. OrdersOf(s)' = OrdersOf(s) /\ c \notin Halfway(s)
      BY <2>1, <2>2, <2>4, PlacedOrders DEF Halfway
    <3> QED
      BY <2>1, <2>3, <2>4, <3>1, Elsewhere
  <2>5. CASE r = s
    <3>1. c \in Halfway(s) /\ Halfway(s)' = Halfway(s)
      BY <2>1, <2>3, <2>5 DEF Halfway
    <3>2. OrdersOf(s) = {} /\ \A d \in Halfway(s) : d = c
      BY <2>3, <3>1 DEF AloneOn
    <3>3. OrdersOf(s)' = {o}
      BY <2>2, <2>5, <3>2, PlacedOrders
    <3> QED
      BY <2>3, <3>1, <3>2, <3>3 DEF AloneOn
  <2> QED
    BY <2>4, <2>5
<1>4. CASE StatusCompares(c) \/ StatusWrites(c) \/ RetryResets(c)
  <2>1. /\ at[c] \in {"statusFound", "statusCompared", "retryFound"} /\ UNCHANGED <<session, from>>
        /\ \/ at' = [at EXCEPT ![c] = "statusCompared"] /\ UNCHANGED sess
           \/ at' = [at EXCEPT ![c] = "done"] /\ sess' = [sess EXCEPT ![c] = NoSession]
    BY <1>4 DEF StatusCompares, StatusWrites, RetryResets, Finish
  <2>2. OrdersOf(s)' = OrdersOf(s) /\ c \notin Halfway(s)
    BY <2>1 DEF OrdersOf, Halfway
  <2> QED
    BY <2>1, <2>2, Elsewhere DEF OnSession
<1> QED
  BY <1>1, <1>2, <1>3, <1>4 DEF CallStep

LEMMA AloneStep ==
    ASSUME TypeOK, InHand, Backed, Alone, [Next]_vars
    PROVE  Alone'
<1> USE DEF TypeOK, rowVars, sessionVars, callVars, trigVars, n8nVars, histVars
<1> SUFFICES ASSUME NEW s \in Sessions, s \notin raced'
             PROVE  AloneOn(s)'
  BY DEF Alone
<1>1. AloneOn(s)
  <2>1. raced \subseteq raced'
    <3>1. (\E c \in Calls : CallBegins(c)) => raced \subseteq raced'
      BY DEF CallBegins, InfoFinds, DraftFinds, Meets, CreateFromConversation, StatusFinds, RetryFinds
    <3>2. (\E c \in Calls : CallStep(c)) => UNCHANGED raced
      BY DEF CallStep, InfoSaves, InfoMarksReady, DraftSaves, DraftMarks, StatusCompares, StatusWrites, RetryResets
    <3>3. (\E t \in Calls : TriggerStep(t)) \/ FaultStep => raced \subseteq raced'
      BY DEF TriggerStep, TriggerSkips, TriggerFinds, TriggerMarksPending, TriggerPosts, FaultStep, CallFails,
             TriggerThrows, PostFails, CallbackLost, Restart
    <3>4. \/ \E r \in Sessions : Start(r)
          \/ \E o \in Orders, answer \in Answers, again \in BOOLEAN : HandleSyncCallback(o, answer, again)
          \/ N8nStep \/ Settled \/ UNCHANGED vars
          => UNCHANGED raced
      BY DEF Start, HandleSyncCallback, N8nStep, N8nSyncs, N8nRefuses, Settled, vars
    <3> QED
      BY <3>1, <3>2, <3>3, <3>4 DEF Next
  <2> QED
    BY <2>1 DEF Alone
<1>2. ASSUME NEW r \in Sessions, Start(r)
      PROVE  AloneOn(s)'
  <2>1. OrdersOf(s)' = OrdersOf(s) /\ Halfway(s)' = Halfway(s) /\ UNCHANGED at
    BY <1>2 DEF Start, OrdersOf, Halfway
  <2>2. session'[s] = session[s] \/ session[s] # "draft_created"
    BY <1>2 DEF Start
  <2> QED
    BY <1>1, <2>1, <2>2, AloneFrame
<1>3. ASSUME NEW c \in Calls, CallFails(c)
      PROVE  AloneOn(s)'
  <2>1. /\ at' = [at EXCEPT ![c] = "done"] /\ sess' = [sess EXCEPT ![c] = NoSession]
        /\ UNCHANGED <<session, from>> /\ (at[c] = "draftSaved" => sess[c] \in raced')
    BY <1>3 DEF CallFails, Finish, Goto
  <2>2. OrdersOf(s)' = OrdersOf(s)
    BY <2>1 DEF OrdersOf
  <2>3. CASE c \in Halfway(s)
    <3>1. at[c] # "draftSaved" /\ Halfway(s)' = Halfway(s) \ {c}
      BY <2>1, <2>3 DEF Halfway
    <3> QED
      BY <1>1, <2>2, <2>3, <3>1, AloneLeaves
  <2>4. CASE c \notin Halfway(s)
    BY <1>1, <2>1, <2>2, <2>4, Elsewhere DEF OnSession
  <2> QED
    BY <2>3, <2>4
<1>4. CASE Restart
  <2>1. Halfway(s) = {} /\ Halfway(s)' = {} /\ OrdersOf(s)' = OrdersOf(s)
    BY <1>4 DEF Restart, Halfway, OrdersOf
  <2> QED
    BY <1>1, <1>4, <2>1, AloneFrame DEF Restart
<1>5. CASE UNCHANGED <<session, from, callVars>>
  <2>1. OrdersOf(s)' = OrdersOf(s) /\ Halfway(s)' = Halfway(s)
    BY <1>5 DEF OrdersOf, Halfway
  <2> QED
    BY <1>1, <1>5, <2>1, AloneFrame
<1>6. \/ \E t \in Calls : TriggerStep(t) \/ TriggerThrows(t) \/ PostFails(t)
      \/ \E o \in Orders, answer \in Answers, again \in BOOLEAN : HandleSyncCallback(o, answer, again)
      \/ \E o \in Orders, answer \in Answers : CallbackLost(o, answer)
      \/ N8nStep \/ UNCHANGED vars
      => UNCHANGED <<session, from, callVars>>
  BY DEF TriggerStep, TriggerSkips, TriggerFinds, TriggerMarksPending, TriggerPosts, TriggerThrows,
         PostFails, HandleSyncCallback, CallbackLost, N8nStep, N8nSyncs, N8nRefuses, vars
<1> QED
  BY <1>1, <1>2, <1>3, <1>4, <1>5, <1>6, AloneBegins, AloneCall DEF Next, FaultStep, Settled

-----------------------------------------------------------------------------
(* The invariant, and what it gives.                                       *)

LEMMA InvStep ==
    ASSUME OrderInv, [Next]_vars
    PROVE  OrderInv'
<1>1. TypeOK' /\ InHand'
  BY TypeStep, HandStep DEF OrderInv
<1>2. Backed'
  BY BackedStep DEF OrderInv, Backed
<1>3. Shown'
  BY ShownStep DEF OrderInv, Shown
<1>4. Alone'
  BY AloneStep DEF OrderInv, Backed
<1> QED
  BY <1>1, <1>2, <1>3, <1>4 DEF OrderInv, Backed, Shown

\* Everything a call relies on between two of its statements stays true while the other
\* calls, n8n's callbacks and the faults happen (orders.service.ts, checkout.service.ts).
THEOREM OrderInvariant == Spec => []OrderInv
BY InitInv, InvStep, PTL DEF Spec

\* The columns of sessions and orders, the locals of the calls and n8n's queues keep their types.
THEOREM OrderTypes == Spec => []TypeOK
<1>1. OrderInv => TypeOK
  BY DEF OrderInv
<1> QED
  BY <1>1, OrderInvariant, PTL

\* A session that is ready has customer info and one whose draft is created has an order:
\* saveCustomerInfo and createDraft mark the session only after they have saved.
THEOREM SessionsAreBacked == Spec => []SessionIsBacked
<1>1. OrderInv => SessionIsBacked
  BY DEF OrderInv
<1> QED
  BY <1>1, OrderInvariant, PTL

\* Two orders of one session need two calls on it at one time, or a createDraft that
\* stopped between the order and the status: the status check in createDraft is enough otherwise.
THEOREM SecondDraftsAreRaces == Spec => []SecondDraftOnlyByRace
<1>1. OrderInv => SecondDraftOnlyByRace
  BY DEF OrderInv, Alone, AloneOn, SecondDraftOnlyByRace
<1> QED
  BY <1>1, OrderInvariant, PTL

\* Only a stale save of updateStatus separates the synced status from the external id that
\* handleSyncCallback writes with it, and only n8n can leave the id out.
THEOREM SyncedOrdersHaveIds == Spec => []SyncedHasItsId
<1>1. OrderInv => SyncedHasItsId
  BY DEF OrderInv
<1> QED
  BY <1>1, OrderInvariant, PTL

-----------------------------------------------------------------------------
(* OrderSync implements OrderPromise.  The platform's queue is behind      *)
(* stage; shown is the sync column, which several writers set: by          *)
(* SyncKnown and EntityKnown none of them can set "synced" on an order the *)
(* platform does not have.                                                 *)

\* A step that touches none of the three mapped variables stutters.
LEMMA PromiseFrame ==
    ASSUME UNCHANGED <<sync, posted, shop>>
    PROVE  UNCHANGED Promise!promiseVars
BY DEF Promise!promiseVars

\* A write of the sync column of o shows o, if the platform has it, or hides it.
LEMMA PromiseSync ==
    ASSUME TypeOK, NEW o \in Orders, UNCHANGED <<posted, shop>>,
           NEW v, sync' = [sync EXCEPT ![o] = v], v = "synced" => o \in shop
    PROVE  Promise!Next
<1> DEFINE Synced == {p \in Orders : sync[p] = "synced"}
<1>1. CASE v = "synced"
  <2>1. Synced' = Synced \cup {o}
    BY <1>1 DEF TypeOK
  <2>2. Promise!Show(o)
    BY <1>1, <2>1 DEF Promise!Show
  <2> QED
    BY <2>2 DEF Promise!Next
<1>2. CASE v # "synced"
  <2>1. Synced' = Synced \ {o}
    BY <1>2 DEF TypeOK
  <2>2. Promise!Hide(o)
    BY <2>1 DEF Promise!Hide
  <2> QED
    BY <2>2 DEF Promise!Next
<1> QED
  BY <1>1, <1>2

LEMMA PromiseInit == Init => Promise!Init
BY DEF Init, Promise!Init

\* Every step sends, is accepted, shows, hides, or is not seen.
LEMMA PromiseStep ==
    ASSUME OrderInv, [Next]_vars
    PROVE  [Promise!Next]_(Promise!promiseVars)
<1> USE DEF rowVars, sessionVars, callVars, trigVars, n8nVars, histVars
<1>0. TypeOK /\ InHand /\ SyncKnown /\ EntityKnown
  BY DEF OrderInv
<1>1. ASSUME NEW c \in Calls, CallBegins(c)
      PROVE  UNCHANGED Promise!promiseVars
  BY <1>1, PromiseFrame DEF CallBegins, InfoFinds, DraftFinds, CreateFromConversation, PlaceOrder, StatusFinds, RetryFinds
<1>2. ASSUME NEW c \in Calls, CallStep(c)
      PROVE  [Promise!Next]_(Promise!promiseVars)
  <2>1. CASE InfoSaves(c) \/ InfoMarksReady(c) \/ DraftSaves(c) \/ DraftMarks(c) \/ StatusCompares(c)
    BY <2>1, PromiseFrame DEF InfoSaves, InfoMarksReady, DraftSaves, PlaceOrder, DraftMarks, StatusCompares
  <2>2. CASE StatusWrites(c)
    <3>1. ord[c] \in Orders /\ UNCHANGED <<posted, shop>>
      BY <1>0, <2>2 DEF StatusWrites, InHand, OnStatus
    <3>2. CASE "sync" \in diff[c]
      <4>1. sync' = [sync EXCEPT ![ord[c]] = entity[c].sync]
        BY <2>2, <3>2 DEF StatusWrites
      <4>2. entity[c].sync = "synced" => ord[c] \in shop
        BY <1>0, <2>2 DEF StatusWrites, EntityKnown, OnStatus
      <4> QED
        BY <1>0, <3>1, <4>1, <4>2, PromiseSync
    <3>3. CASE "sync" \notin diff[c]
      BY <2>2, <3>1, <3>3, PromiseFrame DEF StatusWrites
    <3> QED
      BY <3>2, <3>3
  <2>3. CASE RetryResets(c)
    <3>1. ord[c] \in Orders /\ UNCHANGED <<posted, shop>> /\ sync' = [sync EXCEPT ![ord[c]] = "none"]
      BY <1>0, <2>3 DEF RetryResets, InHand
    <3> QED
      BY <1>0, <3>1, PromiseSync
  <2> QED
    BY <1>2, <2>1, <2>2, <2>3 DEF CallStep
<1>3. ASSUME NEW t \in Calls, TriggerStep(t)
      PROVE  [Promise!Next]_(Promise!promiseVars)
  <2>1. CASE TriggerSkips(t) \/ TriggerFinds(t)
    BY <2>1, PromiseFrame DEF TriggerSkips, TriggerFinds
  <2>2. CASE TriggerMarksPending(t)
    <3>1. tord[t] \in Orders /\ UNCHANGED <<posted, shop>> /\ sync' = [sync EXCEPT ![tord[t]] = "pending"]
      BY <1>0, <2>2 DEF TriggerMarksPending, InHand, Triggering
    <3> QED
      BY <1>0, <3>1, PromiseSync
  <2>3. CASE TriggerPosts(t)
    <3>1. PICK o \in Orders : posted' = posted \cup {o} /\ UNCHANGED <<sync, shop>>
      BY <1>0, <2>3 DEF TriggerPosts, InHand, Triggering
    <3>2. CASE o \in posted
      BY <3>1, <3>2, PromiseFrame
    <3>3. CASE o \notin posted
      <4>1. o \notin shop
        BY <1>0, <3>3 DEF SyncKnown
      <4>2. Promise!Send(o)
        BY <3>1, <3>3, <4>1 DEF Promise!Send
      <4> QED
        BY <4>2 DEF Promise!Next
    <3> QED
      BY <3>2, <3>3
  <2> QED
    BY <1>3, <2>1, <2>2, <2>3 DEF TriggerStep
<1>4. ASSUME NEW o \in Orders, NEW answer \in Answers, NEW again \in BOOLEAN, HandleSyncCallback(o, answer, again)
      PROVE  [Promise!Next]_(Promise!promiseVars)
  <2>1. CASE sync[o] = "synced"
    BY <1>4, <2>1, PromiseFrame DEF HandleSyncCallback
  <2>2. CASE sync[o] # "synced"
    <3>1. sync' = [sync EXCEPT ![o] = IF answer = "failed" THEN "failed" ELSE "synced"] /\ UNCHANGED <<posted, shop>>
      BY <1>4, <2>2 DEF HandleSyncCallback
    <3>2. answer # "failed" => o \in shop
      BY <1>0, <1>4 DEF HandleSyncCallback, SyncKnown
    <3> QED
      BY <1>0, <3>1, <3>2, PromiseSync
  <2> QED
    BY <2>1, <2>2
<1>5. ASSUME NEW o \in Orders, N8nSyncs(o) \/ N8nRefuses(o)
      PROVE  [Promise!Next]_(Promise!promiseVars)
  <2>1. CASE N8nRefuses(o) \/ o \in shop
    BY <1>5, <2>1, PromiseFrame DEF N8nSyncs, N8nRefuses
  <2>2. CASE N8nSyncs(o) /\ o \notin shop
    <3>1. o \in posted /\ shop' = shop \cup {o} /\ UNCHANGED <<sync, posted>>
      BY <1>0, <2>2 DEF N8nSyncs, SyncKnown
    <3>2. Promise!Accept(o)
      BY <2>2, <3>1 DEF Promise!Accept
    <3> QED
      BY <3>2 DEF Promise!Next
  <2> QED
    BY <1>5, <2>1, <2>2
<1>6. CASE FaultStep
  BY <1>6, PromiseFrame DEF FaultStep, CallFails, TriggerThrows, PostFails, CallbackLost, Restart
<1>7. ASSUME NEW s \in Sessions, Start(s)
      PROVE  UNCHANGED Promise!promiseVars
  BY <1>7, PromiseFrame DEF Start
<1>8. CASE UNCHANGED vars
  BY <1>8, PromiseFrame DEF vars
<1> QED
  BY <1>1, <1>2, <1>3, <1>4, <1>5, <1>6, <1>7, <1>8 DEF Next, N8nStep, Settled

\* The synchronisation of orders keeps its promise to the merchant: an order shown as synced
\* was sent to the platform and taken by it, whatever triggers, retries, stale saves, repeated
\* or lost callbacks and restarts happen in between.
THEOREM OrderSyncKeepsPromise == Spec => KeepsPromise
<1>1. Init => Promise!Init
  BY PromiseInit
<1>2. OrderInv /\ [Next]_vars => [Promise!Next]_(Promise!promiseVars)
  BY PromiseStep
<1> QED
  BY <1>1, <1>2, OrderInvariant, PTL DEF Spec, KeepsPromise, Promise!Spec
=============================================================================
