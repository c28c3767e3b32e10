----------------------------- MODULE OrderSync -----------------------------
(***************************************************************************)
(* Checkout sessions, orders, and their synchronisation with the shop's    *)
(* platform through n8n.                                                   *)
(*                                                                         *)
(* A call is one request of the admin panel, or the end of a conversation  *)
(* turn that places an order.  Only createFromConversation runs in a       *)
(* transaction; everywhere else each awaited statement is a step, and no   *)
(* statement but the callback's looks at what it overwrites.  n8n answers  *)
(* a POST later, by a callback that may be lost or come twice.             *)
(***************************************************************************)
EXTENDS Naturals

CONSTANTS
    Sessions,   \* checkout sessions
    Orders,     \* order ids, taken in ascending order
    Calls,      \* requests, each served once, triggering at most one sync
    NoSession, NoOrder,
    MaxFaults   \* bound on failed statements, failed requests and restarts

ASSUME OrderSyncAssumption ==
    /\ NoSession \notin Sessions
    /\ Orders \subseteq Nat /\ NoOrder \notin Orders
    /\ MaxFaults \in Nat

VARIABLES
    session,     \* session[s]: its status, "none" before it is started
    info,        \* sessions with customer info
    status, sync, ext,   \* columns of an order: ext is "has externalOrderId"
    from,        \* from[o]: the session order o was made of, or NoSession: no order yet
    at,          \* at[c]: where call c is
    sess, ord,   \* the session and the order call c works on
    entity,      \* entity[c]: the columns updateStatus holds in memory
    diff,        \* diff[c]: the columns its save is going to write
    tat, tord,   \* tat[c]: where the triggerExternalSync of call c is, and its order
    patient,     \* calls whose trigger is inside withRetry
    posts,       \* orders whose request n8n has and has not worked on
    callbacks,   \* <<order, answer>>: callbacks under way
    posted,      \* orders n8n was ever asked to create
    shop,        \* orders the platform has
    idless,      \* orders n8n ever reported as created without naming their id
    raced,       \* sessions whose calls overlapped or failed half way
    lost,        \* orders with a request or an answer that got lost
    overwritten, \* orders with sync columns written back by updateStatus
    faults

rowVars == <<status, sync, ext, from>>
sessionVars == <<session, info, raced>>
callVars == <<at, sess, ord, entity, diff>>
trigVars == <<tat, tord, patient>>
n8nVars == <<posts, callbacks, posted, shop, idless>>
histVars == <<lost, overwritten>>
vars == <<rowVars, sessionVars, callVars, trigVars, n8nVars, histVars, faults>>

Statuses == {"awaiting_manager_confirmation", "confirmed", "cancelled"}
SyncStates == {"none", "pending", "synced", "failed"}
Answers == {"created", "createdNoId", "failed"}   \* externalOrderId is optional in the DTO
Columns == {"status", "sync", "ext"}
Row == [status : Statuses, sync : SyncStates, ext : BOOLEAN]
NoRow == [status |-> "cancelled", sync |-> "none", ext |-> FALSE]

RowOf(o) == [status |-> status[o], sync |-> sync[o], ext |-> ext[o]]
Placed(o) == from[o] # NoSession
OrdersOf(s) == {o \in Orders : from[o] = s}

\* The calls that have checked the status of session s and not written it yet.
Halfway(s) ==
    {c \in Calls : sess[c] = s /\ at[c] \in {"infoFound", "infoSaved", "draftFound", "draftSaved"}}

Init ==
    /\ session = [s \in Sessions |-> "none"]
    /\ info = {} /\ raced = {} /\ lost = {} /\ overwritten = {}
    /\ status = [o \in Orders |-> "cancelled"]
    /\ sync = [o \in Orders |-> "none"]
    /\ ext = [o \in Orders |-> FALSE]
    /\ from = [o \in Orders |-> NoSession]
    /\ at = [c \in Calls |-> "idle"]
    /\ sess = [c \in Calls |-> NoSession]
    /\ ord = [c \in Calls |-> NoOrder]
    /\ entity = [c \in Calls |-> NoRow]
    /\ diff = [c \in Calls |-> {}]
    /\ tat = [t \in Calls |-> "idle"]
    /\ tord = [t \in Calls |-> NoOrder]
    /\ patient = {}
    /\ posts = {} /\ callbacks = {} /\ posted = {} /\ shop = {} /\ idless = {}
    /\ faults = 0

Goto(c, where) == at' = [at EXCEPT ![c] = where]

\* The call is over, and its locals are gone.
Finish(c) ==
    /\ Goto(c, "done")
    /\ sess' = [sess EXCEPT ![c] = NoSession]
    /\ ord' = [ord EXCEPT ![c] = NoOrder]
    /\ entity' = [entity EXCEPT ![c] = NoRow]
    /\ diff' = [diff EXCEPT ![c] = {}]

FinishTrigger(c) ==
    /\ tat' = [tat EXCEPT ![c] = "done"]
    /\ tord' = [tord EXCEPT ![c] = NoOrder]
    /\ patient' = patient \ {c}

\* A call that finds session s while another one is half way races with it.
Meets(s) == raced' = IF Halfway(s) # {} THEN raced \cup {s} ELSE raced

\* A new row of orders, made of session s.
PlaceOrder(o, s) ==
    /\ ~Placed(o) /\ \A p \in Orders : p < o => Placed(p)
    /\ from' = [from EXCEPT ![o] = s]
    /\ status' = [status EXCEPT ![o] = "awaiting_manager_confirmation"]
    /\ UNCHANGED <<sync, ext>>

\* triggerExternalSync is called and not awaited.
Spawn(c, o) ==
    /\ tat' = [tat EXCEPT ![c] = "find"]
    /\ tord' = [tord EXCEPT ![c] = o]

(***************************************************************************)
(* Checkout: POST checkout/start, PATCH checkout/:id/customer-info, and    *)
(* POST orders/draft.                                                      *)
(***************************************************************************)
Start(s) ==
    /\ session[s] = "none"
    /\ session' = [session EXCEPT ![s] = "collecting_customer_info"]
    /\ UNCHANGED <<rowVars, info, raced, callVars, trigVars, n8nVars, histVars, faults>>

InfoFinds(c, s) ==
    /\ at[c] = "idle" /\ session[s] \notin {"none", "draft_created"}
    /\ Goto(c, "infoFound")
    /\ sess' = [sess EXCEPT ![c] = s]
    /\ Meets(s)
    /\ UNCHANGED <<rowVars, session, info, ord, entity, diff, trigVars, n8nVars, histVars, faults>>

InfoSaves(c) ==
    /\ at[c] = "infoFound"
    /\ info' = info \cup {sess[c]}
    /\ Goto(c, "infoSaved")
    /\ UNCHANGED <<rowVars, session, raced, sess, ord, entity, diff, trigVars, n8nVars, histVars, faults>>

\* Mutant: the session is ready before the customer's data is saved.
InfoMarksFirst(c) ==
    /\ at[c] \in {"infoFound", "infoSaved"}
    /\ session' = [session EXCEPT ![sess[c]] = "ready_for_draft_order"]
    /\ Finish(c)
    /\ UNCHANGED <<rowVars, info, raced, trigVars, n8nVars, histVars, faults>>

InfoMarksReady(c) ==
    /\ at[c] = "infoSaved"
    /\ session' = [session EXCEPT ![sess[c]] = "ready_for_draft_order"]
    /\ Finish(c)
    /\ UNCHANGED <<rowVars, info, raced, trigVars, n8nVars, histVars, faults>>

\* Mutant: the status of the session is not checked.
DraftFindsAny(c, s) ==
    /\ at[c] = "idle" /\ s \in info
    /\ Goto(c, "draftFound")
    /\ sess' = [sess EXCEPT ![c] = s]
    /\ Meets(s)
    /\ UNCHANGED <<rowVars, session, info, ord, entity, diff, trigVars, n8nVars, histVars, faults>>

DraftFinds(c, s) ==
    /\ at[c] = "idle" /\ session[s] = "ready_for_draft_order" /\ s \in info
    /\ Goto(c, "draftFound")
    /\ sess' = [sess EXCEPT ![c] = s]
    /\ Meets(s)
    /\ UNCHANGED <<rowVars, session, info, ord, entity, diff, trigVars, n8nVars, histVars, faults>>

DraftSaves(c) ==
    /\ at[c] = "draftFound"
    /\ \E o \in Orders : PlaceOrder(o, sess[c])
    /\ Goto(c, "draftSaved")
    /\ UNCHANGED <<sessionVars, sess, ord, entity, diff, trigVars, n8nVars, histVars, faults>>

DraftMarks(c) ==
    /\ at[c] = "draftSaved"
    /\ session' = [session EXCEPT ![sess[c]] = "draft_created"]
    /\ Finish(c)
    /\ UNCHANGED <<rowVars, info, raced, trigVars, n8nVars, histVars, faults>>

\* A turn of a conversation: session, customer info and order in one transaction.
CreateFromConversation(c, s, o) ==
    /\ at[c] = "idle" /\ session[s] = "none"
    /\ session' = [session EXCEPT ![s] = "draft_created"]
    /\ info' = info \cup {s}
    /\ PlaceOrder(o, s)
    /\ Spawn(c, o)
    /\ patient' = patient \cup {c}
    /\ Finish(c)
    /\ UNCHANGED <<raced, n8nVars, histVars, faults>>

(***************************************************************************)
(* PATCH orders/:id/status.  orderRepo.save selects the row again, and     *)
(* writes every column in which the entity differs from it.                *)
(***************************************************************************)
StatusFinds(c, o, new) ==
    /\ at[c] = "idle" /\ Placed(o)
    /\ Goto(c, "statusFound")
    /\ ord' = [ord EXCEPT ![c] = o]
    /\ entity' = [entity EXCEPT ![c] = [RowOf(o) EXCEPT !.status = new]]
    /\ UNCHANGED <<rowVars, sessionVars, sess, diff, trigVars, n8nVars, histVars, faults>>

StatusCompares(c) ==
    /\ at[c] = "statusFound"
    /\ diff' = [diff EXCEPT ![c] = {f \in Columns : entity[c][f] # RowOf(ord[c])[f]}]
    /\ Goto(c, "statusCompared")
    /\ UNCHANGED <<rowVars, sessionVars, sess, ord, entity, trigVars, n8nVars, histVars, faults>>

StatusWrites(c) ==
    LET o == ord[c]
        back == diff[c] \cap {"sync", "ext"} # {}
    IN  /\ at[c] = "statusCompared"
        /\ status' = IF "status" \in diff[c] THEN [status EXCEPT ![o] = entity[c].status] ELSE status
        /\ sync' = IF "sync" \in diff[c] THEN [sync EXCEPT ![o] = entity[c].sync] ELSE sync
        /\ ext' = IF "ext" \in diff[c] THEN [ext EXCEPT ![o] = entity[c].ext] ELSE ext
        /\ overwritten' = IF back THEN overwritten \cup {o} ELSE overwritten
        /\ Finish(c)
        /\ IF entity[c].status = "confirmed" THEN Spawn(c, o) ELSE UNCHANGED <<tat, tord>>
        /\ UNCHANGED <<from, patient, sessionVars, n8nVars, lost, faults>>

\* POST orders/:id/retry-sync.
RetryFinds(c, o) ==
    /\ at[c] = "idle" /\ Placed(o)
    /\ Goto(c, "retryFound")
    /\ ord' = [ord EXCEPT ![c] = o]
    /\ UNCHANGED <<rowVars, sessionVars, sess, entity, diff, trigVars, n8nVars, histVars, faults>>

RetryResets(c) ==
    /\ at[c] = "retryFound"
    /\ sync' = [sync EXCEPT ![ord[c]] = "none"]
    /\ Spawn(c, ord[c])
    /\ Finish(c)
    /\ UNCHANGED <<status, ext, from, patient, sessionVars, n8nVars, histVars, faults>>

(***************************************************************************)
(* triggerExternalSync: look for a connection, set pending, POST.          *)
(***************************************************************************)
\* No store is connected, or no webhook is configured.
TriggerSkips(t) ==
    /\ tat[t] = "find"
    /\ FinishTrigger(t)
    /\ UNCHANGED <<rowVars, sessionVars, callVars, n8nVars, histVars, faults>>

TriggerFinds(t) ==
    /\ tat[t] = "find"
    /\ tat' = [tat EXCEPT ![t] = "found"]
    /\ UNCHANGED <<rowVars, sessionVars, callVars, tord, patient, n8nVars, histVars, faults>>

TriggerMarksPending(t) ==
    /\ tat[t] = "found"
    /\ sync' = [sync EXCEPT ![tord[t]] = "pending"]
    /\ tat' = [tat EXCEPT ![t] = "marked"]
    /\ UNCHANGED <<status, ext, from, sessionVars, callVars, tord, patient, n8nVars, histVars, faults>>

TriggerPosts(t) ==
    /\ tat[t] = "marked"
    /\ posts' = posts \cup {tord[t]}
    /\ posted' = posted \cup {tord[t]}
    /\ FinishTrigger(t)
    /\ UNCHANGED <<rowVars, sessionVars, callVars, callbacks, shop, idless, histVars, faults>>

(***************************************************************************)
(* POST internal/orders/:id/sync-callback: one conditional UPDATE.  The    *)
(* key it verifies, order-<id>-sync-1, is the same for every trigger.      *)
(***************************************************************************)
\* Mutant: the external id is not stored.
CallbackIgnoresId(o, answer, again) ==
    /\ <<o, answer>> \in callbacks
    /\ callbacks' = IF again THEN callbacks ELSE callbacks \ {<<o, answer>>}
    /\ IF sync[o] = "synced" THEN UNCHANGED <<sync, ext>>
       ELSE /\ sync' = [sync EXCEPT ![o] = IF answer = "failed" THEN "failed" ELSE "synced"]
            /\ UNCHANGED ext
    /\ UNCHANGED <<status, from, sessionVars, callVars, trigVars, posts, posted, shop, idless, histVars, faults>>

\* Mutant: a callback counts as success whatever it says.
CallbackIgnoresStatus(o, answer, again) ==
    /\ <<o, answer>> \in callbacks
    /\ callbacks' = IF again THEN callbacks ELSE callbacks \ {<<o, answer>>}
    /\ IF sync[o] = "synced" THEN UNCHANGED <<sync, ext>>
       ELSE /\ sync' = [sync EXCEPT ![o] = "synced"]
            /\ ext' = IF answer = "failed" THEN ext ELSE [ext EXCEPT ![o] = answer = "created"]
    /\ UNCHANGED <<status, from, sessionVars, callVars, trigVars, posts, posted, shop, idless, histVars, faults>>

\* Mutant: a failure is only logged.
CallbackOnlySuccess(o, answer, again) ==
    /\ <<o, answer>> \in callbacks
    /\ callbacks' = IF again THEN callbacks ELSE callbacks \ {<<o, answer>>}
    /\ IF sync[o] = "synced" \/ answer = "failed" THEN UNCHANGED <<sync, ext>>
       ELSE /\ sync' = [sync EXCEPT ![o] = IF answer = "failed" THEN "failed" ELSE "synced"]
            /\ ext' = IF answer = "failed" THEN ext ELSE [ext EXCEPT ![o] = answer = "created"]
    /\ UNCHANGED <<status, from, sessionVars, callVars, trigVars, posts, posted, shop, idless, histVars, faults>>

\* A success without an id clears the column.
HandleSyncCallback(o, answer, again) ==
    /\ <<o, answer>> \in callbacks
    /\ callbacks' = IF again THEN callbacks ELSE callbacks \ {<<o, answer>>}
    /\ IF sync[o] = "synced" THEN UNCHANGED <<sync, ext>>
       ELSE /\ sync' = [sync EXCEPT ![o] = IF answer = "failed" THEN "failed" ELSE "synced"]
            /\ ext' = IF answer = "failed" THEN ext ELSE [ext EXCEPT ![o] = answer = "created"]
    /\ UNCHANGED <<status, from, sessionVars, callVars, trigVars, posts, posted, shop, idless, histVars, faults>>

(***************************************************************************)
(* n8n, which is not in the repository: it works on a request and sends a  *)
(* callback.  The constant key lets it create an order once.               *)
(***************************************************************************)
N8nSyncs(o) ==
    /\ o \in posts
    /\ posts' = posts \ {o}
    /\ shop' = shop \cup {o}
    /\ \/ callbacks' = callbacks \cup {<<o, "created">>} /\ UNCHANGED idless
       \/ callbacks' = callbacks \cup {<<o, "createdNoId">>} /\ idless' = idless \cup {o}
    /\ UNCHANGED <<rowVars, sessionVars, callVars, trigVars, posted, histVars, faults>>

N8nRefuses(o) ==
    /\ o \in posts
    /\ posts' = posts \ {o}
    /\ callbacks' = callbacks \cup {<<o, "failed">>}
    /\ UNCHANGED <<rowVars, sessionVars, callVars, trigVars, posted, shop, idless, histVars, faults>>

(***************************************************************************)
(* Faults.                                                                 *)
(***************************************************************************)
Fault == faults < MaxFaults /\ faults' = faults + 1

\* A statement of a call fails: what was written before it stays.
CallFails(c) ==
    /\ Fault
    /\ at[c] \notin {"idle", "done"}
    /\ Finish(c)
    /\ raced' = IF at[c] = "draftSaved" THEN raced \cup {sess[c]} ELSE raced
    /\ UNCHANGED <<rowVars, session, info, trigVars, n8nVars, histVars>>

\* A statement before the POST throws: withRetry begins again, the others give up.
TriggerThrows(t) ==
    /\ Fault
    /\ tat[t] \in {"find", "found"}
    /\ \/ t \in patient /\ tat' = [tat EXCEPT ![t] = "find"] /\ UNCHANGED <<tord, patient>>
       \/ FinishTrigger(t)
    /\ UNCHANGED <<rowVars, sessionVars, callVars, n8nVars, histVars>>

\* The POST fails or is refused: the error is logged and swallowed, so nobody retries.
PostFails(t) ==
    /\ Fault
    /\ tat[t] = "marked"
    /\ FinishTrigger(t)
    /\ lost' = lost \cup {tord[t]}
    /\ UNCHANGED <<rowVars, sessionVars, callVars, n8nVars, overwritten>>

CallbackLost(o, answer) ==
    /\ Fault
    /\ <<o, answer>> \in callbacks
    /\ callbacks' = callbacks \ {<<o, answer>>}
    /\ lost' = lost \cup {o}
    /\ UNCHANGED <<rowVars, sessionVars, callVars, trigVars, posts, posted, shop, idless, overwritten>>

\* The process stops: calls and triggers are gone, rows and n8n are not.
Restart ==
    /\ Fault
    /\ at' = [c \in Calls |-> IF at[c] = "idle" THEN "idle" ELSE "done"]
    /\ sess' = [c \in Calls |-> NoSession]
    /\ ord' = [c \in Calls |-> NoOrder]
    /\ entity' = [c \in Calls |-> NoRow]
    /\ diff' = [c \in Calls |-> {}]
    /\ tat' = [t \in Calls |-> IF tat[t] = "idle" THEN "idle" ELSE "done"]
    /\ tord' = [t \in Calls |-> NoOrder]
    /\ patient' = {}
    /\ raced' = raced \cup {s \in Sessions : Halfway(s) # {}}
    /\ lost' = lost \cup {o \in Orders : \E t \in Calls : tord[t] = o /\ tat[t] = "marked"}
    /\ UNCHANGED <<rowVars, session, info, n8nVars, overwritten>>

CallStep(c) ==
    \/ InfoSaves(c) \/ InfoMarksReady(c) \/ DraftSaves(c) \/ DraftMarks(c)
    \/ StatusCompares(c) \/ StatusWrites(c) \/ RetryResets(c)

TriggerStep(t) == TriggerSkips(t) \/ TriggerFinds(t) \/ TriggerMarksPending(t) \/ TriggerPosts(t)

CallBegins(c) ==
    \/ \E s \in Sessions : InfoFinds(c, s) \/ DraftFinds(c, s)
    \/ \E s \in Sessions, o \in Orders : CreateFromConversation(c, s, o)
    \/ \E o \in Orders, new \in {"confirmed", "cancelled"} : StatusFinds(c, o, new)
    \/ \E o \in Orders : RetryFinds(c, o)

N8nStep == \E o \in Orders : N8nSyncs(o) \/ N8nRefuses(o)

FaultStep ==
    \/ \E c \in Calls : CallFails(c)
    \/ \E t \in Calls : TriggerThrows(t) \/ PostFails(t)
    \/ \E o \in Orders, answer \in Answers : CallbackLost(o, answer)
    \/ Restart

\* Nothing is left to be done: every call is served and every answer has come.
Settled ==
    /\ \A c \in Calls : at[c] \in {"idle", "done"}
    /\ \A t \in Calls : tat[t] \in {"idle", "done"}
    /\ posts = {} /\ callbacks = {}
    /\ UNCHANGED vars

Next ==
    \/ \E s \in Sessions : Start(s)
    \/ \E c \in Calls : CallBegins(c) \/ CallStep(c)
    \/ \E t \in Calls : TriggerStep(t)
    \/ \E o \in Orders, answer \in Answers, again \in BOOLEAN : HandleSyncCallback(o, answer, again)
    \/ N8nStep
    \/ FaultStep
    \/ Settled

Spec == Init /\ [][Next]_vars

Fairness ==
    /\ \A c \in Calls : WF_vars(CallStep(c))
    /\ \A t \in Calls : WF_vars(TriggerStep(t))
    /\ \A o \in Orders : WF_vars(N8nSyncs(o) \/ N8nRefuses(o))
    /\ \A o \in Orders, answer \in Answers : WF_vars(HandleSyncCallback(o, answer, FALSE))

FairSpec == Spec /\ Fairness

(***************************************************************************)
(* Properties.                                                             *)
(***************************************************************************)
TypeOK ==
    /\ session \in [Sessions -> {"none", "collecting_customer_info",
                                 "ready_for_draft_order", "draft_created"}]
    /\ info \subseteq Sessions /\ raced \subseteq Sessions
    /\ status \in [Orders -> Statuses]
    /\ sync \in [Orders -> SyncStates]
    /\ ext \in [Orders -> BOOLEAN]
    /\ from \in [Orders -> Sessions \cup {NoSession}]
    /\ at \in [Calls -> {"idle", "infoFound", "infoSaved", "draftFound", "draftSaved",
                         "statusFound", "statusCompared", "retryFound", "done"}]
    /\ sess \in [Calls -> Sessions \cup {NoSession}]
    /\ ord \in [Calls -> Orders \cup {NoOrder}]
    /\ entity \in [Calls -> Row]
    /\ diff \in [Calls -> SUBSET Columns]
    /\ tat \in [Calls -> {"idle", "find", "found", "marked", "done"}]
    /\ tord \in [Calls -> Orders \cup {NoOrder}]
    /\ patient \subseteq Calls
    /\ posts \subseteq Orders
    /\ callbacks \subseteq Orders \X Answers
    /\ posted \subseteq Orders /\ shop \subseteq Orders /\ idless \subseteq Orders
    /\ lost \subseteq Orders /\ overwritten \subseteq Orders
    /\ faults \in 0 .. MaxFaults

\* A session that is ready has the customer's data, and one whose draft is
\* created has an order, whatever calls overlap and wherever they stop
\* (checkout.service.ts saves before it marks, and so does createDraft).
SessionIsBacked ==
    \A s \in Sessions :
        /\ session[s] = "ready_for_draft_order" => s \in info
        /\ session[s] = "draft_created" => s \in info /\ OrdersOf(s) # {}

\* A session becomes two orders only when two calls on it were between their
\* check of its status and their write at one time, or a createDraft stopped
\* there: createDraft has nothing else against a second order.
SecondDraftOnlyByRace ==
    \A s \in Sessions \ raced : \A o, p \in OrdersOf(s) : o = p

\* An order shown as synced has its external id, unless n8n once reported it without
\* one, or updateStatus wrote sync columns back: the callback writes status and id in one
\* statement, but a save may write one of them without the other.
SyncedHasItsId ==
    \A o \in Orders : sync[o] = "synced" /\ ~ext[o] => o \in idless \cup overwritten

\* pending ends: with requests and answers that arrive, no order stays
\* pending, whatever triggers, retries, confirmations and callbacks do in
\* whatever order, unless updateStatus writes an old pending back.
PendingIsAnswered ==
    \A o \in Orders :
        sync[o] = "pending" ~> (sync[o] # "pending" \/ o \in lost \/ o \in overwritten)

\* What the merchant sees of this machine is the machine of OrderPromise: an
\* order is shown as synced only when the platform has it, through stale
\* saves, retries, restarts and repeated callbacks.
Promise == INSTANCE OrderPromise WITH
    stage <- [o \in Orders |-> IF o \in shop THEN "accepted"
                               ELSE IF o \in posted THEN "sent" ELSE "local"],
    shown <- {o \in Orders : sync[o] = "synced"}

KeepsPromise == Promise!Spec
=============================================================================
