------------------------------- MODULE DmInbox -------------------------------
(***************************************************************************)
(* The debounced inbox of InstagramService: webhook deliveries are written *)
(* to the table pending_messages, and a poller hands the rows of a quiet   *)
(* debounce key to processInbound as one batch.                            *)
(*                                                                         *)
(* The webhook is acknowledged before it is handled, so deliveries run     *)
(* side by side; setInterval starts a tick every two seconds whether or    *)
(* not the last one returned, so ticks run side by side as well.  Every    *)
(* SQL statement is a step of its own.  Time is a row becoming due.        *)
(***************************************************************************)
EXTENDS Naturals, FiniteSets

CONSTANTS
    Msgs,        \* deliveries of the webhook, one handler call each
    DebounceKeys,
    NoKey,       \* the tick has flushed nothing yet
    KeyOf,       \* KeyOf[m]: `${externalUserId}:${channelAccountId}`
    Ticks,       \* pollTasks calls that may be alive at one time
    MaxFaults    \* bound on crashes and database errors

ASSUME InboxAssumption ==
    /\ KeyOf \in [Msgs -> DebounceKeys]
    /\ NoKey \notin DebounceKeys
    /\ MaxFaults \in Nat

VARIABLES
    hpc,         \* hpc[m]: how far the handler of delivery m is
    pending,     \* rows of pending_messages
    due,         \* those whose flush_at has passed
    at,          \* at[t]: where tick t is
    todo,        \* todo[t]: debounce keys t still has to flush
    batch,       \* batch[t]: the rows t read, all of one key
    key,         \* key[t]: the key t is flushing
    handed,      \* handed[m]: how often m was given to processInbound
    raced,       \* rows inserted between a find and a delete of their key
    lost,        \* rows dropped after their delete, by a fault
    overlapped,  \* a tick has started while another was running
    faults       \* crashes and errors so far

tickVars == <<at, todo, batch, key>>
inboxVars == <<hpc, pending, due, tickVars, handed, raced, lost, overlapped, faults>>

RowsOf(k) == {m \in pending : KeyOf[m] = k}

InboxTypeOK ==
    /\ hpc \in [Msgs -> {"sent", "saved", "extended", "queued", "dropped"}]
    /\ pending \subseteq Msgs
    /\ due \subseteq pending
    /\ at \in [Ticks -> {"idle", "loop", "found", "taken", "busy"}]
    /\ todo \in [Ticks -> SUBSET DebounceKeys]
    /\ batch \in [Ticks -> SUBSET Msgs]
    /\ key \in [Ticks -> DebounceKeys \cup {NoKey}]
    /\ handed \in [Msgs -> Nat]
    /\ raced \subseteq Msgs
    /\ lost \subseteq Msgs
    /\ overlapped \in BOOLEAN
    /\ faults \in 0..MaxFaults

-----------------------------------------------------------------------------
InboxInit ==
    /\ hpc = [m \in Msgs |-> "sent"]
    /\ pending = {}
    /\ due = {}
    /\ at = [t \in Ticks |-> "idle"]
    /\ todo = [t \in Ticks |-> {}]
    /\ batch = [t \in Ticks |-> {}]
    /\ key = [t \in Ticks |-> NoKey]
    /\ handed = [m \in Msgs |-> 0]
    /\ raced = {}
    /\ lost = {}
    /\ overlapped = FALSE
    /\ faults = 0

(* handleWebhook and handleIncomingMessage                                 *)

\* Nothing to answer: no text and no media, our own message, an account nobody
\* connected, or a message_edit whose text cannot be fetched.
Discard(m) ==
    /\ hpc[m] = "sent"
    /\ hpc' = [hpc EXCEPT ![m] = "dropped"]
    /\ UNCHANGED <<pending, due, tickVars, handed, raced, lost, overlapped, faults>>

\* Customer, conversation and the inbound message are saved; its mid is stored
\* but not looked up.
SaveInbound(m) ==
    /\ hpc[m] = "sent"
    /\ hpc' = [hpc EXCEPT ![m] = "saved"]
    /\ UNCHANGED <<pending, due, tickVars, handed, raced, lost, overlapped, faults>>

\* UPDATE pending_messages SET flush_at = now + 5s WHERE debounce_key = ...
ExtendWindow(m) ==
    /\ hpc[m] = "saved"
    /\ hpc' = [hpc EXCEPT ![m] = "extended"]
    /\ due' = due \ RowsOf(KeyOf[m])
    /\ UNCHANGED <<pending, tickVars, handed, raced, lost, overlapped, faults>>

\* pendingMessageRepo.save(...).
InsertPending(m) ==
    /\ hpc[m] = "extended"
    /\ hpc' = [hpc EXCEPT ![m] = "queued"]
    /\ pending' = pending \cup {m}
    /\ raced' = IF \E t \in Ticks : at[t] = "found" /\ key[t] = KeyOf[m]
                THEN raced \cup {m} ELSE raced
    /\ UNCHANGED <<due, tickVars, handed, lost, overlapped, faults>>

\* A statement of the handler fails after the message was saved: the error is
\* logged, Meta already has its answer, and nothing is queued.
HandlerFails(m) ==
    /\ hpc[m] \in {"saved", "extended"}
    /\ faults < MaxFaults
    /\ faults' = faults + 1
    /\ hpc' = [hpc EXCEPT ![m] = "dropped"]
    /\ UNCHANGED <<pending, due, tickVars, handed, raced, lost, overlapped>>

\* The row's flush_at passes.
Elapse(m) ==
    /\ m \in pending \ due
    /\ due' = due \cup {m}
    /\ UNCHANGED <<hpc, pending, tickVars, handed, raced, lost, overlapped, faults>>

(* pollTasks, flushReadyMessages and flushPending                          *)

\* A tick starts: SELECT DISTINCT debounce_key WHERE flush_at <= now.
SelectReady(t) ==
    /\ at[t] = "idle"
    /\ at' = [at EXCEPT ![t] = "loop"]
    /\ todo' = [todo EXCEPT ![t] = {KeyOf[m] : m \in due}]
    /\ overlapped' = (overlapped \/ \E u \in Ticks : at[u] # "idle")
    /\ UNCHANGED <<hpc, pending, due, batch, key, handed, raced, lost, faults>>

\* Mutant: the find keeps to flush_at <= now, the delete does not.
FindDueRows(t) ==
    /\ at[t] = "loop"
    /\ \E k \in todo[t] :
         /\ todo' = [todo EXCEPT ![t] = @ \ {k}]
         /\ \/ /\ RowsOf(k) \cap due = {}
               /\ UNCHANGED <<at, batch, key>>
            \/ /\ RowsOf(k) \cap due # {}
               /\ at' = [at EXCEPT ![t] = "found"]
               /\ batch' = [batch EXCEPT ![t] = RowsOf(k) \cap due]
               /\ key' = [key EXCEPT ![t] = k]
    /\ UNCHANGED <<hpc, pending, due, handed, raced, lost, overlapped, faults>>

\* find({ where: { debounceKey } }): every row of the key, due or not.
Find(t) ==
    /\ at[t] = "loop"
    /\ \E k \in todo[t] :
         /\ todo' = [todo EXCEPT ![t] = @ \ {k}]
         /\ \/ /\ RowsOf(k) = {}
               /\ UNCHANGED <<at, batch, key>>
            \/ /\ RowsOf(k) # {}
               /\ at' = [at EXCEPT ![t] = "found"]
               /\ batch' = [batch EXCEPT ![t] = RowsOf(k)]
               /\ key' = [key EXCEPT ![t] = k]
    /\ UNCHANGED <<hpc, pending, due, handed, raced, lost, overlapped, faults>>

\* Mutant: the delete forgets the rows only in memory.
DeleteNothing(t) ==
    /\ at[t] = "found"
    /\ at' = [at EXCEPT ![t] = "taken"]
    /\ due' = due \ RowsOf(key[t])
    /\ UNCHANGED <<hpc, pending, todo, batch, key, handed, raced, lost, overlapped, faults>>

\* delete({ debounceKey }): every row the key has now.
Delete(t) ==
    /\ at[t] = "found"
    /\ at' = [at EXCEPT ![t] = "taken"]
    /\ pending' = pending \ RowsOf(key[t])
    /\ due' = due \ RowsOf(key[t])
    /\ UNCHANGED <<hpc, todo, batch, key, handed, raced, lost, overlapped, faults>>

\* The rows' connection is there: processInbound is called with the batch.
Hand(t) ==
    /\ at[t] = "taken"
    /\ at' = [at EXCEPT ![t] = "busy"]
    /\ handed' = [m \in Msgs |-> handed[m] + IF m \in batch[t] THEN 1 ELSE 0]
    /\ UNCHANGED <<hpc, pending, due, todo, batch, key, raced, lost, overlapped, faults>>

\* processInbound returned, or threw and flushPending logged it.
Finish(t) ==
    /\ at[t] = "busy"
    /\ at' = [at EXCEPT ![t] = "loop"]
    /\ UNCHANGED <<hpc, pending, due, todo, batch, key, handed, raced, lost, overlapped, faults>>

\* No key is left; the tick goes on to autoResumeExpired and returns.
EndTick(t) ==
    /\ at[t] = "loop" /\ todo[t] = {}
    /\ at' = [at EXCEPT ![t] = "idle"]
    /\ UNCHANGED <<hpc, pending, due, todo, batch, key, handed, raced, lost, overlapped, faults>>

TakenRows == UNION {batch[t] : t \in {u \in Ticks : at[u] = "taken"}}

\* The rows' connection is gone: flushPending warns and returns.
SkipBatch(t) ==
    /\ at[t] = "taken"
    /\ faults < MaxFaults
    /\ faults' = faults + 1
    /\ at' = [at EXCEPT ![t] = "loop"]
    /\ lost' = lost \cup batch[t]
    /\ UNCHANGED <<hpc, pending, due, todo, batch, key, handed, raced, overlapped>>

\* A statement of the tick fails outside flushPending's try: pollTasks logs the
\* error and gives the rest of the tick up, the deleted rows with it.
AbortTick(t) ==
    /\ at[t] \in {"loop", "found", "taken"}
    /\ faults < MaxFaults
    /\ faults' = faults + 1
    /\ at' = [at EXCEPT ![t] = "idle"]
    /\ lost' = IF at[t] = "taken" THEN lost \cup batch[t] ELSE lost
    /\ UNCHANGED <<hpc, pending, due, todo, batch, key, handed, raced, overlapped>>

\* The process dies and starts again: handlers and ticks are gone, rows are not.
Restart ==
    /\ faults < MaxFaults
    /\ faults' = faults + 1
    /\ hpc' = [m \in Msgs |-> IF hpc[m] \in {"saved", "extended"} THEN "dropped" ELSE hpc[m]]
    /\ at' = [t \in Ticks |-> "idle"]
    /\ lost' = lost \cup TakenRows
    /\ UNCHANGED <<pending, due, todo, batch, key, handed, raced, overlapped>>

Handler(m) == Discard(m) \/ SaveInbound(m) \/ ExtendWindow(m) \/ InsertPending(m)
TickStep(t) == Find(t) \/ Delete(t) \/ Hand(t) \/ Finish(t) \/ EndTick(t)

InboxNext ==
    \/ \E m \in Msgs : Handler(m) \/ HandlerFails(m) \/ Elapse(m)
    \/ \E t \in Ticks : SelectReady(t) \/ TickStep(t) \/ SkipBatch(t) \/ AbortTick(t)
    \/ Restart

InboxSpec == InboxInit /\ [][InboxNext]_inboxVars

\* Handlers that are under way go on, time passes, setInterval keeps starting
\* ticks, and a tick goes on (processInbound returns).
InboxFairness ==
    /\ \A m \in Msgs : /\ WF_inboxVars(ExtendWindow(m) \/ InsertPending(m))
                       /\ WF_inboxVars(Elapse(m))
    /\ \A t \in Ticks : WF_inboxVars(SelectReady(t)) /\ WF_inboxVars(TickStep(t))

FairInboxSpec == InboxSpec /\ InboxFairness

-----------------------------------------------------------------------------
(* What the inbox promises.                                                *)

\* The comment over the delete in flushPending: "Delete immediately to prevent
\* double-processing".  No row is given to processInbound twice.
HandedAtMostOnce == \A m \in Msgs : handed[m] <= 1

\* The same as long as no tick has outlived the poll interval.
HandedOnceWithoutOverlap == overlapped \/ HandedAtMostOnce

\* A queued message is in the table, in the hands of a tick that deleted it, or
\* was answered; the only other ways out are an insert between a find and a delete
\* of its key, and a fault between the delete and processInbound.
NothingVanishes ==
    \A m \in Msgs : hpc[m] = "queued" =>
        \/ m \in pending \cup TakenRows \cup raced \cup lost
        \/ handed[m] > 0

\* A batch is one customer's: flushPending never mixes two debounce keys, whatever
\* arrives or is deleted while it runs.
BatchIsOneCustomers ==
    \A t \in Ticks : at[t] \in {"found", "taken", "busy"} =>
        /\ batch[t] # {}
        /\ \A m \in batch[t] : KeyOf[m] = key[t] /\ hpc[m] = "queued"

\* The poller leaves nothing behind: what is queued is answered or falls to one of
\* the two losses NothingVanishes names.
QueuedIsAnswered ==
    \A m \in Msgs : (hpc[m] = "queued") ~> (handed[m] > 0 \/ m \in raced \cup lost)
=============================================================================
