---------------------------- MODULE HumanControl ----------------------------
(***************************************************************************)
(* Who answers a conversation: the bot or a human.                         *)
(*                                                                         *)
(* The columns status, needs_handoff and auto_resume_at of a conversation  *)
(* are written by four kinds of code that hold no common lock: a batch in  *)
(* processInbound, the webhook that sees an echo of a manager's message,   *)
(* the poller that gives a conversation back to the bot when its deadline  *)
(* has passed, and the takeover and release endpoints of the admin panel.  *)
(* Each awaited statement is a step.  Time is a window closing or a        *)
(* deadline passing.                                                       *)
(***************************************************************************)
EXTENDS Naturals, FiniteSets

CONSTANTS
    Convs,        \* conversations, one recipient each
    Batches,      \* processInbound calls
    Managers,     \* messages a manager types in the Instagram app
    ConvOf,       \* the conversation of a batch or a manager's message
    Ticks,        \* pollTasks calls that may be alive at one time
    Boot,         \* the recovery of onModuleInit
    NoConv,       \* the poller has given nothing back yet
    MaxFaults     \* bound on restarts and failed statements

Echoes == Batches \cup Managers   \* Meta echoes every message of the account
Pollers == Ticks \cup {Boot}

ASSUME HumanControlAssumption ==
    /\ Batches \cap Managers = {}
    /\ ConvOf \in [Echoes -> Convs]
    /\ Boot \notin Ticks
    /\ NoConv \notin Convs
    /\ MaxFaults \in Nat

VARIABLES
    status, needsHandoff, deadline,   \* the conversation's row
    by,           \* who put it in human control last; a poller, once it has
                  \* cleared the deadline of what another did
    taken,        \* echoes the filters ever took for a manager's message
    at,           \* at[b]: where batch b is
    outcome,      \* outcome[b]: what the engine decided
    overrun,      \* batches in flight when their conversation went to a human
    delivered,    \* batches whose text Meta accepted
    mids,         \* recentSentMids
    sendWindow,   \* recentSendByRecipient younger than 10s
    rowWindow,    \* conversations with an outbound row younger than 20s
    eat,          \* eat[e]: where the handling of echo e is
    seen,         \* seen[e]: the status handleManagerReply read
    pat,          \* pat[p]: where poller p is
    list,         \* list[p]: conversations p still has to give back
    cur,          \* cur[p]: the conversation p is giving back
    faults

rowVars == <<status, needsHandoff, deadline, by>>
batchVars == <<at, outcome, overrun, delivered>>
echoVars == <<eat, seen, taken>>
windowVars == <<mids, sendWindow, rowWindow>>
pollVars == <<pat, list, cur>>
hcVars == <<rowVars, batchVars, echoVars, windowVars, pollVars, faults>>

Statuses == {"active", "human_in_control", "closed"}
IsHuman(c) == status[c] = "human_in_control"
IsClosed(c) == status[c] = "closed"
Serving == pat[Boot] = "idle"   \* onModuleInit is awaited before app.listen

HcTypeOK ==
    /\ status \in [Convs -> Statuses]
    /\ needsHandoff \in [Convs -> BOOLEAN]
    /\ deadline \in [Convs -> {"none", "future", "past"}]
    /\ by \in [Convs -> {"bot", "manager", "admin", "escalation", "poller"}]
    /\ taken \subseteq Managers \cup delivered
    /\ at \in [Batches -> {"new", "engine", "handoff", "saving", "saved", "sending", "failed", "done"}]
    /\ outcome \in [Batches -> {"none", "handoff", "reply"}]
    /\ overrun \subseteq Batches
    /\ delivered \subseteq Batches
    /\ mids \subseteq delivered
    /\ sendWindow \subseteq Convs
    /\ rowWindow \subseteq Convs
    /\ eat \in [Echoes -> {"coming", "admitted", "found", "recorded", "taken", "done"}]
    /\ seen \in [Echoes -> Statuses]
    /\ pat \in [Pollers -> {"start", "idle", "list", "clear"}]
    /\ list \in [Pollers -> SUBSET Convs]
    /\ cur \in [Pollers -> Convs \cup {NoConv}]
    /\ faults \in 0..MaxFaults

HcInit ==
    /\ status = [c \in Convs |-> "active"]
    /\ needsHandoff = [c \in Convs |-> FALSE]
    /\ deadline = [c \in Convs |-> "none"]
    /\ by = [c \in Convs |-> "bot"]
    /\ taken = {}
    /\ at = [b \in Batches |-> "new"]
    /\ outcome = [b \in Batches |-> "none"]
    /\ overrun = {} /\ delivered = {} /\ mids = {}
    /\ sendWindow = {} /\ rowWindow = {}
    /\ eat = [e \in Echoes |-> "coming"]
    /\ seen = [e \in Echoes |-> "active"]
    /\ pat = [p \in Pollers |-> IF p = Boot THEN "start" ELSE "idle"]
    /\ list = [p \in Pollers |-> {}]
    /\ cur = [p \in Pollers |-> NoConv]
    /\ faults = 0

-----------------------------------------------------------------------------
(* ConversationsService: one UPDATE each.                                  *)

InFlight(c) == {b \in Batches : ConvOf[b] = c /\ at[b] \notin {"new", "done"}}

ToHuman(c, who, flag) ==
    /\ status' = [status EXCEPT ![c] = "human_in_control"]
    /\ needsHandoff' = [needsHandoff EXCEPT ![c] = flag]
    /\ by' = [by EXCEPT ![c] = who]
    /\ overrun' = IF IsHuman(c) THEN overrun ELSE overrun \cup InFlight(c)
    /\ UNCHANGED deadline

takeover(c, who) == ToHuman(c, who, FALSE)

\* Mutant: an escalation starts the auto-resume timer of a takeover.
escalateArms(c) ==
    /\ status' = [status EXCEPT ![c] = "human_in_control"]
    /\ needsHandoff' = [needsHandoff EXCEPT ![c] = TRUE]
    /\ by' = [by EXCEPT ![c] = "escalation"]
    /\ overrun' = IF IsHuman(c) THEN overrun ELSE overrun \cup InFlight(c)
    /\ deadline' = [deadline EXCEPT ![c] = "future"]

escalate(c) == ToHuman(c, "escalation", TRUE)

release(c) ==
    /\ status' = [status EXCEPT ![c] = "active"]
    /\ needsHandoff' = [needsHandoff EXCEPT ![c] = FALSE]
    /\ by' = [by EXCEPT ![c] = "bot"]
    /\ UNCHANGED <<deadline, overrun>>

-----------------------------------------------------------------------------
(* processInbound.  The advisory lock around it orders nothing between two *)
(* batches that can be relied on (ConversationLock), so none is modelled.  *)

\* Mutant: the batch trusts the conversation it looked up before the lock.
CheckSkipped(b) ==
    /\ Serving /\ at[b] = "new" /\ ~IsClosed(ConvOf[b])
    /\ \E next \in {"engine", "done"} : at' = [at EXCEPT ![b] = next]
    /\ UNCHANGED <<rowVars, outcome, overrun, delivered, echoVars, windowVars, pollVars, faults>>

\* The status of the conversation that was found open is read under the lock: a human
\* in control, or a store in learning mode, ends the batch without a reply.
Check(b) ==
    /\ Serving /\ at[b] = "new" /\ ~IsClosed(ConvOf[b])
    /\ \E next \in {"engine", "done"} :
         /\ next = "engine" => ~IsHuman(ConvOf[b])
         /\ at' = [at EXCEPT ![b] = next]
    /\ UNCHANGED <<rowVars, outcome, overrun, delivered, echoVars, windowVars, pollVars, faults>>

\* replyEngineService.process returns: a handoff, a reply to send, or neither.
Decide(b) ==
    /\ at[b] = "engine"
    /\ \/ /\ at' = [at EXCEPT ![b] = "handoff"]
          /\ outcome' = [outcome EXCEPT ![b] = "handoff"]
       \/ /\ at' = [at EXCEPT ![b] = "saving"]
          /\ outcome' = [outcome EXCEPT ![b] = "reply"]
       \/ /\ at' = [at EXCEPT ![b] = "done"]
          /\ UNCHANGED outcome
    /\ UNCHANGED <<rowVars, overrun, delivered, echoVars, windowVars, pollVars, faults>>

\* escalate: before the announce of a handoff, or after a reply that could not be
\* sent ('send_failed').
Escalate(b) ==
    /\ at[b] \in {"handoff", "failed"}
    /\ at' = [at EXCEPT ![b] = IF at[b] = "handoff" THEN "saving" ELSE "done"]
    /\ escalate(ConvOf[b])
    /\ UNCHANGED <<outcome, delivered, echoVars, windowVars, pollVars, faults>>

\* saveMessage of the outbound text; without an access token that is all.
SaveText(b) ==
    /\ at[b] = "saving"
    /\ \E next \in {"saved", "done"} : at' = [at EXCEPT ![b] = next]
    /\ rowWindow' = rowWindow \cup {ConvOf[b]}
    /\ UNCHANGED <<rowVars, outcome, overrun, delivered, mids, sendWindow, echoVars, pollVars, faults>>

\* sendMetaMessage notes the recipient and posts; withRetry's attempts are one.
StartSend(b) ==
    /\ at[b] = "saved"
    /\ at' = [at EXCEPT ![b] = "sending"]
    /\ sendWindow' = sendWindow \cup {ConvOf[b]}
    /\ UNCHANGED <<rowVars, outcome, overrun, delivered, mids, rowWindow, echoVars, pollVars, faults>>

\* Meta accepts the text: the customer has it, and its echo may arrive before the
\* response does.
Deliver(b) ==
    /\ at[b] = "sending" /\ b \notin delivered
    /\ delivered' = delivered \cup {b}
    /\ UNCHANGED <<rowVars, at, outcome, overrun, echoVars, windowVars, pollVars, faults>>

\* The response arrives and its message id is remembered.
Respond(b) ==
    /\ at[b] = "sending" /\ b \in delivered
    /\ at' = [at EXCEPT ![b] = "done"]
    /\ mids' = mids \cup {b}
    /\ UNCHANGED <<rowVars, outcome, overrun, delivered, sendWindow, rowWindow, echoVars, pollVars, faults>>

\* The post fails, or its response is lost: an announce is only logged.
SendFails(b) ==
    /\ at[b] = "sending"
    /\ at' = [at EXCEPT ![b] = IF outcome[b] = "reply" THEN "failed" ELSE "done"]
    /\ UNCHANGED <<rowVars, outcome, overrun, delivered, echoVars, windowVars, pollVars, faults>>

\* A statement of the batch fails outside the try around the send: processInbound
\* throws, and flushPending only logs it.
BatchThrows(b) ==
    /\ at[b] \in {"engine", "handoff", "saving", "failed"}
    /\ faults < MaxFaults
    /\ faults' = faults + 1
    /\ at' = [at EXCEPT ![b] = "done"]
    /\ UNCHANGED <<rowVars, outcome, overrun, delivered, echoVars, windowVars, pollVars>>

-----------------------------------------------------------------------------
(* handleWebhook's echo branch and handleManagerReply.                     *)

\* The echo passes or fails the three filters: our mid, a send in the last 10s, an
\* outbound row in the last 20s, be it the bot's or the manager's own.
EchoArrives(e) ==
    /\ Serving /\ eat[e] = "coming"
    /\ e \in Managers \cup delivered
    /\ LET ours == e \in mids \/ ConvOf[e] \in sendWindow \cup rowWindow
       IN  /\ eat' = [eat EXCEPT ![e] = IF ours THEN "done" ELSE "admitted"]
           /\ taken' = IF ours THEN taken ELSE taken \cup {e}
    /\ mids' = mids \ {e}
    /\ UNCHANGED <<rowVars, batchVars, seen, sendWindow, rowWindow, pollVars, faults>>

\* Meta sends an echo again.  Its mid was forgotten with the first one.
EchoAgain(e) ==
    /\ eat[e] = "done" /\ e \in Managers \cup delivered
    /\ faults < MaxFaults
    /\ faults' = faults + 1
    /\ eat' = [eat EXCEPT ![e] = "coming"]
    /\ UNCHANGED <<rowVars, batchVars, seen, taken, windowVars, pollVars>>

\* findConversationByCustomer: the conversation is there unless it was closed.
EchoFinds(e) ==
    /\ eat[e] = "admitted"
    /\ eat' = [eat EXCEPT ![e] = IF IsClosed(ConvOf[e]) THEN "done" ELSE "found"]
    /\ seen' = [seen EXCEPT ![e] = status[ConvOf[e]]]
    /\ UNCHANGED <<rowVars, batchVars, taken, windowVars, pollVars, faults>>

\* The message is saved as an outbound one of the manager.
EchoSaves(e) ==
    /\ eat[e] = "found"
    /\ eat' = [eat EXCEPT ![e] = "recorded"]
    /\ rowWindow' = rowWindow \cup {ConvOf[e]}
    /\ UNCHANGED <<rowVars, batchVars, seen, taken, mids, sendWindow, pollVars, faults>>

\* takeover, unless the status read before was human_in_control already.
EchoTakesOver(e) ==
    /\ eat[e] = "recorded"
    /\ eat' = [eat EXCEPT ![e] = "taken"]
    /\ \/ seen[e] # "human_in_control" /\ takeover(ConvOf[e], "manager")
       \/ seen[e] = "human_in_control" /\ UNCHANGED <<rowVars, overrun>>
    /\ UNCHANGED <<at, outcome, delivered, seen, taken, windowVars, pollVars, faults>>

\* Mutant: only the deadline of a conversation that was in human control is moved.
EchoArmsHeld(e) ==
    /\ eat[e] = "taken"
    /\ eat' = [eat EXCEPT ![e] = "done"] /\ seen' = [seen EXCEPT ![e] = "active"]
    /\ deadline' = [deadline EXCEPT ![ConvOf[e]] = IF seen[e] = "human_in_control" THEN "future" ELSE @]
    /\ UNCHANGED <<status, needsHandoff, by, batchVars, taken, windowVars, pollVars, faults>>

\* setAutoResumeDeadline: now + 30 min.  What was read is no longer of use.
EchoArms(e) ==
    /\ eat[e] = "taken"
    /\ eat' = [eat EXCEPT ![e] = "done"] /\ seen' = [seen EXCEPT ![e] = "active"]
    /\ deadline' = [deadline EXCEPT ![ConvOf[e]] = "future"]
    /\ UNCHANGED <<status, needsHandoff, by, batchVars, taken, windowVars, pollVars, faults>>

\* A statement of handleManagerReply fails: "handleManagerReply failed" is logged, and
\* what was done until then stays.
EchoThrows(e) ==
    /\ eat[e] \in {"admitted", "found", "recorded", "taken"}
    /\ faults < MaxFaults
    /\ faults' = faults + 1
    /\ eat' = [eat EXCEPT ![e] = "done"]
    /\ UNCHANGED <<rowVars, batchVars, seen, taken, windowVars, pollVars>>

-----------------------------------------------------------------------------
(* autoResumeExpired, and the same loop in onModuleInit.                   *)

\* Mutant: the query takes active conversations for the ones to give back.
ListExpiredActive(p) ==
    /\ pat[p] = IF p = Boot THEN "start" ELSE "idle"
    /\ p = Boot \/ Serving
    /\ pat' = [pat EXCEPT ![p] = "list"]
    /\ list' = [list EXCEPT ![p] = {c \in Convs : ~IsHuman(c) /\ deadline[c] = "past"}]
    /\ UNCHANGED <<rowVars, batchVars, echoVars, windowVars, cur, faults>>

\* SELECT ... WHERE status = human_in_control AND auto_resume_at <= now.
ListExpired(p) ==
    /\ pat[p] = IF p = Boot THEN "start" ELSE "idle"
    /\ p = Boot \/ Serving
    /\ pat' = [pat EXCEPT ![p] = "list"]
    /\ list' = [list EXCEPT ![p] = {c \in Convs : IsHuman(c) /\ deadline[c] = "past"}]
    /\ UNCHANGED <<rowVars, batchVars, echoVars, windowVars, cur, faults>>

\* release(conv.id), of the list as it was read.
Resume(p) ==
    /\ pat[p] = "list"
    /\ \E c \in list[p] : release(c) /\ cur' = [cur EXCEPT ![p] = c]
    /\ pat' = [pat EXCEPT ![p] = "clear"]
    /\ UNCHANGED <<at, outcome, delivered, echoVars, windowVars, list, faults>>

\* update(conv.id, { autoResumeAt: null }).
ClearDeadline(p) ==
    /\ pat[p] = "clear"
    /\ pat' = [pat EXCEPT ![p] = "list"]
    /\ list' = [list EXCEPT ![p] = @ \ {cur[p]}]
    /\ deadline' = [deadline EXCEPT ![cur[p]] = "none"]
    /\ by' = [by EXCEPT ![cur[p]] = IF IsHuman(cur[p]) THEN "poller" ELSE @]
    /\ cur' = [cur EXCEPT ![p] = NoConv]
    /\ UNCHANGED <<status, needsHandoff, batchVars, echoVars, windowVars, faults>>

\* The release or the update of one conversation fails: the poller logs it and takes
\* the next.  (At startup nothing catches it: the process does not come up, which is
\* Restart.)
ResumeFails(p) ==
    /\ p # Boot
    /\ \/ pat[p] = "list" /\ \E c \in list[p] : list' = [list EXCEPT ![p] = @ \ {c}]
       \/ pat[p] = "clear" /\ list' = [list EXCEPT ![p] = @ \ {cur[p]}]
    /\ faults < MaxFaults
    /\ faults' = faults + 1
    /\ pat' = [pat EXCEPT ![p] = "list"]
    /\ cur' = [cur EXCEPT ![p] = NoConv]
    /\ UNCHANGED <<rowVars, batchVars, echoVars, windowVars>>

EndPoll(p) ==
    /\ pat[p] = "list" /\ list[p] = {}
    /\ pat' = [pat EXCEPT ![p] = "idle"]
    /\ UNCHANGED <<rowVars, batchVars, echoVars, windowVars, list, cur, faults>>

-----------------------------------------------------------------------------
(* The admin panel, time, and restarts.                                    *)

AdminTakeover(c) ==
    /\ Serving
    /\ takeover(c, "admin")
    /\ UNCHANGED <<at, outcome, delivered, echoVars, windowVars, pollVars, faults>>

AdminRelease(c) ==
    /\ Serving
    /\ release(c)
    /\ UNCHANGED <<at, outcome, delivered, echoVars, windowVars, pollVars, faults>>

\* A message of a customer who was silent for 72 hours: findOrCreateConversation closes
\* the conversation it found, whoever holds it, and opens another.  A batch in flight and
\* a saved message have moved lastMessageAt; an echo that has found the conversation and
\* saved nothing, or a poller with it on its list, may be under way.
CloseStale(c) ==
    /\ Serving /\ ~IsClosed(c)
    /\ InFlight(c) = {} /\ c \notin sendWindow \cup rowWindow
    /\ status' = [status EXCEPT ![c] = "closed"]
    /\ UNCHANGED <<needsHandoff, deadline, by, batchVars, echoVars, windowVars, pollVars, faults>>

DeadlinePasses(c) ==
    /\ deadline[c] = "future"
    /\ deadline' = [deadline EXCEPT ![c] = "past"]
    /\ UNCHANGED <<status, needsHandoff, by, batchVars, echoVars, windowVars, pollVars, faults>>

WindowCloses(c) ==
    /\ \/ c \in sendWindow /\ sendWindow' = sendWindow \ {c} /\ UNCHANGED <<mids, rowWindow>>
       \/ c \in rowWindow /\ rowWindow' = rowWindow \ {c} /\ UNCHANGED <<mids, sendWindow>>
    /\ UNCHANGED <<rowVars, batchVars, echoVars, pollVars, faults>>

\* The timer of sendMetaMessage drops the mid after five minutes.
ForgetMid(b) ==
    /\ b \in mids
    /\ mids' = mids \ {b}
    /\ UNCHANGED <<rowVars, batchVars, echoVars, sendWindow, rowWindow, pollVars, faults>>

\* What was under way is gone, and so are the maps in memory.
Restart ==
    /\ faults < MaxFaults
    /\ faults' = faults + 1
    /\ at' = [b \in Batches |-> IF at[b] = "new" THEN "new" ELSE "done"]
    /\ eat' = [e \in Echoes |-> IF eat[e] = "coming" THEN "coming" ELSE "done"]
    /\ mids' = {} /\ sendWindow' = {}
    /\ pat' = [p \in Pollers |-> IF p = Boot THEN "start" ELSE "idle"]
    /\ list' = [p \in Pollers |-> {}]
    /\ cur' = [p \in Pollers |-> NoConv]
    /\ UNCHANGED <<rowVars, outcome, overrun, delivered, seen, taken, rowWindow>>

-----------------------------------------------------------------------------
BatchStep(b) == \/ Check(b) \/ Decide(b) \/ Escalate(b) \/ SaveText(b)
                \/ StartSend(b) \/ Deliver(b) \/ Respond(b) \/ SendFails(b)
EchoStep(e) == EchoFinds(e) \/ EchoSaves(e) \/ EchoTakesOver(e) \/ EchoArms(e)
PollStep(p) == ListExpired(p) \/ Resume(p) \/ ClearDeadline(p) \/ EndPoll(p)

HcNext ==
    \/ \E b \in Batches : BatchStep(b) \/ BatchThrows(b) \/ ForgetMid(b)
    \/ \E e \in Echoes : EchoArrives(e) \/ EchoAgain(e) \/ EchoStep(e) \/ EchoThrows(e)
    \/ \E p \in Pollers : PollStep(p) \/ ResumeFails(p)
    \/ \E c \in Convs : \/ AdminTakeover(c) \/ AdminRelease(c) \/ CloseStale(c)
                       \/ DeadlinePasses(c) \/ WindowCloses(c)
    \/ Restart

HcSpec == HcInit /\ [][HcNext]_hcVars

\* setInterval keeps the poller going.  Nobody has to write, no batch has to start,
\* and neither the clock nor the handler of an echo is needed to serve what is due.
HcFairness == \A p \in Pollers : WF_hcVars(PollStep(p))

FairHcSpec == HcSpec /\ HcFairness

-----------------------------------------------------------------------------
(* What the component promises.                                            *)

\* The handoff flag the dashboard filters on and the status the bot obeys are set by
\* different writers, but a conversation that asks for a human is never the bot's, nor
\* does it become so by being closed and opened again.
HandoffIsHuman == \A c \in Convs : needsHandoff[c] => IsHuman(c) \/ IsClosed(c)

DeliversReply(b) == b \in delivered' \ delivered /\ outcome[b] = "reply"

\* The check under the lock: a reply reaches a conversation in human control only from
\* a batch that was past its check when the human took over.
OnlyOverrunReplies ==
    [][\A b \in Batches : DeliversReply(b) /\ IsHuman(ConvOf[b]) => b \in overrun]_hcVars

Resumes(c) == \E p \in Pollers : Resume(p) /\ cur'[p] = c

ManagerWrote(c) == \E g \in Managers \cap taken : ConvOf[g] = c
EchoMistaken(c) == \E b \in Batches \cap taken : ConvOf[b] = c

\* The poller gives back only what a manager once wrote in, or where an echo of the bot's
\* own text, late or sent twice, passed all three filters as if a manager had written it:
\* an escalation nobody looked at stays with the humans, whatever deadlines, releases,
\* polls and restarts come in between.
NoResumeBeforeReply ==
    [][\A c \in Convs : Resumes(c) => ManagerWrote(c) \/ EchoMistaken(c)]_hcVars

\* A conversation a manager took over has a deadline, or is about to get one: it stays
\* with a manager who went away only after a fault, or when a poller that was giving it
\* back cleared the deadline of the takeover that came in between.
ManagerIsTimed ==
    \A c \in Convs : IsHuman(c) /\ by[c] = "manager" /\ deadline[c] = "none" =>
        faults > 0 \/ \E e \in Echoes : ConvOf[e] = c /\ eat[e] = "taken"

\* A deadline that passed is served: the conversation is given back, unless somebody
\* moved the deadline or the status first.
DueIsResumed ==
    \A c \in Convs : (IsHuman(c) /\ deadline[c] = "past") ~> (~IsHuman(c) \/ deadline[c] # "past")
=============================================================================
