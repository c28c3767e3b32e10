-------------------------- MODULE InstagramComments --------------------------
(***************************************************************************)
(* Comments under posts: a webhook brings a comment, a handler of its own  *)
(* decides whether it asks about a product, and answers with a public      *)
(* reply and a private message, each tried a few times.                    *)
(*                                                                         *)
(* What keeps a comment from being answered twice is a set in the memory   *)
(* of the process that forgets after ten minutes, looked at when a comment *)
(* arrives and written once it is decided to answer.  The webhook has been *)
(* acknowledged by then: a handler that fails is not tried again.          *)
(***************************************************************************)
EXTENDS Naturals, FiniteSets

CONSTANTS
    Comments,
    Author,       \* Author[c]: the customer who wrote c, all under one post
    Handlers,     \* the calls of handleComment, numbered as they come
    MaxAttempts,  \* withRetry's maxAttempts
    MaxFaults,    \* bound on statements and sends that fail, and restarts
    MaxPauses,    \* bound on 72 hours without a message
    None

ASSUME CommentsAssumption ==
    /\ MaxAttempts \in Nat \ {0} /\ MaxFaults \in Nat /\ MaxPauses \in Nat
    /\ DOMAIN Author = Comments
    /\ Handlers \subseteq Nat
    /\ None \notin Comments \cup Handlers

People == {Author[c] : c \in Comments}

VARIABLES
    call,       \* call[h]: where handler h is, its comment, the conversation it
                \* has found, by who created it, and the attempts that failed
    processed,  \* processedCommentIds
    hasToken,   \* the connection has an access token
    customers,  \* the customer rows
    convs,      \* the conversation rows, by the handler that created them
    inbound,    \* the comments with a message row
    outbound,   \* the comments with a row for the answer
    public,     \* public[c]: the replies under c
    private,    \* private[c]: the private messages that answer c
    faults, pauses,
    taken,      \* comments somebody decided to answer
    again,      \* those decided while they were processed already
    forgotten,  \* those that left the set
    unheard,    \* those with a private message whose response was lost
    met,        \* two handlers were between find and save at once
    unlucky     \* a statement failed or the process restarted

rowVars == <<customers, convs, inbound, outbound>>
sentVars == <<public, private, unheard>>
setVars == <<processed, taken, again, forgotten>>
vars == <<call, hasToken, rowVars, sentVars, setVars, faults, pauses, met, unlucky>>

pc(h) == call[h].at
of(h) == call[h].of
into(h) == call[h].into
Who(h) == Author[of(h)]
Finding == {"customer", "newCustomer", "conversation", "close", "newConversation", "state", "newState"}

ConvRow == [person : People, open : BOOLEAN, state : BOOLEAN,
            dated : {"never", "lately", "long ago"}] \* lastMessageAt

Sends == {"public", "private"}

Call == [at : Finding \cup Sends \cup {"idle", "deciding", "inbound", "outbound", "over"},
         of : Comments \cup {None}, into : Handlers \cup {None}, failed : 0 .. MaxAttempts - 1]

NoCall(where) == [at |-> where, of |-> None, into |-> None, failed |-> 0]

Init ==
    /\ call = [h \in Handlers |-> NoCall("idle")]
    /\ processed = {} /\ hasToken \in BOOLEAN
    /\ customers = {} /\ convs = [h \in {} |-> None]
    /\ inbound = {} /\ outbound = {}
    /\ public = [c \in Comments |-> 0] /\ private = [c \in Comments |-> 0]
    /\ faults = 0 /\ pauses = 0
    /\ taken = {} /\ again = {} /\ forgotten = {} /\ unheard = {}
    /\ met = FALSE /\ unlucky = FALSE

\* What a call remembers ends with it.
Goes(h, where) ==
    call' = [call EXCEPT ![h] = IF where = "over" THEN NoCall("over") ELSE [@ EXCEPT !.at = where]]

Holding(h, where, k) == call' = [call EXCEPT ![h] = [@ EXCEPT !.at = where, !.into = k]]
Fault == faults < MaxFaults /\ faults' = faults + 1

\* Entering the statements between find and save; somebody may be there.
Meets(h) == met' = (met \/ \E g \in Handlers \ {h} : pc(g) \in Finding)

(***************************************************************************)
(* From the webhook to the decision                                        *)
(***************************************************************************)
\* A comment arrives, or arrives again.
Arrive(h, c) ==
    /\ pc(h) = "idle" /\ \A g \in Handlers : g < h => pc(g) # "idle"
    /\ call' = [call EXCEPT ![h] = IF c \in processed THEN NoCall("over")
                                   ELSE [@ EXCEPT !.at = "deciding", !.of = c]]
    /\ UNCHANGED <<hasToken, rowVars, sentVars, setVars, faults, pauses, met, unlucky>>

\* Not a question about a linked product, or the account's own reply.
Ignore(h) ==
    /\ pc(h) = "deciding" /\ Goes(h, "over")
    /\ UNCHANGED <<hasToken, rowVars, sentVars, setVars, faults, pauses, met, unlucky>>

\* Mutant: the comment is not marked.
DecideUnmarked(h) ==
    /\ pc(h) = "deciding" /\ Goes(h, "customer") /\ Meets(h)
    /\ taken' = taken \cup {of(h)}
    /\ UNCHANGED <<processed, again, hasToken, rowVars, sentVars, forgotten, faults, pauses, unlucky>>

\* There is an answer: the comment is marked, nobody looks whether it was.
Decide(h) ==
    /\ pc(h) = "deciding" /\ Goes(h, "customer") /\ Meets(h)
    /\ again' = IF of(h) \in processed THEN again \cup {of(h)} ELSE again
    /\ processed' = processed \cup {of(h)}
    /\ taken' = taken \cup {of(h)}
    /\ UNCHANGED <<hasToken, rowVars, sentVars, forgotten, faults, pauses, unlucky>>

\* The timer of markProcessed.
Forget(c) ==
    /\ c \in processed
    /\ processed' = processed \ {c} /\ forgotten' = forgotten \cup {c}
    /\ UNCHANGED <<call, hasToken, rowVars, sentVars, taken, again, faults, pauses, met, unlucky>>

(***************************************************************************)
(* The customer, the conversation and the message                          *)
(***************************************************************************)
FindCustomer(h) ==
    /\ pc(h) = "customer"
    /\ Goes(h, IF Who(h) \in customers THEN "conversation" ELSE "newCustomer")
    /\ UNCHANGED <<hasToken, rowVars, sentVars, setVars, faults, pauses, met, unlucky>>

\* The unique constraint refuses a second row: the handler fails.
SaveCustomer(h) ==
    /\ pc(h) = "newCustomer"
    /\ customers' = customers \cup {Who(h)}
    /\ Goes(h, IF Who(h) \in customers THEN "over" ELSE "conversation")
    /\ UNCHANGED <<hasToken, convs, inbound, outbound, sentVars, setVars, faults, pauses, met, unlucky>>

OpenOf(person) == {k \in DOMAIN convs : convs[k].person = person /\ convs[k].open}

\* The latest, or the one never dated: any of them here.  An idle conversation
\* is closed and a new one begun.
FindConversation(h) ==
    /\ pc(h) = "conversation"
    /\ \/ OpenOf(Who(h)) = {} /\ Goes(h, "newConversation")
       \/ \E k \in OpenOf(Who(h)) : Holding(h, IF convs[k].dated = "long ago" THEN "close" ELSE "state", k)
    /\ UNCHANGED <<hasToken, rowVars, sentVars, setVars, faults, pauses, met, unlucky>>

\* Mutant: the idle conversation stays open.
CloseNothing(h) ==
    /\ pc(h) = "close" /\ Holding(h, "newConversation", None)
    /\ UNCHANGED <<hasToken, rowVars, sentVars, setVars, faults, pauses, met, unlucky>>

CloseConversation(h) ==
    /\ pc(h) = "close" /\ Holding(h, "newConversation", None)
    /\ convs' = [convs EXCEPT ![into(h)].open = FALSE]
    /\ UNCHANGED <<hasToken, customers, inbound, outbound, sentVars, setVars, faults, pauses, met, unlucky>>

SaveConversation(h) ==
    /\ pc(h) = "newConversation" /\ Holding(h, "state", h)
    /\ convs' = [k \in DOMAIN convs \cup {h} |->
                    IF k = h THEN [person |-> Who(h), open |-> TRUE, state |-> FALSE, dated |-> "never"]
                    ELSE convs[k]]
    /\ UNCHANGED <<hasToken, customers, inbound, outbound, sentVars, setVars, faults, pauses, met, unlucky>>

FindState(h) ==
    /\ pc(h) = "state"
    /\ Goes(h, IF convs[into(h)].state THEN "inbound" ELSE "newState")
    /\ UNCHANGED <<hasToken, rowVars, sentVars, setVars, faults, pauses, met, unlucky>>

\* One state row per conversation: the second insert fails.
SaveState(h) ==
    /\ pc(h) = "newState"
    /\ convs' = [convs EXCEPT ![into(h)].state = TRUE]
    /\ Goes(h, IF convs[into(h)].state THEN "over" ELSE "inbound")
    /\ UNCHANGED <<hasToken, customers, inbound, outbound, sentVars, setVars, faults, pauses, met, unlucky>>

\* saveMessage dates the conversation, and then inserts; without a token the
\* handler ends.
Dated(h) == [convs EXCEPT ![into(h)].dated = "lately"]

SaveInbound(h) ==
    /\ pc(h) = "inbound"
    /\ inbound' = inbound \cup {of(h)}
    /\ convs' = Dated(h)
    /\ Goes(h, IF hasToken THEN "public" ELSE "over")
    /\ UNCHANGED <<hasToken, customers, outbound, sentVars, setVars, faults, pauses, met, unlucky>>

\* A statement that fails, or a call of the decision or of the templates.
StatementFails(h) ==
    /\ \/ pc(h) \in Finding \cup {"deciding", "inbound", "outbound"}
       \/ pc(h) = "public" /\ call[h].failed = 0
    /\ Goes(h, "over")
    /\ Fault /\ unlucky' = TRUE
    /\ \/ UNCHANGED convs
       \/ pc(h) \in {"inbound", "outbound"} /\ convs' = Dated(h)
    /\ UNCHANGED <<hasToken, customers, inbound, outbound, sentVars, setVars, pauses, met>>

(***************************************************************************)
(* The two sends                                                           *)
(***************************************************************************)
AfterSend(where) == IF where = "public" THEN "private" ELSE "outbound"
Posted(h) ==
    /\ public' = IF pc(h) = "public" THEN [public EXCEPT ![of(h)] = @ + 1] ELSE public
    /\ private' = IF pc(h) = "private" THEN [private EXCEPT ![of(h)] = @ + 1] ELSE private

Send(h) ==
    /\ pc(h) \in Sends
    /\ Posted(h)
    /\ call' = [call EXCEPT ![h] = [@ EXCEPT !.at = AfterSend(pc(h)), !.failed = 0]]
    /\ UNCHANGED <<hasToken, rowVars, unheard, setVars, faults, pauses, met, unlucky>>

\* A public reply given up is logged, and the private message tried.
GiveUp(h) ==
    IF pc(h) = "public" THEN call' = [call EXCEPT ![h] = [@ EXCEPT !.at = "private", !.failed = 0]]
                        ELSE Goes(h, "over")

\* Mutant: one attempt too few.
TriesOnceLess(h) ==
    IF call[h].failed + 2 < MaxAttempts THEN call' = [call EXCEPT ![h].failed = @ + 1] ELSE GiveUp(h)

\* withRetry, of a call that has failed.
TriesAgain(h) ==
    IF call[h].failed + 1 < MaxAttempts THEN call' = [call EXCEPT ![h].failed = @ + 1] ELSE GiveUp(h)

SendFails(h) ==
    /\ pc(h) \in Sends /\ Fault
    /\ TriesAgain(h)
    /\ UNCHANGED <<hasToken, rowVars, sentVars, setVars, pauses, met, unlucky>>

\* The message is posted and its response lost: it is sent again.
ResponseLost(h) ==
    /\ pc(h) \in Sends /\ Fault
    /\ Posted(h) /\ TriesAgain(h)
    /\ unheard' = IF pc(h) = "private" THEN unheard \cup {of(h)} ELSE unheard
    /\ UNCHANGED <<hasToken, rowVars, setVars, pauses, met, unlucky>>

SaveOutbound(h) ==
    /\ pc(h) = "outbound" /\ Goes(h, "over")
    /\ outbound' = outbound \cup {of(h)}
    /\ convs' = Dated(h)
    /\ UNCHANGED <<hasToken, customers, inbound, sentVars, setVars, faults, pauses, met, unlucky>>

(***************************************************************************)
(* The world                                                               *)
(***************************************************************************)
\* A restart: the set and the handlers are gone.
Crash ==
    /\ Fault /\ unlucky' = TRUE
    /\ call' = [h \in Handlers |-> NoCall(IF pc(h) = "idle" THEN "idle" ELSE "over")]
    /\ processed' = {} /\ forgotten' = forgotten \cup processed
    /\ UNCHANGED <<hasToken, rowVars, sentVars, taken, again, pauses, met>>

\* 72 hours in which nothing happens.
Pause ==
    /\ pauses < MaxPauses /\ pauses' = pauses + 1
    /\ \A h \in Handlers : pc(h) \in {"idle", "over"}
    /\ convs' = [k \in DOMAIN convs |->
                    [convs[k] EXCEPT !.dated = IF @ = "lately" THEN "long ago" ELSE @]]
    /\ UNCHANGED <<call, hasToken, customers, inbound, outbound, sentVars, setVars, faults, met, unlucky>>

Handles(h) ==
    \/ FindCustomer(h) \/ SaveCustomer(h)
    \/ FindConversation(h) \/ CloseConversation(h) \/ SaveConversation(h)
    \/ FindState(h) \/ SaveState(h)
    \/ SaveInbound(h) \/ Send(h) \/ SaveOutbound(h)

Next ==
    \/ \E h \in Handlers :
          \/ \E c \in Comments : Arrive(h, c)
          \/ Ignore(h) \/ Decide(h) \/ Handles(h)
          \/ StatementFails(h) \/ SendFails(h) \/ ResponseLost(h)
    \/ \E c \in Comments : Forget(c)
    \/ Crash \/ Pause

Spec == Init /\ [][Next]_vars

\* A handler goes on when its statement or request has returned.
Fairness == \A h \in Handlers : WF_vars(Handles(h))

FairSpec == Spec /\ Fairness

(***************************************************************************)
(* Properties                                                              *)
(***************************************************************************)
CommentsTypeOK ==
    /\ call \in [Handlers -> Call]
    /\ processed \subseteq Comments /\ hasToken \in BOOLEAN
    /\ customers \subseteq People
    /\ DOMAIN convs \subseteq Handlers /\ \A k \in DOMAIN convs : convs[k] \in ConvRow
    /\ inbound \subseteq Comments /\ outbound \subseteq Comments
    /\ public \in [Comments -> Nat] /\ private \in [Comments -> Nat]
    /\ faults \in 0 .. MaxFaults /\ pauses \in 0 .. MaxPauses
    /\ taken \subseteq Comments /\ again \subseteq Comments
    /\ forgotten \subseteq Comments /\ unheard \subseteq Comments
    /\ met \in BOOLEAN /\ unlucky \in BOOLEAN

\* A comment gets a second private message only when it arrived again before
\* the first handler had decided, or after the set had forgotten it, or when
\* the response to the first message was lost.
AnsweredTwiceOnlyByRace ==
    \A c \in Comments : private[c] > 1 => c \in again \cup forgotten \cup unheard

\* Nobody is answered whose comment is not in the database, under a customer
\* and a conversation of theirs.
AnswersAreRecorded ==
    \A c \in Comments : public[c] + private[c] > 0 =>
        /\ c \in inbound
        /\ Author[c] \in customers
        /\ \E k \in DOMAIN convs : convs[k].person = Author[c] /\ convs[k].state

\* A customer has two open conversations under a post only when two handlers
\* looked for one at the same time.
OpenTwiceOnlyByRace ==
    \A p \in People : Cardinality(OpenOf(p)) > 1 => met

\* A comment that is taken is answered, unless there is no token, a statement
\* failed, two handlers met, or every attempt to send did.
TakenIsAnswered ==
    \A c \in Comments : c \in taken ~>
        private[c] > 0 \/ ~hasToken \/ unlucky \/ met \/ faults >= MaxAttempts

=============================================================================
