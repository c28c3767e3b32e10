-------------------------- MODULE ConversationLock --------------------------
(***************************************************************************)
(* The per-conversation lock of InstagramService.processInbound.           *)
(*                                                                         *)
(* The code runs `SELECT pg_advisory_lock` and `SELECT pg_advisory_unlock` *)
(* through dataSource.query, and every such call borrows whichever pooled  *)
(* connection is idle.  An advisory lock belongs to the Postgres session   *)
(* (the connection), may be taken again by the session that holds it, and  *)
(* is given back only by an unlock of that session or by its end.  Calls   *)
(* are the processInbound calls; Sessions is the connection pool.          *)
(***************************************************************************)
EXTENDS Naturals, FiniteSets

CONSTANTS
    Calls,            \* processInbound calls that reach the lock
    Sessions,         \* physical connections of the pool
    Conversations,
    Keys,             \* the 32-bit lock keys
    LockKey,          \* conversationLockKey: two conversations may collide
    NoSession         \* the call has not asked for the lock yet

ASSUME LockAssumption ==
    /\ IsFiniteSet(Calls)
    /\ LockKey \in [Conversations -> Keys]
    /\ NoSession \notin Sessions

VARIABLES
    pc,               \* pc[c]: where call c is
    conv,             \* conv[c]: the conversation call c answers
    on,               \* on[c]: the session that ran c's pg_advisory_lock
    held,             \* held[s][k]: how often session s holds key k
    missed,           \* calls whose unlock found nothing to release
    closed            \* the pool has closed a connection that held a lock

lockVars == <<pc, conv, on, held, missed, closed>>

LockTypeOK ==
    /\ pc \in [Calls -> {"start", "waiting", "inside", "done"}]
    /\ conv \in [Calls -> Conversations]
    /\ on \in [Calls -> Sessions \cup {NoSession}]
    /\ held \in [Sessions -> [Keys -> Nat]]
    /\ missed \subseteq Calls
    /\ closed \in BOOLEAN

CallKey(c) == LockKey[conv[c]]

Inside(k) == {c \in Calls : pc[c] = "inside" /\ CallKey(c) = k}
Missed(k) == {c \in missed : CallKey(c) = k}

\* A connection that runs a blocked statement is checked out of the pool.
Idle(s) == \A c \in Calls : ~(pc[c] = "waiting" /\ on[c] = s)

\* Postgres grants the lock to s when no other session holds it.
Grantable(s, k) == \A t \in Sessions \ {s} : held[t][k] = 0

-----------------------------------------------------------------------------
LockInit ==
    /\ pc = [c \in Calls |-> "start"]
    /\ conv \in [Calls -> Conversations]
    /\ on = [c \in Calls |-> NoSession]
    /\ held = [s \in Sessions |-> [k \in Keys |-> 0]]
    /\ missed = {}
    /\ closed = FALSE

\* Mutant: pg_try_advisory_lock, its answer ignored.
RequestLockUnchecked(c) ==
    /\ pc[c] = "start"
    /\ \E s \in Sessions :
         /\ Idle(s)
         /\ on' = [on EXCEPT ![c] = s]
         /\ pc' = [pc EXCEPT ![c] = "inside"]
         /\ held' = IF Grantable(s, CallKey(c)) THEN [held EXCEPT ![s][CallKey(c)] = @ + 1]
                    ELSE held
    /\ UNCHANGED <<conv, missed, closed>>

\* dataSource.query('SELECT pg_advisory_lock($1)') on some idle connection.
RequestLock(c) ==
    /\ pc[c] = "start"
    /\ \E s \in Sessions :
         /\ Idle(s)
         /\ on' = [on EXCEPT ![c] = s]
         /\ \/ /\ Grantable(s, CallKey(c))
               /\ pc' = [pc EXCEPT ![c] = "inside"]
               /\ held' = [held EXCEPT ![s][CallKey(c)] = @ + 1]
            \/ /\ ~Grantable(s, CallKey(c))
               /\ pc' = [pc EXCEPT ![c] = "waiting"]
               /\ UNCHANGED held
    /\ UNCHANGED <<conv, missed, closed>>

\* Postgres wakes a statement blocked in pg_advisory_lock.
Grant(c) ==
    /\ pc[c] = "waiting"
    /\ Grantable(on[c], CallKey(c))
    /\ pc' = [pc EXCEPT ![c] = "inside"]
    /\ held' = [held EXCEPT ![on[c]][CallKey(c)] = @ + 1]
    /\ UNCHANGED <<conv, on, missed, closed>>

\* Session t holds the key that the statement running on s waits for.
WaitsFor(s, t) ==
    \E c \in Calls : pc[c] = "waiting" /\ on[c] = s /\ held[t][CallKey(c)] > 0

\* s is on a cycle of waiting sessions: each of D waits for one of D, and each of D
\* is waited for.
Deadlocked(s) ==
    \E D \in SUBSET Sessions :
        /\ s \in D
        /\ \A t \in D : (\E u \in D : WaitsFor(t, u)) /\ (\E u \in D : WaitsFor(u, t))

\* Mutant: nobody looks for deadlocks among advisory locks.
NeverAborted(c) ==
    /\ pc[c] = "waiting"
    /\ FALSE
    /\ UNCHANGED lockVars

\* Postgres breaks a deadlock: pg_advisory_lock fails, processInbound throws before its
\* try block, and nothing is unlocked.
DeadlockAbort(c) ==
    /\ pc[c] = "waiting"
    /\ Deadlocked(on[c])
    /\ pc' = [pc EXCEPT ![c] = "done"]
    /\ UNCHANGED <<conv, on, held, missed, closed>>

\* Mutant: pg_advisory_unlock_all in the finally block.
UnlockAll(c) ==
    /\ pc[c] = "inside"
    /\ pc' = [pc EXCEPT ![c] = "done"]
    /\ \E s \in Sessions :
         /\ Idle(s)
         /\ held' = [held EXCEPT ![s][CallKey(c)] = 0]
         /\ missed' = IF held[s][CallKey(c)] = 0 THEN missed \cup {c} ELSE missed
    /\ UNCHANGED <<conv, on, closed>>

\* The finally block: pg_advisory_unlock, again on some idle connection.  On a
\* session that does not hold the key Postgres only warns and returns false.
Unlock(c) ==
    /\ pc[c] = "inside"
    /\ pc' = [pc EXCEPT ![c] = "done"]
    /\ \E s \in Sessions :
         /\ Idle(s)
         /\ \/ /\ held[s][CallKey(c)] > 0
               /\ held' = [held EXCEPT ![s][CallKey(c)] = @ - 1]
               /\ UNCHANGED missed
            \/ /\ held[s][CallKey(c)] = 0
               /\ missed' = missed \cup {c}
               /\ UNCHANGED held
    /\ UNCHANGED <<conv, on, closed>>

\* The pool may close an idle connection: the session ends, its locks with it.
CloseIdle(s) ==
    /\ Idle(s)
    /\ \E k \in Keys : held[s][k] > 0
    /\ held' = [held EXCEPT ![s] = [k \in Keys |-> 0]]
    /\ closed' = TRUE
    /\ UNCHANGED <<pc, conv, on, missed>>

LockDone == (\A c \in Calls : pc[c] = "done") /\ UNCHANGED lockVars

LockNext ==
    \/ \E c \in Calls : RequestLock(c) \/ Grant(c) \/ DeadlockAbort(c) \/ Unlock(c)
    \/ \E s \in Sessions : CloseIdle(s)
    \/ LockDone

LockSpec == LockInit /\ [][LockNext]_lockVars

\* Statements that can run do run, and Postgres wakes a grantable waiter and breaks
\* deadlocks.  The pool owes no CloseIdle: it closes a connection unused for ten seconds,
\* hands out the last one given back first, and pollTasks asks for one every two seconds.
LockFairness ==
    \A c \in Calls :
        /\ WF_lockVars(RequestLock(c)) /\ WF_lockVars(Grant(c))
        /\ WF_lockVars(DeadlockAbort(c)) /\ WF_lockVars(Unlock(c))

FairLockSpec == LockSpec /\ LockFairness

-----------------------------------------------------------------------------
(* What the lock is for, and what it gives.                                *)

\* The comment over the lock: "Acquire advisory lock on conversation to prevent
\* concurrent processing".  At most one call is between lock and unlock.
MutualExclusion ==
    \A c, d \in Calls :
        pc[c] = "inside" /\ pc[d] = "inside" /\ conv[c] = conv[d] => c = d

\* What remains of it as long as the pool has closed no lock's connection: two calls are inside
\* together only when the pool gave both of them the same connection, also for
\* conversations whose 32-bit keys collide.
InsideShareSession ==
    closed \/ \A c, d \in Calls :
        pc[c] = "inside" /\ pc[d] = "inside" /\ CallKey(c) = CallKey(d) => on[c] = on[d]

\* As long as the pool has closed no lock's connection, no unlock of another call, on whatever
\* connection it runs, takes the lock away from a call that is still inside.
LockNotStolen ==
    closed \/ \A c \in Calls : pc[c] = "inside" => held[on[c]][CallKey(c)] > 0

\* The leak, counted: a held key is held once per call inside and once more for
\* every unlock that ran on a foreign connection, and nothing else releases it.
HoldsAccounted ==
    closed \/ \A k \in Keys :
        \/ /\ Inside(k) \cup Missed(k) = {}
           /\ \A s \in Sessions : held[s][k] = 0
        \/ \E s \in Sessions :
              /\ held[s][k] = Cardinality(Inside(k)) + Cardinality(Missed(k))
              /\ \A t \in Sessions \ {s} : held[t][k] = 0

\* A key some session still holds although no call is inside: an unlock missed it.
Leaked(k) ==
    /\ Inside(k) = {} /\ Missed(k) # {}
    /\ \E s \in Sessions : held[s][k] > 0

\* A call that never returns waits behind a leaked lock, on which nobody need ever close
\* the connection; no call is kept for ever by one that is inside, nor by a cycle of
\* connections that wait for each other: when every connection runs a blocked
\* pg_advisory_lock, so that not even an unlock can run, Postgres fails one of them.
WaitsOnlyBehindLeak ==
    \A c \in Calls :
        <>(pc[c] = "done") \/ <>[](pc[c] = "waiting" /\ Leaked(CallKey(c)))
=============================================================================
