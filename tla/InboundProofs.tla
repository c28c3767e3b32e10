--------------------------- MODULE InboundProofs ---------------------------
(***************************************************************************)
(* The way in, from a delivery to the turn it is answered in: the lock of  *)
(* a conversation, the debounced inbox, and the buffer that takes its      *)
(* place in the demo, for any number of calls, connections, deliveries,    *)
(* customers, ticks, requests and faults.                                  *)
(*                                                                         *)
(* Lock.  HoldsAccounted counts holds and LockNotStolen looks at one call, *)
(* and neither is inductive: the count must be tied to the session that    *)
(* every call inside locked on (Account), and a missed unlock to a         *)
(* finished call (MissedDone), so that no call is counted twice.           *)
(*                                                                         *)
(* Inbox.  NothingVanishes is not inductive: a delete must be known to     *)
(* remove only rows its tick read or rows that slipped in after the read   *)
(* (FoundCovers).  HandedOnceWithoutOverlap needs that at most one tick    *)
(* runs (OneTick) and that a message handed over is nowhere the poller can *)
(* find it again (HandedIsGone).                                           *)
(*                                                                         *)
(* Demo.  EachTextOnce needs that an entry in the map was never flushed    *)
(* and that its creator will not put it there again (EntriesAreFresh).     *)
(* NeverStranded needs that a flush does not touch a request that is still *)
(* saving (ResolversAreSaved): it is the one that will set the timeout.    *)
(***************************************************************************)
EXTENDS ConversationLock, DmInbox, DemoBuffer, FiniteSetTheorems, TLAPS

(***************************************************************************)
(* The lock of a conversation                                              *)
(***************************************************************************)
OnOK == \A c \in Calls : pc[c] \in {"waiting", "inside"} => on[c] \in Sessions

MissedDone == \A c \in missed : pc[c] = "done"

\* Session s holds all there is of key k, and every call inside locked on s.
Account(k, s) ==
    /\ held[s][k] = Cardinality(Inside(k)) + Cardinality(Missed(k))
    /\ \A t \in Sessions \ {s} : held[t][k] = 0
    /\ \A c \in Inside(k) : on[c] = s

Accounted ==
    \A k \in Keys :
        \/ /\ Inside(k) \cup Missed(k) = {}
           /\ \A s \in Sessions : held[s][k] = 0
        \/ \E s \in Sessions : Account(k, s)

LockInv == LockTypeOK /\ OnOK /\ MissedDone /\ (closed \/ Accounted)

-----------------------------------------------------------------------------
\* The sets that the count is made of are finite.
LEMMA CountsFinite ==
    ASSUME NEW k
    PROVE  LockTypeOK => /\ IsFiniteSet(Inside(k))
                         /\ IsFiniteSet(Missed(k))
                         /\ Cardinality(Inside(k)) \in Nat
                         /\ Cardinality(Missed(k)) \in Nat
<1> SUFFICES ASSUME LockTypeOK
             PROVE  /\ IsFiniteSet(Inside(k)) /\ IsFiniteSet(Missed(k))
                    /\ Cardinality(Inside(k)) \in Nat /\ Cardinality(Missed(k)) \in Nat
  OBVIOUS
<1>1. Inside(k) \subseteq Calls /\ Missed(k) \subseteq Calls
  BY DEF Inside, Missed, LockTypeOK
<1>2. IsFiniteSet(Inside(k)) /\ IsFiniteSet(Missed(k))
  BY <1>1, LockAssumption, FS_Subset DEF LockAssumption
<1> QED
  BY <1>2, FS_CardinalityType

\* A key belongs to one of the given keys.
LEMMA CallKeyType ==
    ASSUME NEW c \in Calls, LockTypeOK
    PROVE  CallKey(c) \in Keys
BY LockAssumption DEF LockAssumption, LockTypeOK, CallKey

\* A session that Postgres may grant a key to carries the whole account of it.
LEMMA GrantableAccount ==
    ASSUME LockTypeOK, Accounted, NEW s \in Sessions, NEW k \in Keys, Grantable(s, k)
    PROVE  Account(k, s)
<1>1. CASE /\ Inside(k) \cup Missed(k) = {}
           /\ \A t \in Sessions : held[t][k] = 0
  <2>1. Inside(k) = {} /\ Missed(k) = {}
    BY <1>1
  <2>2. Cardinality(Inside(k)) = 0 /\ Cardinality(Missed(k)) = 0
    BY <2>1, FS_EmptySet
  <2> QED
    BY <1>1, <2>1, <2>2 DEF Account
<1>2. ASSUME NEW t \in Sessions, Account(k, t)
      PROVE  Account(k, s)
  <2>1. CASE t = s
    BY <1>2, <2>1
  <2>2. CASE t # s
    <3>1. held[t][k] = 0
      BY <2>2 DEF Grantable
    <3>2. Cardinality(Inside(k)) = 0 /\ Cardinality(Missed(k)) = 0
      BY <1>2, <3>1, CountsFinite DEF Account
    <3>3. Inside(k) = {} /\ Missed(k) = {}
      BY <3>2, CountsFinite, FS_EmptySet
    <3>4. held[s][k] = 0
      BY <1>2, <2>2 DEF Account
    <3> QED
      BY <3>2, <3>3, <3>4 DEF Account, Grantable
  <2> QED
    BY <2>1, <2>2
<1> QED
  BY <1>1, <1>2 DEF Accounted

\* Keys do not move while conv does not.
LEMMA SameKeys ==
    ASSUME UNCHANGED conv
    PROVE  \A c \in Calls : CallKey(c)' = CallKey(c)
BY DEF CallKey

\* Entering: one hold more on the granted session, one call more inside.
LEMMA EnterAccounted ==
    ASSUME LockTypeOK, Accounted,
           NEW c \in Calls, NEW s \in Sessions, NEW k0 \in Keys,
           k0 = CallKey(c), pc[c] # "inside", Grantable(s, k0),
           pc' = [pc EXCEPT ![c] = "inside"],
           held' = [held EXCEPT ![s][k0] = @ + 1],
           on' = [on EXCEPT ![c] = s],
           UNCHANGED <<conv, missed>>
    PROVE  Accounted'
<1>1. \A k \in Keys : Missed(k)' = Missed(k)
  BY SameKeys DEF Missed, LockTypeOK
<1>2. Inside(k0)' = Inside(k0) \cup {c} /\ c \notin Inside(k0)
  BY SameKeys DEF Inside, LockTypeOK
<1>3. \A k \in Keys \ {k0} : Inside(k)' = Inside(k)
  BY SameKeys DEF Inside, LockTypeOK
<1>4. Account(k0, s)'
  <2>1. Account(k0, s)
    BY GrantableAccount
  <2>2. Cardinality(Inside(k0) \cup {c}) = Cardinality(Inside(k0)) + 1
    BY <1>2, CountsFinite, FS_AddElement
  <2>3. held'[s][k0] = held[s][k0] + 1
    BY DEF LockTypeOK
  <2>4. held'[s][k0] = Cardinality(Inside(k0)') + Cardinality(Missed(k0)')
    BY <2>1, <2>2, <2>3, <1>1, <1>2, CountsFinite DEF Account
  <2>5. \A t \in Sessions \ {s} : held'[t][k0] = 0
    BY <2>1 DEF Account, LockTypeOK
  <2>6. \A d \in Inside(k0)' : on'[d] = s
    BY <1>2, <2>1 DEF Account, LockTypeOK, Inside
  <2> QED
    BY <2>4, <2>5, <2>6 DEF Account
<1>5. \A k \in Keys \ {k0}, t \in Sessions : held'[t][k] = held[t][k]
  BY DEF LockTypeOK
<1>6. ASSUME NEW k \in Keys \ {k0}, NEW t \in Sessions, Account(k, t)
      PROVE  Account(k, t)'
  <2>1. \A d \in Inside(k) : on'[d] = on[d]
    BY <1>6, SameKeys, <1>3 DEF Inside, LockTypeOK
  <2> QED
    BY <1>1, <1>3, <1>5, <1>6, <2>1 DEF Account
<1> SUFFICES ASSUME NEW k \in Keys
             PROVE  \/ /\ Inside(k)' \cup Missed(k)' = {}
                       /\ \A t \in Sessions : held'[t][k] = 0
                    \/ \E t \in Sessions : Account(k, t)'
  BY DEF Accounted
<1>7. CASE k = k0
  BY <1>4, <1>7
<1>8. CASE k # k0
  BY <1>1, <1>3, <1>5, <1>6, <1>8 DEF Accounted
<1> QED
  BY <1>7, <1>8

\* Leaving: the call leaves Inside, and either takes a hold with it or, when the
\* unlock ran on a session without one, leaves the hold behind as a missed unlock.
LEMMA LeaveAccounted ==
    ASSUME LockTypeOK, MissedDone, Accounted,
           NEW c \in Calls, NEW u \in Sessions, NEW k0 \in Keys,
           k0 = CallKey(c), pc[c] = "inside",
           pc' = [pc EXCEPT ![c] = "done"],
           \/ /\ held[u][k0] > 0
              /\ held' = [held EXCEPT ![u][k0] = @ - 1]
              /\ UNCHANGED missed
           \/ /\ held[u][k0] = 0
              /\ missed' = missed \cup {c}
              /\ UNCHANGED held,
           UNCHANGED <<conv, on>>
    PROVE  Accounted'
<1>1. c \in Inside(k0) /\ Inside(k0)' = Inside(k0) \ {c}
  BY SameKeys DEF Inside, LockTypeOK
<1>2. \A k \in Keys \ {k0} : Inside(k)' = Inside(k)
  BY SameKeys DEF Inside, LockTypeOK
<1>3. \A k \in Keys \ {k0} : Missed(k)' = Missed(k)
  BY SameKeys DEF Missed, LockTypeOK
<1>4. \A k \in Keys \ {k0}, t \in Sessions : held'[t][k] = held[t][k]
  BY DEF LockTypeOK
<1>5. PICK s \in Sessions : Account(k0, s)
  BY <1>1 DEF Accounted
<1>6. /\ Cardinality(Inside(k0)') = Cardinality(Inside(k0)) - 1
      /\ Cardinality(Inside(k0)) >= 1
  BY <1>1, CountsFinite, FS_RemoveElement, FS_EmptySet
<1>7. held[s][k0] > 0 /\ \A t \in Sessions \ {s} : held[t][k0] = 0
  BY <1>5, <1>6, CountsFinite DEF Account
<1>8. \A t \in Sessions \ {s} : held'[t][k0] = 0
  BY <1>7 DEF LockTypeOK
<1>9. \A d \in Inside(k0)' : on'[d] = s
  BY <1>1, <1>5 DEF Account
<1>10. held'[s][k0] = Cardinality(Inside(k0)') + Cardinality(Missed(k0)')
  <2>1. CASE held[u][k0] > 0
    <3>1. u = s
      BY <1>7, <2>1
    <3>2. held'[s][k0] = held[s][k0] - 1
      BY <2>1, <3>1 DEF LockTypeOK
    <3>3. Missed(k0)' = Missed(k0)
      BY <2>1, SameKeys DEF Missed, LockTypeOK
    <3> QED
      BY <1>5, <1>6, <3>2, <3>3, CountsFinite DEF Account
  <2>2. CASE held[u][k0] = 0
    <3>1. held' = held
      BY <2>2
    <3>2. Missed(k0)' = Missed(k0) \cup {c} /\ c \notin Missed(k0)
      BY <2>2, SameKeys DEF Missed, MissedDone, LockTypeOK
    <3>3. Cardinality(Missed(k0)') = Cardinality(Missed(k0)) + 1
      BY <3>2, CountsFinite, FS_AddElement
    <3> QED
      BY <1>5, <1>6, <3>1, <3>3, CountsFinite DEF Account
  <2> QED
    BY <2>1, <2>2 DEF LockTypeOK
<1>11. Account(k0, s)'
  BY <1>8, <1>9, <1>10 DEF Account
<1>12. ASSUME NEW k \in Keys \ {k0}, NEW t \in Sessions, Account(k, t)
       PROVE  Account(k, t)'
  BY <1>2, <1>3, <1>4, <1>12 DEF Account
<1> SUFFICES ASSUME NEW k \in Keys
             PROVE  \/ /\ Inside(k)' \cup Missed(k)' = {}
                       /\ \A t \in Sessions : held'[t][k] = 0
                    \/ \E t \in Sessions : Account(k, t)'
  BY DEF Accounted
<1>13. CASE k = k0
  BY <1>11, <1>13
<1>14. CASE k # k0
  BY <1>2, <1>3, <1>4, <1>12, <1>14 DEF Accounted
<1> QED
  BY <1>13, <1>14

-----------------------------------------------------------------------------
LEMMA LockInitInv == LockInit => LockInv
<1> SUFFICES ASSUME LockInit
             PROVE  LockInv
  OBVIOUS
<1>1. LockTypeOK
  BY DEF LockInit, LockTypeOK
<1>2. OnOK /\ MissedDone
  BY DEF LockInit, OnOK, MissedDone
<1>3. Accounted
  BY DEF LockInit, Accounted, Inside, Missed
<1> QED
  BY <1>1, <1>2, <1>3 DEF LockInv

\* Every step keeps the types and the bookkeeping of sessions and missed unlocks.
LEMMA LockNextShape ==
    ASSUME LockInv, [LockNext]_lockVars
    PROVE  (LockTypeOK /\ OnOK /\ MissedDone)'
<1> USE DEF LockInv, LockTypeOK, OnOK, MissedDone
<1>1. ASSUME NEW c \in Calls, RequestLock(c)
      PROVE  (LockTypeOK /\ OnOK /\ MissedDone)'
  <2>1. PICK s \in Sessions :
           /\ on' = [on EXCEPT ![c] = s]
           /\ \/ /\ pc' = [pc EXCEPT ![c] = "inside"]
                 /\ held' = [held EXCEPT ![s][CallKey(c)] = @ + 1]
              \/ /\ pc' = [pc EXCEPT ![c] = "waiting"]
                 /\ UNCHANGED held
    BY <1>1 DEF RequestLock
  <2>2. held' \in [Sessions -> [Keys -> Nat]]
    <3>1. CallKey(c) \in Keys /\ held \in [Sessions -> [Keys -> Nat]]
      BY CallKeyType
    <3>2. held[s][CallKey(c)] + 1 \in Nat
      BY <3>1
    <3>3. [held EXCEPT ![s][CallKey(c)] = @ + 1] \in [Sessions -> [Keys -> Nat]]
      BY <3>1, <3>2
    <3> QED
      BY <2>1, <3>1, <3>3
  <2>3. pc[c] = "start" /\ UNCHANGED <<conv, missed, closed>>
    BY <1>1 DEF RequestLock
  <2> QED
    BY <2>1, <2>2, <2>3
<1>2. ASSUME NEW c \in Calls, Grant(c)
      PROVE  (LockTypeOK /\ OnOK /\ MissedDone)'
  BY <1>2, CallKeyType DEF Grant
<1>3. ASSUME NEW c \in Calls, Unlock(c)
      PROVE  (LockTypeOK /\ OnOK /\ MissedDone)'
  <2>1. PICK s \in Sessions :
           \/ /\ held[s][CallKey(c)] > 0
              /\ held' = [held EXCEPT ![s][CallKey(c)] = @ - 1]
              /\ UNCHANGED missed
           \/ /\ held[s][CallKey(c)] = 0
              /\ missed' = missed \cup {c}
              /\ UNCHANGED held
    BY <1>3 DEF Unlock
  <2>2. held' \in [Sessions -> [Keys -> Nat]]
    BY <2>1, CallKeyType
  <2> QED
    BY <1>3, <2>1, <2>2 DEF Unlock
<1>4. ASSUME NEW s \in Sessions, CloseIdle(s)
      PROVE  (LockTypeOK /\ OnOK /\ MissedDone)'
  BY <1>4 DEF CloseIdle
<1>5. ASSUME NEW c \in Calls, DeadlockAbort(c)
      PROVE  (LockTypeOK /\ OnOK /\ MissedDone)'
  BY <1>5 DEF DeadlockAbort
<1>6. CASE UNCHANGED lockVars
  BY <1>6 DEF lockVars
<1> QED
  BY <1>1, <1>2, <1>3, <1>4, <1>5, <1>6 DEF LockNext, LockDone

\* Steps that move no call in or out of the lock keep the account.
LEMMA IdleAccounted ==
    ASSUME LockTypeOK, Accounted, UNCHANGED <<conv, held, missed>>,
           \A c \in Calls : pc[c] = "inside" <=> pc'[c] = "inside",
           \A c \in Calls : pc[c] = "inside" => on'[c] = on[c]
    PROVE  Accounted'
<1>1. \A k \in Keys : Inside(k)' = Inside(k) /\ Missed(k)' = Missed(k)
  BY SameKeys DEF Inside, Missed, LockTypeOK
<1>2. \A k \in Keys : \A c \in Inside(k) : on'[c] = on[c]
  BY DEF Inside
<1> QED
  BY <1>1, <1>2 DEF Accounted, Account

LEMMA LockNextAccounted ==
    ASSUME LockInv, [LockNext]_lockVars, ~closed'
    PROVE  Accounted'
<1>0. ~closed
  BY DEF LockNext, lockVars, RequestLock, Grant, DeadlockAbort, Unlock, CloseIdle, LockDone
<1> USE <1>0 DEF LockInv
<1>1. ASSUME NEW c \in Calls, RequestLock(c)
      PROVE  Accounted'
  <2> DEFINE k0 == CallKey(c)
  <2>1. PICK s \in Sessions :
           /\ on' = [on EXCEPT ![c] = s]
           /\ \/ /\ Grantable(s, k0)
                 /\ pc' = [pc EXCEPT ![c] = "inside"]
                 /\ held' = [held EXCEPT ![s][k0] = @ + 1]
              \/ /\ pc' = [pc EXCEPT ![c] = "waiting"]
                 /\ UNCHANGED held
    BY <1>1 DEF RequestLock
  <2>2. pc[c] = "start" /\ UNCHANGED <<conv, missed>> /\ k0 \in Keys
    BY <1>1, CallKeyType DEF RequestLock
  <2>3. CASE pc' = [pc EXCEPT ![c] = "waiting"] /\ UNCHANGED held
    BY <2>1, <2>2, <2>3, IdleAccounted DEF LockTypeOK
  <2>4. CASE /\ Grantable(s, k0)
             /\ pc' = [pc EXCEPT ![c] = "inside"]
             /\ held' = [held EXCEPT ![s][k0] = @ + 1]
    BY <2>1, <2>2, <2>4, EnterAccounted
  <2> QED
    BY <2>1, <2>3, <2>4
<1>2. ASSUME NEW c \in Calls, Grant(c)
      PROVE  Accounted'
  <2>1. on[c] \in Sessions /\ on' = [on EXCEPT ![c] = on[c]]
    BY <1>2 DEF Grant, OnOK, LockTypeOK
  <2> QED
    BY <1>2, <2>1, CallKeyType, EnterAccounted DEF Grant
<1>3. ASSUME NEW c \in Calls, Unlock(c)
      PROVE  Accounted'
  <2>1. PICK s \in Sessions :
           \/ /\ held[s][CallKey(c)] > 0
              /\ held' = [held EXCEPT ![s][CallKey(c)] = @ - 1]
              /\ UNCHANGED missed
           \/ /\ held[s][CallKey(c)] = 0
              /\ missed' = missed \cup {c}
              /\ UNCHANGED held
    BY <1>3 DEF Unlock
  <2> QED
    BY <1>3, <2>1, CallKeyType, LeaveAccounted DEF Unlock
<1>4. ASSUME NEW s \in Sessions, CloseIdle(s)
      PROVE  Accounted'
  BY <1>4 DEF CloseIdle
<1>5. ASSUME NEW c \in Calls, DeadlockAbort(c)
      PROVE  Accounted'
  BY <1>5, IdleAccounted DEF DeadlockAbort, LockTypeOK
<1>6. CASE UNCHANGED lockVars
  BY <1>6, IdleAccounted DEF lockVars
<1> QED
  BY <1>1, <1>2, <1>3, <1>4, <1>5, <1>6 DEF LockNext, LockDone

\* The inductive invariant holds in every reachable state.
THEOREM LockInvariant == LockSpec => []LockInv
<1>1. LockInv /\ [LockNext]_lockVars => LockInv'
  <2> SUFFICES ASSUME LockInv, [LockNext]_lockVars
               PROVE  LockInv'
    OBVIOUS
  <2>1. CASE closed'
    BY <2>1, LockNextShape DEF LockInv
  <2>2. CASE ~closed'
    BY <2>2, LockNextShape, LockNextAccounted DEF LockInv
  <2> QED
    BY <2>1, <2>2
<1> QED
  BY LockInitInv, <1>1, PTL DEF LockSpec

\* Type correctness of the lock (processInbound's lock and unlock statements).
THEOREM LockTypeCorrect == LockSpec => []LockTypeOK
<1>1. LockInv => LockTypeOK
  BY DEF LockInv
<1> QED
  BY <1>1, LockInvariant, PTL

\* As long as the pool has closed no lock's connection, the lock of a call inside is not released
\* by anybody's unlock, whichever connections the statements run on.
THEOREM LockIsNotStolen == LockSpec => []LockNotStolen
<1>1. LockInv => LockNotStolen
  <2> SUFFICES ASSUME LockInv, ~closed, NEW c \in Calls, pc[c] = "inside"
               PROVE  held[on[c]][CallKey(c)] > 0
    BY DEF LockNotStolen
  <2>1. CallKey(c) \in Keys /\ c \in Inside(CallKey(c))
    BY CallKeyType DEF LockInv, Inside
  <2>2. PICK k \in Keys : k = CallKey(c)
    BY <2>1
  <2>3. PICK s \in Sessions : Account(k, s)
    BY <2>1, <2>2 DEF LockInv, Accounted
  <2>4. Cardinality(Inside(k)) # 0
    BY <2>1, <2>2, CountsFinite, FS_EmptySet DEF LockInv
  <2>5. held[s][k] > 0
    BY <2>3, <2>4, CountsFinite DEF Account, LockInv
  <2> QED
    BY <2>1, <2>2, <2>3, <2>5 DEF Account
<1> QED
  BY <1>1, LockInvariant, PTL

\* Calls that are inside together share the connection they locked on.
THEOREM InsideSharesSession == LockSpec => []InsideShareSession
<1>1. LockInv => InsideShareSession
  <2> SUFFICES ASSUME LockInv, ~closed, NEW c \in Calls, NEW d \in Calls,
                      pc[c] = "inside", pc[d] = "inside", CallKey(c) = CallKey(d)
               PROVE  on[c] = on[d]
    BY DEF InsideShareSession
  <2>1. PICK k \in Keys : k = CallKey(c)
    BY CallKeyType DEF LockInv
  <2>2. c \in Inside(k) /\ d \in Inside(k)
    BY <2>1 DEF Inside
  <2>3. PICK s \in Sessions : Account(k, s)
    BY <2>2 DEF LockInv, Accounted
  <2> QED
    BY <2>2, <2>3 DEF Account
<1> QED
  BY <1>1, LockInvariant, PTL

\* Every hold is a call inside or an unlock that ran on a foreign connection.
THEOREM HoldsAreAccounted == LockSpec => []HoldsAccounted
<1>1. LockInv => HoldsAccounted
  BY DEF LockInv, Accounted, Account, HoldsAccounted
<1> QED
  BY <1>1, LockInvariant, PTL

(***************************************************************************)
(* The debounced inbox                                                     *)
(***************************************************************************)
FoundCovers ==
    \A t \in Ticks : at[t] = "found" => RowsOf(key[t]) \subseteq batch[t] \cup raced

PendingIsQueued == \A m \in pending : hpc[m] = "queued"

HandedIsQueued == \A m \in Msgs : handed[m] > 0 => hpc[m] = "queued"

OneTick == \A t, u \in Ticks : at[t] # "idle" /\ at[u] # "idle" => t = u

HandedIsGone ==
    /\ \A m \in Msgs : handed[m] > 0 =>
          m \notin pending /\ \A t \in Ticks : at[t] \in {"found", "taken"} => m \notin batch[t]
    /\ \A t \in Ticks : at[t] = "taken" => batch[t] \cap pending = {}

InboxInv ==
    /\ InboxTypeOK
    /\ BatchIsOneCustomers
    /\ PendingIsQueued
    /\ HandedIsQueued
    /\ FoundCovers
    /\ NothingVanishes
    /\ overlapped \/ (OneTick /\ HandedIsGone /\ HandedAtMostOnce)

-----------------------------------------------------------------------------
LEMMA InboxInitInv == InboxInit => InboxInv
<1> SUFFICES ASSUME InboxInit
             PROVE  InboxInv
  OBVIOUS
<1>1. InboxTypeOK
  <2>1. faults \in 0..MaxFaults /\ handed \in [Msgs -> Nat]
    BY InboxAssumption DEF InboxAssumption, InboxInit
  <2>2. overlapped \in BOOLEAN
    BY DEF InboxInit
  <2> QED
    BY <2>1, <2>2 DEF InboxInit, InboxTypeOK
<1>2. BatchIsOneCustomers /\ PendingIsQueued /\ HandedIsQueued /\ FoundCovers /\ NothingVanishes
  BY DEF InboxInit, BatchIsOneCustomers, PendingIsQueued, HandedIsQueued, FoundCovers, NothingVanishes
<1>3. OneTick /\ HandedIsGone /\ HandedAtMostOnce
  BY DEF InboxInit, OneTick, HandedIsGone, HandedAtMostOnce
<1> QED
  BY <1>1, <1>2, <1>3 DEF InboxInv

\* Every step keeps the types.
LEMMA InboxTypeStep ==
    ASSUME InboxTypeOK, [InboxNext]_inboxVars
    PROVE  InboxTypeOK'
<1> USE InboxAssumption DEF InboxAssumption, InboxTypeOK, tickVars
<1>1. ASSUME NEW m \in Msgs, Handler(m) \/ HandlerFails(m) \/ Elapse(m)
      PROVE  InboxTypeOK'
  BY <1>1 DEF Handler, Discard, SaveInbound, ExtendWindow, InsertPending, HandlerFails, Elapse, RowsOf
<1>2. ASSUME NEW t \in Ticks, SelectReady(t)
      PROVE  InboxTypeOK'
  BY <1>2 DEF SelectReady
<1>3. ASSUME NEW t \in Ticks, Find(t)
      PROVE  InboxTypeOK'
  BY <1>3 DEF Find, RowsOf
<1>4. ASSUME NEW t \in Ticks, Delete(t) \/ Finish(t) \/ EndTick(t) \/ SkipBatch(t) \/ AbortTick(t)
      PROVE  InboxTypeOK'
  BY <1>4 DEF Delete, Finish, EndTick, SkipBatch, AbortTick, RowsOf
<1>5. ASSUME NEW t \in Ticks, Hand(t)
      PROVE  InboxTypeOK'
  BY <1>5 DEF Hand
<1>6. CASE Restart
  BY <1>6 DEF Restart, TakenRows
<1>7. CASE UNCHANGED inboxVars
  BY <1>7 DEF inboxVars
<1> QED
  BY <1>1, <1>2, <1>3, <1>4, <1>5, <1>6, <1>7 DEF InboxNext, TickStep

\* Rows and messages handed over come from handlers that finished, and a batch keeps
\* to its key.
LEMMA InboxRowsStep ==
    ASSUME InboxTypeOK, BatchIsOneCustomers, PendingIsQueued, HandedIsQueued,
           [InboxNext]_inboxVars
    PROVE  (BatchIsOneCustomers /\ PendingIsQueued /\ HandedIsQueued)'
<1> USE DEF InboxTypeOK, BatchIsOneCustomers, PendingIsQueued, HandedIsQueued, tickVars
<1>1. ASSUME NEW m \in Msgs, Handler(m) \/ HandlerFails(m) \/ Elapse(m)
      PROVE  (BatchIsOneCustomers /\ PendingIsQueued /\ HandedIsQueued)'
  <2>1. UNCHANGED <<at, batch, key, handed>> /\ pending' \subseteq pending \cup {m}
    BY <1>1 DEF Handler, Discard, SaveInbound, ExtendWindow, InsertPending, HandlerFails, Elapse
  <2>2. \A n \in Msgs : hpc[n] = "queued" => hpc'[n] = "queued"
    BY <1>1 DEF Handler, Discard, SaveInbound, ExtendWindow, InsertPending, HandlerFails, Elapse
  <2>3. m \in pending' => hpc'[m] = "queued"
    BY <1>1 DEF Handler, Discard, SaveInbound, ExtendWindow, InsertPending, HandlerFails, Elapse
  <2>4. BatchIsOneCustomers'
    BY <2>1, <2>2
  <2>5. PendingIsQueued' /\ HandedIsQueued'
    BY <2>1, <2>2, <2>3
  <2> QED
    BY <2>4, <2>5
<1>2. ASSUME NEW t \in Ticks, SelectReady(t) \/ Delete(t) \/ Finish(t) \/ EndTick(t)
                              \/ SkipBatch(t) \/ AbortTick(t)
      PROVE  (BatchIsOneCustomers /\ PendingIsQueued /\ HandedIsQueued)'
  <2>1. UNCHANGED <<hpc, batch, key, handed>> /\ pending' \subseteq pending
    BY <1>2 DEF SelectReady, Delete, Finish, EndTick, SkipBatch, AbortTick
  <2>2. \A u \in Ticks : at'[u] \in {"found", "taken", "busy"} => at[u] \in {"found", "taken", "busy"}
    BY <1>2 DEF SelectReady, Delete, Finish, EndTick, SkipBatch, AbortTick
  <2> QED
    BY <2>1, <2>2
<1>3. ASSUME NEW t \in Ticks, Find(t)
      PROVE  (BatchIsOneCustomers /\ PendingIsQueued /\ HandedIsQueued)'
  BY <1>3 DEF Find, RowsOf
<1>4. ASSUME NEW t \in Ticks, Hand(t)
      PROVE  (BatchIsOneCustomers /\ PendingIsQueued /\ HandedIsQueued)'
  <2>1. UNCHANGED <<hpc, pending, batch, key>> /\ at' = [at EXCEPT ![t] = "busy"] /\ at[t] = "taken"
    BY <1>4 DEF Hand
  <2>2. \A m \in Msgs : handed'[m] > 0 => handed[m] > 0 \/ m \in batch[t]
    BY <1>4 DEF Hand
  <2> QED
    BY <2>1, <2>2
<1>5. CASE Restart
  <2>1. \A n \in Msgs : hpc[n] = "queued" => hpc'[n] = "queued"
    BY <1>5 DEF Restart
  <2> QED
    BY <1>5, <2>1 DEF Restart
<1>6. CASE UNCHANGED inboxVars
  BY <1>6 DEF inboxVars
<1> QED
  BY <1>1, <1>2, <1>3, <1>4, <1>5, <1>6 DEF InboxNext, TickStep

\* Between a find and its delete, new rows of the key are known to have raced.
LEMMA FoundCoversStep ==
    ASSUME InboxTypeOK, FoundCovers, [InboxNext]_inboxVars
    PROVE  FoundCovers'
<1> USE DEF InboxTypeOK, FoundCovers, RowsOf, tickVars
<1>1. ASSUME NEW m \in Msgs, Handler(m) \/ HandlerFails(m) \/ Elapse(m)
      PROVE  FoundCovers'
  BY <1>1 DEF Handler, Discard, SaveInbound, ExtendWindow, InsertPending, HandlerFails, Elapse
<1>2. ASSUME NEW t \in Ticks, SelectReady(t) \/ Delete(t) \/ Hand(t) \/ Finish(t) \/ EndTick(t)
                              \/ SkipBatch(t) \/ AbortTick(t)
      PROVE  FoundCovers'
  <2>1. UNCHANGED <<batch, key, raced>> /\ pending' \subseteq pending
    BY <1>2 DEF SelectReady, Delete, Hand, Finish, EndTick, SkipBatch, AbortTick
  <2>2. \A u \in Ticks : at'[u] = "found" => at[u] = "found"
    BY <1>2 DEF SelectReady, Delete, Hand, Finish, EndTick, SkipBatch, AbortTick
  <2> QED
    BY <2>1, <2>2
<1>3. ASSUME NEW t \in Ticks, Find(t)
      PROVE  FoundCovers'
  BY <1>3 DEF Find
<1>4. CASE Restart
  BY <1>4 DEF Restart
<1>5. CASE UNCHANGED inboxVars
  BY <1>5 DEF inboxVars
<1> QED
  BY <1>1, <1>2, <1>3, <1>4, <1>5 DEF InboxNext, TickStep

\* Where a queued message may be.
LEMMA NothingVanishesStep ==
    ASSUME InboxTypeOK, FoundCovers, NothingVanishes, [InboxNext]_inboxVars
    PROVE  NothingVanishes'
<1> USE DEF InboxTypeOK, NothingVanishes, tickVars
<1>1. ASSUME NEW m \in Msgs, Handler(m) \/ HandlerFails(m) \/ Elapse(m)
      PROVE  NothingVanishes'
  <2>1. UNCHANGED <<TakenRows, handed, lost>> /\ pending \subseteq pending' /\ raced \subseteq raced'
    BY <1>1 DEF Handler, Discard, SaveInbound, ExtendWindow, InsertPending, HandlerFails, Elapse, TakenRows
  <2>2. \A n \in Msgs : hpc'[n] = "queued" => hpc[n] = "queued" \/ n \in pending'
    BY <1>1 DEF Handler, Discard, SaveInbound, ExtendWindow, InsertPending, HandlerFails, Elapse
  <2> QED
    BY <2>1, <2>2
<1>2. ASSUME NEW t \in Ticks, SelectReady(t) \/ Find(t) \/ Finish(t) \/ EndTick(t)
      PROVE  NothingVanishes'
  <2>1. UNCHANGED <<hpc, pending, handed, raced, lost>>
    BY <1>2 DEF SelectReady, Find, Finish, EndTick
  <2>2. \A u \in Ticks : at[u] = "taken" => at'[u] = "taken" /\ batch'[u] = batch[u]
    BY <1>2 DEF SelectReady, Find, Finish, EndTick
  <2>3. TakenRows \subseteq TakenRows'
    BY <2>2 DEF TakenRows
  <2> QED
    BY <2>1, <2>3
<1>3. ASSUME NEW t \in Ticks, Delete(t)
      PROVE  NothingVanishes'
  <2>1. RowsOf(key[t]) \subseteq batch[t] \cup raced
    BY <1>3 DEF Delete, FoundCovers
  <2>2. TakenRows \cup batch[t] \subseteq TakenRows'
    BY <1>3 DEF Delete, TakenRows
  <2>3. pending \subseteq pending' \cup RowsOf(key[t])
    BY <1>3 DEF Delete
  <2> QED
    BY <1>3, <2>1, <2>2, <2>3 DEF Delete
<1>4. ASSUME NEW t \in Ticks, Hand(t)
      PROVE  NothingVanishes'
  <2>1. \A n \in Msgs : handed[n] > 0 \/ n \in batch[t] => handed'[n] > 0
    BY <1>4 DEF Hand
  <2>2. TakenRows \subseteq TakenRows' \cup batch[t]
    BY <1>4 DEF Hand, TakenRows
  <2> QED
    BY <1>4, <2>1, <2>2 DEF Hand
<1>5. ASSUME NEW t \in Ticks, SkipBatch(t) \/ AbortTick(t)
      PROVE  NothingVanishes'
  <2>1. TakenRows \cup lost \subseteq TakenRows' \cup lost'
    BY <1>5 DEF SkipBatch, AbortTick, TakenRows
  <2> QED
    BY <1>5, <2>1 DEF SkipBatch, AbortTick
<1>6. CASE Restart
  <2>1. \A n \in Msgs : hpc'[n] = "queued" => hpc[n] = "queued"
    BY <1>6 DEF Restart
  <2> QED
    BY <1>6, <2>1 DEF Restart
<1>7. CASE UNCHANGED inboxVars
  BY <1>7 DEF inboxVars, TakenRows
<1> QED
  BY <1>1, <1>2, <1>3, <1>4, <1>5, <1>6, <1>7 DEF InboxNext, TickStep

\* Overlapping is remembered.
LEMMA OverlapStays == [InboxNext]_inboxVars /\ overlapped => overlapped'
BY DEF InboxNext, inboxVars, Handler, Discard, SaveInbound, ExtendWindow, InsertPending,
       HandlerFails, Elapse, SelectReady, TickStep, Find, Delete, Hand, Finish, EndTick,
       SkipBatch, AbortTick, Restart

\* Ticks that do not overlap.
LEMMA OneTickStep ==
    ASSUME InboxTypeOK, OneTick, ~overlapped', [InboxNext]_inboxVars
    PROVE  OneTick'
<1> USE DEF InboxTypeOK, OneTick, tickVars
<1>1. ASSUME NEW t \in Ticks, SelectReady(t) \/ TickStep(t) \/ SkipBatch(t) \/ AbortTick(t)
      PROVE  OneTick'
  <2>1. \A u \in Ticks \ {t} : at'[u] = at[u]
    BY <1>1 DEF SelectReady, TickStep, Find, Delete, Hand, Finish, EndTick, SkipBatch, AbortTick
  <2>2. at[t] # "idle" \/ \A u \in Ticks : at[u] = "idle"
    BY <1>1 DEF SelectReady, TickStep, Find, Delete, Hand, Finish, EndTick, SkipBatch, AbortTick
  <2> QED
    BY <2>1, <2>2
<1>2. ASSUME NEW m \in Msgs, Handler(m) \/ HandlerFails(m) \/ Elapse(m)
      PROVE  OneTick'
  BY <1>2 DEF Handler, Discard, SaveInbound, ExtendWindow, InsertPending, HandlerFails, Elapse
<1>3. CASE Restart
  BY <1>3 DEF Restart
<1>4. CASE UNCHANGED inboxVars
  BY <1>4 DEF inboxVars
<1> QED
  BY <1>1, <1>2, <1>3, <1>4 DEF InboxNext

LEMMA HandedIsGoneStep ==
    ASSUME InboxTypeOK, BatchIsOneCustomers, PendingIsQueued, HandedIsQueued, OneTick,
           HandedIsGone, HandedAtMostOnce, [InboxNext]_inboxVars
    PROVE  (HandedIsGone /\ HandedAtMostOnce)'
<1> USE DEF InboxTypeOK, HandedIsGone, HandedAtMostOnce, tickVars
<1>1. ASSUME NEW m \in Msgs, Handler(m) \/ HandlerFails(m) \/ Elapse(m)
      PROVE  (HandedIsGone /\ HandedAtMostOnce)'
  <2>1. UNCHANGED <<at, batch, handed>>
    BY <1>1 DEF Handler, Discard, SaveInbound, ExtendWindow, InsertPending, HandlerFails, Elapse
  <2>2. CASE pending' = pending
    BY <2>1, <2>2
  <2>3. CASE pending' = pending \cup {m} /\ hpc[m] = "extended"
    BY <2>1, <2>3 DEF HandedIsQueued, BatchIsOneCustomers
  <2> QED
    BY <1>1, <2>2, <2>3
    DEF Handler, Discard, SaveInbound, ExtendWindow, InsertPending, HandlerFails, Elapse
<1>2. ASSUME NEW t \in Ticks, SelectReady(t) \/ Finish(t) \/ EndTick(t) \/ SkipBatch(t) \/ AbortTick(t)
      PROVE  (HandedIsGone /\ HandedAtMostOnce)'
  <2>1. UNCHANGED <<pending, batch, handed>>
    BY <1>2 DEF SelectReady, Finish, EndTick, SkipBatch, AbortTick
  <2>2. \A u \in Ticks : at'[u] \in {"found", "taken"} => at'[u] = at[u]
    BY <1>2 DEF SelectReady, Finish, EndTick, SkipBatch, AbortTick
  <2> QED
    BY <2>1, <2>2
<1>3. ASSUME NEW t \in Ticks, Find(t)
      PROVE  (HandedIsGone /\ HandedAtMostOnce)'
  BY <1>3 DEF Find, RowsOf
<1>4. ASSUME NEW t \in Ticks, Delete(t)
      PROVE  (HandedIsGone /\ HandedAtMostOnce)'
  <2>1. batch[t] \cap pending' = {}
    BY <1>4 DEF Delete, RowsOf, BatchIsOneCustomers
  <2>2. \A u \in Ticks : at'[u] = "taken" => u = t \/ at[u] = "taken"
    BY <1>4 DEF Delete
  <2> QED
    BY <1>4, <2>1, <2>2 DEF Delete
<1>5. ASSUME NEW t \in Ticks, Hand(t)
      PROVE  (HandedIsGone /\ HandedAtMostOnce)'
  <2>1. \A u \in Ticks : at'[u] \notin {"found", "taken"}
    BY <1>5 DEF Hand, OneTick
  <2>2. \A m \in batch[t] : handed[m] = 0 /\ m \notin pending
    BY <1>5 DEF Hand
  <2>3. \A m \in Msgs : handed'[m] = handed[m] + IF m \in batch[t] THEN 1 ELSE 0
    BY <1>5 DEF Hand
  <2>4. pending' = pending
    BY <1>5 DEF Hand
  <2>5. \A m \in Msgs : handed'[m] <= 1 /\ (handed'[m] > 0 => m \notin pending')
    <3> SUFFICES ASSUME NEW m \in Msgs
                 PROVE  handed'[m] <= 1 /\ (handed'[m] > 0 => m \notin pending')
      OBVIOUS
    <3>1. CASE m \in batch[t]
      BY <2>2, <2>3, <2>4, <3>1
    <3>2. CASE m \notin batch[t]
      BY <2>3, <2>4, <3>2
    <3> QED
      BY <3>1, <3>2
  <2> QED
    BY <2>1, <2>5
<1>6. CASE Restart
  BY <1>6 DEF Restart
<1>7. CASE UNCHANGED inboxVars
  BY <1>7 DEF inboxVars
<1> QED
  BY <1>1, <1>2, <1>3, <1>4, <1>5, <1>6, <1>7 DEF InboxNext, TickStep

-----------------------------------------------------------------------------
\* The inductive invariant holds in every reachable state.
THEOREM InboxInvariant == InboxSpec => []InboxInv
<1>1. InboxInv /\ [InboxNext]_inboxVars => InboxInv'
  <2> SUFFICES ASSUME InboxInv, [InboxNext]_inboxVars
               PROVE  InboxInv'
    OBVIOUS
  <2> USE DEF InboxInv
  <2>1. InboxTypeOK' /\ (BatchIsOneCustomers /\ PendingIsQueued /\ HandedIsQueued)'
    BY InboxTypeStep, InboxRowsStep
  <2>2. FoundCovers' /\ NothingVanishes'
    BY FoundCoversStep, NothingVanishesStep
  <2>3. CASE overlapped'
    BY <2>1, <2>2, <2>3
  <2>4. CASE ~overlapped'
    <3>1. ~overlapped
      BY <2>4, OverlapStays
    <3> QED
      BY <2>1, <2>2, <2>4, <3>1, OneTickStep, HandedIsGoneStep
  <2> QED
    BY <2>3, <2>4
<1> QED
  BY InboxInitInv, <1>1, PTL DEF InboxSpec

\* Type correctness of the inbox (pending_messages and the poller's ticks).
THEOREM InboxTypeCorrect == InboxSpec => []InboxTypeOK
<1>1. InboxInv => InboxTypeOK
  BY DEF InboxInv
<1> QED
  BY <1>1, InboxInvariant, PTL

\* A queued message is lost only by an insert between flushPending's find and delete,
\* or by a fault between its delete and processInbound.
THEOREM InboxNothingVanishes == InboxSpec => []NothingVanishes
<1>1. InboxInv => NothingVanishes
  BY DEF InboxInv
<1> QED
  BY <1>1, InboxInvariant, PTL

\* flushPending never mixes two customers in one batch.
THEOREM InboxBatchIsOneCustomers == InboxSpec => []BatchIsOneCustomers
<1>1. InboxInv => BatchIsOneCustomers
  BY DEF InboxInv
<1> QED
  BY <1>1, InboxInvariant, PTL

\* Without overlapping ticks processInbound gets every message at most once, whatever
\* crashes and errors come between the find, the delete and the call.
THEOREM InboxHandedOnce == InboxSpec => []HandedOnceWithoutOverlap
<1>1. InboxInv => HandedOnceWithoutOverlap
  BY DEF InboxInv, HandedOnceWithoutOverlap
<1> QED
  BY <1>1, InboxInvariant, PTL

(***************************************************************************)
(* The buffer of the demo                                                  *)
(***************************************************************************)
\* A request that waits, or has waited, never saves or looks up again: what a flush
\* resolves is past its save.
ResolversAreSaved ==
    \A e \in Posts : \A p \in resolvers[e] : ppc[p] \notin {"new", "creating", "saving"}

\* An entry in the map has not been flushed, and its creator is past the lookup; who
\* has not created an entry yet has had none flushed.
EntriesAreFresh ==
    \A e \in Posts :
        /\ flushes[e] \in {0, 1}
        /\ ppc[e] \in {"new", "creating"} => buffered # e
        /\ ppc[e] \in {"new", "creating"} \/ buffered = e => flushes[e] = 0

DemoInv == DemoTypeOK /\ ResolversAreSaved /\ EntriesAreFresh /\ NeverStranded

LEMMA DemoInitially == DemoInit => DemoInv
<1> SUFFICES ASSUME DemoInit PROVE DemoInv
    OBVIOUS
<1> USE DemoBufferAssumption DEF DemoBufferAssumption, DemoInit
<1>1. DemoTypeOK
  <2>1. flushes \in [Posts -> Nat] OBVIOUS
  <2>2. failures \in 0..MaxFailures OBVIOUS
  <2> QED BY <2>1, <2>2 DEF DemoTypeOK
<1>2. ResolversAreSaved BY DEF ResolversAreSaved
<1>3. EntriesAreFresh BY DEF EntriesAreFresh
<1>4. NeverStranded BY DEF NeverStranded
<1> QED BY <1>1, <1>2, <1>3, <1>4 DEF DemoInv

\* What the map and the flush counters look like after flush.
LEMMA FlushTakesEntry ==
    ASSUME DemoTypeOK, EntriesAreFresh, flush
    PROVE  /\ buffered' = NoPost
           /\ fpc' \in [Posts -> {"none", "running", "done"}]
           /\ flushes' \in [Posts -> Nat]
           /\ \A e \in Posts : flushes'[e] \in {0, 1}
           /\ \A e \in Posts : ppc[e] \in {"new", "creating"} => flushes'[e] = 0
BY DEF DemoTypeOK, EntriesAreFresh, flush, flushVars

LEMMA DemoInductive == DemoInv /\ [DemoNext]_demoVars => DemoInv'
<1> SUFFICES ASSUME DemoInv, [DemoNext]_demoVars PROVE DemoInv'
    OBVIOUS
<1> USE DemoBufferAssumption DEF DemoBufferAssumption, DemoInv
<1> USE DEF postVars, flushVars
<1>1. CASE \E p \in Posts : Append(p)
  <2> PICK p \in Posts : Append(p) BY <1>1
  <2>1. DemoTypeOK' BY DEF Append, DemoTypeOK
  <2>2. ResolversAreSaved' BY DEF Append, DemoTypeOK, ResolversAreSaved
  <2>3. EntriesAreFresh' BY DEF Append, DemoTypeOK, EntriesAreFresh
  <2>4. NeverStranded' BY DEF Append, DemoTypeOK, NeverStranded
  <2> QED BY <2>1, <2>2, <2>3, <2>4
<1>2. CASE \E p \in Posts : Lookup(p)
  <2> PICK p \in Posts : Lookup(p) BY <1>2
  <2>1. DemoTypeOK' BY DEF Lookup, DemoTypeOK
  <2>2. ResolversAreSaved' BY DEF Lookup, DemoTypeOK, ResolversAreSaved
  <2>3. EntriesAreFresh' BY DEF Lookup, DemoTypeOK, EntriesAreFresh
  <2>4. NeverStranded' BY DEF Lookup, DemoTypeOK, NeverStranded
  <2> QED BY <2>1, <2>2, <2>3, <2>4
<1>3. CASE \E p \in Posts : Create(p)
  <2> PICK p \in Posts : Create(p) BY <1>3
  <2>1. DemoTypeOK' BY DEF Create, DemoTypeOK
  <2>2. ResolversAreSaved' BY DEF Create, DemoTypeOK, ResolversAreSaved
  <2>3. EntriesAreFresh' BY DEF Create, DemoTypeOK, EntriesAreFresh
  <2>4. NeverStranded' BY DEF Create, DemoTypeOK, NeverStranded
  <2> QED BY <2>1, <2>2, <2>3, <2>4
<1>4. CASE \E p \in Posts : Schedule(p)
  <2> PICK p \in Posts : Schedule(p) BY <1>4
  <2>1. DemoTypeOK'
    <3>1. ppc' \in [Posts -> {"new", "creating", "saving", "waiting", "answered", "failed"}]
          BY DEF Schedule, DemoTypeOK
    <3>2. timers' \subseteq {q \in Posts : ppc'[q] \in {"waiting", "answered", "failed"}}
          BY DEF Schedule, DemoTypeOK
    <3>3. timer' \in [Posts -> Posts \cup {NoPost}] BY DEF Schedule, DemoTypeOK
    <3>4. resolvers' \in [Posts -> SUBSET Posts] BY DEF Schedule, DemoTypeOK
    <3> QED BY <3>1, <3>2, <3>3, <3>4 DEF Schedule, DemoTypeOK
  <2>2. ResolversAreSaved' BY DEF Schedule, DemoTypeOK, ResolversAreSaved
  <2>3. EntriesAreFresh' BY DEF Schedule, DemoTypeOK, EntriesAreFresh
  <2>4. NeverStranded' BY DEF Schedule, DemoTypeOK, NeverStranded
  <2> QED BY <2>1, <2>2, <2>3, <2>4
<1>5. CASE \E p \in Posts : PostFails(p)
  <2> PICK p \in Posts : PostFails(p) BY <1>5
  <2>1. DemoTypeOK' BY DEF PostFails, DemoTypeOK
  <2>2. ResolversAreSaved' BY DEF PostFails, DemoTypeOK, ResolversAreSaved
  <2>3. EntriesAreFresh' BY DEF PostFails, DemoTypeOK, EntriesAreFresh
  <2>4. NeverStranded' BY DEF PostFails, DemoTypeOK, NeverStranded
  <2> QED BY <2>1, <2>2, <2>3, <2>4
<1>6. CASE \E p \in Posts : TimerFires(p)
  <2> PICK p \in Posts : TimerFires(p) BY <1>6
  <2>1. flush BY DEF TimerFires
  <2>2. DemoTypeOK' BY <2>1, FlushTakesEntry DEF TimerFires, DemoTypeOK
  <2>3. ResolversAreSaved' BY DEF TimerFires, ResolversAreSaved
  <2>4. EntriesAreFresh' BY <2>1, FlushTakesEntry DEF TimerFires, EntriesAreFresh
  <2>5. NeverStranded' BY <2>1 DEF flush, NeverStranded
  <2> QED BY <2>2, <2>3, <2>4, <2>5
<1>7. CASE \E e \in Posts : FlushAnswers(e)
  <2> PICK e \in Posts : FlushAnswers(e) BY <1>7
  <2>1. DemoTypeOK' BY DEF FlushAnswers, DemoTypeOK
  <2>2. ResolversAreSaved' BY DEF FlushAnswers, DemoTypeOK, ResolversAreSaved
  <2>3. EntriesAreFresh'
        BY DEF FlushAnswers, DemoTypeOK, EntriesAreFresh, ResolversAreSaved
  <2>4. NeverStranded'
        BY DEF FlushAnswers, DemoTypeOK, NeverStranded, ResolversAreSaved
  <2> QED BY <2>1, <2>2, <2>3, <2>4
<1>8. CASE \E e \in Posts : FlushRejects(e)
  <2> PICK e \in Posts : FlushRejects(e) BY <1>8
  <2>1. DemoTypeOK' BY DEF FlushRejects, DemoTypeOK
  <2>2. ResolversAreSaved' BY DEF FlushRejects, DemoTypeOK, ResolversAreSaved
  <2>3. EntriesAreFresh'
        BY DEF FlushRejects, DemoTypeOK, EntriesAreFresh, ResolversAreSaved
  <2>4. NeverStranded' BY DEF FlushRejects, DemoTypeOK, NeverStranded
  <2> QED BY <2>1, <2>2, <2>3, <2>4
<1>9. CASE GoIdle
  BY <1>9 DEF GoIdle, DemoTypeOK, ResolversAreSaved, EntriesAreFresh, NeverStranded
<1>10. CASE Sweep
  <2>1. flush BY <1>10 DEF Sweep
  <2>2. DemoTypeOK' BY <1>10, <2>1, FlushTakesEntry DEF Sweep, DemoTypeOK
  <2>3. ResolversAreSaved' BY <1>10 DEF Sweep, ResolversAreSaved
  <2>4. EntriesAreFresh' BY <1>10, <2>1, FlushTakesEntry DEF Sweep, EntriesAreFresh
  <2>5. NeverStranded' BY <2>1 DEF flush, NeverStranded
  <2> QED BY <2>2, <2>3, <2>4, <2>5
<1>11. CASE Silent \/ UNCHANGED demoVars
  BY <1>11 DEF Silent, demoVars, DemoTypeOK, ResolversAreSaved, EntriesAreFresh,
               NeverStranded
<1> QED BY <1>1, <1>2, <1>3, <1>4, <1>5, <1>6, <1>7, <1>8, <1>9, <1>10, <1>11
        DEF DemoNext

\* The inductive invariant holds of every behaviour of the buffer.
THEOREM DemoInvariant == DemoSpec => []DemoInv
BY DemoInitially, DemoInductive, PTL DEF DemoSpec

\* DemoMessageBufferService is type correct; only a request that is past its save has
\* a timeout.
THEOREM DemoTypeCorrect == DemoSpec => []DemoTypeOK
<1>1. DemoInv => DemoTypeOK BY DEF DemoInv
<1> QED BY <1>1, DemoInvariant, PTL

\* flush: however many timeouts and janitor rounds meet, an entry's texts are taken
\* for the engine once.
THEOREM TextsTakenOnce == DemoSpec => []EachTextOnce
<1>1. ASSUME DemoInv PROVE EachTextOnce
  <2> SUFFICES ASSUME NEW e \in Posts PROVE flushes[e] <= 1
      BY DEF EachTextOnce
  <2>1. flushes[e] \in {0, 1} BY <1>1 DEF DemoInv, EntriesAreFresh
  <2>2. flushes[e] = 0 \/ flushes[e] = 1 BY ONLY <2>1
  <2> QED BY ONLY <2>2
<1> QED BY <1>1, DemoInvariant, PTL

\* appendAndSchedule: an append clears the timeout only to set a later one; without a
\* failed statement no entry is left without a timeout or a request that will set it.
THEOREM NoEntryStranded == DemoSpec => []NeverStranded
<1>1. DemoInv => NeverStranded BY DEF DemoInv
<1> QED BY <1>1, DemoInvariant, PTL
=============================================================================
