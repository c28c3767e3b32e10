------------------------ MODULE SubscriptionsProofs ------------------------
(***************************************************************************)
(* The plan of a tenant, for any number of upgrades, webhooks,             *)
(* cancellations, updates of the operator, readers and restarts.           *)
(*                                                                         *)
(* What keeps an entity honest is Fresh: as long as nobody wrote the row   *)
(* since a saver read it, the saver holds the row with its own change and  *)
(* nothing else, and its save makes exactly that of the row.  Of an entity *)
(* that is out of date only NothingPaid is left: before the first charge   *)
(* is credited, and before the operator gives a paid plan, no one holds    *)
(* one but the webhook of a charge, and the operator.                      *)
(***************************************************************************)
EXTENDS Subscriptions, TLAPS

Kinds == {"success", "failure", "deactivated"}

\* e is the row with the change saver a is there to make.
Meant(a, e) ==
    IF a \in Hooks THEN kind[a] \in Kinds /\ e = Credited(plan, a, kind[a])
    ELSE IF a \in Admins THEN e.sub = plan.sub
    ELSE /\ e = [plan EXCEPT !.status = IF a = Cron THEN "expired" ELSE "cancelled"]
         /\ a = Cron => plan.type = "trial"

FreshOn(a) ==
    /\ Meant(a, entity[a])
    /\ at[a] = "compared" => diff[a] = {c \in Columns : entity[a][c] # plan[c]}

Fresh == \A a \in Savers \ stale : Busy(a) => FreshOn(a)

Unpaid(p) == p.type # "paid" /\ p.period = NoPeriod
Credits(a) == a \in Hooks /\ kind[a] = "success"

\* What a saver may hold of a plan nobody has paid.
Owes(a) ==
    Credits(a) \/ Unpaid(entity[a]) \/ (a \in Admins /\ entity[a].period = NoPeriod)

NothingPaid ==
    charged = "never" /\ ~granted => Unpaid(plan) /\ \A a \in Savers : Busy(a) => Owes(a)

SubKnown ==
    /\ unrecorded \subseteq upgraded
    /\ overwritten \/ upgraded \subseteq unrecorded \/ plan.sub \in upgraded \ unrecorded

SubsInv ==
    /\ SubsTypeOK /\ Fresh /\ NothingPaid /\ SubKnown
    /\ UnknownOnlyIfReplaced /\ PaidStaysPaid /\ CacheIsTrue

-----------------------------------------------------------------------------
(* Rows.                                                                   *)

LEMMA TrialTyped == Trial \in Plan
BY DEF Trial, Plan, Types, Statuses

\* The status of a plan may be set.
LEMMA StatusTyped ==
    ASSUME NEW p \in Plan, NEW s \in {"active", "past_due", "cancelled", "expired"}
    PROVE  [p EXCEPT !.status = s] \in Plan
BY DEF Plan, Statuses

\* What a webhook makes of a plan is a plan.
LEMMA CreditedTyped ==
    ASSUME NEW p \in Plan, NEW h \in Hooks, NEW k \in Kinds
    PROVE  Credited(p, h, k) \in Plan
<1>1. CASE k = "success"
  BY <1>1 DEF Credited, Plan, Types, Statuses
<1>2. CASE k = "failure"
  BY <1>2, StatusTyped DEF Credited
<1>3. CASE k = "deactivated"
  BY <1>3, StatusTyped DEF Credited
<1> QED
  BY <1>1, <1>2, <1>3 DEF Kinds

\* A save makes a plan of two plans, each column from one of them.
LEMMA SavedTyped ==
    ASSUME SubsTypeOK, NEW a \in Savers
    PROVE  /\ Saved(a) \in Plan
           /\ Unpaid(plan) /\ Unpaid(entity[a]) => Unpaid(Saved(a))
           /\ plan.period = NoPeriod /\ entity[a].period = NoPeriod => Saved(a).period = NoPeriod
<1>1. plan \in Plan /\ entity[a] \in Plan /\ diff[a] \in SUBSET Columns
  BY DEF SubsTypeOK
<1> QED
  BY <1>1 DEF Saved, Plan, Columns, Unpaid

\* The save of an entity that is not out of date makes the entity the row.
LEMMA SavedFresh ==
    ASSUME SubsTypeOK, Fresh, NEW a \in Savers \ stale, at[a] = "compared"
    PROVE  Saved(a) = entity[a] /\ Meant(a, entity[a])
<1>1. plan \in Plan /\ entity[a] \in Plan
  BY DEF SubsTypeOK
<1>2. Meant(a, entity[a]) /\ diff[a] = {c \in Columns : entity[a][c] # plan[c]}
  BY DEF Fresh, FreshOn, Busy
<1> QED
  BY <1>1, <1>2 DEF Saved, Plan, Columns

\* What the operator makes of a plan, or of none, is a plan of the same subscription and period.
LEMMA UpdatedTyped ==
    ASSUME NEW p \in Plan, NEW u \in Updates
    PROVE  /\ Updated(p, u) \in Plan
           /\ Updated(p, u).sub = p.sub /\ Updated(p, u).period = p.period
<1>1. u.type \in Types \cup {"kept"} /\ u.status \in Statuses \cup {"kept"}
  BY SubscriptionsAssumption DEF SubscriptionsAssumption
<1> DEFINE t == CASE u.type # "kept" -> u.type
                  [] p.type = "none" -> "trial"
                  [] OTHER -> p.type
           s == IF u.status = "kept" THEN p.status ELSE u.status
<1>2. t \in Types \cup {"none"}
  BY <1>1 DEF Plan, Types
<1>3. s \in Statuses
  BY <1>1 DEF Plan
<1>4. Updated(p, u) = [p EXCEPT !.type = t, !.status = s]
  BY DEF Updated
<1> HIDE DEF t, s
<1> QED
  BY <1>2, <1>3, <1>4 DEF Plan

LEMMA InitInv == Init => SubsInv
<1> USE SubscriptionsAssumption DEF SubscriptionsAssumption, Init
<1>1. Init => SubsTypeOK
  <2>1. Init => plan \in Plan
    BY TrialTyped DEF NoPlan, Trial, Plan
  <2>2. Init => entity \in [Savers -> Plan] /\ seen \in [Readers -> Plan] /\ diff \in [Savers -> SUBSET Columns]
    BY TrialTyped
  <2> QED
    BY <2>1, <2>2 DEF SubsTypeOK
<1>2. Init => Fresh /\ NothingPaid /\ SubKnown
  BY DEF Fresh, NothingPaid, Unpaid, Trial, NoPlan, SubKnown, Busy
<1>3. Init => UnknownOnlyIfReplaced /\ PaidStaysPaid /\ CacheIsTrue
  BY DEF UnknownOnlyIfReplaced, PaidStaysPaid, CacheIsTrue, Savers
<1> QED
  BY <1>1, <1>2, <1>3 DEF SubsInv

-----------------------------------------------------------------------------
(* Types.                                                                  *)

LEMMA TypeFinds ==
    ASSUME SubsTypeOK, NEW a \in Savers, NEW where \in {"found", "unknown"}, NEW p \in Plan,
           Finds(a, where, p),
           \/ UNCHANGED hookVars
           \/ \E k \in Kinds, u \in Upgrades : a \in Hooks /\ Says(a, k, u)
    PROVE  SubsTypeOK'
<1>1. kind' \in [Hooks -> {"none"} \cup Kinds] /\ sub' \in [Hooks -> Upgrades \cup {NoSub}]
  BY DEF SubsTypeOK, Says, hookVars, Kinds
<1> QED
  BY <1>1 DEF Finds, SubsTypeOK, readVars, timeVars, Kinds

LEMMA TypeSave ==
    ASSUME SubsTypeOK, NEW a \in Savers, Save(a)
    PROVE  SubsTypeOK'
<1> USE DEF SubsTypeOK, readVars, hookVars, timeVars, histVars, saveVars
<1>1. CASE Compare(a)
  BY <1>1 DEF Compare
<1>2. CASE Write(a)
  <2>1. plan' \in Plan /\ stale' \subseteq Savers
    BY <1>2, SavedTyped DEF Write, Changed
  <2>2. charged' \in {"never", "stands", "overruled"} /\ overwritten' \in BOOLEAN /\ at' \in [Savers -> {"idle", "unknown", "found", "compared", "written", "done"}]
    BY <1>2 DEF Write
  <2> QED
    BY <1>2, <2>1, <2>2 DEF Write
<1>3. CASE Invalidate(a)
  BY <1>3, TrialTyped DEF Invalidate, Forget, Answered
<1>4. CASE AdminWrite(a)
  <2>1. plan' \in Plan /\ stale' \subseteq Savers
    BY <1>4, SavedTyped DEF AdminWrite, Changed
  <2>2. charged' \in {"never", "stands", "overruled"} /\ granted' \in BOOLEAN /\ overwritten' \in BOOLEAN /\ outdated' \in BOOLEAN
    BY <1>4 DEF AdminWrite
  <2>3. at' \in [Savers -> {"idle", "unknown", "found", "compared", "written", "done"}] /\ entity' \in [Savers -> Plan]
    BY <1>4, TrialTyped DEF AdminWrite
  <2> QED
    BY <1>4, <2>1, <2>2, <2>3 DEF AdminWrite
<1> QED
  BY <1>1, <1>2, <1>3, <1>4 DEF Save

LEMMA TypeStep ==
    ASSUME SubsTypeOK, [Next]_vars
    PROVE  SubsTypeOK'
<1> USE DEF SubsTypeOK, readVars, hookVars, timeVars, histVars, saveVars
<1>1. ASSUME NEW u \in Upgrades, Upgrade(u) \/ UpgradeUnrecorded(u)
      PROVE  SubsTypeOK'
  <2>1. [plan EXCEPT !.sub = u] \in Plan
    BY DEF Plan
  <2> QED
    BY <1>1, <2>1 DEF Upgrade, UpgradeUnrecorded, Changed
<1>2. ASSUME NEW h \in Hooks, NEW k \in Kinds, NEW u \in Upgrades, HookFinds(h, k, u) \/ HookUnknown(h, k, u)
      PROVE  SubsTypeOK'
  <2>1. h \in Savers /\ plan \in Plan
    BY DEF Savers
  <2>2. CASE HookFinds(h, k, u)
    BY <2>1, <2>2, CreditedTyped, TypeFinds DEF HookFinds
  <2>3. CASE HookUnknown(h, k, u)
    BY <2>1, <2>3, TrialTyped, TypeFinds DEF HookUnknown
  <2> QED
    BY <1>2, <2>2, <2>3
<1>3. ASSUME NEW h \in Hooks, HookFails(h) \/ PeriodLapses(h)
      PROVE  SubsTypeOK'
  <2>1. CASE HookFails(h)
    BY <2>1, TrialTyped DEF HookFails, Forget, Savers
  <2>2. CASE PeriodLapses(h)
    BY <2>2 DEF PeriodLapses
  <2> QED
    BY <1>3, <2>1, <2>2
<1>4. ASSUME NEW x \in Cancels, CancelFinds(x)
      PROVE  SubsTypeOK'
  BY <1>4, StatusTyped, TypeFinds DEF CancelFinds, Savers
<1>5. CASE CronFinds
  BY <1>5, StatusTyped, TypeFinds DEF CronFinds, Savers
<1>6. ASSUME NEW r \in Readers, Misses(r) \/ Caches(r)
      PROVE  SubsTypeOK'
  <2>1. Looked \in Plan
    BY DEF Looked, Plan
  <2> QED
    BY <1>6, <2>1, TrialTyped DEF Misses, Caches, Verdict
<1>7. CASE CacheExpires \/ TrialEnds
  BY <1>7 DEF CacheExpires, TrialEnds
<1>8. CASE Restart
  <2>1. at' \in [Savers -> {"idle", "unknown", "found", "compared", "written", "done"}]
    BY <1>8 DEF Restart
  <2> QED
    BY <1>8, <2>1, TrialTyped DEF Restart
<1>9. CASE UNCHANGED vars
  BY <1>9 DEF vars
<1>10. ASSUME NEW x \in Admins, NEW u \in Updates, AdminFinds(x, u)
       PROVE  SubsTypeOK'
  BY <1>10, UpdatedTyped, TypeFinds DEF AdminFinds, Savers
<1> QED
  BY <1>1, <1>2, <1>3, <1>4, <1>5, <1>6, <1>7, <1>8, <1>9, <1>10, TypeSave DEF Next, Kinds

-----------------------------------------------------------------------------
(* Entities that are not out of date.                                      *)

\* Nothing happens to the row, nor to what a holds of it.
LEMMA KeepsFresh ==
    ASSUME NEW a \in Savers, FreshOn(a), UNCHANGED <<plan, at[a], entity[a], diff[a]>>,
           a \in Hooks => kind'[a] = kind[a]
    PROVE  FreshOn(a)'
BY DEF FreshOn, Meant

\* Whom a write does not make out of date, for him it changed nothing.
LEMMA ChangedLeaves ==
    ASSUME NEW p, NEW S \in SUBSET Savers, Changed(p, S), NEW a \in S, Busy(a), a \notin stale'
    PROVE  plan' = plan /\ a \notin stale
BY DEF Changed

\* A saver that finds the row holds it with its own change; the others are left alone.
LEMMA FreshFinds ==
    ASSUME SubsTypeOK, Fresh, NEW a \in Savers, NEW where \in {"found", "unknown"}, NEW p,
           Finds(a, where, p), where = "found" => Meant(a, p)',
           \A h \in Hooks \ {a} : kind'[h] = kind[h]
    PROVE  Fresh'
<1> SUFFICES ASSUME NEW b \in Savers, b \notin stale', Busy(b)'
             PROVE  FreshOn(b)'
  BY DEF Fresh
<1>1. CASE b = a
  <2>1. at'[b] = where /\ entity'[b] = p
    BY <1>1 DEF Finds, SubsTypeOK
  <2>2. where = "found"
    BY <2>1 DEF Busy
  <2> QED
    BY <1>1, <2>1, <2>2 DEF FreshOn
<1>2. CASE b # a
  <2>1. UNCHANGED <<plan, at[b], entity[b], diff[b]>> /\ b \notin stale
    BY <1>2 DEF Finds, SubsTypeOK
  <2> QED
    BY <1>2, <2>1, KeepsFresh DEF Fresh, Busy
<1> QED
  BY <1>1, <1>2

LEMMA FreshSave ==
    ASSUME SubsTypeOK, Fresh, NEW a \in Savers, Save(a)
    PROVE  Fresh'
<1> SUFFICES ASSUME NEW b \in Savers, b \notin stale', Busy(b)'
             PROVE  FreshOn(b)'
  BY DEF Fresh
<1>1. CASE Compare(a)
  <2>1. UNCHANGED <<plan, entity, kind, stale>> /\ at[a] = "found"
    BY <1>1 DEF Compare, hookVars, histVars
  <2>2. CASE b = a
    <3>1. Meant(a, entity[a])
      BY <2>1, <2>2 DEF Fresh, FreshOn, Busy
    <3>2. diff'[a] = {c \in Columns : entity[a][c] # plan[c]}
      BY <1>1 DEF Compare, SubsTypeOK
    <3> QED
      BY <2>1, <2>2, <3>1, <3>2 DEF FreshOn, Meant
  <2>3. CASE b # a
    <3>1. UNCHANGED <<at[b], diff[b]>>
      BY <1>1, <2>3 DEF Compare, SubsTypeOK
    <3> QED
      BY <2>1, <3>1, KeepsFresh DEF Fresh, Busy
  <2> QED
    BY <2>2, <2>3
<1>2. CASE Write(a)
  <2>1. b # a
    BY <1>2 DEF Write, SubsTypeOK, Busy
  <2>2. UNCHANGED <<at[b], entity, diff, kind>> /\ Changed(Saved(a), Savers \ {a})
    BY <1>2, <2>1 DEF Write, SubsTypeOK, hookVars
  <2>3. Busy(b)
    BY <2>2 DEF Busy
  <2>4. plan' = plan /\ b \notin stale
    BY <2>1, <2>2, <2>3, ChangedLeaves
  <2> QED
    BY <2>2, <2>3, <2>4, KeepsFresh DEF Fresh
<1>3. CASE Invalidate(a)
  <2>1. b # a
    BY <1>3 DEF Invalidate, SubsTypeOK, Busy
  <2>2. UNCHANGED <<plan, at[b], entity[b], diff[b]>> /\ b \notin stale /\ (b \in Hooks => kind'[b] = kind[b])
    BY <1>3, <2>1 DEF Invalidate, Forget, Answered, SubsTypeOK
  <2> QED
    BY <2>2, KeepsFresh DEF Fresh, Busy
<1>4. CASE AdminWrite(a)
  <2>1. b # a
    BY <1>4 DEF AdminWrite, SubsTypeOK, Busy
  <2>2. UNCHANGED <<at[b], entity[b], diff[b], kind>> /\ Changed(Saved(a), Savers \ {a})
    BY <1>4, <2>1 DEF AdminWrite, SubsTypeOK, hookVars
  <2>3. Busy(b)
    BY <2>2 DEF Busy
  <2>4. plan' = plan /\ b \notin stale
    BY <2>1, <2>2, <2>3, ChangedLeaves
  <2> QED
    BY <2>2, <2>3, <2>4, KeepsFresh DEF Fresh
<1> QED
  BY <1>1, <1>2, <1>3, <1>4 DEF Save

LEMMA FreshStep ==
    ASSUME SubsTypeOK, Fresh, [Next]_vars
    PROVE  Fresh'
<1> USE SubscriptionsAssumption DEF SubscriptionsAssumption
<1>1. ASSUME NEW u \in Upgrades, Upgrade(u)
      PROVE  Fresh'
  <2> SUFFICES ASSUME NEW b \in Savers, b \notin stale', Busy(b)'
               PROVE  FreshOn(b)'
    BY DEF Fresh
  <2>1. UNCHANGED <<at, entity, diff, kind>> /\ Changed([plan EXCEPT !.sub = u], Savers)
    BY <1>1 DEF Upgrade, saveVars, hookVars
  <2>2. Busy(b)
    BY <2>1 DEF Busy
  <2>3. plan' = plan /\ b \notin stale
    BY <2>1, <2>2, ChangedLeaves
  <2> QED
    BY <2>1, <2>2, <2>3, KeepsFresh DEF Fresh
<1>2. ASSUME NEW h \in Hooks, NEW k \in Kinds, NEW u \in Upgrades, HookFinds(h, k, u) \/ HookUnknown(h, k, u)
      PROVE  Fresh'
  <2>1. h \in Savers /\ kind'[h] = k /\ \A g \in Hooks \ {h} : kind'[g] = kind[g]
    BY <1>2 DEF HookFinds, HookUnknown, Says, SubsTypeOK, Savers
  <2>2. CASE HookFinds(h, k, u)
    <3>1. Finds(h, "found", Credited(plan, h, k)) /\ UNCHANGED plan
      BY <2>2 DEF HookFinds, Finds
    <3>2. Meant(h, Credited(plan, h, k))'
      BY <2>1, <3>1 DEF Meant, Credited
    <3> QED
      BY <2>1, <3>1, <3>2, FreshFinds
  <2>3. CASE HookUnknown(h, k, u)
    BY <2>1, <2>3, FreshFinds DEF HookUnknown
  <2> QED
    BY <1>2, <2>2, <2>3
<1>3. ASSUME NEW x \in Cancels, CancelFinds(x)
      PROVE  Fresh'
  <2>1. Finds(x, "found", [plan EXCEPT !.status = "cancelled"]) /\ UNCHANGED <<plan, kind>> /\ x \in Savers /\ x \notin Hooks \cup Admins /\ x # Cron
    BY <1>3 DEF CancelFinds, Finds, hookVars, Savers
  <2>2. Meant(x, [plan EXCEPT !.status = "cancelled"])'
    BY <2>1 DEF Meant
  <2> QED
    BY <2>1, <2>2, FreshFinds
<1>4. CASE CronFinds
  <2>1. Finds(Cron, "found", [plan EXCEPT !.status = "expired"]) /\ UNCHANGED <<plan, kind>> /\ plan.type = "trial" /\ Cron \in Savers /\ Cron \notin Hooks \cup Admins
    BY <1>4 DEF CronFinds, Finds, hookVars, Savers
  <2>2. Meant(Cron, [plan EXCEPT !.status = "expired"])'
    BY <2>1 DEF Meant
  <2> QED
    BY <2>1, <2>2, FreshFinds
<1>9. ASSUME NEW x \in Admins, NEW u \in Updates, AdminFinds(x, u)
      PROVE  Fresh'
  <2>1. Finds(x, "found", Updated(plan, u)) /\ UNCHANGED <<plan, kind>> /\ x \in Savers /\ x \notin Hooks
    BY <1>9 DEF AdminFinds, Finds, hookVars, Savers
  <2>2. Updated(plan, u).sub = plan.sub
    BY UpdatedTyped DEF SubsTypeOK
  <2>3. Meant(x, Updated(plan, u))'
    BY <2>1, <2>2 DEF Meant, Updated
  <2> QED
    BY <2>1, <2>3, FreshFinds
<1>5. ASSUME NEW h \in Hooks, HookFails(h)
      PROVE  Fresh'
  <2> SUFFICES ASSUME NEW b \in Savers, b \notin stale', Busy(b)'
               PROVE  FreshOn(b)'
    BY DEF Fresh
  <2>1. b # h
    BY <1>5 DEF HookFails, SubsTypeOK, Busy
  <2>2. UNCHANGED <<plan, at[b], entity[b], diff[b], kind>> /\ b \notin stale
    BY <1>5, <2>1 DEF HookFails, Forget, SubsTypeOK, hookVars
  <2> QED
    BY <2>2, KeepsFresh DEF Fresh, Busy
<1>6. CASE Restart
  <2>1. \A b \in Savers : ~Busy(b)'
    BY <1>6 DEF Restart, Busy, SubsTypeOK
  <2> QED
    BY <2>1 DEF Fresh
<1>7. CASE UNCHANGED <<plan, at, entity, diff, kind, stale>>
  BY <1>7, KeepsFresh DEF Fresh, Busy
<1>8. \/ \E u \in Upgrades : UpgradeUnrecorded(u)
      \/ \E h \in Hooks : PeriodLapses(h)
      \/ \E r \in Readers : Misses(r) \/ Caches(r)
      \/ CacheExpires \/ TrialEnds \/ UNCHANGED vars
      => UNCHANGED <<plan, at, entity, diff, kind, stale>>
  BY DEF UpgradeUnrecorded, PeriodLapses, Misses, Caches, CacheExpires, TrialEnds, vars, saveVars, hookVars, histVars
<1> QED
  BY <1>1, <1>2, <1>3, <1>4, <1>5, <1>6, <1>7, <1>8, <1>9, FreshSave DEF Next, Kinds

-----------------------------------------------------------------------------
(* Before the first charge is credited.                                    *)

\* A step that leaves the type and the period of the row alone, and gives no saver a new entity.
LEMMA UnpaidFrame ==
    ASSUME NothingPaid, UNCHANGED <<charged, granted>>, Unpaid(plan) => Unpaid(plan)',
           \A a \in Savers : Busy(a)' => Busy(a) /\ UNCHANGED entity[a] /\ (a \in Hooks => kind'[a] = kind[a])
    PROVE  NothingPaid'
BY DEF NothingPaid, Owes, Credits, Unpaid

LEMMA UnpaidFinds ==
    ASSUME SubsTypeOK, NothingPaid, NEW a \in Savers, NEW where \in {"found", "unknown"}, NEW p,
           Finds(a, where, p), 
           where = "found" => Credits(a)' \/ (Unpaid(plan) => Unpaid(p) \/ (a \in Admins /\ p.period = NoPeriod)),
           \A h \in Hooks \ {a} : kind'[h] = kind[h]
    PROVE  NothingPaid'
<1> SUFFICES ASSUME charged' = "never", ~granted', NEW b \in Savers, Busy(b)'
             PROVE  Unpaid(plan)' /\ Owes(b)'
  BY DEF NothingPaid, Finds, Unpaid
<1>1. Unpaid(plan) /\ Unpaid(plan)'
  BY DEF NothingPaid, Finds, Unpaid
<1>2. CASE b = a
  <2>1. entity'[b] = p /\ where = "found"
    BY <1>2 DEF Finds, SubsTypeOK, Busy
  <2> QED
    BY <1>1, <1>2, <2>1 DEF Unpaid, Owes
<1>3. CASE b # a
  <2>1. UNCHANGED <<at[b], entity[b], charged, granted>>
    BY <1>3 DEF Finds, SubsTypeOK
  <2> QED
    BY <1>1, <1>3, <2>1 DEF NothingPaid, Owes, Credits, Busy, Unpaid
<1> QED
  BY <1>1, <1>2, <1>3

LEMMA UnpaidStep ==
    ASSUME SubsTypeOK, NothingPaid, [Next]_vars
    PROVE  NothingPaid'
<1> USE SubscriptionsAssumption DEF SubscriptionsAssumption
<1>1. ASSUME NEW u \in Upgrades, Upgrade(u)
      PROVE  NothingPaid'
  <2>1. UNCHANGED <<charged, granted, at, entity, kind>> /\ plan' = [plan EXCEPT !.sub = u] /\ plan \in Plan
    BY <1>1 DEF Upgrade, Changed, saveVars, hookVars, SubsTypeOK
  <2>2. Unpaid(plan) => Unpaid(plan)'
    BY <2>1 DEF Unpaid, Plan
  <2> QED
    BY <2>1, <2>2, UnpaidFrame DEF Busy
<1>2. ASSUME NEW h \in Hooks, NEW k \in Kinds, NEW u \in Upgrades, HookFinds(h, k, u) \/ HookUnknown(h, k, u)
      PROVE  NothingPaid'
  <2>1. h \in Savers /\ kind'[h] = k /\ \A g \in Hooks \ {h} : kind'[g] = kind[g]
    BY <1>2 DEF HookFinds, HookUnknown, Says, SubsTypeOK, Savers
  <2>2. plan \in Plan
    BY DEF SubsTypeOK
  <2>3. k = "success" \/ (Unpaid(plan) => Unpaid(Credited(plan, h, k)))
    BY <2>2 DEF Unpaid, Credited, Kinds, Plan
  <2>4. CASE HookFinds(h, k, u)
    BY <2>1, <2>3, <2>4, UnpaidFinds DEF HookFinds, Credits
  <2>5. CASE HookUnknown(h, k, u)
    BY <2>1, <2>5, UnpaidFinds DEF HookUnknown
  <2> QED
    BY <1>2, <2>4, <2>5
<1>3. ASSUME NEW a \in Savers, NEW s,
             Finds(a, "found", [plan EXCEPT !.status = s]), UNCHANGED hookVars
      PROVE  NothingPaid'
  <2>1. plan \in Plan
    BY DEF SubsTypeOK
  <2>2. Unpaid(plan) => Unpaid([plan EXCEPT !.status = s])
    BY <2>1 DEF Unpaid, Plan
  <2> QED
    BY <1>3, <2>2, UnpaidFinds DEF hookVars
<1>4. ASSUME NEW x \in Cancels, CancelFinds(x)
      PROVE  NothingPaid'
  BY <1>3, <1>4 DEF CancelFinds, Savers
<1>5. CASE CronFinds
  BY <1>3, <1>5 DEF CronFinds, Savers
<1>6. ASSUME NEW a \in Savers, Compare(a) \/ Invalidate(a)
      PROVE  NothingPaid'
  <2>1. UNCHANGED <<plan, charged, granted>>
    BY <1>6 DEF Compare, Invalidate, histVars
  <2>2. ASSUME NEW b \in Savers, Busy(b)'
        PROVE  Busy(b) /\ UNCHANGED entity[b] /\ (b \in Hooks => kind'[b] = kind[b])
    BY <1>6, <2>2 DEF Compare, Invalidate, Forget, Answered, Busy, SubsTypeOK, hookVars
  <2> QED
    BY <2>1, <2>2, UnpaidFrame DEF Unpaid
<1>7. ASSUME NEW a \in Savers, Write(a)
      PROVE  NothingPaid'
  <2> SUFFICES ASSUME charged' = "never", ~granted'
               PROVE  Unpaid(plan)' /\ \A b \in Savers : Busy(b)' => Owes(b)'
    BY DEF NothingPaid, Unpaid
  <2>1. charged = "never" /\ ~granted /\ ~Credits(a) /\ a \notin Admins /\ at[a] = "compared" /\ plan' = Saved(a) /\ UNCHANGED <<entity, kind>>
    BY <1>7 DEF Write, Changed, Credits, hookVars
  <2>2. Unpaid(plan)'
    BY <2>1, SavedTyped DEF NothingPaid, Owes, Busy, Unpaid
  <2>3. \A b \in Savers : Busy(b)' => Busy(b)
    BY <1>7 DEF Write, Busy, SubsTypeOK
  <2> QED
    BY <2>1, <2>2, <2>3 DEF NothingPaid, Owes, Credits, Unpaid
<1>12. ASSUME NEW a \in Savers, AdminWrite(a)
       PROVE  NothingPaid'
  <2> SUFFICES ASSUME charged' = "never", ~granted'
               PROVE  Unpaid(plan)' /\ \A b \in Savers : Busy(b)' => Owes(b)'
    BY DEF NothingPaid, Unpaid
  <2>1. charged = "never" /\ ~granted /\ plan' = Saved(a) /\ Saved(a).type # "paid"
    <3>1. ~(Saved(a).type = "paid" /\ plan.type # "paid") /\ ~granted /\ plan' = Saved(a)
      BY <1>12 DEF AdminWrite, Changed
    <3>2. charged = "never"
      BY <1>12 DEF AdminWrite, Overruled
    <3> QED
      BY <3>1, <3>2 DEF NothingPaid, Unpaid
  <2>2. at[a] = "compared" /\ a \in Admins /\ a \notin Hooks
    BY <1>12 DEF AdminWrite
  <2>3. Unpaid(plan)'
    BY <2>1, <2>2, SavedTyped DEF NothingPaid, Owes, Credits, Busy, Unpaid
  <2>4. ASSUME NEW b \in Savers, Busy(b)'
        PROVE  Busy(b) /\ UNCHANGED <<entity[b], kind>>
    BY <1>12, <2>4 DEF AdminWrite, Busy, SubsTypeOK, hookVars
  <2> QED
    BY <2>1, <2>3, <2>4 DEF NothingPaid, Owes, Credits, Unpaid
<1>13. ASSUME NEW x \in Admins, NEW u \in Updates, AdminFinds(x, u)
       PROVE  NothingPaid'
  <2>1. Updated(plan, u).period = plan.period
    BY UpdatedTyped DEF SubsTypeOK
  <2> QED
    BY <1>13, <2>1, UnpaidFinds DEF AdminFinds, hookVars, Savers, Unpaid
<1>8. ASSUME NEW h \in Hooks, HookFails(h)
      PROVE  NothingPaid'
  <2>1. UNCHANGED <<plan, charged, granted, kind>>
    BY <1>8 DEF HookFails, hookVars
  <2>2. ASSUME NEW b \in Savers, Busy(b)'
        PROVE  Busy(b) /\ UNCHANGED entity[b]
    BY <1>8, <2>2 DEF HookFails, Forget, Busy, SubsTypeOK
  <2> QED
    BY <2>1, <2>2, UnpaidFrame DEF Unpaid
<1>9. CASE Restart
  <2>1. UNCHANGED <<plan, charged, granted>> /\ \A b \in Savers : ~Busy(b)'
    BY <1>9 DEF Restart, Busy, SubsTypeOK
  <2> QED
    BY <2>1, UnpaidFrame DEF Unpaid
<1>10. CASE UNCHANGED <<plan, charged, granted, at, entity, kind>>
  BY <1>10, UnpaidFrame DEF Unpaid, Busy
<1>11. \/ \E u \in Upgrades : UpgradeUnrecorded(u)
       \/ \E h \in Hooks : PeriodLapses(h)
       \/ \E r \in Readers : Misses(r) \/ Caches(r)
       \/ CacheExpires \/ TrialEnds \/ UNCHANGED vars
       => UNCHANGED <<plan, charged, granted, at, entity, kind>>
  BY DEF UpgradeUnrecorded, PeriodLapses, Misses, Caches, CacheExpires, TrialEnds, vars, saveVars, hookVars, histVars
<1> QED
  BY <1>1, <1>2, <1>4, <1>5, <1>6, <1>7, <1>8, <1>9, <1>10, <1>11, <1>12, <1>13 DEF Next, Kinds, Save

-----------------------------------------------------------------------------
(* The row as a whole: what a step may make of it.                         *)

\* Only an upgrade and a save write the row.
LEMMA PlanWrites ==
    ASSUME [Next]_vars
    PROVE  \/ \E u \in Upgrades : Upgrade(u)
           \/ \E a \in Savers : Write(a) \/ AdminWrite(a)
           \/ UNCHANGED <<plan, charged, overwritten>>
BY DEF Next, UpgradeUnrecorded, AdminFinds, HookFinds, HookUnknown, CancelFinds, CronFinds, Finds, HookFails, PeriodLapses, Save, Compare,
       Invalidate, Misses, Caches, CacheExpires, TrialEnds, Restart, vars, histVars

\* Nor does anything else add a subscription.
LEMMA UpgradedBy ==
    ASSUME [Next]_vars
    PROVE  \/ \E u \in Upgrades : Upgrade(u)
           \/ \E u \in Upgrades : UpgradeUnrecorded(u)
           \/ UNCHANGED <<upgraded, unrecorded>>
BY DEF Next, AdminFinds, HookFinds, HookUnknown, CancelFinds, CronFinds, Finds, HookFails, PeriodLapses, Save, Compare,
       Write, AdminWrite, histVars,
       Invalidate, Misses, Caches, CacheExpires, TrialEnds, Restart, vars

\* The subscription of the row is one that was made.
LEMMA SubStep ==
    ASSUME SubsTypeOK, Fresh, SubKnown, [Next]_vars
    PROVE  SubKnown'
<1>1. ASSUME NEW u \in Upgrades, Upgrade(u)
      PROVE  SubKnown'
  BY <1>1 DEF Upgrade, Changed, SubKnown, SubsTypeOK, Plan
<1>2. ASSUME NEW a \in Savers, Write(a) \/ AdminWrite(a)
      PROVE  SubKnown'
  <2>1. overwritten' = (overwritten \/ a \in stale) /\ plan' = Saved(a) /\ UNCHANGED <<upgraded, unrecorded>> /\ at[a] = "compared"
    BY <1>2 DEF Write, AdminWrite, Changed
  <2>2. CASE overwritten \/ a \in stale
    BY <2>1, <2>2 DEF SubKnown
  <2>3. CASE ~overwritten /\ a \notin stale
    <3>1. plan' = entity[a] /\ Meant(a, entity[a]) /\ plan \in Plan
      BY <2>1, <2>3, SavedFresh DEF SubsTypeOK
    <3>2. entity[a].sub = plan.sub
      BY <3>1 DEF Meant, Credited, Kinds, Plan
    <3> QED
      BY <2>1, <2>3, <3>1, <3>2 DEF SubKnown
  <2> QED
    BY <2>2, <2>3
<1>3. CASE UNCHANGED <<plan, overwritten, upgraded, unrecorded>>
  BY <1>3 DEF SubKnown
<1>4. ASSUME NEW u \in Upgrades, UpgradeUnrecorded(u)
      PROVE  SubKnown'
  <2>1. u \notin upgraded /\ upgraded' = upgraded \cup {u} /\ unrecorded' = unrecorded \cup {u} /\ UNCHANGED <<plan, overwritten>>
    BY <1>4 DEF UpgradeUnrecorded
  <2> QED
    BY <2>1 DEF SubKnown
<1> QED
  BY <1>1, <1>2, <1>3, <1>4, PlanWrites, UpgradedBy

\* Whoever is not found a plan has been replaced.
LEMMA UnknownStep ==
    ASSUME SubsTypeOK, SubKnown, UnknownOnlyIfReplaced, [Next]_vars
    PROVE  UnknownOnlyIfReplaced'
<1>1. upgraded \subseteq upgraded' /\ unrecorded \subseteq unrecorded' /\ (overwritten => overwritten')
  <2>1. ASSUME NEW a \in Savers, Write(a) \/ AdminWrite(a)
        PROVE  overwritten => overwritten'
    BY <2>1 DEF Write, AdminWrite
  <2>2. ASSUME NEW u \in Upgrades, Upgrade(u)
        PROVE  overwritten' = overwritten /\ upgraded \subseteq upgraded' /\ UNCHANGED unrecorded
    BY <2>2 DEF Upgrade
  <2>3. overwritten => overwritten'
    BY <2>1, <2>2, PlanWrites
  <2>4. upgraded \subseteq upgraded' /\ unrecorded \subseteq unrecorded'
    BY <2>2, UpgradedBy DEF UpgradeUnrecorded
  <2> QED
    BY <2>3, <2>4
<1> SUFFICES ASSUME NEW h \in Hooks, at'[h] = "unknown"
             PROVE  overwritten' \/ upgraded' \ {sub'[h]} # {} \/ sub'[h] \in unrecorded'
  BY DEF UnknownOnlyIfReplaced
<1>2. CASE at[h] = "unknown" /\ UNCHANGED sub[h]
  BY <1>1, <1>2 DEF UnknownOnlyIfReplaced
<1>3. ASSUME NEW k \in Kinds, NEW u \in Upgrades, HookUnknown(h, k, u)
      PROVE  overwritten' \/ upgraded' \ {sub'[h]} # {} \/ sub'[h] \in unrecorded'
  <2>1. u \in upgraded /\ plan.sub # u /\ sub'[h] = u /\ UNCHANGED <<upgraded, unrecorded, overwritten>>
    BY <1>3 DEF HookUnknown, Says, Finds, SubsTypeOK
  <2> QED
    BY <2>1 DEF SubKnown
<1>4. ASSUME NEW g \in Hooks, NEW k \in Kinds, NEW u \in Upgrades,
             HookFinds(g, k, u) \/ (HookUnknown(g, k, u) /\ g # h)
      PROVE  at[h] = "unknown" /\ UNCHANGED sub[h]
  BY <1>4 DEF HookFinds, HookUnknown, Says, Finds, SubsTypeOK, Savers
<1>5. ASSUME NEW a \in Savers, Save(a)
      PROVE  at[h] = "unknown" /\ UNCHANGED sub[h]
  BY <1>5 DEF Save, Compare, Write, AdminWrite, Invalidate, Answered, hookVars, SubsTypeOK, Savers
<1>6. ASSUME NEW a \in Savers, NEW p, Finds(a, "found", p), UNCHANGED hookVars
      PROVE  at[h] = "unknown" /\ UNCHANGED sub[h]
  BY <1>6 DEF Finds, hookVars, SubsTypeOK, Savers
<1>7. \/ \E x \in Cancels : CancelFinds(x)
      \/ CronFinds
      \/ \E x \in Admins, u \in Updates : AdminFinds(x, u)
      => at[h] = "unknown" /\ UNCHANGED sub[h]
  BY <1>6 DEF CancelFinds, CronFinds, AdminFinds, Savers
<1>8. ASSUME NEW g \in Hooks, HookFails(g)
      PROVE  at[h] = "unknown" /\ UNCHANGED sub[h]
  BY <1>8 DEF HookFails, hookVars, SubsTypeOK, Savers
<1>9. CASE Restart
  BY <1>2, <1>9 DEF Restart, hookVars, SubsTypeOK, Savers
<1>10. \/ \E u \in Upgrades : Upgrade(u) \/ UpgradeUnrecorded(u)
       \/ \E g \in Hooks : PeriodLapses(g)
       \/ \E r \in Readers : Misses(r) \/ Caches(r)
       \/ CacheExpires \/ TrialEnds \/ UNCHANGED vars
       => UNCHANGED <<at, sub>>
  BY DEF Upgrade, UpgradeUnrecorded, PeriodLapses, Misses, Caches, CacheExpires, TrialEnds, vars, saveVars, hookVars
<1> QED
  BY <1>2, <1>3, <1>4, <1>5, <1>7, <1>8, <1>9, <1>10 DEF Next, Kinds

\* A save that is not out of date takes a paid plan to no trial and no end.
LEMMA PaidStep ==
    ASSUME SubsTypeOK, Fresh, PaidStaysPaid, [Next]_vars
    PROVE  PaidStaysPaid'
<1>1. ASSUME NEW u \in Upgrades, Upgrade(u)
      PROVE  PaidStaysPaid'
  BY <1>1 DEF Upgrade, Changed, PaidStaysPaid, SubsTypeOK, Plan
<1>2. ASSUME NEW a \in Savers, Write(a)
      PROVE  PaidStaysPaid'
  <2> SUFFICES ASSUME charged' = "stands", ~overwritten'
               PROVE  plan'.type = "paid" /\ plan'.status # "expired"
    BY DEF PaidStaysPaid
  <2>1. ~overwritten /\ a \notin stale /\ at[a] = "compared" /\ plan' = Saved(a) /\ (charged = "stands" \/ Credits(a)) /\ a \notin Admins
    BY <1>2 DEF Write, Changed, Credits
  <2>2. plan' = entity[a] /\ Meant(a, entity[a]) /\ plan \in Plan
    BY <2>1, SavedFresh DEF SubsTypeOK
  <2>3. CASE Credits(a)
    BY <2>2, <2>3 DEF Meant, Credits, Credited, Plan
  <2>4. CASE ~Credits(a)
    <3>1. plan.type = "paid" /\ plan.status # "expired"
      BY <2>1, <2>4 DEF PaidStaysPaid
    <3>2. CASE a \in Hooks
      BY <2>2, <2>4, <3>1, <3>2 DEF Meant, Credits, Credited, Kinds, Plan
    <3>3. CASE a \notin Hooks
      BY <2>1, <2>2, <3>1, <3>3 DEF Meant, Plan
    <3> QED
      BY <3>2, <3>3
  <2> QED
    BY <2>3, <2>4
<1>3. CASE UNCHANGED <<plan, charged, overwritten>>
  BY <1>3 DEF PaidStaysPaid
<1>4. ASSUME NEW a \in Savers, AdminWrite(a)
      PROVE  PaidStaysPaid'
  BY <1>4 DEF AdminWrite, Changed, Overruled, PaidStaysPaid
<1> QED
  BY <1>1, <1>2, <1>3, <1>4, PlanWrites

-----------------------------------------------------------------------------
(* The cache.                                                              *)

\* isActive looks at nothing an upgrade changes.
LEMMA VerdictOfUpgrade ==
    ASSUME NEW u \in Upgrades, Upgrade(u), SubsTypeOK
    PROVE  Verdict(plan)' = Verdict(plan)
<1>1. plan' = [plan EXCEPT !.sub = u] /\ plan \in Plan /\ UNCHANGED <<trialEnd, lapsed>>
  BY DEF Upgrade, Changed, SubsTypeOK, timeVars
<1> QED
  BY <1>1 DEF Verdict, Active, Plan

LEMMA CacheStep ==
    ASSUME SubsTypeOK, CacheIsTrue, [Next]_vars
    PROVE  CacheIsTrue'
<1> USE SubscriptionsAssumption DEF SubscriptionsAssumption
<1>1. ASSUME NEW u \in Upgrades, Upgrade(u)
      PROVE  CacheIsTrue'
  BY <1>1, VerdictOfUpgrade DEF Upgrade, CacheIsTrue, saveVars
<1>2. ASSUME NEW a \in Savers, Write(a)
      PROVE  CacheIsTrue'
  BY <1>2 DEF Write, CacheIsTrue, SubsTypeOK
<1>3. CASE cache' = "none"
  BY <1>3 DEF CacheIsTrue
<1>4. ASSUME NEW r \in Readers, Caches(r)
      PROVE  CacheIsTrue'
  <2>1. cache' = Verdict(seen[r]) /\ outdated' = (seen[r] # Looked) /\ UNCHANGED <<plan, trialEnd, lapsed>>
    BY <1>4 DEF Caches, timeVars
  <2>2. Verdict(Looked) = Verdict(plan)
    BY DEF Verdict, Active, Looked, SubsTypeOK, Plan
  <2>3. Verdict(plan)' = Verdict(plan)
    BY <2>1 DEF Verdict, Active
  <2> QED
    BY <2>1, <2>2, <2>3 DEF CacheIsTrue
<1>5. CASE TrialEnds \/ \E h \in Hooks : PeriodLapses(h)
  BY <1>3, <1>5 DEF TrialEnds, PeriodLapses, CacheIsTrue
<1>6. ASSUME UNCHANGED <<plan, cache, outdated, timeVars>>,
             \A a \in Savers : at[a] = "written" => at'[a] = "written"
      PROVE  CacheIsTrue'
  BY <1>6 DEF CacheIsTrue, Verdict, Active, timeVars
<1>7. ASSUME NEW a \in Savers, NEW where, NEW p, at[a] = "idle", Finds(a, where, p)
      PROVE  CacheIsTrue'
  BY <1>6, <1>7 DEF Finds, SubsTypeOK
<1>8. \/ \E h \in Hooks, k \in Kinds, u \in Upgrades : HookFinds(h, k, u) \/ HookUnknown(h, k, u)
      \/ \E x \in Cancels : CancelFinds(x)
      \/ CronFinds
      \/ \E x \in Admins, u \in Updates : AdminFinds(x, u)
      => CacheIsTrue'
  BY <1>7 DEF HookFinds, HookUnknown, CancelFinds, CronFinds, AdminFinds, Says, Savers
<1>9. ASSUME NEW a \in Savers, Compare(a)
      PROVE  CacheIsTrue'
  BY <1>6, <1>9 DEF Compare, SubsTypeOK
<1>10. ASSUME NEW h \in Hooks, HookFails(h)
       PROVE  CacheIsTrue'
  BY <1>6, <1>10 DEF HookFails, SubsTypeOK, Busy
<1>11. \/ \E u \in Upgrades : UpgradeUnrecorded(u)
       \/ \E r \in Readers : Misses(r)
       \/ UNCHANGED vars
       => CacheIsTrue'
  BY <1>6 DEF UpgradeUnrecorded, Misses, vars, saveVars
<1>12. \/ \E a \in Savers : Invalidate(a)
       \/ CacheExpires \/ Restart
       => cache' = "none"
  BY DEF Invalidate, CacheExpires, Restart
<1>13. ASSUME NEW a \in Savers, AdminWrite(a)
       PROVE  CacheIsTrue'
  <2>1. plan' = Saved(a) /\ outdated' = (outdated \/ (cache # "none" /\ Saved(a) # plan)) /\ UNCHANGED <<cache, timeVars>>
    BY <1>13 DEF AdminWrite, Changed
  <2>2. \A b \in Savers : at[b] = "written" => at'[b] = "written"
    BY <1>13 DEF AdminWrite, SubsTypeOK
  <2> QED
    BY <2>1, <2>2 DEF CacheIsTrue, Verdict, Active, timeVars
<1> QED
  BY <1>1, <1>2, <1>3, <1>4, <1>5, <1>8, <1>9, <1>10, <1>11, <1>12, <1>13 DEF Next, Kinds, Save

-----------------------------------------------------------------------------
(* The invariant, and what it gives.                                       *)

LEMMA InvStep ==
    ASSUME SubsInv, [Next]_vars
    PROVE  SubsInv'
<1>1. SubsTypeOK' /\ Fresh' /\ NothingPaid'
  BY TypeStep, FreshStep, UnpaidStep DEF SubsInv
<1>2. SubKnown' /\ UnknownOnlyIfReplaced' /\ PaidStaysPaid' /\ CacheIsTrue'
  BY SubStep, UnknownStep, PaidStep, CacheStep DEF SubsInv
<1> QED
  BY <1>1, <1>2 DEF SubsInv

\* What the savers of a plan hold in memory, and what row and cache may be meanwhile
\* (subscriptions.service.ts).
THEOREM SubsInvariant == Spec => []SubsInv
BY InitInv, InvStep, PTL DEF Spec

\* The plan, its cache and their writers keep their types.
THEOREM SubsTypes == Spec => []SubsTypeOK
<1>1. SubsInv => SubsTypeOK
  BY DEF SubsInv
<1> QED
  BY <1>1, SubsInvariant, PTL

\* activePlanCache holds what the row says, or the saver that wrote the row has yet to call
\* invalidateCache, or a call of isActive has cached what it read before the write, or the
\* operator has saved the row, who never calls it.
THEOREM CacheTellsTheTruth == Spec => []CacheIsTrue
<1>1. SubsInv => CacheIsTrue
  BY DEF SubsInv
<1> QED
  BY <1>1, SubsInvariant, PTL

\* A charge that was credited keeps the tenant on a paid plan the cron does not expire, until
\* the operator takes it back or a save writes an entity back that was out of date.
THEOREM PaidPlansStayPaid == Spec => []PaidStaysPaid
<1>1. SubsInv => PaidStaysPaid
  BY DEF SubsInv
<1> QED
  BY <1>1, SubsInvariant, PTL

\* A webhook without a plan is that of a subscription another one took the place of, that a stale
\* save took from the row, or that createUpgradeSubscription had no row to store in: it stores the
\* subscription before the tenant can pay.
THEOREM UnknownsAreReplaced == Spec => []UnknownOnlyIfReplaced
<1>1. SubsInv => UnknownOnlyIfReplaced
  BY DEF SubsInv
<1> QED
  BY <1>1, SubsInvariant, PTL

\* isActive serves a tenant only without a row, during a trial, after a charge that was credited
\* or on a plan the operator gave, whatever order webhooks, cancellations, the cron, the operator
\* and their stale saves come in.
THEOREM OnlyPayersAreServed == Spec => []ServedHasPaid
<1>1. SubsInv => ServedHasPaid
  <2> SUFFICES ASSUME SubsInv, Active(plan), charged = "never", ~granted
               PROVE  plan.type = "none" \/ trialEnd = "ahead"
    BY DEF ServedHasPaid
  <2>1. plan.type # "paid" /\ plan.period = NoPeriod /\ plan \in Plan
    BY DEF SubsInv, SubsTypeOK, NothingPaid, Unpaid
  <2>2. plan.period \notin Hooks
    BY <2>1, SubscriptionsAssumption DEF SubscriptionsAssumption
  <2> QED
    BY <2>1, <2>2 DEF Active, Plan, Types
<1> QED
  BY <1>1, SubsInvariant, PTL
=============================================================================
