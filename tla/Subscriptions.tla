--------------------------- MODULE Subscriptions ---------------------------
(***************************************************************************)
(* The subscription plan of one tenant: its row, the cached answer whether *)
(* the tenant may be served, and their writers: upgrades, the webhooks of  *)
(* the payment provider, the tenant's cancellation, the daily cron and the *)
(* operator's updates from the admin panel.                                *)
(*                                                                         *)
(* Every writer but the upgrade reads the row, changes the entity and      *)
(* saves it.  A save reads the row again and writes each column in which   *)
(* the entity differs, changed or merely out of date.  All but the         *)
(* operator's then drop the cache.                                         *)
(***************************************************************************)
EXTENDS Naturals, FiniteSets

CONSTANTS
    Upgrades,   \* createUpgradeSubscription calls, each making one subscription
    Hooks,      \* webhook deliveries, in the order they arrive, not were sent
    Cancels,    \* cancelPlan calls
    Admins,     \* updateSubscription calls of the operator
    Updates,    \* what one may ask for: a type, a status, each may be "kept"
    Readers,    \* isActive calls that may be alive at one time
    Cron,       \* checkTrialExpiry
    NoSub, NoPeriod,
    Parallel,   \* bound on the calls that save the plan at one time
    Calls       \* bound on the webhooks, cancellations and updates of a behaviour

Savers == Hooks \cup Cancels \cup Admins \cup {Cron}

Types == {"trial", "paid"}
Statuses == {"active", "past_due", "cancelled", "expired"}

ASSUME SubscriptionsAssumption ==
    /\ NoSub \notin Upgrades /\ NoPeriod \notin Hooks
    /\ Cron \notin Hooks \cup Cancels \cup Admins
    /\ Hooks \cap Cancels = {} /\ Admins \cap (Hooks \cup Cancels) = {}
    /\ Updates \subseteq [type : Types \cup {"kept"}, status : Statuses \cup {"kept"}]
    /\ Parallel \in Nat /\ Calls \in Nat

VARIABLES
    plan,        \* the row: type ("none" if there is no row), status, the hook that
                 \* set the period, subscription
    trialEnd,    \* trialEndsAt: "none", "ahead" or "past"
    lapsed,      \* hooks whose period has ended, the three days of grace too
    cache,       \* activePlanCache: "none", or what it holds until it expires
    upgraded,    \* upgrades that stored their subscription
    at,          \* at[a]: where saver a is
    entity,      \* entity[a]: the plan a holds in memory
    diff,        \* diff[a]: the columns its save is going to write
    rat, seen,   \* rat[r], seen[r]: where reader r is, and the row it read
    kind, sub,   \* kind[h], sub[h]: what delivery h says, and of which subscription
    unrecorded,  \* upgrades that found no row to store their subscription in
    charged,     \* a credited charge: "never", "stands", or "overruled" by the operator
    granted,     \* the operator has made the plan a paid one
    stale,       \* savers whose entity is older than the row
    overwritten, \* a stale entity has been saved
    outdated     \* the cache was filled from a row since written, the operator or
                 \* time has changed the verdict since

readVars == <<rat, seen>>
saveVars == <<at, entity, diff>>
hookVars == <<kind, sub>>
timeVars == <<trialEnd, lapsed>>
histVars == <<unrecorded, charged, granted, stale, overwritten>>
vars == <<plan, cache, upgraded, saveVars, readVars, hookVars, timeVars, histVars, outdated>>

Columns == {"type", "status", "period", "sub"}
Plan == [type : Types \cup {"none"}, status : Statuses,
         period : Hooks \cup {NoPeriod}, sub : Upgrades \cup {NoSub}]
Trial == [type |-> "trial", status |-> "active", period |-> NoPeriod, sub |-> NoSub]
NoPlan == [Trial EXCEPT !.type = "none"]

\* A tenant has registered for a trial, or is older than subscriptions are.
Init ==
    /\ \/ plan = Trial /\ trialEnd = "ahead"
       \/ plan = NoPlan /\ trialEnd = "none"
    /\ lapsed = {}
    /\ cache = "none" /\ outdated = FALSE
    /\ upgraded = {}
    /\ at = [a \in Savers |-> "idle"]
    /\ entity = [a \in Savers |-> Trial]
    /\ diff = [a \in Savers |-> {}]
    /\ rat = [r \in Readers |-> "idle"] /\ seen = [r \in Readers |-> Trial]
    /\ kind = [h \in Hooks |-> "none"] /\ sub = [h \in Hooks |-> NoSub]
    /\ unrecorded = {} /\ charged = "never" /\ granted = FALSE
    /\ stale = {} /\ overwritten = FALSE

\* What isActive makes of a row.
Active(p) ==
    \/ p.type = "none"
    \/ p.status = "active" /\ (p.type # "trial" \/ trialEnd = "ahead")
    \/ p.status = "past_due" /\ p.period \in Hooks \ lapsed

Verdict(p) == IF Active(p) THEN "active" ELSE "inactive"

Busy(a) == at[a] \in {"found", "compared"}

\* The row is changed: what the savers of S hold is out of date.
Changed(p, S) ==
    /\ plan' = p
    /\ stale' = (stale \cap S) \cup IF p = plan THEN {} ELSE {a \in S : Busy(a)}

(***************************************************************************)
(* createUpgradeSubscription: the provider makes a subscription, an UPDATE *)
(* stores it, and only then the tenant is given the page to pay on.        *)
(***************************************************************************)
Upgrade(u) ==
    /\ u \notin upgraded /\ plan.type # "none"
    /\ upgraded' = upgraded \cup {u}
    /\ Changed([plan EXCEPT !.sub = u], Savers)
    /\ UNCHANGED <<cache, saveVars, readVars, hookVars, timeVars, unrecorded, charged, granted,
                   overwritten, outdated>>

\* Without a row the UPDATE stores nothing, and the tenant is given the page as well.
UpgradeUnrecorded(u) ==
    /\ u \notin upgraded /\ plan.type = "none"
    /\ upgraded' = upgraded \cup {u} /\ unrecorded' = unrecorded \cup {u}
    /\ UNCHANGED <<plan, cache, saveVars, readVars, hookVars, timeVars, charged, granted, stale,
                   overwritten, outdated>>

(***************************************************************************)
(* Savers: webhooks, cancelPlan, the cron and the operator                 *)
(***************************************************************************)
\* A saver reads the row, and holds p of it.
Finds(a, where, p) ==
    /\ Cardinality({b \in Savers : at[b] \in {"found", "compared", "written"}}) < Parallel
    /\ a # Cron => Cardinality({b \in Savers \ {Cron, a} : at[b] # "idle"}) < Calls
    /\ at' = [at EXCEPT ![a] = where]
    /\ entity' = [entity EXCEPT ![a] = p]
    /\ stale' = stale \ {a}
    /\ UNCHANGED <<plan, cache, upgraded, diff, readVars, timeVars, unrecorded, charged, granted,
                   overwritten, outdated>>

\* External: what the provider may say of a subscription whose page was given
\* out, in any order; a delivery answered with an error is sent again.
Says(h, k, u) ==
    /\ at[h] = "idle" /\ u \in upgraded
    /\ kind[h] \in {"none", k} /\ sub[h] \in {NoSub, u}
    /\ kind' = [kind EXCEPT ![h] = k] /\ sub' = [sub EXCEPT ![h] = u]

\* Mutant: a charge does not end the trial.
CreditedTrial(p, h, k) ==
    CASE k = "success" -> [p EXCEPT !.status = "active", !.period = h]
      [] k = "failure" -> [p EXCEPT !.status = "past_due"]
      [] k = "deactivated" -> [p EXCEPT !.status = "cancelled"]

\* Mutant: a failed charge counts as one.
CreditedAnyway(p, h, k) ==
    CASE k \in {"success", "failure"} -> [p EXCEPT !.status = "active", !.period = h,
                                                  !.type = "paid"]
      [] k = "deactivated" -> [p EXCEPT !.status = "cancelled"]

\* What handleChargeWebhook and handleStatusWebhook make of the plan.
Credited(p, h, k) ==
    CASE k = "success" -> [p EXCEPT !.status = "active", !.period = h, !.type = "paid"]
      [] k = "failure" -> [p EXCEPT !.status = "past_due"]
      [] k = "deactivated" -> [p EXCEPT !.status = "cancelled"]

HookFinds(h, k, u) ==
    /\ Says(h, k, u) /\ plan.sub = u
    /\ Finds(h, "found", Credited(plan, h, k))

\* No plan has the subscription: the webhook is acknowledged and forgotten.
HookUnknown(h, k, u) ==
    /\ Says(h, k, u) /\ plan.sub # u
    /\ Finds(h, "unknown", Trial)

CancelFinds(x) ==
    /\ at[x] = "idle" /\ plan.type # "none"
    /\ Finds(x, "found", [plan EXCEPT !.status = "cancelled"])
    /\ UNCHANGED hookVars

CronFinds ==
    /\ at[Cron] = "idle"
    /\ plan.type = "trial" /\ plan.status = "active" /\ trialEnd = "past"
    /\ Finds(Cron, "found", [plan EXCEPT !.status = "expired"])
    /\ UNCHANGED hookVars

\* What updateSubscription makes of a row; of none, an active trial with no end to it.
Updated(p, u) ==
    [p EXCEPT !.type = CASE u.type # "kept" -> u.type
                         [] p.type = "none" -> "trial"
                         [] OTHER -> p.type,
              !.status = IF u.status = "kept" THEN p.status ELSE u.status]

\* No index keeps two calls from making a row each: here one call at a time makes it.
AdminFinds(x, u) ==
    /\ at[x] = "idle"
    /\ plan.type = "none" => \A b \in Admins : ~Busy(b)
    /\ Finds(x, "found", Updated(plan, u))
    /\ UNCHANGED hookVars

\* save reads the row again, and compares it with the entity.
Compare(a) ==
    /\ at[a] = "found"
    /\ at' = [at EXCEPT ![a] = "compared"]
    /\ diff' = [diff EXCEPT ![a] = {c \in Columns : entity[a][c] # plan[c]}]
    /\ UNCHANGED <<plan, cache, upgraded, entity, readVars, hookVars, timeVars, histVars,
                   outdated>>

\* The row after the save of a.
Saved(a) == [c \in Columns |-> IF c \in diff[a] THEN entity[a][c] ELSE plan[c]]

\* ... and writes the columns that differed.
Write(a) ==
    /\ at[a] = "compared" /\ a \notin Admins
    /\ at' = [at EXCEPT ![a] = "written"]
    /\ Changed(Saved(a), Savers \ {a})
    /\ charged' = IF a \in Hooks /\ kind[a] = "success" THEN "stands" ELSE charged
    /\ overwritten' = (overwritten \/ a \in stale)
    /\ UNCHANGED <<cache, upgraded, unrecorded, granted, entity, diff, readVars, hookVars, timeVars,
                   outdated>>

\* A charge that stands does so no longer once the operator has taken the paid plan back.
Overruled(p) == charged = "stands" /\ (p.type # "paid" \/ p.status = "expired")

\* The operator's save is the last statement of updateSubscription: the cache stays.
AdminWrite(a) ==
    /\ at[a] = "compared" /\ a \in Admins
    /\ at' = [at EXCEPT ![a] = "done"]
    /\ entity' = [entity EXCEPT ![a] = Trial] /\ diff' = [diff EXCEPT ![a] = {}]
    /\ Changed(Saved(a), Savers \ {a})
    /\ charged' = IF Overruled(Saved(a)) THEN "overruled" ELSE charged
    /\ granted' = (granted \/ (Saved(a).type = "paid" /\ plan.type # "paid"))
    /\ overwritten' = (overwritten \/ a \in stale)
    /\ outdated' = (outdated \/ (cache # "none" /\ Saved(a) # plan))
    /\ UNCHANGED <<cache, upgraded, unrecorded, readVars, hookVars, timeVars>>

Forget(a) ==
    /\ entity' = [entity EXCEPT ![a] = Trial]
    /\ diff' = [diff EXCEPT ![a] = {}]
    /\ stale' = stale \ {a}

\* A webhook that is answered is not sent again.
Answered(a) ==
    /\ kind' = [h \in Hooks |-> IF h = a THEN "none" ELSE kind[h]]
    /\ sub' = [h \in Hooks |-> IF h = a THEN NoSub ELSE sub[h]]

\* Mutant: the cached answer stays.
InvalidateNothing(a) ==
    /\ at[a] = "written"
    /\ at' = [at EXCEPT ![a] = IF a = Cron THEN "idle" ELSE "done"]
    /\ Forget(a) /\ Answered(a)
    /\ UNCHANGED <<plan, cache, outdated, upgraded, readVars, timeVars, unrecorded, charged,
                   granted, overwritten>>

\* invalidateCache; the cron is free for another day.
Invalidate(a) ==
    /\ at[a] = "written"
    /\ at' = [at EXCEPT ![a] = IF a = Cron THEN "idle" ELSE "done"]
    /\ Forget(a) /\ Answered(a)
    /\ cache' = "none" /\ outdated' = FALSE
    /\ UNCHANGED <<plan, upgraded, readVars, timeVars, unrecorded, charged, granted, overwritten>>

Save(a) == Compare(a) \/ Write(a) \/ AdminWrite(a) \/ Invalidate(a)

(***************************************************************************)
(* isActive                                                                *)
(***************************************************************************)
\* The columns of the row it goes by.
Looked == [plan EXCEPT !.sub = NoSub]

Misses(r) ==
    /\ rat[r] = "idle" /\ cache = "none"
    /\ rat' = [rat EXCEPT ![r] = "read"]
    /\ seen' = [seen EXCEPT ![r] = Looked]
    /\ UNCHANGED <<plan, cache, upgraded, saveVars, hookVars, timeVars, histVars, outdated>>

Caches(r) ==
    /\ rat[r] = "read"
    /\ rat' = [rat EXCEPT ![r] = "idle"]
    /\ cache' = Verdict(seen[r])
    /\ seen' = [seen EXCEPT ![r] = Trial]
    /\ outdated' = (seen[r] # Looked)
    /\ UNCHANGED <<plan, upgraded, saveVars, hookVars, timeVars, histVars>>

\* Mutant: only a refusal is looked up again.
RefusalExpires ==
    /\ cache = "inactive"
    /\ cache' = "none" /\ outdated' = FALSE
    /\ UNCHANGED <<plan, upgraded, saveVars, readVars, hookVars, timeVars, histVars>>

\* Five minutes.
CacheExpires ==
    /\ cache # "none"
    /\ cache' = "none" /\ outdated' = FALSE
    /\ UNCHANGED <<plan, upgraded, saveVars, readVars, hookVars, timeVars, histVars>>

(***************************************************************************)
(* Time and faults                                                         *)
(***************************************************************************)
TrialEnds ==
    /\ trialEnd = "ahead" /\ trialEnd' = "past"
    /\ outdated' = (cache # "none")
    /\ UNCHANGED <<plan, cache, upgraded, saveVars, readVars, hookVars, lapsed, histVars>>

PeriodLapses(h) ==
    /\ plan.period = h /\ h \notin lapsed
    /\ lapsed' = lapsed \cup {h}
    /\ outdated' = (cache # "none")
    /\ UNCHANGED <<plan, cache, upgraded, saveVars, readVars, hookVars, trialEnd, histVars>>

\* The statement of a webhook fails: it is answered with an error and sent again.
HookFails(h) ==
    /\ Busy(h)
    /\ at' = [at EXCEPT ![h] = "idle"]
    /\ Forget(h)
    /\ UNCHANGED <<plan, cache, upgraded, readVars, hookVars, timeVars, unrecorded, charged, granted,
                   overwritten, outdated>>

\* The process starts anew: calls are gone, unanswered webhooks are sent again.
Restart ==
    /\ cache' = "none" /\ outdated' = FALSE
    /\ rat' = [r \in Readers |-> "idle"] /\ seen' = [r \in Readers |-> Trial]
    /\ entity' = [a \in Savers |-> Trial] /\ diff' = [a \in Savers |-> {}] /\ stale' = {}
    /\ at' = [a \in Savers |-> CASE at[a] \notin {"found", "compared", "written"} -> at[a]
                                 [] a \in Cancels \cup Admins -> "done"
                                 [] OTHER -> "idle"]
    /\ UNCHANGED <<plan, upgraded, hookVars, timeVars, unrecorded, charged, granted, overwritten>>
-----------------------------------------------------------------------------
Next ==
    \/ \E u \in Upgrades : Upgrade(u) \/ UpgradeUnrecorded(u)
    \/ \E h \in Hooks, k \in {"success", "failure", "deactivated"}, u \in Upgrades :
         HookFinds(h, k, u) \/ HookUnknown(h, k, u)
    \/ \E h \in Hooks : HookFails(h) \/ PeriodLapses(h)
    \/ \E x \in Cancels : CancelFinds(x)
    \/ CronFinds
    \/ \E x \in Admins, u \in Updates : AdminFinds(x, u)
    \/ \E a \in Savers : Save(a)
    \/ \E r \in Readers : Misses(r) \/ Caches(r)
    \/ CacheExpires \/ TrialEnds \/ Restart

Spec == Init /\ [][Next]_vars

\* Statements return and the cache expires.  The cron is no part of it: isActive has
\* to look at trialEndsAt itself.
Fairness ==
    /\ \A a \in Savers : WF_vars(Save(a))
    /\ \A r \in Readers : WF_vars(Caches(r))
    /\ WF_vars(CacheExpires)

FairSpec == Spec /\ Fairness
-----------------------------------------------------------------------------
\* Type correctness of the plan, its cache and their writers.
SubsTypeOK ==
    /\ plan \in Plan /\ trialEnd \in {"none", "ahead", "past"} /\ lapsed \subseteq Hooks
    /\ cache \in {"none", "active", "inactive"} /\ outdated \in BOOLEAN
    /\ upgraded \subseteq Upgrades
    /\ at \in [Savers -> {"idle", "unknown", "found", "compared", "written", "done"}]
    /\ entity \in [Savers -> Plan] /\ diff \in [Savers -> SUBSET Columns]
    /\ rat \in [Readers -> {"idle", "read"}] /\ seen \in [Readers -> Plan]
    /\ kind \in [Hooks -> {"none", "success", "failure", "deactivated"}]
    /\ sub \in [Hooks -> Upgrades \cup {NoSub}]
    /\ unrecorded \subseteq Upgrades
    /\ charged \in {"never", "stands", "overruled"} /\ granted \in BOOLEAN
    /\ stale \subseteq Savers /\ overwritten \in BOOLEAN

\* The cached answer is the row's, until a webhook, cancelPlan or the cron, which have
\* written, drop it: but for a call of isActive that read before the write, when time
\* has passed, and after a save of the operator, who drops nothing.
CacheIsTrue ==
    cache \in {"none", Verdict(plan)} \/ outdated \/ \E a \in Savers : at[a] = "written"

\* A tenant whose charge was credited keeps a paid plan, which no cron expires,
\* until the operator takes it back, or some entity is saved that had become stale
\* in memory (save writes the columns back that a webhook changed meanwhile).
PaidStaysPaid ==
    charged = "stands" /\ ~overwritten => plan.type = "paid" /\ plan.status # "expired"

\* A webhook finds no plan only because a second upgrade took the place of its
\* subscription, a stale save did, or the tenant had no row when it was made
\* (handleChargeWebhook acknowledges a charge it cannot credit, and no one is told).
UnknownOnlyIfReplaced ==
    \A h \in Hooks : at[h] = "unknown" =>
        overwritten \/ upgraded \ {sub[h]} # {} \/ sub[h] \in unrecorded

\* Whoever isActive serves has no row, a trial that runs, a charge that was credited
\* or a plan the operator gave, in whatever order charges fail, plans are cancelled
\* and stale rows saved.
ServedHasPaid ==
    Active(plan) => \/ plan.type = "none" \/ trialEnd = "ahead"
                    \/ charged # "never" \/ granted

\* A plan that has ended, and stays so, is not served for good, whatever the cache was
\* told while the row was being written, and though the operator drops nothing of it.
OverIsNotServed ==
    <>[]~Active(plan) => <>[](cache # "active")
=============================================================================
