# DirectMate: formal models

DirectMate answers the Instagram messages and comments of small shops. Customers
write to a shop; the API (`apps/api`, NestJS, one Node process, Postgres through
TypeORM) collects their messages, lets a reply engine decide, sends the answer
through Meta's Graph API, and places the order the conversation ends in. A manager
of the shop may take a conversation over at any time, in the Instagram app or in the
admin panel, and the bot must then be silent.

This directory holds TLA+ models of the parts of that program that interleave, fail
half way, or keep a state over many messages; the TLC runs that check them on small
instances; and proofs of the safety properties for instances of any size. Paths below
are relative to `apps/api/src/modules/` unless they start elsewhere;
`instagram.service.ts` is `channels/instagram/instagram.service.ts`.

## 1. Inventory

The process is single-threaded, so two pieces of code interleave only where one
awaits. But nearly everything awaits: each SQL statement is awaited by itself, hardly
anything but the catalog import and the end of a conversation runs in a transaction,
webhooks are handled concurrently, and `setInterval` starts the poller again whether
or not its last round has returned. What lives in Postgres survives a restart; what
lives in a `Map` or a `Set` does not.

Two habits of the code return in every component. An entity is *found, changed in
memory and saved*: TypeORM's `save` reads the row again and writes each column in
which the entity differs from it, whether this code changed it or somebody else did
meanwhile. And a row is *checked by one statement and inserted by the next*, often
without a unique index behind it.

### Components

| component | state | operations | correct when | here |
|---|---|---|---|---|
| **Conversation lock** (`instagram.service.ts` 666-676, 877-919) | Postgres session-level advisory locks, one 32-bit key per conversation; a pool of connections | lock, unlock in `finally` | at most one call per conversation is inside; no call waits for ever, but for a leaked lock | modelled |
| **Debounced inbox** (`instagram.service.ts` 93-146, 384-628) | table `pending_messages` with `debounce_key`, `flush_at` | webhook: save, extend the window, insert; poller: select due keys, find, delete, `processInbound` | every queued message is answered, once, with those of the same customer | modelled |
| **Human control** (`instagram.service.ts` 148-195, 678-841, 926-1000, `conversations/conversations.service.ts` 184-222) | columns `status`, `needs_handoff`, `auto_resume_at`; maps of what was sent lately | batch: check, escalate, send; echo: take over, arm the deadline; poller: release, clear; admin: takeover, release; startup recovery; close after 72 h | the bot is silent while a human has the conversation, and comes back when the human stops | modelled |
| **Conversations and customers** (`conversations/`) | customers, conversations, states, messages | find or create, save message | one customer and one open conversation per channel user | modelled |
| **Orders and external sync** (`orders/orders.service.ts`) | order status, `externalSyncStatus`, external id | create, update status, trigger, retry, callback | an order shown as synced is in the shop's platform | modelled |
| **Checkout** (`orders/checkout.service.ts`) | session status, items, customer info | start, save info, create draft | one draft per session | modelled |
| **Subscriptions** (`subscriptions/`) | plan, cached `isActive` | payment webhooks, upgrade, cancel, the operator's update (`admin/admin.service.ts` 217-229), cron, `isActive` | a paid tenant is served, an unpaid one is not for long | modelled |
| **Instagram comments** (`channels/instagram/instagram-comment.service.ts`) | set of processed comment ids, rows, replies | look up, classify, mark, record, answer twice | a comment is answered, once | modelled |
| **Inbound pipeline** (`instagram.service.ts` 664-895) | conversation memory (JSON) | read memory, engine, write memory, reply, create the order, trigger the sync | a turn sees what the one before left | partly: each stage in its own module |
| **Reply engine** (`conversations/reply-engine.service.ts`) | none of its own: memory in, memory out | one turn of a conversation | what is ordered was agreed to; who answers is served | partly: one axis, one category |
| **Policy engine**, **template engine** (`engine/`) | none | may the engine speak; which scenario can be rendered | | partly: as the engine uses them |
| **Instagram content** (`channels/instagram/instagram-content.service.ts`) | table `instagram_media_mappings` | fetch, caption pass, picture pass, requests of the staff, customers' posts | the links of the staff stay; a removed row stays removed | partly: not the photos of customers |
| **Catalog and availability** (`catalog/`) | products, variants, balances, categories | import a feed, import stock; check availability, search | the catalog is the feed | partly: no name matching |
| **Integrations** (`integrations/`) | connections, OAuth states, sync jobs | import requests and the jobs that report them | a job says what happened | partly: the jobs |
| **Demo widget** (`demo/`) | buffer of held HTTP requests, daily spend, rate limits | POST, debounced flush, janitor, charge | every held request is answered; the caps hold | partly: the buffer |
| **Reservations**, **classifier**, **Telegram**, **learning observer**, **size charts**, **auth, tenants, settings, admin, analytics, audit**, **simulator**, **admin app**, **schema and seeds** | | | | not modelled: section 7 |

### How they interact

A webhook is acknowledged first and handled afterwards (`instagram.controller.ts`
50-54). A comment goes to Instagram comments; an echo of the account's own message to
Human control; anything else is a delivery to the Debounced inbox. The poller (every
2 s) hands a batch to `processInbound`, which takes the Conversation lock, asks Human
control whether the bot may speak, reads the memory, runs the Reply engine (which asks
the policy gate, the catalog, the media links and the template engine), writes the
memory, sends, and may create an order, whose sync it triggers. After the inbox the
same tick gives expired conversations back (`autoResumeExpired`). n8n, Mono and the
catalog connectors call back on endpoints of their own and write the same rows without
the lock, as does the admin panel. Comments and direct messages share customers and
conversations. The demo widget shares only the engine and the conversations.

### What is hard

The list is in `PROJECT.json` under `hazards`, each at its line. In short: statements
of one operation on different pooled connections; read-then-delete, read-then-insert
and read-then-write of shared rows; saves nobody awaits; ticks that overlap; decisions
made on a row read before a call that takes seconds; time windows in place of identity;
rows deleted before the work on them is done; answers that are lost after the work was
done; restarts between any two of these; and, in the reply engine, some forty gates
that each look at a memory left by any of the others. `POLISHING_PHASE_PLAN.md` in the
repository lists defects its authors know of; the models were written from the code,
and several of those defects reappear in them.

## 2. Modules

| module | models | proofs |
|---|---|---|
| `ConversationLock` | the lock of `processInbound` over a pool of connections | `InboundProofs` |
| `DmInbox` | webhook handler, `pending_messages`, poller up to `processInbound` | `InboundProofs` |
| `HumanControl` | the three columns of a conversation and their writers | `HumanControlProofs` |
| `DemoBuffer` | `DemoMessageBufferService`, one session | `InboundProofs` |
| `OrderPromise` | what the sync of orders promises (abstract) | |
| `OrderSync` | checkout sessions, orders, n8n; implements `OrderPromise` | `OrderSyncProofs` |
| `Subscriptions` | the plan of one tenant, its cache, Mono | `SubscriptionsProofs` |
| `InstagramComments` | `handleComment` with the rows it finds or creates | `InstagramCommentsProofs` |
| `MediaLinks` | `instagram_media_mappings` and its writers | `MediaLinksProofs` |
| `CatalogImport` | catalog and stock imports, their transactions and jobs | `CatalogImportProofs` |
| `ReplyEngine` | one turn of `process` as operators | |
| `SalesDialogue` | a conversation of such turns, and the customer; EXTENDS `ReplyEngine` | `SalesDialogueProofs` |

`MC<module>` gives each its instances for TLC; the `.cfg` files carry the sizes.
Definitions whose comment begins with "Mutant" are deliberately wrong variants of a
definition near them; no specification uses them. They are there to show that each
property fails when the code is wrong in the way the variant is. Variables called
history guard nothing: they remember what a property has to be told.

**ConversationLock.** `held[s][k]` counts how often the Postgres session `s` holds key
`k`: advisory locks are re-entrant and belong to the session. `RequestLock` and
`Unlock` each pick *any* idle connection, because `dataSource.query` does. `Unlock` on
a foreign connection finds nothing (`missed`). `Grant` (wake a blocked statement),
`DeadlockAbort` (the deadlock detector fails one) and `CloseIdle` (the pool closes an
idle connection, which ends its session and its locks; `closed` remembers it) are
Postgres and the pool, marked external. `LockKey` maps conversations to keys and may
collide, as a 32-bit hash may.

**DmInbox.** Every SQL statement is an action. `hpc[m]` is the position of the handler
of delivery `m`; `pending` and `due` are the table; a tick is `at`, `todo` (keys
selected), `batch` and `key`. `overlapped` (a tick has started while another ran, which
the code allows), `raced` and `lost` (the two ways a queued row can disappear
unanswered) are history. `MaxFaults` bounds failed statements (`HandlerFails`,
`AbortTick`), vanished connections (`SkipBatch`) and `Restart`.

**HumanControl.** `status`, `needsHandoff`, `deadline` are the row. A batch walks
through `at`, an echo through `eat`, a poller through `pat`; `Boot` is the recovery of
`onModuleInit`, which has to end before anything is served. The status a handler read
is kept in `seen` and used by `EchoTakesOver`, as in the code. `CloseStale` closes a
conversation idle for 72 hours under whoever has looked it up. Clocks are abstracted: a
window (10 s after a send, 20 s after an outbound row, 5 min for a message id) is a set
that `WindowCloses` or `ForgetMid` may shrink at any time, and `DeadlinePasses` turns
`future` into `past`. An echo may come again (`EchoAgain`), the bot's own as well: its
message id is forgotten by then, and what keeps it out are the two windows. `by`, `taken`,
`overrun` and `delivered` are history: `taken` are the echoes the filters let through,
whether a manager wrote them (`ManagerWrote`) or the bot (`EchoMistaken`); `by`
becomes `poller` where a poller that was giving a conversation back clears the deadline
of a takeover that came in between, which is the one way such a deadline is lost
without a fault.

**DemoBuffer.** One session of the demo. An entry is named by the request that created
it. `Append`, `Lookup`, `Create` and `Schedule` are the stretches of
`appendAndSchedule` between awaits, `flush` the synchronous part of a flush,
`FlushAnswers` and `FlushRejects` its two ends. A timeout that fires flushes the
*session's* entry, whichever that is by then.

**OrderPromise, OrderSync.** `OrderPromise` is a machine of two variables: how far an
order has come (local, sent, accepted) and which orders are shown as synced; an order
is shown only when accepted. In `OrderSync` a call is one request of the admin panel or
the end of a turn. `at[c]` is its place between two awaited statements, `entity[c]` the
columns `updateStatus` holds in memory, and `diff[c]` the columns its save is going to
write, compared with the row one statement earlier; so a save can write a column back.
`tat[c]` walks through `triggerExternalSync`, `patient` marks the triggers inside
`withRetry`. n8n takes a request (`posts`), works on it once or refuses it, and
answers with callbacks that may be late, repeated or lost: `created` with the shop's id,
`createdNoId` without, which the DTO allows and which clears the column, or `failed`.
`raced`, `lost`, `overwritten` and `idless` (reported as created without an id) are history.

**Subscriptions.** One row of four columns, in memory and in the table, or none: a tenant
older than subscriptions has no row, `isActive` serves it, and an upgrade stores its
subscription id nowhere (`UpgradeUnrecorded`). A saver (a webhook, a cancellation, the
cron, the operator) finds, changes, compares and saves, and then drops the cache, all but
the operator's (`AdminWrite`), which drops nothing; a reader computes the answer from an
earlier read and fills it. Webhooks arrive in any order. `Updates` is what the operator may
ask for, with `kept` for a field left out. `trialEnd` and `lapsed` are the clock.
`charged`, `granted`, `unrecorded`, `overwritten` and `outdated` are history: a charge that
was credited stands until the operator overrules it.

**InstagramComments.** `call[h]` is one call of `handleComment`: where it is, its
comment, the conversation it has found, the attempts that failed. `processed` is the
set in memory that forgets. Every statement of `findOrCreateCustomer`,
`findOrCreateConversation`, `saveMessage` and the two sends under `withRetry` is a
step; a send may fail, or work and lose its response, and is then tried again. Inserts
fail on the unique index of customers and of conversation states; conversations have
none. Which of several open conversations is found is a choice.

**MediaLinks.** `rows` is the table by media, `job[f]` a fetch with its passes
(upsert, captions, stories, posts), `saving` the saves of the caption pass that were
sent and not awaited, `edit[e]` a request of the staff between its read and its write.
`Patches` are the requests `updateMapping` may get, each field given or left out (`Kept`),
and `createManualMapping` takes a product or none.
A save writes the whole row it holds, inserts it again when it is gone, and ends the
process when it is refused unawaited (`SaveMatchFails`, `Restart`). What a model
recognises is a choice; what a caption names is a constant of the instance. `asked`,
`staffed`, `crossed`, `vouched`, `removed` are history.

**CatalogImport.** `db` is what is committed, `mine[i]` what import `i` wrote and has
not committed. A transaction sees both, holds what it wrote, and waits for what another
holds (`Waits`); two that wait for each other are broken up (`DeadlockFails...`). Every
entry and every variant of it has a savepoint: what fails in it is undone and reported.
Unique indexes are those of the schema: products by external id, variants by bar code,
categories by lower-cased name, balances none. `job[r]` is the sync job, whose
statements are outside the transaction; the answer of a commit may be lost
(`CommitUnheard`). A stock list is saved item by item without a transaction. What one
entry writes is a relation (`Outcomes`): which rows its variants are written to
(`Targets`: a `findOne` without an order may return any of several, but the same one for
every repetition of a variant in the entry), which of them are saved (`Saved`: the
statements run in order, and the index on bar codes refuses what an earlier one took),
and which balances are found or inserted (`Homes`, `Balances`). `Over(f, g)` puts the
rows of one over those of the other: a transaction over the table, an entry over a
transaction. The rows of `product_media` are not in the tables; that an entry which sends
pictures replaces them is (`ReplacesMedia`, in `wrote`).

**ReplyEngine.** One turn is a function of the memory and of how the classifier read
the message. Each numbered stage of `process` is an operator on a context `c`, which
holds the memory `c.m`, the classification `c.t` the stages rewrite, the products
found, and how the turn ends (`c.out`, "going" until it has): policy gate, answers to
pending questions, greeting and post-order resets, cart additions and removals, pivot
to another product, media, narrowing and focus gates, search and its locks, questions,
the stages 5.5 that resolve a variant, decline or check out, the template engine's
choice of a scenario it can render, the update of the memory, the order. `Process`
applies them in the code's order.

**SalesDialogue.** `mem` is `contextJson`; `Turn` replaces it by what `Process` makes of
it. `Wander` is any message at all, `Whims` times; `Buy` is a customer who answers what
was asked (`Answer`). Beside the memory, which only says what the *engine* believes,
`agreed`, `presumed`, `swapped` and `refused` say what the *customer* did. A yes is to what
is on offer (`OnOffer`: asked about, and a variant of the product that is shown), but not
under the photo of another product, and to what the message asks for itself; a message
that wants something more takes what is on offer, but not with a word that takes something
away. `Presumed` is the selection that was not on offer when the customer said yes to
another question, and that the search then set off puts on offer and orders with that same
yes (`FirstShown`). `Mixed` items are those whose variant is of another product than the
one they go by. `Messages` is
any set of `Readings` in which who names the category only is browsing and names no
size; the proofs are for all of them, the run takes the readings whose difference the
engine notices.

## 3. Runs

Each run asks a distinct question and explores every reachable state of its instance.

| run | instance | checks |
|---|---|---|
| `lock` | 4 calls, 2 connections, 2 conversations, fairness | `InsideShareSession`, `HoldsAccounted`, `WaitsOnlyBehindLeak` |
| `inbox` | 3 deliveries, 2 customers, 2 ticks that may overlap, 1 fault, fairness | `NothingVanishes`, `HandedOnceWithoutOverlap`, `QueuedIsAnswered` |
| `control` | 1 conversation, 1 batch, a manager, 2 pollers, startup, admin, 1 fault, fairness | `ManagerIsTimed`, `OnlyOverrunReplies`, `NoResumeBeforeReply`, `DueIsResumed` |
| `demo` | 3 requests, 2 faults, fairness | `EachTextOnce`, `EntryIsFlushed`, `WaitingIsAnswered` |
| `orders` | 1 session, 2 orders, 3 calls, 1 fault, fairness | `SessionIsBacked`, `SecondDraftOnlyByRace`, `SyncedHasItsId`, `KeepsPromise`, `PendingIsAnswered` |
| `subscriptions` | a tenant with a trial or without a row; 1 upgrade, 2 of 2 webhooks, 1 cancellation and 1 update of the operator (of 3 kinds), cron, 1 reader, 2 savers at a time, any failed statements and restarts, fairness | `CacheIsTrue`, `PaidStaysPaid`, `ServedHasPaid`, `OverIsNotServed` |
| `comments` | 2 comments of one customer, 2 handlers, 3 attempts, 3 faults, one pause of 72 h, fairness | `AnsweredTwiceOnlyByRace`, `OpenTwiceOnlyByRace`, `TakenIsAnswered` |
| `links` | a post and a story, 1 fetch, 2 requests of the staff (5 kinds of update, additions, removals), 3 rows | `StaffLinkLostOnlyToCaption`, `GuessConfirmedOnlyByRace`, `MixedOnlyByStaff`, `RemovedReturnsOnlyByRace` |
| `catalog` | 2 feed imports, 1 stock import, 2 products, 2 variants, 2 bar codes, two casings of a category, 5 feeds, with pictures and without, one of which lists a variant twice in one entry, 1 fault | `CatalogTypeOK`, `CatalogMirrorsFeed`, `ResendIsQuiet`, `JobTellsTheTruth`, `DoublesOnlyByOverlap` |
| `dialogue` | 2 products in 2 sizes, one variant sold out, 3 free messages of 95 readings, 7 answers | `ShippedWasAgreed`, `SwappedNeverShips`, `DeclinedReturnsOnlyAlone`, `BuyerIsServed`, `AnswersClose` |

Two more runs check one sentence of the repository each, and TLC refutes it:

| run | what the repository says | what happens |
|---|---|---|
| `lock_exclusion` | "Acquire advisory lock on conversation to prevent concurrent processing" (`instagram.service.ts` 673) | the pool gives two calls the same connection, on which the lock is re-entrant (`MutualExclusion`) |
| `catalog_casing` | "deduplicates categories case-insensitively" (`apps/api/test/catalog/catalog-import.e2e-spec.ts` 193) | two casings of a new category are both inserted, the index refuses the second, and the whole import is undone (`CasingsAreOneCategory`) |

### What they show

Most properties name the causes of a bad outcome, and so say that there are no others.
The causes they name are in the code, each with its line under `hazards`.

* *Lock.* Until the pool closes a connection that holds a lock, a second call enters
  only on the first one's connection, and the holds of a key are the calls inside plus
  the unlocks that missed. A call that never returns waits behind a leaked lock, and for
  no other reason: not behind a call that is inside, nor in a pool whose connections all
  wait. That a leaked lock may last is what `POLISHING_PHASE_PLAN.md` (#3) says; the pool
  closes a connection after ten unused seconds, hands out the last one given back first,
  and is asked for one every two seconds, so nothing obliges it to close the right one.
* *Inbox.* Until ticks overlap nothing is handed over twice. A queued message is lost
  in one of two ways only: inserted between the find and the delete of its key, or
  deleted before a fault.
* *Human control.* A reply into human hands comes only from a batch that was past its
  check; the poller gives back only a conversation a manager wrote in, or in which an echo
  of the bot's own text, late or sent twice, passed the filters as a manager's; a conversation
  a manager took has a deadline, but after a fault or where a poller cleared it while
  giving the conversation back.
* *Orders.* What the merchant sees is the machine of `OrderPromise`, through stale saves
  and repeated callbacks; a session has two drafts only when two requests held it at
  once or a save between the two failed; an order is synced without its external id only
  when n8n once reported it without one or `updateStatus` wrote a column back; pending ends unless a request or an answer
  was lost.
* *Subscriptions.* The cached answer is the row's, until a saver that has written drops
  it, but where it was read before a save, time has passed, or the operator has saved. A
  paid plan is undone only by the operator or by a stale save, and served is who has no row,
  a trial that runs, a charge that was credited or a plan the operator gave. What has ended
  and stays so is not served for ever, whoever ended it.
* *Comments.* A second private message needs a redelivery before the decision, one
  after the set has forgotten, or a lost response. Two open conversations need two
  handlers between find and save.
* *Links.* A link the staff gave a post, with nobody else at work on it, is lost only to
  the caption pass of a later fetch: `productId: undefined as any`, at
  `instagram-content.service.ts` 1346, is no condition to TypeORM, and linked media are
  matched again. A guess passes for confirmed only where the staff confirmed it, or the row
  before it had a product, across a race with the staff, or by a caption; a variant is
  another product's only after the staff changed the product or the variant;
  a removed row returns only with somebody who had read it.
* *Catalog.* After an import that met no other, of a feed that lists everything once,
  the catalog is the feed, and sending a feed without pictures again changes no row of
  products, variants, stock and categories. Rows are doubled only when requests met, or one
  product of a feed lists a variant twice. "Idempotent diff-based: same payload twice
  produces zero writes" (`catalog.service.ts` 261-263; `internal.controller.ts` 72-73) is not
  true of a feed with pictures: step 3d (lines 405 to 421) deletes the rows of
  `product_media` at every import and inserts them again with `clip_embedding` null, until
  the worker has filled it in. `ResendIsQuiet` leaves such feeds out for that reason. Nor is
  it true to the letter of any feed, since `last_synced_at` is written each time.
* *Dialogue.* However the messages are read, nothing ships that the customer did not
  say yes to while it was on offer, or name with the yes or with the details of the delivery,
  since the last order; nor does what was named as unwanted while changing to another
  product, in focus or not. Both have the same two exceptions, which the code has as well. A
  selection may outlive the product it was of: after the photo of another product and a yes,
  the stale variant is put in the cart under the other's name, what the comments at 1002 to
  1010 and 2045 to 2047 of the reply engine call a bug (`Mixed`). And a yes to another
  question, such as whether to search without the size, sets off a search that puts the old
  selection on offer, and is then taken for a yes to it (`presumed`). A variant that was
  turned down is offered
  again only when it is alone; and whoever answers what is asked has an order, or a human,
  within seven answers, each of which leaves fewer to give. That is of every memory but
  the stray ones (`Stray`), and those do hold the customer (`StrayIsHeld`): a variant is
  selected while one is asked for, and the title the product goes by is of nothing that
  was shown. Whoever names a size in stock is heard, but 5.5b to 5.5d select only where
  nothing is selected, and without a price (`buildVariableMap`) no template of the
  confirmation can be filled, so the fallback leaves the memory as it was. Four free
  messages in a row lead there: one product is on offer; a choice that names another
  changes the title alone (lines 6527 to 6536 of the reply engine); the customer asks which
  variants there are, and `ask_variant` clears the selection; a question about the delivery
  with a size latches the variant and keeps the state, since `answer_delivery` is not on
  the deny-list of lines 4045 to 4058. The three messages of the run do not reach it, the
  theorems cover it. Where the title is one that was shown, a variant that is selected
  too early holds nobody: it is offered, or asked for once more and dropped. From
  a stray memory a message of another kind leads away. An order is one with something in it: `process`
  sets `orderCreated` and says that the order is placed before it asks `buildOrderPayload`
  for it, so who sends the details in a message that asks for another product in place of
  the only item of the cart is told so and has none. A customer who only answers never
  meets that.

### Bounds

* *Lock*: a leak needs two calls and two connections, stealing a lock a third call, and
  a deadlock of the pool two conversations and every connection waiting; four calls let
  a leak, a re-entry and a waiter meet. Colliding keys are to the lock one conversation,
  so the instance has distinct ones. Safety is proved for every size and assignment.
* *Inbox*: the races are between one handler and one tick or two ticks over one key; the
  third delivery belongs to another customer, so that mixing would show.
* *Human control*: every race found has at most a batch, two pollers and a message of a
  manager in one conversation, and the proofs cover any number of each.
* *Demo*: two first requests side by side, and a third that appends to the entry that is
  left, or arrives after its flush; with two faults both a save and a flush may fail.
* *Orders*: two orders are what a session can wrongly have; three calls let a status
  change, a trigger and a callback's order overlap on one of them.
* *Subscriptions*: `Parallel` savers hold the row at one time, and two are what a stale
  save takes; two calls of the operator, the tenant and the provider in all (`Calls`) are a
  charge and what undoes it. A second upgrade, whose webhooks no longer find the plan, makes the run
  too long and is not in it; that a webhook finds no plan for this reason only is proved
  (`UnknownsAreReplaced`).
* *Comments*: two deliveries, of one comment or of two; three faults, so that every
  attempt of a send may fail (`MaxAttempts` is 3 in the code); one pause of 72 hours.
* *Links*: one fetch with both passes over both kinds of media, two requests of the
  staff crossing it and each other; `MaxRows` lets every medium be inserted and one
  come back. The updates are those of the panel (a link, its removal) and three that give
  one field alone. The customer and `Restart` are unbounded but for it.
* *Catalog*: two imports and a stock list cover every pair that can meet; the feeds hold
  a variant that moves to another product, bar codes that swap, a product that comes
  back, quantities below zero, pictures, a variant listed twice in two entries and in one,
  and nothing at all; the tenant
  begins empty or with an archived product.
* *Dialogue*: three free messages, with the answers that may come between, put one item in
  the cart, another on offer and a question of the engine between them. Two products are
  what a pivot, a removal and a photo of another product take. All the run checks is also
  proved, for any catalogue of one axis and any number of messages; the run is what says
  that the properties fail where the code is changed.
* `MaxFaults` bounds failed statements, lost responses and restarts together; in
  `Subscriptions` they are unbounded.

No run uses symmetry. Deadlock is checked in `lock`, `inbox`, `control`, `demo` and
`orders`, where a behaviour may end only where the model says everything is done. In
the others everything is bounded (requests, rows, messages), and a behaviour in which
all of it has happened is over.

### Fairness

Only weak fairness, and only of what the code's runtime guarantees:

* an awaited statement or request returns, if with an error: handlers, ticks, batches,
  savers, readers and triggers that are under way go on (`TickStep`, `PollStep`,
  `CallStep`, `TriggerStep`, `Save`, `Caches`, `Handles`);
* `setInterval` starts ticks for ever, timeouts fire and time passes: queued rows become
  due, the cache of the subscriptions expires. Their daily cron is *not* fair
  (`isActive` has to look at the trial's end by itself), and in `HumanControl` only the
  pollers are: what is due is served whatever everybody else does or leaves;
* Postgres wakes waiters that may have the lock and breaks deadlocks after
  `deadlock_timeout`. That the pool closes an idle connection is *not* fair: one that is
  used every two seconds is never idle for ten;
* n8n works on a request it has, and a callback it sent arrives. That either is lost is
  an action of the model (`lost`), and the property excludes it.

Nobody is ever obliged to write, release, take over, pay or fail. In `DmInbox` the
assumption that `processInbound` returns holds, for the time it spends at the lock, only
while no lock is leaked (`WaitsOnlyBehindLeak`): a leaked one stops the ticks that hand over
to that conversation, and other ticks go on. `catalog`, `links` and `dialogue` assume no fairness: `BuyerIsServed`
is stated as an invariant over a bounded number of answers, `AnswersClose` as a step that
lowers the number of those that are left to give, which is proved.

## 4. Proofs

Every module but `OrderPromise`, which is only implemented, is proved about with TLAPS,
for any number of calls, messages, orders, products, feeds, requests and faults, from the assumptions named in the modules (`LockAssumption`,
`InboxAssumption`, `HumanControlAssumption`, `DemoBufferAssumption`,
`OrderSyncAssumption`, `SubscriptionsAssumption`, `CommentsAssumption`,
`LinksAssumption` with `NoneIsNoRow`, `ReplyEngineAssumption` with
`SalesDialogueAssumption`, `CatalogAssumption` with `ShopsAssumption` and
`FeedsAssumption`): names are distinct, functions have their domains, bounds are numbers;
for the lock, there are finitely many calls; for the dialogue, finitely many products and
sizes, something in stock, and in-stock sizes that are carried; for the catalog, feeds of
the form the validation of a request lets through, and a tenant whose tables begin in
their shape, with a bar code for one variant and nothing doubled. Eight modules hold the
proofs of ten: `InboundProofs` has those of the lock, the inbox and the demo buffer. Every argument is
an inductive invariant: it holds initially, every action preserves it (one lemma or
step per group of actions, one step per conjunct the action can disturb), and the
property follows.

| theorems | state | what the invariant needs besides types |
|---|---|---|
| `LockTypeCorrect`, `InsideSharesSession`, `LockIsNotStolen`, `HoldsAreAccounted` | the safety of the lock until a connection that holds it is closed | `Accounted`: for each key nobody holds it and nobody counts, or one session holds it exactly as often as there are calls inside and missed unlocks, and *every call inside locked on that session*; `MissedDone` |
| `InboxTypeCorrect`, `InboxNothingVanishes`, `InboxBatchIsOneCustomers`, `InboxHandedOnce` | the safety of the inbox | `FoundCovers`: the rows a delete will remove were read by its tick or are in `raced`; `HandedIsGone`: a handed message is where no tick finds it again; `OneTick` |
| `HcTypeCorrect`, `HandoffStaysHuman`, `RepliesAreOverrun`, `ResumesAreReplied`, `ManagersAreTimed` | the safety of human control, two of them about steps | `FlightKnown`: a batch in flight whose conversation a human holds is on record; `DeadlineReplied`, `ListReplied`: a deadline, and a place on a poller's list, comes only from an echo that was taken for a manager's; `ClearKnown` |
| `DemoTypeCorrect`, `TextsTakenOnce`, `NoEntryStranded` | the safety of the demo buffer | `EntriesAreFresh`: an entry in the map was never flushed and its creator will not put it there again; `ResolversAreSaved` |
| `OrderTypes`, `SessionsAreBacked`, `SecondDraftsAreRaces`, `SyncedOrdersHaveIds`, `OrderSyncKeepsPromise` | the safety of orders, and that every step is a step of `OrderPromise` or none | `SyncKnown`, `EntityKnown`: what says synced, in a row, in the memory of `updateStatus` or in a callback, is of an order the platform has; `Alone`, `SessionOpen`: a session nobody raced on has at most one call half way, and an order while one is only if that call has just saved it; `CallKnown`, `InHand` |
| `SubsTypes`, `CacheTellsTheTruth`, `PaidPlansStayPaid`, `UnknownsAreReplaced`, `OnlyPayersAreServed` | the safety of the plan and its cache | `Fresh`: an entity that is not `stale` differs from the row only in what its saver changed; `NothingPaid`: before a charge is credited, or a paid plan given, nobody is about to write a paid row but the webhook that credits it and the operator who gives it; `SubKnown` |
| `CommentsTypes`, `AnsweredTwiceByRace`, `AnswersRecorded`, `OpenTwiceByRace` | the safety of comments | `OnePath`: a comment with none of the three causes is on its way in one handler, or sent; `Marked`: a comment that was taken is in the set or was forgotten; `Behind`: the rows a handler is past are there; `Alone`: while no two have met, one handler is between find and save, and what it found is still so |
| `LinksTypes`, `StaffLinksLostToCaptions`, `GuessesConfirmedByRace`, `MixedByStaff`, `RemovedReturnsByRace` | the safety of the links | `HoldersOK`: what a request, an unawaited save or a pass has in hand (a save follows from the caption alone; what the picture pass works on was not the staff's, or is crossed); `IdsOK`: an id is given once; `CopiesOK`: of a removed row there are copies only where somebody held one then; `ConfirmedIsLinked`, `PostsOK` |
| `DialogueTypes`, `OrdersAreAgreed`, `SwapsStayOut`, `RefusedReturnsAlone`, `AnswersAreClosed`, `StrayIsHeld`, `BuyersAreServed` | the safety of the dialogue, that every answer is a step to its end but from the memories that hold the customer, and that seven are enough | `Remembered`: the memory is of its type, a conversation at the cart or the checkout has a product and a cart that is not empty, and after the question for delivery details with an empty cart nothing is selected (`Unpicked`); `CartWasAgreed`, `OrderWasAgreed`; `Quiet`: only a conversation that waits for a product has the widening question open; `Listed`: what is available was shown, and a product with variants is selected only once some were; `Answering`: the answers given and those left (`Left`) are seven at most |
| `CatalogTypes`, `JobsTellTheTruth`, `DoubledByOverlap`, `TablesMirrorFeed`, `ResentFeedIsQuiet` | the safety of the catalog | `TablesOK`: the tables keep their shape, and would keep it if any open import committed now; `Told`: the place of an import says what it has committed; `SinglesOK`: while nobody met, what is committed and what any import sees is there once; `OpenOK`, `LastOK`, `QuietOK` |

Two of them need more than a table:

* *The dialogue.* `Process` is some sixty operators applied in a fixed order, so the
  proof is one about what each leaves of a context, and no step of it looks back. While a
  message is read (`ClassifyMessage`) the memory is what was remembered (`Recalled`), or
  what a reset left of it (`Fresh`), and everything in the cart was agreed to. From
  the search on it is `OnTrack`: what is selected either was what the engine had in mind
  before the turn, or is what this message asks for (`Held`), and where nothing is left of
  the former it is the latter (`Chosen`). A confirmation that finds the remembered variant
  selected at stage 5.5a has had it on offer, presumed it, or has another product beside it
  (`YesIsClassified`, `YesFindsNothing`, `ResolvesOnTrack`). At the end (`Answered`) an order
  is of the cart, or of one selected variant the customer asked for in this turn.
  `After(t)` is the set of what has been agreed to or presumed by then; `RefusedReturnsAlone` is a
  separate pass through the same stages for the one kind of message that is a refusal.
  `AnswersAreClosed` is another, for the messages that answer what is asked. `Left` ranks
  the memories by the answers that are left: 1 to 3 for the details of the delivery, the
  readiness to check out and the yes to an offer (`DetailsAreOrdered`, `ReadyChecksOut`,
  `YesIsTaken`); up to 7 for the ways to an offer, which are a size where one is awaited
  (`ConfirmedSizeIsOffered`, `FilledSizeIsTaken`, `SizeCloses`) and a product that is named
  where none is (`LeaveIs`, `RemovalIsAsked`, `NamedIsFound`, `BrowseCloses`); 5 after an
  order, from where all is reset (`OrderedCloses`). `AnswersAre` says that there are no
  other answers, `AnswerCloses` puts the cases together. The rank is of the memory and of
  what the customer wants now: a customer who begins to answer may want something else
  than before, and the step compares both memories for the later wish. The invariant
  needs `Quiet`, without which an answer might be read as one to the widening question,
  and `Listed`, without which a size might be asked of a list that was never shown: a pass
  through all stages of its own (`ListedStays`). `StrayIsHeld` says that the exception is
  exact, for the same turn (`SelectedIsSaid`) ends in the memory it began with.
  From `AnswerCloses` the count of answers (`Answering`) is arithmetic, and
  `BuyersAreServed` follows for any `Patience` of seven or more.
* *The catalog.* What one entry writes is chosen among rows other transactions may
  hold, so the invariant is about what each import *would leave* (`View`): that is of the
  right shape, a bar code is one variant's in it, and no two imports have written the same
  code (`Apart`). A code another statement of the same entry took is refused by
  `Refused`; that `Saved` leaves no clash is shown by looking at the later of two writes
  (`Last`, which exists by well-founded descent over the finite set of positions, with
  `LastIs`). For the mirror: an import that has met nobody is undisturbed
  (`Undisturbed`), an id is given once (`FreshOK`), rows are never re-targeted (`Kept`),
  the entries an import is past are mirrored in what it sees (`Faithful`), one entry
  mirrors itself (`MadeMirrors`) and leaves the others mirrored (`MadeLeavesMirror`);
  stock lists afterwards touch one variant, which is in `restocked` from then on
  (`StockWritesOne`). For the second sending: an entry that is mirrored already writes
  rows that are there (`QuietEntry`).

Type invariants of all modules but the catalog's, `HandoffIsHuman`, `LockNotStolen`,
`BatchIsOneCustomers`, `NeverStranded`, `UnknownOnlyIfReplaced` and `AnswersAreRecorded`
are theorems and not among the runs' properties: a proof for every size says more than a
small instance.

The properties of the lock end with the first connection that is closed while it holds
a lock (`closed`): a call may then be inside without a lock, and its unlock may take
somebody else's.

## 5. Only model-checked

* Everything temporal: `WaitsOnlyBehindLeak`, `QueuedIsAnswered`, `DueIsResumed`,
  `EntryIsFlushed`, `WaitingIsAnswered`, `PendingIsAnswered`, `OverIsNotServed`,
  `TakenIsAnswered`. They rest on fairness, which the prover does not handle.
* The two refuted sentences, which are counterexamples and not theorems.

No safety invariant a passing run checks is left without a theorem, and no action property.

## 6. What is left

In this order:

1. The composition of `ConversationLock` and `SalesDialogue`: what the memory loses when
   two batches are inside the lock (`InsideShareSession` says when that happens).
2. `DemoBudget`: caps read before they are charged, and by how much they can be overshot;
   the rate limiter's windows.
3. The second axis of the reply engine (colour and the two-step choice), several
   categories, and size charts.
4. The learning observer's pairs and Telegram's connect tokens, both small.

The inbox as a multiset of messages each delivered at most once would be an abstract
specification that `DmInbox` implements only where ticks do not overlap and nothing is
raced, and the lock as a mutex one that `ConversationLock` implements only with one
dedicated connection per call; what is true of them is stated as invariants instead.

## 7. Not modelled, and why

* *Reservations*: no other module calls the service; a cron runs over a table nothing
  fills.
* *Classifier and language models*: prompts, and parsing of what an external model says.
  Its answers are inputs of `SalesDialogue`: any of `Readings`, but that who names the
  category only is browsing and names no size.
* *Size charts, wording, similarity of pictures*: lookups, text and numbers; no state
  that interleaves.
* *Telegram, learning observer*: best-effort sends and training data that change no
  conversation and no order.
* *Auth, tenants, settings, admin, analytics, audit*: single-row CRUD and reports.
* *Simulator, scripts, seeds, the admin application, infrastructure*: not part of the
  running system, or its effects enter as actions of the models.

Inside what is modelled, the following is left out:

* `HumanControl`: the manual reply endpoint, which stores a message and sends nothing.
  The three attempts of a send are one send.
* `DmInbox`: contents, media, and the order of messages inside a batch (the code sorts
  them by their time of creation).
* `DemoBuffer`: what an answer says, the budget (`FlushAnswers` covers both outcomes,
  since both resolve every request), and the shutdown of the process, which closes the
  held requests anyway.
* `OrderSync`: what an order contains. A session's `expiresAt` is written and never
  looked at, so it is not there.
* `Subscriptions`: `checkConversationLimit` and `incrementConversationCount`, which have
  no caller, and `updatePlanConfig`, which touches none of these columns. Two updates of the
  operator that find no row at the same time make one each (no index forbids it); here one
  at a time makes it. `cancelPlan`
  does not tell Mono to stop, so charges go on arriving in the model as well.
* `InstagramComments`: the pictures of the private message, wording, the user name of the
  customer. The classification is a choice.
* `MediaLinks`: rows of customers' photos, which are inserted or ignored and never
  updated; the inheritance of a link from a source post, which never runs because no
  address of a source is ever stored; hashes and embeddings. A TypeORM `save` of a row is
  one step.
* `CatalogImport`: the rows of `product_media` (that they are replaced is in `wrote`) and an
  empty list of pictures, embeddings, prices and texts beyond one column; `PATCH
  jobs/:id`, by which a connector may set any status; OAuth.
* `SalesDialogue`: what is in stock does not change during a dialogue. The code keeps what
  was available in the memory and does not look again before an order, so a variant that is
  sold out between the showing and the yes is ordered; no property here says otherwise.
* `ReplyEngine`: colours and two-step choices, more than one category, ranking, size
  charts, questions before a search, welcome and secondary answers, failures of the
  language models and the counting of failed turns, the subscription gate, and the columns
  of `conversation_states` beside `contextJson`. Observed in it and allowed by the
  properties: an item in focus that the customer asks to remove stays in the cart and
  ships (only an item given up for another product is sure to leave); a sole variant that
  was turned down is offered again; a message with the delivery details that names a
  product orders its variant without a question; and a yes may order the variant the
  engine still has in mind while another product was shown or named since.
