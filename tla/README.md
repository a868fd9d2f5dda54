# WhatPilot backend: specifications

TLA+ models of the WhatPilot backend, a Go server that sends WhatsApp messages for Shopify
shops: order confirmations by poll, reminders, notifications, broadcasts, manual sends. This
directory says what the concurrent and failing parts of that server do, checks it with TLC on
small instances, and proves the central properties with TLAPS for every instance.

Source paths below are relative to the repository.

## The system

One process, one SQLite file. `store.New` limits the pool to one connection
(`store/db.go:27`), so a statement is atomic and statements of different goroutines are
serialised; a function of several statements interleaves with every other one. Only
`PurgeShop` and `PurgeCustomer` use a transaction. Open rows keep the connection as well, and
a statement issued meanwhile waits for it, without a time limit. Most writes drop the error of their
`Exec`, most reads that of their `Scan`: a count is then 0, a row not found. The modules have
this as `DropError`, bounded by `MaxDropped` and counted in `lost`, or, where no property
counts it, as a free choice. Nothing waits for running goroutines at shutdown.

| Part | State it keeps | Operations | Talks to |
|---|---|---|---|
| job queue (`store/db.go`) | `pending_jobs`: status, attempts, scheduled_at | enqueue, fetch ready rows, claim, complete, fail, reschedule | webhooks write, worker reads |
| worker (`worker/worker.go`) | none of its own; goroutines with row snapshots | a tick each 10 s, one goroutine per row; a reminder tick each minute | queue, quota, logs, WhatsApp manager, order tags |
| message logs (`store/db.go`) | `message_logs` | create, set status, count today's | worker, manual send, replies |
| plan quota (`store/db.go`, `handlers/billing.go`) | `settings`: plan, limit, count, reset time, line item; `auto_upgrade_logs` | check, reset, upgrade, charge, count, choose plan | Shopify billing |
| confirmations (`store/db.go`, `main.go`, `handlers/shopify.go`) | `pending_confirmations`, one row per shop and phone | store, pop by vote or text, delete | webhooks, WhatsApp events, order tags |
| reminders (`worker/worker.go`) | `reply_reminders` | create, fetch, complete | worker, message logs |
| order tags (`handlers/order_tags.go`) | tags at Shopify | remove the other status tags, add one | worker, confirmations, tokens |
| manager and registry (`whatsapp/`) | one client per shop, its status, pairing state, subscribers | connect, pair by code or phone, disconnect, log out, reconnect, send | WhatsApp |
| tokens (`store/sessions.go`, `store/shop_tokens.go`) | session, refresh token, re-auth flag | store, refresh, migrate, invalidate, flag | Shopify |
| contacts (`store/db.go`, `handlers/broadcast.go`, `handlers/contact.go`) | `contacts`: opt-out, last order | upsert, opt out, broadcast, win back, delete, purge | webhooks, WhatsApp events, queue |
| templates and automations (`store/db.go`, `handlers/automation.go`, `handlers/template.go`) | `templates`, `automations` | seed, edit, heal and merge at the start | dashboard pages, webhooks |
| connection pool (`store/db.go:27`) | one connection | take, give back | every statement |
| reports and admin (`store/admin.go`, `handlers/analytics.go`) | none | statistics, revenue, merchant detail, purge | pool, contacts |
| rate limiter (`middleware/ratelimit.go`) | a bucket per shop | allow, evict | HTTP routes |

Hard behaviours: overlapping ticks with stale snapshots; check-then-act on counters; sends
that fail after they succeeded; lost writes; death of the process between two statements;
webhooks that arrive twice, late or reordered; pairing flows that outlive their manager's
state; rotating refresh tokens; check-then-insert without an index; a pool of one. `PROJECT.json` lists each at its line under `hazards`.

What makes each part correct: a job is sent successfully at most once and ends; no row has
two owners; limits are overshot only by what overlaps; no upgrade is free, none is charged
twice; a decision of the customer is the customer's, and is taken once; a cancelled order
asks nothing any more; an order shows one status; a manager that says "connected" has a
client; a refresh token is used once; an opted-out customer is not written to; a default is
seeded once; nobody waits for a connection he has.

## The modules

| Module | What it is |
|---|---|
| `DeliveryPromise` | abstract: the life of one message, without goroutines, rows or network |
| `JobQueue` | `pending_jobs` and `process()` of the worker, one action per statement or network call |
| `Reminders` | `reply_reminders` and `tickReminders` of the worker |
| `PlanQuota` | the monthly allowance of one shop: reset, check, upgrade, charge, count, plan choice |
| `Confirmation` | the row of one customer in `pending_confirmations` and the conversation around it |
| `Audience` | one customer's contact and opt-out, and who queues messages to him |
| `ShopTokens` | the access tokens of one shop: session, fallback, re-auth flag |
| `OrderTags` | the tags of one order, extending `ShopTokens`, which its calls read and change |
| `Seeding` | the default templates and automations of one shop, and the repairs of a start |
| `ConnPool` | the one database connection, and the operations that take it more than once |
| `Pairing` | one shop's WhatsApp manager: pairing flows, status, reconnection, removal |
| `..._proofs`, one each for `JobQueue`, `Reminders`, `PlanQuota`, `Confirmation`, `Audience`, `OrderTags`, `Pairing` | the theorems and their lemmas |
| `Store_proofs` | those of the two components inside `store/db.go`, `Seeding` and `ConnPool` |
| `MC...` | small instances for TLC |

### JobQueue

State: `status`, `attempts` and `due` are the row; `pc`, `job` and `log` a goroutine of
`process()`. What `MessageCountToday` counts for a customer is `sentToday`, the worker's
messages, with `otherToday`, the reminders, replies and manual sends that `OtherSend` adds and
that nobody checks against the cap. `delivered` and `acked` are history. A goroutine goes through `Fetch` (the row is in a tick's result),
`ClaimJob`, `CheckPlan`, `CheckCap`, then `Defer` or `OpenLog`, `Send`, then `FailJob` or
`CompleteJob`, `MarkLogSent`, `TagOrder`. The plan check and the sending window are free
choices: both depend on state that changes at any time. The cap is a constant; the code reads
it with each job. Settings that were not read are zero: no cap, and a sending window that no
hour is in, so that such a goroutine (`"unread"`) can only defer. A count that was not read is
0 and passes. `Send` may fail with or without the message having left. `Restart`
removes every goroutine and leaves the rows, which is what starting the server does.

`DeliveryPromise` is the view of a client: goroutines, snapshots and `due` are hidden
(`PhaseOf` maps a status to a phase, tries are attempts, copies are deliveries).

### PlanQuota

State: the plan columns of one `settings` row (`row` says whether it exists), the usage
records Shopify holds (`charges`), the upgrade log, and the callers. A caller is a worker
goroutine, the manual-send endpoint, a reply (counted by `LogOutboundMessage`, never
checked) or a page that reads the settings (which can reset the count, like all the others).
The merchant's plan choice is two steps, its SELECT and its write; an upgrade is three, its
charge, its UPDATE (`Upgrade`) and its log row (`LogUpgrade`). Each of these statements, a reset
and a count may fail and be passed over; a failed read of the limit is an error
(`AfterError`). Of the log only the rows with a charge are kept in `upgrades`. The anniversary
(`resetAt`) and the calendar month (`month`) are independent clocks. `period`, `peak` and
`excess` are history.

### Confirmation

State: `entry` is the row, `got` and `branch` what a vote handler carries through the
handler of `main.go`. Votes name a question and an option and no order, since the options are
template texts all orders share. A text and a withdrawn vote carry no options at all.
Webhooks have a step before and one after the queued poll, and may be repeated (an order's
extra triggers, redelivery) or reordered. Message events are handled one at a time per
client by the WhatsApp library (`Handlers` has one member in the runs); webhooks interleave.

### Reminders

State: `status` is the row (`waiting` and `due` are both "pending"), `replied` what
`HasRepliedSince` finds, `active` the automation's switch, `pc` the goroutines of each row. A
goroutine is `Fetch`, `CheckReply`, `CheckActive`, `Send`, `CompleteReminder`. Nothing claims
a row: later ticks start further goroutines for it. `Send` may fail with or without the
message having left; `Restart` removes the goroutines. A reply that cannot be looked for
counts as none, a switch that cannot be read as off, an UPDATE may be lost. `copies` is
history, as are `pastReply` and `pastSwitch`: what a reply came too late for, and what
switching the automation off did (the copies so far, and the goroutines that had looked).

### Audience

State: `contact` and `lastOrder` are the row of each form of the customer's number, `jobs`
and `sent` what was queued and what `message_logs` shows, `wonBack` what stops a second
win-back on one day. The two forms, "plus" and "digits", are what the code stores and compares
in different places: `NormalizePhone` is modelled by what it does. A call is a webhook, a
broadcast, a win-back run, a manual send or a message from the customer, a step per statement.
`UpsertContactNew` is a count and an insert; whoever found nobody starts a welcome. Purges and
deletions are one step. The look at the contact before an insert, the insert, STOP's UPDATE, the
order's stamp and the opt-out check may fail (`MaxDropped`): the contact is then new, missing,
unchanged, not opted out. `welcomes` and a job's `after` are history.

### ShopTokens and OrderTags

A token is named after the grant that issued it. `grant` and `spent` are Shopify's side
(external, as the code uses it): which access tokens still work, which refresh tokens have
been exchanged. `session`, `fallback` and `flagged` are the rows. A caller goes through
`GetShopToken` statement by statement: `LoadSession`, `LoadFallback`, `Reload`, `Refresh`, the
three statements that store a grant, and the migration of a legacy token. A visit is the
frontend's load and store with `register-shop` after it. What follows a rejected token
(`InvalidateShopToken`, `FlagShopReauth`, a checkout's deletion of the session) is a step each.
Any of these statements may fail and be passed over. Shopify may refuse a live token too, for a
scope it lacks. `Revoke` is Shopify's side of an uninstall, `PurgeShop` the deletion of the
rows that `shop/redact`, the app or the admin ask for; neither waits for the other.

`OrderTags` adds the requests: remove the other status tags, add one, repeat after a
migration; labels and the retag page only add. A request that failed may have been executed
nevertheless. A status tag stands for a name; a shop may rename those in `Configured`, so that
a removal takes all others but any of the old names (`Removed`). `mixed` and `forgotten` are history.

### Seeding

State: the rows of both tables with their ids, the merchant's own rows included; `call` walks
through `SeedAutomations` and `SeedDefaultTemplates`, a SELECT and an INSERT for each
default; `phase` is where `migrate()` stands, `work` and `dup` where its loops are. A start
deletes the rows of the retired default (`RetireTemplates`, `RetireAutomations`, by name and
whatever uses them), heals automations without a template, merges templates (`Repoint`, then
`DropTemplate`, for each duplicate) and then automations, a statement at a time; the process
may end between any two. Every statement may fail: a count is then 0, a template not found, a
loop has nothing to do, a row is not written, and the next statement follows all the same.
`clean` says that none has since the last start. A SELECT that breaks off half way is taken for
one that reads nothing. Automation n uses template n, which is how the code's list of defaults
is built; an automation may also be given a template id that does not exist (`NoId`).

### ConnPool

State: `holder` has the connection, `todo` is what each goroutine still takes and gives back.
An operation is the order of its takes and returns: a statement takes and returns, rows that
stay open return at the end. Which rows are read, and written, does not matter here. `revenue`
marks the calls of the revenue page that meet a paid plan, the only ones that take twice.

### Pairing

State: `client`, `status`, `qr` and `code` are the manager's fields, `qr` and `code` by the
flow that set them; `pc` is where a flow is between `pairingMu.Lock` and its return, `live`
the flows whose context is not done, `loop` and `tries` the `reconnect` goroutines. Each
critical section of `m.mu` is one action. The WhatsApp library is external: `up` and `auth`
are the sockets that are open and the clients whose device is the stored one, and an `event`
is raised before it is handled, so that it can arrive late. A client is named after the flow
or loop that built it. The handler does not look at which client an event is from.

## What the runs show

Every property has a mutated form of one mapped definition (`mutants`) under which TLC
finds it violated.

| Run | Bounds | Shows |
|---|---|---|
| `queue_safety` | 2 jobs of 1 customer, 2 goroutines, 2 attempts, cap 1, 1 message from elsewhere, 1 failing statement, 1 restart | exclusive claims, one success per job, the bounds on copies, attempts and the daily cap, settled rows stay; `JobQueue` implements `DeliveryPromise` |
| `queue_settles` | 2 jobs, 2 goroutines, no fault | every accepted job ends |
| `reminders` | 1 reminder, 3 goroutines at once, 2 restarts, 2 failing statements | after a reply, or with the automation off, only goroutines that had looked before still send; copies are bounded by what overlapped; a due reminder is closed in the end, faults or not |
| `quota` | 2 callers of all four kinds, 3 tiers, 2 months, 1 merchant step, 1 expiry | how far count and limit can part, how often one expiry resets, the charges of a month stay within the climb to the top tier, no paid upgrade without its charge |
| `confirmation` | 2 orders, 2 stored rows each, 3 votes, 1 lost write | decisions have their votes; a stored question is answered once |
| `audience` | 2 callers at once, 3 calls, 1 failing statement | after STOP nothing is queued to the number in digits by a call that could read the contact; repeated welcomes come from overlapping webhooks and the failure only |
| `tokens` | 2 callers at once, 3 calls, 2 grants, 2 status tags that the shop may rename | a stored session is one that can be renewed, or its successor is known to be under way or lost; two status tags together have a cause |
| `seeding` | 2 defaults, one on by default; 2 callers at once, 3 calls, 1 edit or failing statement (`MaxDisturbed`), 2 restarts | a message is seeded once by each of the callers that overlapped, and once more for a failed look; a start whose own statements succeed leaves each name once and takes no template from an automation but the retired default's, also when it is cut short |
| `pool` | 2 goroutines; 0, 1 or 3 paid plans in use | only the revenue page waits for the connection it has; until one does, every operation returns |
| `pairing` | a QR flow, a phone flow, 1 reconnect loop of 1 attempt, 1 lost connection, 1 event in flight | a pairing code on display is one that a flow waits for, alone; every flow ends |

Why the bounds are enough. Two goroutines are enough for every race between a stale snapshot
and an owner; two attempts separate a retry from the last try; the bounds on attempts and on
the cap are tight in these runs (one less is violated). Reminders share only the log and the
switch, so that one row shows what a row can do; three goroutines let one write between the
send and the write of another. One failing statement suffices for each bound that counts them
to be reached with it. Three votes are the two of a cancellation and one that
interferes. Three calls are a contact's STOP and two that overlap it, by either form of the
number, or two orders that overlap and one after them. Two grants are a legacy or old token and
the one that replaces it; a third is more than TLC finishes with here, and the theorems hold
for any number. With two defaults one can be there when the other is missing; three
calls are two that overlap and one after them; the second restart cuts the first one's repair
short or repairs what a failure left in it. The merchant writes one default's name and the
retired one; edits and failures share one bound, so that this run has no start that meets both.
Two flows are enough for a cancelled one that meets its successor; `TypeOK` of
`pairing` holds the bound on attempts. Three tiers, 5 dollars apart as in the code, have two
paid upgrades to add up; with the real four the climb is 14.99, within the 20 dollars the
merchant approves (`handlers/billing.go:29-31`). Goroutines, callers, status tags and orders
are symmetric where the configuration says so; no liveness run uses symmetry.

Properties that tolerate something name it: `WelcomesWithinOverlap`, `SeededWithinOverlap`,
`CopiesWithinOverlap` and `CapOvershoot` bound what overlap and failing statements can do,
`ReplyStopsTheRest` and `SwitchStopsTheRest` what came too late to be stopped, `RotationKept` and
`OneStatus` list the only ways to a bad state, `ReturnsUnlessStalled` names the one stall,
`StartMerges` and `StartKeepsTemplates` are about starts whose own statements succeed. They are as strong as the code allows; the
stronger sentence in the code's comments does not hold of it.

Fairness. `JobQueue!Fairness`: the Go scheduler runs each goroutine, the ticker keeps
fetching ready rows, and the clock reaches each `scheduled_at`; none on webhooks, purges,
deferrals versus sends, or faults. A send may fail for ever: the attempts run out.
`Reminders!Fairness`: the same of its ticker and goroutines; faults are bounded, as a process
that dies before every UPDATE closes nothing. `ConnPool!PoolFairness`: `database/sql` hands a free
connection to each waiter in turn (strong fairness of `Get`, since it is free only now and
then), and the scheduler runs the one that has it. `Pairing!Fairness`: the scheduler runs each
flow, a context expires after its three minutes, and the library answers a flow whose context
is done (it is given that context). Nothing is assumed of the merchant, of events or of
reconnection.

Deadlock is checked except in `pairing` (a manager that was removed, or whose flows have all
been started, does stop), in `tokens` and `seeding` (when the bounded calls, edits and restarts
are used up nothing is left to do) and in `pool` and `pool_stall`: two revenue pages, or one and
a goroutine that waits, stop the system for good.

Runs that expect a violation state what a comment in the code says and show that the code
does otherwise; `findings` in `PROJECT.json` quotes both sides:

| Run | The code | The comment |
|---|---|---|
| `queue_restart` | a row claimed at the time of a restart stays "processing" | "delivers WhatsApp messages reliably — surviving server restarts" (`worker/worker.go:1-2`) |
| `pool_stall` | the revenue page asks for a second connection while its rows hold the only one, and from then on every statement of the process waits | "one writer at a time" |

### Disagreements without a run

The models also reach these; each is a place where comment and code, or two parts of the
code, differ.

Billing and quota:
- a charge whose answer was lost is repeated across a month's end (`db.go:1266`; "at most one
  charge per tier per billing month", `db.go:1241-1243`);
- an upgrade writes the tier after the one it read over a newer choice (`db.go:1275`, `1236`);
- a failed charge pauses nothing, the worker sends (`worker.go:74`, `db.go:1271`);
- a shop with no usage line item is upgraded for nothing (`db.go:1238`, "paused instead");
- `Confirm` activates the plan its URL names when any subscription is active or the lookup
  failed, and choosing Free cancels no subscription (`handlers/billing.go`).

Messages:
- a deferral to the sending window keeps the attempt its claim cost (`worker.go:103`);
- the daily cap is compared before the worker's own sends only; reminders, replies and manual
  sends count and are never held back, and a failed read of the settings or of the count lets a
  message pass (`worker.go:70`, `84`, `db.go:1512`);
- a goroutine of a reminder that looked before the customer's reply still sends (`worker.go:166`),
  as does one whose look failed;
- voiding a cancelled order's question needs an active automation (`shopify.go:223`, `314`);
- `PopPendingConfirmation` deletes by phone, not the row it read (`db.go:1974`, `1907`);
- a vote is not logged as a message, so a customer who voted is reminded (`manager.go:603`,
  `shopify.go:466`); a failed reminder is closed as skipped;
- the opt-out is looked up by the phone as written, and the row is in digits
  (`shopify.go:301-302`): `StopIsHeeded` says "digits" for that reason; STOP without a contact
  has no effect; the worker does not look at all, so that a job queued before STOP is sent after
  it; a contact that cannot be read has not opted out;
- a COD order's extra trigger may create the contact first, and no welcome goes out; webhooks
  that overlap welcome him twice (`db.go:1705`), and after an INSERT that failed the next order does;
- `PurgeCustomer` with a "+" leaves the digits rows; neither purge touches `reply_reminders`,
  and `PurgeShop` also omits pending confirmations and keyword replies (`db.go:1722`).

Tokens and tags:
- `InvalidateShopToken` removes whatever is stored, also what a call just migrated
  (`order_tags.go:129`);
- the retag page's fetch error never matches the legacy or re-auth texts (`retag.go:127-128`),
  and its status tags replace none;
- a shop that renames a status tag leaves the old name on its orders, which no later status
  removes (`order_tags.go:49-58`);
- the `app/uninstalled` webhook neither purges nor removes the manager; a removed manager's
  flows and loops go on (`registry.go:85`, `90`).

Seeding:
- each start deletes the templates named 'Order Cancellation Reply', of every shop and whoever
  made them, and leaves the automations that use one without (`db.go:318`);
- an UPDATE of a duplicate's automations that fails is followed by the DELETE all the same, and
  leaves them without a template (`db.go:406`, `408`); the next start heals those that bear a
  default's name, the others stay so;
- a count that fails is 0 and seeds a second row (`db.go:592`, `774`);
- a deleted default comes back with the next page as long as fewer rows than defaults are
  left; a start merges the merchant's own rows of one name as well; overlapping pages are not
  "idempotent" (`db.go:588`).

## What is proved

`JobQueue_proofs`, for any finite set of goroutines and any jobs, contacts, caps and bounds
(`JobQueueAssumption`):

- `TypeCorrect`, `ClaimIsExclusive`, `SuccessAtMostOnce`, `CopiesBounded`
  from one inductive invariant `IInv`. `CompleteJob`, `FailJob` and `RescheduleJob` update
  by id and look at no status, so nothing local makes them safe: `IInv` says that their writer
  owns the row (`ClaimExclusive`), that a row nobody inserted has no snapshot
  (`AbsentIsUntouched`), that after a successful send only the sender owns the row and the row
  is not pending (`AckEndsTheJob`), and that before its send an owner has an attempt with no
  copy (`AttemptInHand`).
- `SettledStays`: with `IInv`, each step moves a row along the edges of the abstract life.
- `AttemptsBounded` and `CapBounded`: counting arguments. What is counted plus the goroutines
  that may still count stays below the limit plus the number of goroutines
  (`AttemptsAndFetched`, `CapAndPastCap`). For the cap this is about the worker's own messages,
  and statements that failed are added; what others send only makes the check fail earlier.
- `QueueKeepsPromise`: initial states map to initial states, each step to a step or stutter.

`Pairing_proofs`, for any flows, reconnect loops and bounds (`PairingAssumption`):

- `PairingTypeCorrect` and `ShownCodeIsServed`. Neither is inductive: that attempts never fall
  below 0 needs that a sleeping loop has one left (`SleepersHaveTries`), and that the flow
  whose code is shown runs alone needs the mutual exclusion of flows (`OneFlowRuns`).

`Reminders_proofs`, for any reminders, any finite number of goroutines, and any bounds on
faults (`ReminderAssumption`):

- `ReminderTypeCorrect`, `ReplyWins` and `SwitchWins`, from the invariant `IInv`. The copies so
  far and the goroutines that have looked for a reply and may yet send are together no more than
  when the reply was logged, but for looks that failed (`ReplyCounts`): a goroutine that looks
  later leaves. With the switch it is the same (`SwitchCounts`). A row that is not due has no
  goroutine and no copy (`NotStarted`), so that a reply before then stops the reminder.
- `CopiesBounded`, by counting: while the row is due, copies are paid for by lost updates,
  earlier lives of the process and goroutines past their send (`CountDue`); once it is closed no
  goroutine starts, and each one left may add one (`CountOpen`).

`Store_proofs`, about `Seeding` for any number of defaults, any finite number of callers and any
bounds (`SeedingAssumption`):

- `SeedingTypeCorrect`, from `IInv`, which the two theorems on the start need as well: a row is
  known by its id (`RowsKnown`), and no request is under way while the process starts
  (`CallsFit`), so that nothing seeds between two statements of the start.
- `SeedsBounded`, by counting the seeded rows of a name by their ids, together with the callers
  that found none and are to insert one (`WithinCallers`). A caller joins these only while there
  is no row, so that there is room for every caller, or when its count fails; its INSERT moves it from the one to the
  other; the merchant and the start only take away. What fires is a part of what is counted.
- `StartLeavesOne` and `StartTakesNone`: neither holds by the last statement alone. As long as
  no statement of the start has failed, what the earlier ones have done is kept until the end
  (`StartedSoFar`): after the first loop every automation whose default template exists has a
  template (`Healed`), after the second each name has one template (`OneTemplateEach`), and a
  template is deleted only when no automation uses it any more. A loop still has to handle
  whatever row does not comply. A start that is cut short begins again with the first.

and about `ConnPool` for any number of goroutines and of paid plans in use (`PoolAssumption`):

- `PoolTypeCorrect` and `HolderNeverWaits`. The invariant `PoolIInv`: what is left of each
  program other than a revenue page's takes and gives back by turns and ends with a return, so
  that the holder is the one about to return; a revenue page's is whole or its tail. That every
  other operation starts so is `OperationsAlternate`.

`PlanQuota_proofs`, for any finite number of callers, any tiers, limits, prices and bounds
(`PlanQuotaAssumption`):

- `QuotaTypeCorrect`.
- `ResetsBounded`, by counting: periods begun, together with those that a plan choice being
  written and the callers about to reset may begin, are paid for by plan choices and expiries
  (`Paid`). A caller comes to reset only while the allowance is expired, and as long as it is,
  no period has been begun for that expiry, so that there is room for every caller.
- `NoUnchargedUpgrade`: a caller that is about to write a paid upgrade, or to log it, has its
  charge on record already (`ChargedFirst`).
- `OvershootBounded`: the count together with the messages that a check allowed and that are
  not counted yet stays within the allowance of some tier the shop has had (`Room`). The
  proof found that the first form of the property failed for a tier that allows nothing, where a
  new period counts what was checked in the one before; hence its `Max({1, LimitOf[t]})`.
- `ChargesWithinClimb`, when no tier is cheaper than the one below (`PricesRise`, which holds of
  the catalogue in the code; prices are rows that an administrator may edit, and without it the
  statement is false): a month has one record for each tier (`OneEach`), each the difference to
  the tier below. The sum is bounded by induction over the tiers (`ClimbOfMonth`), from lemmas
  on sums over finite sets (`SumTakes`) that need no induction theorem with a predicate
  parameter: the induction is by the least counterexample (`NatInduct`, `SubsetInduct`).

`Confirmation_proofs`, for any orders, votes, stored rows and lost writes
(`ConfirmationAssumption`):

- `ConversationTypeCorrect`, for any number of handlers. A handler at work has read an order's
  row, and only a first question has a second one set up (`IInv`).
- `QuestionAnsweredOnce`, when messages are handled one at a time (`OneAtATime`; the library
  does so for each client). The answer that is open moves from the row to the handler, back to
  the row with the second question, and out as a tag (`Counted`). Between its SELECT and its
  DELETE a handler and the row are one answer, which is where a second handler would break it.
- `NoDecisionUnvoted`, under the same assumption: a tag has a vote of its own (`Confirming`,
  `Cancelling`), and a cancellation also a "no" to the first question. The "no" is counted from
  the vote on, in the hand of the handler (`Refused`), as the row of the second question until
  its DELETE (`Doubted`), and in the hand of the one that answers it; a lost DELETE leaves one
  more (`Voted`).

`OrderTags_proofs`, for any callers, grants, status tags and bounds (`TokenAssumption`,
`TagAssumption`):

- `TagsTypeCorrect` and `SessionsRenewable`. A stored session is safe as long as its grant has
  not been exchanged, which nothing local says: a grant that is about to be stored is known to
  no row and no other caller (`Own`), because a grant that anyone knows has been issued
  (`Issued`) and the next one is issued only once. A caller has the token that its next
  step needs (`Sound`).
- `StatusReplaced`: while every removal got through alone and under names in use, only the tag that is about to be added
  is at the order (`Between`).

`Audience_proofs`, for any finite number of callers and any calls (`AudienceAssumption`):

- `AudienceTypeCorrect` and `StopHeeded`: a call that began after STOP finds the contact opted
  out as long as it lasts, and a broadcast of that kind does not carry the number in digits
  (`Heeds`). It holds since orders keep the flag and only an erasure removes it; a call that could
  not read the contact is no longer counted as one that began after STOP.
- `WelcomesBounded`, by counting the welcomes together with the handlers that found nobody
  and are still to insert, against the callers and the statements that failed; who looks after
  the insert finds the row, unless one of the two failed (`WelcomesDue`).

Only model-checked: liveness (`EventuallySettles`, `ReminderSettles`, `ReturnsUnlessStalled`,
`FlowsEnd`), which is out of the prover's reach. Every other property of a passing run is a
theorem. The proofs that count use the library's facts on finite sets; those with an operator
parameter cannot be instantiated, and an induction is made by the least counterexample instead.

## What is not modelled

- The rate limiter: a token bucket under one mutex over real time; its only race, an eviction
  of a bucket in use, costs one request.
- Email, configuration, HTTP middleware, deployment, the message randomizer: input and output,
  values set once, wording.
- Pages that list or save one row (inbox, support, settings, most of admin): one statement each.
- Of billing, the subscription pages: their effect on the plan is a plan choice in `PlanQuota`.
- `registry.For`, and the managers of several shops at once: a shop's manager is in `Pairing`.
- Keyword replies and the choice among templates, in `Confirmation`; `ToggleTemplate`, in
  `Seeding`; the tags other than status tags, in `OrderTags`.

The plan: an abstract allowance that `PlanQuota` refines; `Registry` over `Pairing`; the
subscription pages.
