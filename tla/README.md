# nova-lib in TLA+

nova-lib is a Go library of building blocks for multi-tenant business systems:
an event centre, a job queue, marketing assets (coupons, session cards,
stored-value accounts), plans and quotas, tenant payments with profit sharing,
identity and sessions, request guards, caches, object storage and adapters of
payment platforms. This directory holds TLA+ models of the parts whose
correctness depends on interleavings, failures and boundaries, the TLC
configurations that check them on small instances, and TLAPS proofs of what
matters most for every instance.

## Inventory of the system

For each component: its state, its operations, what it interacts with, what is
hard about it, and what makes it correct. `PROJECT.json` lists every component
with its files, says which are modelled, and lists the hazards at their lines.

**event** - four parts.
*Outbox* (`service.go`, `repository.go`): rows of `OutboxEvent` (status,
attempts, available_at, locked_at, lock_token). `Append` joins the caller's
business transaction; `DispatchBatch` claims a batch with a locking
`SELECT ... SKIP LOCKED` and a compare-and-set on attempts, calls the
`Publisher` for each event, and marks it published, failed or dead-lettered
under its lock token. Hard: claims that time out while their batch still runs,
late marks, crashes between claim and mark, retries at the attempts boundary.
Correct when a published event was delivered, a dead letter was exhausted,
settled events stay settled, attempt numbers are never reused, and every event
is eventually settled.
*Consumption* (`ConsumeOnce`, `MarkConsumptionFailed`): one `EventConsumption`
row per consumer and event, written in the same transaction as the consumer's
own effects. Hard: two callers for one key, commits whose answer is lost, the
failure record written outside the transaction. Correct when success means an
executed callback, and a callback takes effect once.
*LocalPublisher* (`publisher.go`): subscriptions by type and consumer code;
`Publish` runs each matching handler under `ConsumeOnce` until one fails.
*Worker* (`worker.go`): the loop that dispatches at every tick, started and
stopped at most once, and its alarm about the backlog. Hard: Stop before or
during Start.

**queue** (`worker.go`, `redis_stream.go`) - a Redis stream with one consumer
group; the worker reclaims long-pending messages, else reads new ones, runs the
handler and acknowledges. Hard: handlers slower than the reclaim threshold,
Stop while a handler runs, loss of the consumer group, Start and Stop in
unexpected orders. Correct when acknowledged jobs were handled, no job is lost,
and every job is eventually handled.

**events** (`hub.go`) - in-memory fan-out to subscribers with bounded channels;
publish drops for slow subscribers. Hard: unsubscribe racing publish. Correct
when nothing is sent on a closed channel, a stream gets only its own user's
events, once, and misses one only when its buffer was full.

**coupon, sessioncard, member, settle** - templates, issued assets and account
balances in one database; issue limits, expiry on read, claim, consume, recharge
and deduct; `settle.Apply` combines them. Hard: check-then-insert without a
lock, status re-checks missing from updates, one step of a settlement failing
after another took effect. Correct when counters are what was issued, nothing is
used twice, and balances equal the sum of their ledger.

**plan** (`engine.go`) - the catalogue, purchases, subscriptions, monthly windows
and counted quotas. Hard: payment callbacks delivered twice, renewals racing
revocations, editors racing each other, window rollover. Correct when a purchase
extends a subscription once, a month's quota is not exceeded, and a counted one
by no more than the transactions that ran at one time.

**catalog, billing** - what a shop sells, rows per tenant that clerks create,
update in two statements and delete; price tiers, expiry dates and renewals as
pure functions. Hard: an update that races a deletion, dates without an end.

**tenantpay, paynotify, wechat, alipay** - tenant payment configuration under a
master key, cached payment clients (`resolver.go`), bindings of mini-programs,
profit-sharing orders with retry and return on refund (`executor.go`), payment
and refund callbacks, and the clients of the two platforms: orders, refunds,
transfers, authorisations, shares, notices, and the shared access token. Hard: a
configuration change racing the construction of a client, full-row saves
overwriting each other, sharing and returning the same order at once, requests
lost before or after their effect, notices that are late, repeated, reordered or
misdirected. Correct when a share is backed by its row, a notice is acknowledged
only once its work is booked, what a caller is told has happened, and no platform
is asked for more than there is.

**auth, identity, sms, cache** - sessions in Redis or memory, registration and
login by password, phone or WeChat, verification codes used once, a cache over
two back ends. Hard: multi-step writes interrupted halfway, find-or-create races
on columns that are not unique, read-and-delete that is not atomic on one back
end. Correct when a revoked session does not come back, a session belongs to who
presented its credentials, and a code lets one login through.

**middleware, rbac, org** - filters of a request: session, tenant, membership,
roles, body limit, CORS, rate limit; caches of decisions by time to live. Hard:
the order of filters, refusals and panics on the way out, a decision that
outlives what it was made of, a counter left without expiry. Correct when no
handler runs without every filter's consent and stale decisions end.

**storage** - objects in a bucket or a flat directory; a local cache of remote
files and its cleaner. Hard: the cleaner deleting by what it saw a while ago, moves
that are copies and deletions, two processes creating a bucket. Correct when no
object vanishes that nobody took away, and a cleanup leaves no copy that had
expired and no more than there may be.

**aiobs** - a record of each call of a model, priced, counted, and buffered for
the database. Hard: Close while records arrive. Correct when each record offered
is written, dropped and counted as dropped, or still held.

**shengwang, openai, ocr, tencentmap, mail, ffmpeg, logging, metrics, config,
response, apperror, pagination, validate, address, datacipher, password,
opaudit, dataaudit, tenant, scenario, database** - adapters of remote services,
formatting, cryptography and output; they keep no state a model could say
something about, or only append.

## Plan

Done: the event centre (1), the job queue (2), the plan engine and its
catalogue (3), coupon, sessioncard, member and settle (4), tenantpay, paynotify
and the payment platforms (5), identity, auth, cache, sms, the rate limiter and
the filters of requests (6), hub, storage, the worker loop, org, aiobs, catalog
and billing (7); proofs about all of them (8): every safety invariant and
every action property a run checks is a theorem, but for the one that uses
ENABLED.

Left, most useful first:

9. The parts of modelled components that are left out: the read-only metrics of
   the outbox, presigned addresses of storage, the provisioning of an
   organisation's tables.
10. The remaining adapters, where one of them comes to keep state.

Components that share a database are composed and checked in one run; components
that share nothing are parts of one module: `part`, chosen in Init, says which
of them runs, and the others rest in their initial state. So the state space is
the sum of the parts' and not their product, and a run's properties say what
they said of each part alone.

## Modules

The order is that of the plan. `MC*` modules give the constants their values,
compose parts, and hold symmetry sets; nothing in them replaces a definition.

### Outbox, AtLeastOnce

`Outbox` has one record of variables per row (`status`, `attempts`, `due` for
available_at, `lockAge` for locked_at, `lockToken`), the database's row locks
(`rowLock`), and one record per dispatcher: where it is in `DispatchBatch`
(`pc`), the events it holds (`batch`), the one in its hands (`cur`), its
in-memory copies of attempts (`seen`) and the age of its `now` (`elapsed`).
`delivered` and `tried` are history.

| Action | Code |
|---|---|
| AppendEvent | `Service.Append`, `Repository.Append` at the commit of the business transaction |
| SelectBatch | the locking SELECT of `ClaimBatch`, with its order and limit |
| CommitClaim | the UPDATEs of `ClaimBatch` and the commit |
| StartPublish, PublishOk, PublishErr | the call and the return of `Publisher.Publish` |
| MarkPublished, MarkFailed | the UPDATE under id, status and lock token that matched |
| MarkRejected | the same UPDATE when it matched no row: the batch ends with an error |
| Interrupt | a crash, `Worker.Stop` cancelling the context, or a failed statement |
| Tick | time |

Time is relative (due dates and ages, saturating at `Horizon` and `AgeCap`), so
the state space is finite without a bound on the clock; `SaturationAssumption`
makes sure that saturated values still separate every retry delay. The lock
token of a batch is its dispatcher: a dispatcher runs one batch at a time, and
an event's claim by an earlier batch of the same dispatcher is replaced when the
event enters a new one. The loop takes its events in any order, which allows
every order the SELECT could have produced.

`AtLeastOnce` is what the outbox promises: an appended event is owed, taken for
a bounded number of tries, and ends as published after a delivery or as dead
after its last try. `KeepsPromise` instantiates it over the outbox with the
mapping `Phase`; claims are tries.

### Consumption

One caller's `ConsumeOnce` as a sequence of statements: the locking SELECT, the
INSERT under the unique key or the UPDATE of an unfinished row, the callback
with the commit, and the separate failure record. What the transaction writes
becomes visible at its commit; `holder` is the row lock or the uncommitted
insert that other transactions wait for. `CommitUnconfirmed` is a commit whose
answer is lost (only with `LostAcks`), `WaitFails` a lock wait that times out or
a deadlock victim, `Fail` a crash or a cancelled context.

### EventDelivery

Extends `Outbox` with `LocalPublisher` and instantiates `Consumption` with the
dispatchers as callers. The publisher steps of `Outbox` are refined: `Publish`
takes a `snapshot` of the subscriptions, consumes for each that matches in turn
(`next`), and returns nil or the first error.

### Queue

A Redis stream with its consumer group, and the workers that run
`Worker.run`. Messages have the numbers 1..Messages in the order of the stream:
`added` of them have been put into it, `read` were given out by `>`, `group`
says whether the consumer group exists; `owner` and `idle` are the group's
pending entries, `acked` and `successes` history. `at` is the statement of the
loop a worker is about to execute, `job` the message it has and `held` how long,
`cancelled` its context.

| Action | Code |
|---|---|
| Enqueue | `RedisStreamQueue.Enqueue` (XADD) |
| Ensure, EnsureFails | `EnsureConsumerGroup` at the start of `run`; a failure ends the worker |
| ClaimPending, NothingPending | `claimPending` (XAUTOCLAIM with pendingMinIdle), a malformed message included |
| ReadNew, ReadNothing, ReplyLost | XREADGROUP and the loss of its reply |
| HandleOk, HandleErr | the handler |
| Ack, AckRefused | the acknowledgement; for a cancelled context it fails |
| Stop, Crash, Restart, CommandFails | `Worker.Stop`, processes, failing commands |
| Tick | time, as ages that saturate |

Redis is external: it is modelled from the commands the code sends. `PromptWorkers`
bounds handlers by pendingMinIdle; without it a handler may outlive it.

### PlanEngine

`src/plan/engine.go` as transactions of concurrent clients. A transaction is cut
where it takes or holds a row lock, so that what happens between two locks is
one step: `at` is where the client's transaction is, `tenant`, `pays`, `to`,
`from`, `until`, `key`, `used` and `seen` its local variables, `orderLock`,
`subLock` and `gap` the locks. `events` are the rows of the usage table, told
apart by a number as the table does by its id; a quota counts them. Locking a
missing subscription locks a gap that several clients may share; inserting waits
for the others, and the database aborts one of two that wait for each other
(`Deadlock`).

| Action | Code |
|---|---|
| CreatePlan, UpdatePlan, SeedPlans | the catalogue, as far as subscriptions depend on it |
| CreatePurchase, ClosePurchase | purchase orders |
| PayBegin, NextWindow, Upsert | `MarkPurchasePaid`: order lock, `nextWindowTx`, `upsertSubscriptionTx` and commit |
| AssignBegin, AssignLock, Upsert | `Assign`, `AssignWithExpiry`, which read the clock before they wait for the lock |
| Revoke | `Revoke` |
| ConsumeLock, Consume, ConsumeNothing, Record | `ConsumeMonthly` |
| CountItems, EnforceCountTx, Refuse, AddItem | a business transaction that calls `EnforceCountTx` |
| Abort | any statement that fails |

Two things the code does by accident are in the model because later steps depend
on them: `CreatePlan` stores entitlements under plan 0 (`orphan`), because they
are built before the insert assigns the id; and a plan created with status 0 is
enabled, because gorm replaces zero values by the column's default.

### PlanCatalog

The catalogue by itself: rows of plans and of their entitlements, edited by
concurrent editors whose transactions read a snapshot (`...Check`) and write the
current rows (`...Commit`) under the unique indexes; defaults, seeds, lists, and
what `EnsureEnabled` and `EnforceCount` answer from the rows.

### Goods

`src/catalog` and `src/billing`. Update takes the row and writes it by id in two
steps, without asking how many rows it wrote; `Items` is the list by page; the
functions of billing are operators that `RenewalsHold` compares over all
durations, price lists and dates of the configuration.

### Marketing, Paging, Coupon, SessionCard, Member, Settlement

`Marketing` names who calls and for whom; `Paging` is the paging every list
shares. In `Coupon`, `SessionCard` and `Member` a transaction that reads before
it writes is two steps: the check reads without a lock and keeps what it saw in
the caller's record, the commit does what the UPDATE's own WHERE clause still
checks and nothing else. Template rows carry their counters; coupons, cards,
log rows and ledger rows are sequences in the order of their ids; the day is a
clock, and lists move stale rows to expired as the code does (`Stale`). `Member`
opens accounts under a unique key on first use. `Settlement` extends `Coupon` and
`Member` with `settle.Apply`: the claim is one transaction, the deduction another,
and between them anything happens; a caller retries a failed document under its
number. Each module has a specification of its own (`CouponSpec`, `CardSpec`,
`MemberSpec`, `SettleSpec`), which the theorems are about; the run composes the
same next-state relations.

### PayClients, AppBindings

`PayClients` has the rows of tenant_integration_configs by tenant (the first one
counts), the master key, the cache of the resolver, and concurrent saves and
builds as they read, find, store and invalidate. A configuration is reduced to
what the code asks of it. A cached client remembers which saves it has seen: of
its tenant's rows (`own`), and, where the platform's configuration stood in for
them, of the platform's (`platform`). `AppBindings` has the two tables that bind a
mini-program to a tenant, and the three saves, each a transaction that reads the
rows and writes them back whole; secrets are numbered by the save that gave them.

### ProfitSharing

`executor.go`: rows of profit_sharing_orders, and tasks (order completion,
retry, synchronisation, refund) that each work on a copy of a row and save all
of it. WeChat's side (share, its amount, its return) is external; any call may
fail before or after its effect.

### PayNotify, WechatApi, Gateways, Payouts

`PayNotify` is the template that answers notifications: which of the two routes a
notice of a payment or a refund arrives at, hooks that may fail after their work,
acknowledgements, repeats. `WechatApi` is the access token in the
cache shared by all processes, and the calls made with it. `Gateways` has orders
and refunds at WeChat Pay and Alipay, each with its numbers, notices and pages;
`Payouts` transfers, authorisations, shares and returns. The platforms are
external: they keep the numbers, and repeat and delay their notices. `told` and
`heard` are one fact a caller was told, so that a property relates every answer,
however late, to the platform's state.

### Accounts, Cache, Sessions

`Accounts` takes every login as the separate statements it is (look up by phone,
openid, unionid; bind or register; bind the phone; issue). A request keeps a copy
of the account it looked up (`on`, `blank`) and decides by it. `Cache` is keys with
expiry and lists over Redis or Redka, which may stop answering; what the package
does with Redka in several commands is several steps. `Sessions` extends it with
the three session stores and with SMS codes, those of the development mode
included.

### Guards, Requests

`Guards` is what the filters of requests remember: memberships (`EnsureMember`
with its three statements, the cached decision), appids, and the rate window in
Redis with the fallback of each process. `Requests` takes one request through a
chain of filters, in and out, with the keys each sets in the context; whether the
membership is asked for, remembered or cannot be found out is the request's
choice, so that `Guards` and `Requests` need not run together.

### Storage, Hub, Dispatcher, AiCalls

`Storage`: objects by key in a bucket, or by file name in one directory, moves as
copies and deletions, the creation of a bucket, the local copies with downloads
through temporary files, the cleanup as it visits and removes one file after the
other, and the cleaner with its start and stop. `Hub`,
`Dispatcher` (the loop of `event/worker.go`) and `AiCalls` (`aiobs`) follow their
files; mutex sections are single steps, and what happens outside them is not.

### MCMarketing, MCTenantPay, MCServices, MCEventLive

They extend the modules above side by side (`MCEventLive` the outbox and
`Consumption`), each with a `Spec`. Init chooses the part and, for the
others, one initial state; `Still` keeps the others' variables. Their properties
(`CataloguesHold`, `ConfigsHold`, `PaymentsHold`, `IdentityHolds`, `StoresHold`,
`BackgroundHolds`) are conjunctions of the modules' named invariants, each looked
at where it moves.

## Runs

`PROJECT.json` gives each run's question; the bounds are these.

- `outbox_steal`: two events, two dispatchers, two attempts each, batches of up
  to two events, lockTimeout one time unit, one interruption, due dates before,
  at and after the present. Two dispatchers suffice for a claim to be stolen
  while its owner still works, two attempts for a retry, a steal, and the
  boundary; the dispatchers are symmetric, and no liveness is checked here.
- `outbox_stranded` (violation): a crash in the last attempt leaves the event in
  `processing` for good, although model.go says that exhausted events become
  dead letters.
- `event_live`: two parts under fairness. The outbox, of the same sizes: event 1
  has two attempts and event 2 one, so that stranding happens;
  `EventuallySettled` is conditional on batches that end within lockTimeout
  (`InTime`). `ConsumeOnce`: three callers and one key, four calls, lost answers.
- `delivery`: one event with two attempts, two consumers, two dispatchers,
  batches of one event that last as long as they like, one interruption, lost
  answers. `ExactlyOnceInTime`
  says what holds as long as no batch has outlived lockTimeout; without that
  premise TLC shows a consumer executing an event twice, with no crash at all.
- `queue_faults`: two messages and two workers, slow handlers, and one each of
  stops, crashes and failing commands; the reclaim threshold is two ticks, so
  that a handler can be younger, as old and older.
- `queue_live`: three messages, the second malformed, prompt handlers, one crash
  and one failing command, under fairness. Three messages put a good one on each
  side of the malformed one.
- `plan_engine`: one tenant, a paid and a free plan, two orders, two clients, two
  months of two time units' length, one catalogue edit, one assignment and one
  failing statement. All conflicts are between two transactions of one tenant: a
  tenant's rows are locked by its key, and the proof below has any number of
  tenants, clients and orders. `SomebodyGoesOn` replaces TLC's deadlock check,
  which is off because the system may come to rest at the bounds.
- `marketing`: three offers of coupons and three of cards, valid and
  invalid, a template each with a limit of one or two, and two callers, so that
  two commits pass a limit; days that end between a check and its commit; two
  edits. Settlements start from two issued coupons and
  accounts that recharge and deduct, with one failed attempt each. Plans: three
  ids and codes with blanks around them; goods: two sellers, three items.
- `tenantpay`: nine parts. Clients: the platform and a tenant, two keys, two
  savers and two saves, one reader, a clock of one tick and a time to live of one
  tick, so that a client ends. Bindings: two appids, two tenants, two saves.
  Sharing: one order and two tasks with four calls of WeChat that change
  something or fail, which reaches a share after a refund. Notices: one payment
  and its refund, addressed to either route, three deliveries of each notice.
  Tokens: two callers, two tokens that live shorter and longer than the window,
  one message. Gateways: one application at WeChat and two at Alipay that trust
  each other's key, two orders. Payouts: two transfers, authorisations, shares and
  returns over one payment of three cents. `AppIDPassed` is TRUE here, as if the
  client's configuration carried an appid: with the code's FALSE no client is ever
  built, which is the next run, and nothing could be said about the cache.
- `resolver_never` (violation): `AppIDPassed` is FALSE, as in the code: a tenant
  with a complete configuration gets no client.
- `services`: fourteen parts. Accounts: two workers, three logins, two phone
  numbers, two openids of one unionid and that of the development mode, so that
  one login's phone is written over another's. Sessions: one token in each store.
  Codes: two callers, one phone, two codes, with SMS usable and not, over each
  back end; what the property says of a code does not depend on how many callers
  there are. Lists: two pushed values and two callers. A member, two guards, an
  appid; two processes of the limiter; clocks that outlast every time to live.
  Every request of the configuration through every chain. Objects: three keys of
  which two share a file name, two callers, two versions; two local copies of
  which one has room, a reader, a cleanup at any time, a clock of three hours over
  lifetimes of one; three starts of the cleaner. Two streams, users and publishers
  over buffers of one; the loop of the dispatcher over five minutes; two callers
  and two records over a buffer of one. Two of everything is where each of these
  races happens: each is between one actor's check and another's write.
- `refusals_kept` (violation): a refused user is let through while the refusal
  is in the cache.

The runs with several parts, and those whose clocks and counters are bounded,
come to rest at their bounds; deadlock is not checked there. `queue_faults`,
`queue_live` and `outbox_steal` check it.

Fairness: `Outbox` and `Queue` assume that a loop that can take a step eventually
takes one, because `Worker.run` goes on until it is stopped (`WF` of the whole
loop, not of single actions); that handlers return; and that time passes. Nothing
is assumed about appends, interruptions, commands that fail, or the outcome of a
publication. `Consumption` has weak fairness of each call, which runs in its
caller's goroutine. The other modules state no fairness and no liveness.

## What the code does, and its documents do not say

The violation runs are findings in `PROJECT.json`. Met while modelling, and left
without a run of their own; the models do what the code does in each case.

*event, queue, events, aiobs*
- A batch that outlives lockTimeout makes a consumer execute an event twice.
- Two subscriptions with one consumer code, for a type and for `*`, share one
  consumption record: the second handler is skipped as already consumed.
  `EveryConsumerRan` therefore speaks of consumer codes, not of handlers, and
  `delivery` subscribes one code twice.
- `EnsureConsumerGroup` is tried once: a failure ends the queue worker for good,
  and `startOnce` keeps it from being started again. `NeverStuck` of `queue_live`
  holds because a crash is followed by a restart and the other worker goes on.
- `event.Worker`: a Stop before Start uses up `stopOnce`; a later start cannot be
  stopped.
- The hub drops what a full buffer does not take, without a trace.
- aiobs: after Close, which is said to stop taking records
  (`aiobs/store.go:125`), Observe still puts records into the channel, where they
  stay, neither written nor counted. The same happens to what is accepted during
  the loop's last write, before it ends and before Close returns
  (`aiobs/store.go:173`): `AiCallsHold` says that what the loop leaves behind is
  what came after it had found the buffer empty. Two overlapping calls of Close
  panic. Pricing is said to leave Cost = 0 for a model without a price
  (`aiobs/pricing.go:91`); a Cost the caller gave stays.

*plan, catalog, billing*
- `EnforceCountTx` is said to keep concurrent transactions from exceeding a
  counted quota (防并发超限, `plan/plan.go:244`, `plan/engine.go:508`). It does not:
  `used` is counted by the caller before the call, that is before the subscription
  is locked, so that transactions that counted at one time all pass, one after the
  other. `OverrunIsBounded` states what is left of the promise: a quota is exceeded
  by at most the other transactions that ran at one time, and TLC's runs reach that
  overrun. Only the monthly quotas, which `ConsumeMonthly` counts under the lock,
  are never exceeded (`MonthlyQuotaHolds`).
- `CreatePlan`'s entitlements belong to plan 0: a second plan with the same
  entitlement code fails, and the created plan lacks its entitlements until it is
  updated or seeded. A zero status becomes 1. `SeedPlans` sets is_default without
  clearing others; `UpdatePlan` stores the code untrimmed. `EnsureEnabled` and
  `EnforceCount` ignore expiry.
- A permanent subscription that is paid for gets an end; a renewal with a tier of
  0 days adds nothing, though a first purchase of it lasts for ever.
- A catalog Update that races a Delete answers success.

*coupon, sessioncard*
- Templates can be issued beyond their limit: the limit is a plain SELECT and the
  increment has no condition (`coupon/store.go:154, 176`, `sessioncard/store.go:154`),
  although `coupon/store.go:138` speaks of a checked limit. `OverIssueIsBounded`
  says by how much: what callers that overlapped ask for.
- The UsedTimes of a session card template is documented as the uses of all its
  cards (`sessioncard/model.go:34`, `sessioncard/sessioncard.go:70`), but `Consume`
  (`sessioncard/store.go:216-278`) updates the card and the log only: the template's
  number stays 0 whatever is used. `CardsAddUp` speaks of cards and their log.

*tenantpay, paynotify, wechat, alipay*
- `ensureReceiver` passes the executor's own merchant number, empty when it is
  configured lazily (`executor.go:153`).
- `RefundUnshared` marks a pending order failed, so that it is not shared later
  (`executor.go:179`), but `Sync` launches failed orders again; a query that
  fails lets the refund through; rows are saved whole from stale copies; a closed
  share or a failed return keeps its derived number for ever.
- tenant_integration_configs has no unique index. A path that is no number is 0,
  the platform. A save is said to take effect at once (`resolver.go:101`), but
  `Invalidate` of the platform leaves the clients of tenants that fell back to
  it, a build that overlaps a save is cached stale, and every process has a cache
  of its own (the model has one): such clients last until their time to live
  ends. Another master key makes what is stored undecryptable.
- `SaveWechatBinding` leaves the former tenant's tenant_wechat_configs row, so
  that `FindEnabledWechatConfigByAppID` (`store.go:298`) still finds it; a tenant
  that takes another appid without a secret keeps the secret of the one before; a
  save without a secret that overlaps one with a secret can restore the old one.
  `BindingsMeet` names the pairs and appids concerned (`apart`, `torn`).
- Access tokens with expires_in of ten minutes or less are cached for 100; a
  token that fails is not dropped, and an older one stored over a newer stays.
- `CreateRefund` without an address falls back to the one for payments
  (`wechat/pay.go:315`), where `HandlePayment` reads the notice as a transaction
  without a trade_state and answers success: no hook runs, and WeChat does not
  repeat it (`paynotify.go:146`, `hertz.go:46`). A payment's notice at the refund
  route calls the refund hook with an event that names no refund.
  `AckedWasBooked` therefore speaks of notices at their own route.
- WeChat's prepay and refund leave amounts to the platform; Alipay and transfers
  check them first.
- Alipay sends out_trade_no untrimmed, while queries and notices trim it; the
  local route to a phone number ignores fields the remote one accepts; the page's
  way back carries no status.

*identity, org, middleware, sms, cache*
- Neither username, phone nor open_id is unique: concurrent first logins create
  accounts twice, and so do two `EnsureSuperAdmin`s. `WechatPhoneLogin` binds a
  phone without asking who else has it, and by the copy of the account it looked
  up (`login.go:227`): of two that found the account without a phone the second
  writes over the phone of the first, whose session has been issued. A login by
  union id binds the openid even to a disabled account.
  `GetByID` is said to filter deleted rows, but its DeletedAt is a plain time.
- `EnsureMember` does not enable a disabled member again (`org/access.go:70` says
  so), and its Save of a stale copy can undo a disabling; its retry needs gorm's
  TranslateError. `ListMemberOrgs` is said to sort by name, and sorts by id.
- `tenant_member.go:52-63`: an inner `ok` shadows the outer one, so an identity
  from the context alone is refused. A session of tenant 0 sets the tenant key, so
  `TenantFromAppID` lets the request through without a tenant; a TenantFromRequest
  after the authentication overrides the session's tenant; an AccessLog inside
  Recovery does not count requests that panic.
- `rate_limit.go:76`: an EXPIRE that fails after INCR leaves a window without end;
  the fallback counts per process.
- sms: an error of the cache lets a send through, a failed mark is ignored, and a
  wrong code uses the right one up. On Redka a code can be read twice, and
  `ListPopFrontN` loses what it popped when it fails. While SMS is not usable the
  code 000000 is accepted for every phone, at any time and any number of times,
  without a look at the cache (`sms.go:147`).

*storage*
- Objects that were overwritten or deleted are served from their local copy, and
  a path that was returned may be removed before it is opened; the
  local store flattens keys to their base name; a failed local upload has already
  destroyed the old file; an upload between MoveFile's copy and its deletion is
  lost, and two opposite moves delete both; a bucket created by a start that then
  ends stays private; overlapping `StartCacheCleaner`s leave a cleaner nobody can
  stop.

## Proofs

Eight modules hold the theorems, each beside the modules it is about:
`DeliveryProofs` (Outbox, Consumption, EventDelivery), `QueueProofs`,
`PlanProofs`, `MarketingProofs`, `TenantPayProofs`, `ServicesProofs` (identity,
and what runs in the background), `StoresProofs` (storage, caches, sessions and
codes), and `SumTheorems`, the lemmas on sums that others use. Every proof has the
same frame: an inductive invariant, that Init implies it, that a step keeps it
(one lemma for each action), and that it implies the property. Every
assumption is a named ASSUME of the module that declares the constants, and TLC
evaluates it in the runs.

### The event centre

`DeliveryProofs` proves, for every set of events and dispatchers, every
max_attempts, batch size and lock timeout, from the named assumptions of
`Outbox`: type correctness, the five safety properties of `outbox_steal`, and
that the outbox implements `AtLeastOnce`.

The properties are not inductive by themselves. `IInv` adds what makes them so:
`ClaimInv` says what a claim knows while it holds its row locks (attempts are
what the SELECT saw, a timed-out lock stays timed out), `LoopInv` relates the
event in the loop's hands to the batch and to `delivered`, `NumberInv` relates
the in-memory attempt numbers of all batches to the attempts column (equal while
the claim holds, pairwise different, and fresh until they are published), and
`LeaseInv` says that a lock is exactly as old as the batch that holds it and
that a lost one has timed out. The claim's compare-and-set and the row locks
carry `ClaimInv`; the rest follows action by action. `MarkPublished` and
`MarkFailed` share lemmas about what `ReleaseRow` does. The refinement maps
`CommitClaim` to `Try`, `PublishOk` to `Deliver`, `MarkPublished` to `Publish`,
an exhausted `MarkFailed` to `GiveUp`, and every other step to a stutter.

Its second part is about `Consumption`, as `EventDelivery` instantiates it
(`C`, with the dispatchers as callers), for any callers and keys: type
correctness, that a call that returns success has a committed callback behind it,
and that two callbacks of one key never run at once. `HoldInv` is the reason: the
row, or the uncommitted insert, belongs to exactly the call whose callback runs.

The rest composes the two, for any subscriptions: the outbox and the
consumption keep the invariants they have alone (`IInv`, `CInv`), because every step of the composition is a step or a stutter of each;
what is proved anew is where they meet. `Passed` says that the loop of `Publish`
leaves no consumer behind, which gives `EveryConsumerRan`. `OnceInv` says that, as
long as no batch has outlived lockTimeout and no commit's answer was lost
(`disturbed`), what was executed is recorded and nobody is about to execute it
again or record its failure, which gives `ExactlyOnceInTime`; the claim's
exclusiveness keeps a second dispatcher out.

### The queue

`QueueProofs` proves type correctness and the three safety properties of
`queue_faults` for any number of messages and workers, any reclaim threshold and
any number of stops, crashes and failing commands. The strengthening says that
nothing was given out before the group exists (`GroupInv`), that a worker holds
only what was given out, and acknowledges only what succeeded (`HandsInv`), that
a message is pending or acknowledged and never both (`GivenInv`), and that a
worker either owns its message and has had it exactly as long as it has been
pending, or has had it for the reclaim threshold, or holds one that is
acknowledged (`LeaseInv`); that two workers share a message only late follows
from the last part.

`PromptHandlersRunOnce` adds, under `PromptWorkers`, that a job succeeds once but
for a stop, a crash or a failed command, one each. Each of these lets at most one
success go unacknowledged, but a stop does so only later, when the cancelled
worker's acknowledgement is refused: `CountInv` therefore counts the stopped
workers that can still have one refused (`Stopping`) with the successes, and
`PromptInv` says that nobody holds a message past the threshold, so that no
message is in two hands.

### The plan engine

`PlanProofs` proves, first, two action properties of the plan engine for any
number of tenants, plans, clients and orders: an order that is paid or closed stays so
(`OrderFinality`), and the commit that marks an order paid adds its whole period
to a running subscription of the same plan (`PaidTimeAdded`). Neither follows
from the committing step alone, whose window was computed earlier. `IInv`
carries it over: a client that pays holds its order's lock and the order is
pending (`OrderInv`); a client about to write a subscription holds its row, or
shares the gap where there is none (`LockInv`), so no two write the same one;
and the window a payer has computed still starts at the end of the subscription
if that has not passed (`WindowInv`), whatever the clock does meanwhile.

The quotas are a second invariant on top of the first, `QuotaInv`. A consumption
keeps its tenant's lock from its first look to its insert, so that what it has
decided - the source is new, the month has room - is still true when it writes
(`ConsumeInv`); this gives `MonthlyQuotaHolds` and `RecordedOnce`, though no
unique index stands behind the latter. `EnforceCountTx` has no such lock over the
count: `OverrunInv` says that once a tenant's rows reach the highest quota, every
further row takes its client out of those that counted in time, and nothing puts
one in; so the overrun is at most the other clients (`OverrunIsBounded`). The
proofs assume that clients are finitely many, and that there is a highest quota
(a column has a largest value).

### The marketing modules

`MarketingProofs` proves, for any callers, templates, holders and offers:

- the ledger of every account is a chain whose last row is the balance, the
  balance is what was recharged less what was spent, and no account is overdrawn
  (`BalancesAreExplained`). The property is inductive but for one fact: a
  recharge in flight has a positive amount;
- the counters of a coupon template are the numbers of its coupons and of its
  used ones (`CountersAgree`), by counting sets of row numbers;
- how far a limited template can be over-issued (`OverIssueBounded`). The
  property is not inductive; `LimitOK` adds the coupons that issues in flight are
  about to create, as pairs of caller and recipient. A check compares only with
  what is committed, so that it may pass beside all the other callers: their pairs
  map into callers but one times MaxIssueBatch, which is the bound;
- a used coupon keeps its document and an expired one stays so
  (`OutcomesAreFinal`);
- the uses of a session card add up on the card and in the log, and a used-up card
  is not active (`CardsStayInOrder`);
- a completed settlement is backed by the coupon it used and the one ledger row it
  spent, and takes no more than is left to pay (`SettlementsAreBacked`).
  `CouponPart` and `BalancePart` say for every stage of a document what it has
  already taken; steps of others keep them because a used coupon and a ledger row
  never change. `SettlementsKeepTheRows` says that settlements keep what coupons
  and accounts promise when they are used alone;
- the catalogues and the lists are right (`CataloguesAreRight`). An editor's
  transaction reads a snapshot and writes later: `EditOK` says what it may count
  on in between, `PlanKept` that a plan and its entitlements are what was written
  last, whoever it was. The pages of a list are the list, newest rows first and
  none twice: `NewestFirst` and `OldestFirst` are proved to be the one increasing
  or decreasing sequence over a finite set, and a page to be its segment. Price
  tiers and dates are proved for any durations below the long term.

### Payments

`TenantPayProofs` proves, for any number of everything:

- `SharesStayBacked` (no row claims a share or a return that WeChat does not
  have) and `RefundsAreInformed`. Rows are saved whole from stale copies, so the
  invariant is about the copies: whatever a task has in its hands agrees with the
  row on the commission, and is backed itself (`Copied`, `TaskOK`); saving any of
  them over the row is then harmless;
- `ConfigurationsHold`: what is saved as enabled is complete, since a save that
  is on its way already is (`SaverOK`). A cached client ends within the time to
  live; one that is behind its tenant's rows was built while they changed, or the
  save that will drop it is still running; one built of the platform's rows, which
  nobody drops, has missed only saves of the last time to live, because it was
  built before the first it missed (`Stale`). The two tables of bindings agree on
  every pair of a tenant and an appid but for those a save took apart
  (`Together`), and the secret is the newest but where a save that gave none had
  read an older row (`CopyOK`);
- `PaymentsAreBooked`: an acknowledged notice that came by its own route was
  booked, and nothing is booked that did not happen or came by the other. A token
  in the cache
  that is not the newest has a caller that is about to store a newer one, unless
  an older one came later (`CacheFollows`); `StoringOK` - a token is stored in
  the tick it was given - makes one that outlives the refresh window leave the
  cache before it ends at the platform. A notice under way tells of something
  final (`LetterOK`, `NoteOK`), and so does what a caller was last told (`ToldOK`, `HeardOK`): so answers and
  notices may be lost, repeated or late. What refunds take of an order, shares of
  a payment and returns of a share are sums over finite sets, kept within what
  there is by the platform's check (`OrderFits`, `PaymentFits`, `ShareFits`).

### Identity, the stores and what runs in the background

`ServicesProofs` has one inductive invariant for each part of the run.

`IdentityIsKept`:

- *accounts*: the bound on duplicates is a counting argument. `Few` adds, to the
  accounts of a phone, openid or unionid, the logins that have found none and may
  still make one: together never more than the workers, because a login that made
  one stops being counted. `RequestOK` carries what a login has found from one
  statement to the next, which is why a session matches what was shown, or what
  another login has written over since (`Shows`);
- *memberships and apps*: a decision in the cache was true when it was read, so
  it may be wrong for one time to live after a change, and longer only if it was
  written down late (`ItemsHold`);
- *limiter*: what is let through within a window is a sum over ticks.
  `CounterFits` bounds it by the shared counter, across its restarts, up to the
  expiry that is still to be set, `WindowFits` by the fallback of a process;
- *requests*: at every place of a chain the filters before it have consented and
  the context holds what they have put into it (`Seen`, `SeenBody`), since no
  later filter overwrites it. `ChainsAssumption` is what this takes of chains: a
  filter that sets an identity or a tenant appears once, as the access log does;
  the tenant of the address is set before the membership is checked; and before
  an access log outside Recovery there is nothing that refuses. Without it the
  property is false, and so says the list of behaviours above.
  `InputsAssumption`: a declared length is the body's or is unknown, as the HTTP
  server guarantees.

`BackgroundIsKept`:

- *hub*: a publisher has only subscribers left to offer to, and subscribers are
  open (`PublishInv`, `SubscriberInv`), so nothing is sent on a closed channel.
  `StreamsInv` says, for every stream, that what it took, holds and missed is what
  was published while it was open, but for the events being published;
- *dispatcher*: after a Stop that found the loop running only its select is left
  (`LoopInv`), and an alarm is as far from the next as it must be (`AlarmInv`);
- *aiobs*: the totals lag behind the sum over all scenarios by the calls between
  the two additions, one each (`Lags`); each record offered is in one place, and
  what is in the buffer once the loop has found it empty came later, during the
  last flush or after the end (`StoreInv`).

`StoresProofs` has the stores, `StoresAreKept`:

- *objects*: every version is an object's or was taken away. A move is a copy and
  a deletion: its copy stands elsewhere, or was overwritten, or two callers moved
  the same (`MovesInv`). A private bucket has a caller about to open it or was left
  behind (`BucketInv`);
- *copies*: a copy that had expired when the cleanup began has yet to be visited or
  is removed next, since whatever touches it makes it younger (`AgesInv`); what the
  cleanup counts is there and is all that is left but for later downloads
  (`CountInv`); so as many stay as may, and the least recently used go
  (`RoomInv`);
- *lists*: each value is in the list, in a caller's hands, returned or dropped,
  and only in one of these; the parts of one caller stay in order because what
  somebody holds is ahead of what is still in the list (`Ahead`);
- *sessions*: `StoredInv` relates the entry in the store to the session's end and
  its revocation, in each of the three stores, whether or not it answers;
- *codes*: a code that is kept was not used yet, and nobody else is about to keep
  it (`KeptInv`, `FreshInv`), so that one that was used is found no more. Redis
  reads and deletes in one command, which makes the use the only one (`UsesInv`).
  An entry ends with the time to live of its code, so that what is found is in
  time. Each message of the interval has a request that goes on or a mark that
  lasts until the interval ends (`WindowInv`).

### Sums

The models add up with folds of the community modules, which choose their next
element. `SumTheorems` says what such a fold is: it defines the same recursion as
a function on the subsets of a finite set (`Adds`), and proves that all functions
that satisfy it agree and that a sum is independent of the choice, by a minimal
subset on which it fails - `LeastSet`, from the well-foundedness of the strict
subset ordering - and not by an induction theorem, which no installed prover can
instantiate. The rest are consequences: changing one term changes the sum by the
difference, sums of numbers are numbers and bound each of their terms, pointwise
sums add up.

## What stays with TLC

`SomebodyGoesOn`, which uses ENABLED, and liveness (`SettledOrStranded`,
`EventuallySettled`, `CallsReturn`, `NeverStuck`) are out of the prover's reach.
They are checked on the small instances only, and so is what the violation runs
show. The proofs are about the
models: that these follow the code is the work of a reader, and of the mapping
in `PROJECT.json`.

## Not modelled

- shengwang, openai, ocr, tencentmap, mail, ffmpeg: adapters of remote services
  or of a subprocess, without state of their own; shengwang's token builders are
  vendored.
- tenant, scenario, opaudit, dataaudit, address, validate, pagination, response,
  apperror: checks and formatting of single values, records that are only appended.
- datacipher, password, signing and certificates: cryptography is a yes or no
  wherever it decides something (a key that loads, a signature that verifies, a
  secret that decrypts).
- config, logging, metrics, redis, database: configuration, output, and the
  opening of connections; transactions appear in the models of their users.
- Within modelled components: the outbox's read-only metrics, presigned
  addresses and key formatting of storage, `ListMemberOrgs` and the provisioning
  of an organisation's tables, the key an address is limited under.
