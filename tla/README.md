# Verification of the Therum commerce engine

TLA+ specifications of the commerce engine in `src/src` (a Fastify API run as a
PM2 cluster, a BullMQ worker, PostgreSQL through Prisma, Redis), TLC
configurations that check them on small instances, and theorems about them that
TLAPS checks for every value of the constants. Line numbers without a file name
refer to the source file the section is about.

1. [The system](#1-the-system) - inventory of its parts
2. [Plan](#2-plan) - modules, their order and what each composes
3. [Modules and code](#3-modules-and-code)
4. [Runs](#4-runs) - what is checked, bounds, deadlock
5. [Fairness](#5-fairness)
6. [Proofs](#6-proofs)
7. [Only model-checked](#7-only-model-checked)
8. [Where code and comments disagree](#8-where-code-and-comments-disagree)
9. [Not modelled](#9-not-modelled)

## 1. The system

Several API processes and one worker act on the same PostgreSQL rows. There is no
queue or lock in front of an order: what keeps callers apart is the row lock of
`transition()`, conditional `UPDATE`s whose affected-row count the code looks at,
unique keys, and one Redis key per charge. Between any two `await`s on different
transactions another process may act, and a process may die. Money is in integer
minor units.

### Commerce core

| Component | State | Operations | Works with |
|---|---|---|---|
| **Order service** `services/order.service.ts` | `orders` (status, items, idempotencyKey, totals, meta), `payments.status`, `product_variants` (inventory, reserved, stockStatus) | `create`, `transition`, `markPaid`, `sweepStalePending`, `applyDiscount`, `setItemProduction` | called by cart, gateway service, admin routes, compat APIs, webhooks and the hourly sweep; starts webhooks, vendor submission, mail and the release of coupons |
| **Payment gateway service** `services/paymentGateway.service.ts` | `payments` (txnId, method, status), `refunds`, `payment_events`, `orders.refundedTotal`, Redis `pay-lock:<order>` | `createIntent`, `payWithToken`, `finalizeReturn`, `handleWebhook`/`_apply`, `refund` | the provider adapters; `markPaid` and `transition` of the order service; `releaseForOrder` of the coupon service |
| **Coupon service** `services/coupon.service.ts` | `coupons` (usageCount, limits, status), `coupon_redemptions` | `quote`, `reserveForOrder`, `releaseForOrder`, `update`, `remove` | `checkout()` of the cart, `transition()` and refunds |
| **Cart service** `services/cart.service.ts` | cart documents in Redis with a TTL | lines, shipping, coupon code, totals, `checkout` | pricing, order and coupon services; its cart survives until `markPaid` clears it |
| **Pricing, availability** `counter/totalsPipeline.ts`, `marginFloor.ts`, `availability.ts`, `shippingRates.ts`, `currency.ts` | none | pure functions | cart and order creation |
| **Provider adapters** `lib/payments/*` | at the provider | intents, captures, refunds, webhook parsing | gateway service |
| **Fulfilment routing and audit** `counter/fulfillmentRouting.ts`, `services/fulfillmentAudit.service.ts` | `fulfillment_routes`; the vendors' orders | `routeOrder`, `confirmPrintfulOrder`, `submitPaidOrder`, recovery queries, `retryStuckPushes` | started at the paid edge and by the hourly job |
| **Webhook delivery** `counter/webhookDelivery.ts` | `store_webhooks`, `webhook_deliveries` | `deliver`, `emit`, redelivery | started by `create`, `transition`, `markPaid` |
| **Shipments** `counter/shipmentService.ts` | `shipments` | label, track, cancel along a transition table | admin, carriers |

What makes them hard, and what makes them correct:

- *Order service.* Two settlements of one order arrive together (return page,
  webhook, in-page token), while the sweep, an admin or a rebuilt checkout ends
  the order, and stock is overwritten by a re-sync. Correct means: the paid edge
  runs once; a captured payment is never lost in silence; a paid order is never
  failed and an ended one never revived; `reserved` is exactly what pending orders
  hold; nothing tracked is oversold or restocked twice; a cart has one live order,
  and it is the basket the shopper sees.
- *Paying.* Tabs, tokens, intents that overwrite each other on the payment row,
  webhooks that repeat, a capture the shop must trigger itself. Correct means:
  paid only on captured money, no capture dropped, one charge per order.
- *Refunding.* An amount is reserved, a row written and the provider asked in
  separate steps, with the outcome by webhook in any order. Correct means:
  `refundedTotal` is exact and capped, one key moves money once, an outcome is
  recorded, the coupon and the notice follow the money.
- *Coupons.* Checkouts race for the last use; releases double up. Correct means:
  `usageCount` is exact, the limits hold, no discount without a counted use.
- *Cart and pricing.* A cart is priced on every read, ordered in several steps and
  edited in between. Correct means: what the cart displays is what the order charges,
  and a discount never takes a line below its margin floor.
- *Fulfilment.* A vendor's answer is lost and its order exists; the paid edge and
  the hourly retry run together. Correct means: at most one billable vendor order
  per order and vendor, and a paid order is driven until production is confirmed.
- *Webhook delivery.* Two attempts, a verdict on the body of a 200, redelivery of
  only the hooks that have not accepted. Correct means: a partner that has not
  accepted is tried again, one that accepted is left alone.
- *Shipments.* The table is checked against a row read before an unconditional
  write, so a cancelled shipment can be marked shipped (:146).

### Marketing, identity, infrastructure

| Component | State | Operations | What is hard, what is correct |
|---|---|---|---|
| **Campaign sending** `services/campaignSend.service.ts`, consent in `marketing.service.ts` | `campaigns.status`, `campaign_sends` | `schedule`, `cancel`, `run`, tracking | overlapping runs, death of a run, an operator in the middle: nobody is mailed twice |
| **Automations, life-cycle mail** `services/automation.service.ts`, `lifecycle.service.ts` | runs, stamps in `order.meta` | hourly scans | at most one nudge per subject; a stamp must not overwrite what another writer put in `meta` |
| **Memberships** `services/milieu.service.ts` | groups, memberships, signup counter | `register`, `assign`, `approve`, `extend`, `bulk`, `runSweep`, `runReminders` | registrations race for the last signup, timers act on rows read before: a cap holds, no benefit before approval, nothing swept that goes on |
| **Customer sign-in** `counter/customerAuth.ts`, `customerEmail.ts`, `customerSession.ts`, `socialSignIn.ts` | `customers.email`, `customer_identities`, one-time codes, sessions | register, verify, reset, add, promote, remove, unlink | the column and the identities are written apart: whoever proves an address gets in, and nobody else does |
| **Admin sign-in, roles, tokens** `services/auth.service.ts`, `twoFactor.service.ts`, `oauth.service.ts`, `apiToken.service.ts`, `role.service.ts` | users, tokens | sign-in, grants | checks over single rows |
| **Cache** `lib/cache.ts` | Redis generations and entries | `cached`, `invalidate` | a value computed before a write is not served after its invalidation |
| **Worker and queues** `worker.ts`, `lib/queue.ts` | BullMQ jobs | repeatable jobs | runs the sweeps and retries above |
| **Catalogue sync, import** `counter/catalogSync.ts`, `catalogImport.ts`, `wooImporter.ts` | products, variants | scheduled sync | overwrites inventory without knowing what is reserved |
| **Products, categories, feeds, media, content, settings, connections, backup** | rows and files | CRUD | no protocol of their own |
| **Woo/Shopify compatible APIs, storefront, admin UI, builder, host console, agents, notifications** | - | translate requests, render, mail | their calls are the inputs of the services |

## 2. Plan

Order of work, most important behaviour first. All of it is done.

| # | Module | Subject | Theorems |
|---|---|---|---|
| 1 | `OrderLifecycle` | orders, stock, settlement | `OrderLifecycleProofs` |
| 2 | `Tally`, `Refunds` | refunds of an order | `RefundsProofs` |
| 3 | `Coupons` | one coupon under checkouts and releases | `CouponsProofs` |
| 4 | `Payments` | how an order gets paid, up to `markPaid` | `PaymentsProofs` |
| 5 | `Settlement` | abstract: an order settles once, on captured money; implemented by `Payments` | `PaymentsProofs` |
| | `OrderFate` | abstract: what becomes of an order once its payment settles; implemented by `OrderLifecycle` for each order, and by `Payments` | `OrderLifecycleProofs`, `PaymentsProofs` |
| 6 | `Fulfillment`, `WebhookDelivery`, `Shipments` | after the payment: vendors, partners, parcels; composed in `AfterSale` | `AfterSaleProofs` |
| 7 | `Campaign` | how a campaign goes out | `BackOfficeProofs` |
| 8 | `Membership` | a group with a registration link | `MembershipProofs` |
| 9 | `CustomerAccounts` | which addresses belong to which account | `BackOfficeProofs` |
| 10 | `Cache` | the shared cache and its invalidation; composed with 7, 8 and 9 in `BackOffice` | `BackOfficeProofs` |
| 11 | `Checkout` | what the cart shows and the order charges; composed with 4 in `Shop` | `CheckoutProofs` |

How the modules meet: `Refunds` and `Coupons` see the order only as the status they read
and write; `Payments` sees `markPaid` as its claim and the steps that decide, and
`OrderLifecycle` allows those callers at any moment through `Settle` and `DirectMove`.
The joint is `OrderFate`, what either of them lets the others count on: an order settles
once, and its settlement decides once, to serve an order that still waits for its money
or to flag one that does not; whoever ends an order ends it for good. `OrderLifecycle`
implements it for every order (`FateDecided`, checked and proved). `Payments` implements
`Settlement` (checked and proved), which adds the money, and with the money left out
that is `OrderFate` again (`FateAgreed`). All three while nobody ends the order inside
the forced write of `markPaid` (`~OperatorRaces`). `Shop`, `AfterSale` and `BackOffice`
compose modules that share no variables: every step is a step of one part that leaves
the others alone, and steps of different parts interleave. That is what the theorems
speak of, and they show that each part behaves as it does alone (`PaymentsAreAPart`,
`RoutingIsAPart`, `CampaignIsAPart` and the lemmas beside them). For TLC,
`MCFulfillment`, `MCBackOffice` and `MCCheckout` let one part move in each behaviour, so
that the state spaces add up instead of multiplying; every invariant is checked in the
part it speaks of.

## 3. Modules and code

One action is one SQL statement, one transaction, one Redis command or one call to
a provider; a call in progress is a record with a program counter and the locals
that survive the `await`. A transaction that locks the row it decides on is one
step. A definition under a comment `Mutant:` is an altered form of the definition
below it; no specification uses it, and it documents what a property would catch.

### `OrderLifecycle` - `services/order.service.ts`

| Specification | Code |
|---|---|
| `status`, `items`, `key`, `payment`, `flagged`, `reconciled` | `order.status`, `.items`, `.idempotencyKey`, `payment.status`, `meta.paymentOnTerminalOrder`, `meta.inventoryReconcile` |
| `inventory`, `reserved`, `stock` | columns of `product_variants` |
| `Transitions`, `CanMove`, `InventoryAfter`, `ReservedAfter`, `Move` | `transition()`: graph, the check of a captured payment, confirm/release/restock, what is started after the commit (`sent`) |
| `Lookup`, `FailStale`, `Reread`, `FreeKey`, `InsertOrder`, `InsertFails`, `AdoptWinner` | `create()` step by step: the order found under the cart's key, the drifted one failed and rebuilt, the reserving transaction, P2002 |
| `Settle`, `Confirm`, `ReadLive`, `FlagForRefund`, `ForceForward`, `PaidEdge` | `markPaid()` |
| `SweepRead`, `SweepFail` | `sweepStalePending()` |
| `DirectMove`, `WriteStock` | any other caller of `transition()`; merchant edits and re-syncs |
| `CrashSettler`, `CrashRequest` | death of the process |

To `OrderFate` an order is what `Outcome` and `SettledState` say of it: pending (also
before its row exists), processing (also shipped and delivered) or the status in which it
ended; and unsettled, claimed while its settlement has still to decide (`Undecided`), or
done. `Confirm` and `ForceForward` are `Serve`, `FlagForRefund` is `Flag`, `CrashSettler`
is `Abandon`, a direct move is `ServeByHand` or `End`; the steps of requests, the shelf and
the sweep's reading are stutters.

Prices, addresses, mails and the contents of messages are left out. The age of an
order is not counted: any pending order may be stale.

### `Checkout` - `services/cart.service.ts`, `create()`, `applyDiscount()`, the totals

One cart, one destination, one way of shipping. `price` and `taxPct` are the
catalogue; `cart` is the document in Redis. `Shown` is `computeTotals()`: the
subtotal, the larger of member and bundle discount (`OwnOff`), the coupon on what is
still eligible, each clamped to the margin floor (`Headroom`, `Clamped`), tax and
shipping. `Load`/`Save` are an edit or a read of the cart, which write the whole
document back. A checkout is `Begin` (price the cart), `Find` (`SameLineup` with the
order under its key), `Rebuild`, `Insert` (the row, its prices read again), `Spend`
(the coupon's slot, which may be refused even to a checkout alone: then the order is
answered at full price), `Read`/`Write` (`applyDiscount`, a read and a write), `Answer`.
A call remembers in `won` that it has had the slot.
`Pay`, `Sweep`, `Reprice` and `Die` are the rest of the world. `own` and `code` of an
order row are no columns: they remember which discount it was made with and whether
a coupon's was written since. `calm` is a history variable: no two checkouts have
overlapped and no price has moved under a checkout or its pending order. In `Shop` the
module stands beside `Payments`: it knows of a payment only that it came (`Pay`).

### `Payments` (and `Settlement`) - `services/paymentGateway.service.ts`, paying

One order. A payment is an id at the provider: `Intents` (captured on the
provider's page), `Approvals` (the PayPal order, approved there and captured by the
shop; one, since it is created under a key of the order), `Tokens` (in-page
charges, idempotent per token). `Untagged` ids belong to adapters whose events do
not name the order. `OpenIntent`/`Remember` are `createIntent`; `BeginPay` to
`Unlock` are `payWithToken` with its Redis lock, which `Expire` drops;
`BeginReturn`, `Status`, `CaptureApproved` are `finalizeReturn`; `Succeeded`,
`Approved`, `Acknowledge` are `handleWebhook` with `_apply`, where the ledger row
is `applied` and its creation has no effect of its own. `markPaid` is `Claim` (the flip
of the payment row), `Advance` (the transition, which throws on an order that has ended
and on a shortfall of stock), `ReadLive` (the re-read after a throw), and what that
decides, a transaction of its own each: `FlagForRefund`, or `ForceForward`, which looks
at no status. `order = "dead"` is cancelled or failed; with `OperatorRaces` the order may
die (`Die`) between the re-read and the forced write too (`BeingForced`).

`Settlement` is what that promises, without tabs, locks or webhooks: money is captured,
the row is settled once for money that was captured, and whoever settled it serves the
order or flags it, once, or dies. `Payments` maps to it with `settled` = `"claimed"`
while a call stands between its claim and its decision (`Moving`: advance, reread, flag,
force), `"done"` when the row is paid and no call does, and `captured` = the ids the
provider has captured. A `Remember` that overwrites `txnId` is `Name`; all steps of a
lock, of a lookup and of a webhook before its claim are stutters.

### `Refunds` (with `Tally`) - `services/paymentGateway.service.ts`, refunding

One paid order of `Total`. `Request` to `Cancel` are the statements of `refund()`,
`Deliver` to `Acknowledge` those of `handleWebhook`/`_apply` for refund events,
`PspSettles`/`PspFails` the provider. `Tally` is the sum the code's aggregates
compute; it is written as a cardinality so that it can be proved about, and a
`MCRefunds` assumption checks it against the fold of the community modules.

### `Coupons` - `services/coupon.service.ts`, `checkout()`, `applyDiscount()`

One coupon. `Quote`, `Lookup`, `Claim` (the transaction of `reserveForOrder`),
`ReadOrder`, `WriteDiscount` are a checkout; `FindHeld`, `FreeSlot` a release, of
which an order may see two (its end, its refund) and either may be lost;
`CountRedemptions`, `Retire`, `Delete` are `remove()`, `Switch` is `update()`.

### `Fulfillment` - `counter/fulfillmentRouting.ts`, `retryStuckPushes`

The lines of one order that one vendor makes. `RouteOrder`, `PostDraft`,
`RecordDraft` are `routeOrder()` at checkout, which drafts at Printful and leaves a
placeholder row for the others. `submitPaidOrder()` is `Look` (the newest route with
a reference), `Confirm` (a Printful draft), `Recover` (ask the vendor by the order's
number), `Create`/`CreatePaid`, `Again`, `Produce` (Printify's second call),
`Record`; its two callers are `paid` and `retry` (`RetryFailed`, the hourly job).
`vendor` is what the vendor holds: a draft or an order is first `drafting`/`landing`
(accepted, not yet listed; `Land` lists it), then `draft`, `held` or `made`, or
`gone` after an operator deleted the draft. Every call may come to nothing, or be
carried out with its answer lost; a route row may fail to be written; `Crash` ends a
call. `overlapped` is a history variable: a retry began while another call was
under way.

### `WebhookDelivery` - `counter/webhookDelivery.ts`, `redeliverStuck`

One order and one hook. `Owns` and `Scoped` are `scopeOrderDelivery()`: the lines of the
vendor of the hook's credential or, without one, of the brand its name and URL claim.
`Begin`, `Open` (read hook and order, decrypt the secret, pause after three failures in
a row), `Post` (offer, judge the answer, second attempt) are `deliver()`; `Judged` is
what the hourly job makes of the answer recorded (`Transient`: a partner that is busy,
down or redirects is asked again); `Emit` and `Redeliver` are its callers; `Due` is the
hourly job's choice among rows (last verdict, the pause between attempts, the limit of a
partner that only acknowledges). `Cool` and `GrowOld` are time, `KeyDrift` a secret that
no longer decrypts. `Setups` fixes who is on the order and whose hook it is.

### `Shipments` - `counter/shipmentService.ts`

`Plan` and `Split` are `planForOrder` (one insert per party), `Read` and `Write` an
operation that checks `Transitions` on the row it read and writes without a
condition. `overlapped`: two requests split the order at once.

### `Campaign` - `services/campaignSend.service.ts`, consent

`Ask`, `Freeze`, `Plan`, `Drop`, `Draft`, `Set` are the operator's `schedule` and
`cancel`, each a read and a write; a run is `Start`, `Mark`, `Look` (status, batch,
consent), `Skip`/`Claim` per row, `Post` with the transport's verdict and its one
retry, `Record`, `NextBatch`, `Finish`, and may `Crash` anywhere. `carrier` says what
a failed hand-over means: `smtp` still has the message, `api` does not know, `text`
is not claimed. `alone` is a history variable: no text run overlapped or died.

### `CustomerAccounts` - `counter/customerAuth.ts`, `customerEmail.ts`

`email` is the column, `ident` the identities. `Register`, `CreateCustomer`,
`Identify`, `Arrive` make accounts; `Redeem`, `Find`, `Void`, `Rename`, `Upsert`,
`Link` are the sign-in by a code with the repair of an address somebody else's
account holds, `Promote`, `ReadScalar` and then `SetPrimary` that of an account which
proves its own address; `RequestAdd`, `Add`, `Confirm` are `addEmail`; `AskPrimary`,
`AskRemove`, `AskUnlink` with `SetPrimary`, `Repoint`, `Remove` the rest.
`Resolves` is `resolveCustomerByEmail`. `orderly` is a history variable: no request
died between the void and the rename, no two requests moved the addresses of one
account at once (`Edits`), and no account that has only the column got its first identity.

### `Membership` - `services/milieu.service.ts`

`Visit`, `Reserve`, `Join` are `register()`, whose memberships end a duration after the
time `Visit` read; `Assign`, `Revoke`, `Reset`, `Ask` with
`Approve`/`Extend`, `Prolong`, `Delete` are the operator's calls; `StartSweep`,
`SweepGroup`, `SweepBatch`, `SweepMembers` are `runSweep()`, `StartReminders`/`Remind`
`runReminders()`; `Tick` is time. A membership row has an id of its own, so that a
row deleted and made again is not mistaken for the one read before.

### `Cache` - `lib/cache.ts`, the hook of `lib/db.ts`

A namespace and one row in it; the row is its version. A read is `Begin` (its
generation), `Seed` (a first reader sets it to 1), `Get`, `Compute`, `Store`,
`Return`; a write is `Commit` and `Invalidate` (`INCR`), or `WriteRaw`, raw SQL that no
hook sees. Redis may be away at `Begin` and at `Invalidate`; entries `Expire`. `owed`
remembers, for each generation, the newest version whose invalidation began it or
came before; `sound`: Redis answered each of those calls, nobody wrote raw, and no
first reader put the generation back.

### Modules for TLC

`MCOrderLifecycle`, `MCRefunds`, `MCCoupons` give constants their values;
`payments_live` needs no module beside `Payments`. `MCFulfillment`, `MCBackOffice` and
`MCCheckout` give values to the compositions `AfterSale`, `BackOffice` and `Shop`, and let
one part move in a behaviour (section 2).

## 4. Runs

Each state space is explored completely. Counts are distinct states.

| Run | States | Shows |
|---|---|---|
| `order_races` | 1 029 562 | paid edge at most once, a served order is never failed, the order handed back is the basket checked out - with operators, crashes and a print-on-demand variant that a re-sync makes tracked and empty, at any moment |
| `order_tabs` | 195 538 | two tabs on one cart: no oversell, no double restock, one live order per cart |
| `order_settle` | 269 978 | exact reservations, no charge lost in silence, every order implements `OrderFate` (ended orders stay ended), captured orders move on, checkouts answer - with confirms that fall short |
| `payments_races` | 1 856 251 | no acknowledged success lost, one card charged by the page, `Settlement` implemented; and what a cart shows (`Checkout`) is what its order charges, a code that could not be had apart |
| `payments_live` | 95 242 | every capture settles the order, every approval is captured - with lost answers, dead tabs and expired locks |
| `refund_races` | 1 134 233 | exact, capped ledger; full refund cancels; failed stays failed; inline settlement |
| `refund_faults` | 116 284 | one request per key and no untimely notice when anything dies, answers get lost and webhooks come early |
| `refund_live` | 27 112 | every outcome is recorded, every full return announced |
| `coupons` | 2 327 019 | exact usage, limits, discounts and slots agree |
| `fulfilment` | 141 816 | printed once and only when paid, a confirmed route tells the truth, paid orders are made; partners get their own lines and hear of them; parcels are tracked and not doubled |
| `back_office` | 1 145 803 | one copy of a mail each, whoever proves an address gets in, the cap of a link holds, the sweep takes only what is over, the cache is never older than its invalidation |
| `accounts_late` | - | violation, see section 8 |

Bounds and why they are enough:

- *Orders*: two orders, one variant with two units, quantities of one or two, one
  cart (plus checkouts without a key). Two orders are what a race for a cart key or
  for the last unit needs; a third adds a spectator. `MaxQty = 2` lets a line take
  all the stock. The race of two settlers and the
  race of two requests are checked in separate runs.
- *Checkout*: two variants (one with a cost and a floor, one out of promotions with
  a bundle price), two price lists, of which the cheaper makes the coupon hit the
  floor, two baskets and the empty one, tax of 0 or 10, two orders and two tabs. The
  part `race` has overlapping checkouts and keeps the prices; the part `calm` has
  moving prices and is followed while it is calm, since the invariants about a
  disturbed checkout are those of `race`. In both, an edit
  of the cart is saved as soon as it is loaded: one saved later leaves a cart that is
  as possible as any, or brings back one that was paid (section 8).
- *Payments*: two tabs, two tokens, one hosted intent whose events do not name the
  order and one PayPal order make every pair of paths meet. `payments_races` has
  no lost answers and no expired lock, since `OneInPageCharge` is false with them, and
  no order that dies inside the forced write, since `SettlesAsPromised` is false with
  it (section 8); `payments_live` has all three.
- *Refunds*: a total of 2 gives full and partial refunds, two keys and two calls the
  races, two deliveries the crossing of `succeeded` and `failed`.
- *Coupons*: two checkouts of two orders by two customers under limits (1, 2)
  and (2, 1): one limit binds at a time.
- *Fulfilment*: three orders at the vendor, so that a draft, its successor and a
  double can exist at once; two callers; every vendor in turn. Two events and an
  hourly job for a hook, rows counted to the four at which the code stops. Two parcels
  and two parties.
- *Back office*: one address and two runs of a campaign (the claims are per
  address); two addresses, two accounts, two requests; one customer, two visits that
  race for a cap of one or are without a cap, three ticks of time; two readers and two
  writers of a namespace that is written twice, so that a stale value has two
  generations to survive. Histories that are no longer `orderly` or `sound` are not
  followed: their invariants promise nothing more.
- `MaxQty`, `MaxStock`, `Total`, `Events`, `MaxRows`, `Horizon`, `Signups`,
  `MaxWrites`, `Copies` (the two a mail is counted up to) and the sets are the only
  bounds; `RoomForOrder` stops requests when no unused order row is left.

Symmetry is used in runs whose sets are interchangeable and whose properties are
invariants or action properties; runs with liveness use none.

Deadlock is checked for orders. `Refunds`, `Coupons`, `Payments`, and the
parts of `fulfilment` and `back_office`, describe one order, coupon, campaign or
group, whose story may be over (all refunded, all tabs dead, campaign sent, time up,
rows written as often as counted): those runs say `CHECK_DEADLOCK FALSE`.

## 5. Fairness

- A call that has begun goes on (`WF` on the steps of a request, a settler, a
  `refund()`, a webhook handler, the hourly submission): nothing it awaits waits on
  another caller, and a call to a provider ends with its answer or with a network
  error. No fairness is given to callers that may die.
- An order on the sweep's list is dealt with (`WF` on `SweepFail`): the loop of
  `sweepStalePending` catches what a transition throws.
- Events: `_apply` throws -> 500 -> the provider sends again (:367), so an event
  that is not acknowledged is delivered again. In `Refunds` some idle handler
  takes it (`WF` per event); in `Payments` a handler takes each event infinitely
  often open (`SF` per event), because one handler is shared by all events; and a
  provider asked again and again to capture an approved order does so once (`SF` on
  the capture that succeeds): one that refuses for ever leaves it approved.
- In `Refunds` the provider settles what it accepted (`WF`). No fairness is assumed
  of the shopper, the admin, the operator or the re-sync.
- `Fulfillment`: a vendor lists what it accepted (`WF` on `Landed`); the repeatable
  job keeps coming (`SF` on `Retry`, `Look`), since BullMQ schedules it again whatever
  became of the last; and what it asks of the vendor again and again succeeds once
  (`SF` on the answered forms of `Recover`, `CreatePaid`, `Produce`). The paid-edge
  call has no fairness: it may die, and `PaidIsMade` holds without it.
- `WebhookDelivery`: the pause passes (`WF` on `Cool`), the hourly job comes back and
  reaches the hook (`SF` on `Redeliver`, `Open`, `Opened`), and a partner asked again
  and again answers one way or the other (`SF` on `Answered`): one that stays down, or
  redirects, for ever hears of nothing.
- In `MCFulfillment` each condition is stated of `Vendors(A) \/ Hooks(B)`: a behaviour
  has one part, in which the other disjunct is never enabled, so the pairing says of
  each what its own `Fairness` says.

`Checkout`, `Shipments` and the parts of `back_office` have safety properties and no
fairness.

## 6. Proofs

Theorem modules hold no model of their own; they extend a specification. All
leaves are checked by SMT (Z3) or Zenon, temporal steps by LS4. Assumptions on
constants are the named `ASSUME`s of the specifications; premises of a
single theorem are written in the theorem.

**`OrderLifecycleProofs`.** `Typed` is the type invariant with the shape of each call.
On it rest `SettleInv` (a call past the claim owns an order whose payment is paid, and
is the only one: `PaidEdgeRunsOnce`, `ServedOrderNeverFails`, together
`ServedOnceForGood`; with `~Crashes` also `ChargeNeverSilent`), `LedgerInv` (`reserved`
equals the units held, for any number of lines: `ReservedIsExact` with `~OperatorRaces`,
for the reason in section 8; `TrackedNeverOversold` with `StockWrites = {}`), and
`KeyInv` (an order whose key was freed has failed: `OneLiveOrder`). `ShelfStaysBalanced`
adds to `LedgerInv` that inventory and units sold together do not grow; it holds for
shelves that begin tracked and that nobody overwrites. `HandedBackIsTheBasket` assumes
`Alone`, one request at a time: a call that is about to answer holds an order of its own
lines or one no longer open to payment. With two requests it is false (section 8).

That each order implements `OrderFate` (`FateImplemented`, and of all orders
`FateIsDecided`) needs `~OperatorRaces` too, for the same write. On top of `SettleInv` and
of `LedgerInv`'s `ForcingPending` (an order about to be forced is pending still) it needs
`StoppingMoved`: an order about to be flagged is past waiting, since no order waits
again. A step of one settlement changes what is claimed for its own order only
(`ActsDecides`), so it is a step of `OrderFate` for that order and a stutter for the
others. `TerminalOrdersStay` is then a fact about `OrderFate` alone.

**`RefundsProofs`.** `Shape` says which call owns which row and what a row in each
state implies. `LedgerInv` adds the equation of `LedgerExact` and gives
`RefundLedgerExact` (`Crashes = {}`) and, split into what is not backed and what is
capped, `NeverTooMuchReturned` (`~LostAnswers`, with crashes). `AskedOnce`,
`FailedRefundStays` and `RefundTypes` need no premise. `FullRefundIsReviewed`: the
call whose reservation completes the total is not done before its review
(`"call" \notin Crashes`). `NotifiedAfterReturn`: a row is succeeded only when the
provider sent its amount; no premise. `SyncRefundsSettle` (`"call" \notin Crashes`): with
a provider that answers at once, a pending row is in the hands of a call that will
settle it, and once the succeeded rows cover the total the notice is mailed or a call
is about to (`Inline`). The sums rest on lemmas at the module's head: a tally over a
finite set changes by the difference when one entry changes, is monotone and is
bounded.

**`CouponsProofs`.** One invariant, `TypeOK` with `UsageExact`, `CapsKept`,
`Backed` (a tab past its claim has a row) and `SlotIsSpent`; two lemmas say what
taking and giving back a slot do to the cardinalities. `SlotAndDiscountAgree` is both
directions, no uncounted discount and no slot without one. No premise beyond
finite `Orders`.

**`PaymentsProofs`.** Without premises: types, `NoCaptureDropped` (the event being
handled resolves to the order or the order is paid already), and `PaidAfterCapture` (a
call at its claim holds a captured id). `SettlementImplemented`, that `Spec` implies
`Settlement`'s specification under the mapping of section 3, and `FateAgreed` need
`~OperatorRaces`: with it the forced write serves an order that has died, which neither
abstract specification allows. Their extra invariants are `OneClaimant` (one call at
most stands between its claim and its decision, and then the row is paid) and
`ForcedWaits` (a call about to force the order forward finds it pending still; here the
premise is used). Each action is shown to be one abstract step or a stutter; the re-read
is a stutter. `ChargedOnce` assumes `Prompt`: no lock expires under a charge, no answer
is lost, no tab dies. Its invariant: the lock is held by at most one call (`Exclusive`),
a call that has captured a token and not yet claimed is inside (`ClaimInside`), and a
call about to charge has seen a pending order with no token captured before it
(`ChargeInside`). Weakening `Prompt` breaks the step of the charge, as the disagreements
below say it must.

`FateAgreed` composes two mappings: every step of `Settlement` is, without the money, one
of `OrderFate`.

**`AfterSaleProofs`.** Three invariants of the composition. For the vendors, `Routed`:
nothing billable before the payment and drafts only at Printful, what a reference or a
verdict in a row, a call or the draft says of the vendor's order (`Rests`); and while no
retry has met another call, one call is under way at most, it has nothing billable
before it until it creates or confirms, and what is billable is one order (`Alone`).
`PrintedOncePaid` follows from the first half of `Rests` and the last conjunct of `Alone`,
`ConfirmedIsMade` from what `Rests` says of a confirmed row. For the
parcels, `Kept`: a row is marked shipped only with a carrier, none is deleted, and a
request that means to write "delivered" read a shipped row, so that what others write
over the status since takes no carrier away (`Tracked`); and without two splits at once, a
split has only parties without a parcel before it (`Parted`). For the partners,
`Addressed`: hook, credential and the vendors of the order are set once, and every
delivery adds lines `Scoped` lets through. Premises: `FulfillmentAssumption` and
`AfterSaleAssumption`, which say that the vendors and the hooks are of the kinds the
modules know and that "no order" is no order.

**`MembershipProofs`.** `Sensible` says what the constants stand for. `Inv`: the
counter is at least what joined and what is about to join (`Counted`), and whoever has a
membership that is not pending was let in (`LetIn`): `SignupsAlwaysKept`. `Earlier`,
that a sweep looks at a time not after now, gives `SweptAlwaysOver`.

**`BackOfficeProofs`.** First the campaign: `Inv` adds to the types: a run that handles
an address knows it; by mail over SMTP (`MailSafe`) an address with a copy has a row
past `queued`, and a run about to hand a message over has claimed a row nobody else has;
by text (`TextSafe`), while runs are alone, only the message being recorded is ahead of
its row. `OneCopyForAll` follows for any addresses and runs; no premise.

Then the accounts. `ProofLetsIn` is not inductive: it says nothing of the requests that
are about to write what they read. `Settled` does. `Tables` holds always: a request at
work knows an address and an account that exists (`Placed`), no account has nothing
(`Existing`), the column is unique (`Unique`). While the history is orderly, `Order`:
one request moves the addresses of an account (`OneEdit`) and finds what it read or
proved (`Unmoved`); the column of an account with identities is one of them, or a
redemption is about to rename it (`Backed`); and the identity a request is about to give
an account that has none is for its column (`First`), which is what `orderly` asks of
the first identity. `ProofLetsIn` is `Backed`. The proof has one lemma per action and
conjunct it can disturb; renaming, repointing and the void are the long ones.

Then the cache, for any number of readers, writers and writes. `Cached`: what writes and
generations speak of was committed (`Committed`); and while `sound`, nothing is stored or
read under a generation still to come, and what is stored or about to be returned is at
least what its generation owes (`CacheFresh`). A reader that computed its value before an
invalidation stores it under the old generation, where nobody who starts later looks.
`ReadsAreFresh` is a part of it.

Last the composition. Membership's theorems are taken by `INSTANCE` of their module under
the composition's variables (`Members`), after a lemma that the composition's steps are
its steps or stutters; `Sensible` follows from `BackOfficeAssumption`. This gives
`BackOfficeTypes`, `LinksAreKept` and the action property `SweepsAreLate`.

**`CheckoutProofs`.** `CheckoutPriced` for any catalogue, baskets, prices and tabs.
The one premise is `ShopAssumption`: variants are finitely many, amounts are naturals,
a membership takes a hundred percent at most (the bound of `milieu.schema.ts:9`), a
row is not "no order".

Money is a sum over the lines, a fold over a finite set. What holds of every sum is
proved by a smallest counterexample: of the parts of the set where it fails, one has no
smaller one below it (`Minimal`). The lemmas say that sums of naturals are naturals, that
they agree when their summands do, grow with the set, scale, and lose one summand
at a time. From them come the two facts about prices. `FloorHolds`: a discount that was
clamped leaves the margin on what the basket cost, because the floor is a sum of cents
rounded up line by line, and that covers the exact sum. `CartIsPriced`: what a
cart shows is one discount, that of the code or its own, no larger than what it is
allowed, and a total that adds up.

`Inv` has three parts. `Typed`. `Sound`, always: total and discount of every order add
up to what its lines, its tax and the shipping come to, a discount without a code is the
own one up to the subtotal (`Figures`), and what a call read before it writes adds up
too (`ReadRight`): without that a write of the discount need not preserve the figures.
And `Undisturbed`, while `calm`: one checkout at most is under way (`Alone`), it shows
what the prices say (`Shows`), open orders have the prices of the catalogue (`Current`),
it makes an order only when the key has none (`Keys`), the order it is about to charge
is the basket it shows, and the order of a call that has had its code carries it
(`Charges`), no order goes below the floor, and the discount of a code is what a cart
with the order's lines shows for it (`Lawful`). `ChargedAsShown` speaks only of the last
step; what makes it true is that each step before kept the order and the cart together,
which `Charges` says, and that a discount once written is that of the code (`CodeOff`).
Its own premises, that the order was made with the discount the cart shows now, are used
once, at the end (`InvCharges`). TLC checked `Inv` on the bounds of `payments_races`
before it was proved.

## 7. Only model-checked

Every invariant and action property of the runs is stated by a theorem. What is not:

- Liveness is out of the prover's reach: `CapturedMovesForward`, `CheckoutAnswers`,
  `OutcomeRecorded`, `FullReturnNotified`, `CapturedSettles`, `ApprovalIsCaptured`,
  `PaidIsMade`, `OwnerHearsOfIt`.
- `AddingKeepsTheOthers`, which the code violates.

## 8. Where code and comments disagree

Shown by a run:

- `accounts_late` - `customerEmail.ts:110` writes the first email identity of an account
  that has only the column (one made by a social sign-in, by an order or by an
  import). From then on the fallback of `resolveCustomerByEmail` (:55-61) does not find
  the account by its old address. `customerAuth.ts:691-692` says "The account keeps its
  other emails - this adds, it does not replace".

Met while modelling, reproduced by setting the constant or dropping the history
variable named, or read off the action named, and given no run of their own:

Orders
- `order.service.ts:629` says a late settlement never revives a cancelled order. The
  forced transaction (:651-662) neither locks the order nor reads its status again; a
  cancel after the re-read (:633) is overwritten with `processing`, its reservation is
  released twice, and the order goes to the vendors (`OperatorRaces = TRUE` in
  `order_settle` breaks `FateDecided` and `ReservedIsHeld`).
- A process that dies between the claim of the payment row (:595) and the move leaves
  a paid order pending; retries find it paid and return, the sweep only reports it.
  The comment at :608-609 says a captured payment must always move forward
  (`Crashes = TRUE` breaks `CapturedMovesForward` and `NoSilentCharge`).
- A capture on an order that an admin moved to processing by hand is flagged as one on
  a dead order and its paid edge is skipped (:634; the comment at :623 speaks of
  cancelled and failed).
- A retry of a checkout whose order was cancelled or failed is handed the dead order
  (:163); a request that loses the key and whose winner is freed before it looks gets
  the raw P2002 error (`AdoptWinner` ending in `refused`).
- A request that loses the key to another tab adopts the winner's order without
  comparing the lines: the shopper is handed another basket, and the loser's coupon
  lands on it (two `Requests` break `HandedBackMatches`).
- The same cancel, seen from the payment: a captured order that has ended is served and
  not flagged (`OperatorRaces = TRUE` in `payments_races` breaks `SettlesAsPromised`).
- The forced path emits the partner pings but does not start `setItemProduction`.
- A restock (:417) adds units to a print-on-demand variant that had taken none;
  `StockNotInvented` is about tracked shelves.
- `applyDiscount` (:144-152) reads the status without a lock; an order paid between the
  read and the write has its settled total changed, against the comment at :142.
- `order.meta` is merged from snapshots by several writers, although
  `lifecycle.service.ts:243` says "so a concurrent writer's keys survive" of one of
  them; a refund flag of `markPaid` can be lost.

Checkout
- A retry with the same lines is handed the old order although the shopper signed in
  or out, or removed the code, meanwhile, and the tax happens to agree: it charges
  other than the cart shows. `order.schema.ts:62` says it charges exactly that figure,
  `order.service.ts:89-91` that the discount is a function of the lineup.
  `ChargedAsShown` excludes it by its premises on `own` and `code`.
- Overlapping checkouts write their discounts on one order, each over what it read: the
  figures add up, and the amount may be of the other basket (`calm` in `OrderPriced`).
- A code that is shown can be dropped although nothing came between, and the order is
  answered at full price, against "the order charges exactly the [...] figure the cart
  displayed" (`order.schema.ts:62`): `checkout()` quotes on `totals.subtotal` (:642) while
  the cart quotes the eligible subtotal, so that a code with a maximum passes in the
  cart only; and a code with a limit per customer is quoted to a cart without customer
  and mail (`coupon.service.ts:45-48`) and refused its slot (:184). The tax on the order
  stays that of the discounted amount. `ChargedAsShown` asks of such an order all but the
  discount. The cap in `applyDiscount` counts shipping and tax in.
- Reads and edits of a cart load the document and save all of it. Of two edits one
  is lost, a read can undo an edit, and a save after the payment brings back the cart
  that was cleared. `abandonedCartSweep` (`lifecycle.service.ts:270-312`) writes a cart
  read several awaits before.

Paying
- `createIntent` writes `txnId` whatever the payment row has become (:197): after a
  payment settled it points to an intent that was never paid, and `refund()` then asks
  about the wrong one; :195-196 says refunds rely on it.
- The page can charge twice, against the comment at :243-244 ("Safe
  against double-charge"): an answer is
  lost, or comes after the lock's 30 seconds, or the tab's process dies, and the shopper
  tries with a new token; or a webhook of another payment has claimed and not yet moved
  the order. The `finally` (:264) also deletes a lock that has expired and belongs to
  another call.
- The capture of an approved PayPal order does not take the lock (:305), so a card and
  a PayPal order can both be captured; and `finalizeReturn` decides on a status read
  before it asked the provider, so an order cancelled meanwhile is captured.
- An approval webhook captures the intent on the payment row, not the one that was
  approved (:455); when they differ the capture throws and the event is retried in vain.
- `payment_events` are unique per event id: `woopay` uses the transaction id, so a
  success after a decline of the same transaction is taken for a replay. Events of
  Sezzle carry no order id, and its `order.authorized` is taken for a payment.
- A `payment.failed` at `api/routes/webhooks.ts:46` fails a pending order on one declined
  attempt, although the shopper may still pay it with another card.

Refunding
- `paymentGateway.service.ts:403` takes a flip of zero rows for "already processed". The
  row is found by `providerRefundId`, stored at :548 after the provider answered; a
  webhook in between flips nothing, is marked applied, and the refund stays pending
  (`EarlyEvents = TRUE` breaks `OutcomeRecorded` in `refund_live`).
- :566-570 says the coupon is released only when the provider confirms. The cancel at
  :575 releases it (`order.service.ts:463-470`) when the provider has merely
  accepted, and may still fail, the refund.
- A lost answer of the provider is treated as a refusal (:540): the row fails and the
  reservation is given back while the money is on its way, so more than the total can
  be returned (`LostAnswers = TRUE` breaks `NeverOverRefund`).
- A delivery that dies after its flip is not finished by the retry, which flips zero
  rows: after `failed`, `refundedTotal` stays too high; after `succeeded`, coupon
  and notice are skipped. A `refund()` that dies before it asked leaves a reservation.
- The sum at :410 is read apart from the flip, so two deliveries can both announce the
  full refund.
- The review (:573) counts reservations: of two partial refunds that complete the
  total, the order is cancelled even when the provider then fails one. A delivered order
  is not cancelled by a full refund.

Coupons
- An order that is ended, and whose release runs, before a slow checkout reserves its
  slot keeps the slot for ever.
- `remove()` deletes on a count read before a checkout redeemed the coupon (:117),
  and the redemption goes with it, against :111-116.
- After the unique key fails inside the transaction, PostgreSQL has aborted it: the
  compensating decrement at :200 throws, and the checkout fails where the code
  means to answer true.
- A checkout that died between reservation and discount is retried; at the limit
  the quote fails first and the order stays at full price with its slot taken.

Vendors, partners, parcels
- Overlapping submissions can both create and both print (`overlapped` in
  `PrintedOnce`); a cancelled order is still printed by a submission in flight.
- A Printful draft made at checkout counts as confirmed for `retryStuckPushes`, so a
  confirm that failed is not tried again; and a draft that recovery found is recorded
  as ok without being confirmed. `ConfirmedIsMade` and `PaidIsMade` therefore leave
  Printful out.
- A redirect is not followed and recorded as a failure, so that the partner mends its
  endpoint (`webhookDelivery.ts:340-349`); its text, "refused to follow redirect", matches
  `refused` among the words of a failed connection (`fulfillmentAudit.service.ts:367`), so
  the order is offered again at every audit.
- A partner that took the order and answered too late is sent it again. `auditAll` counts
  deferred rows and drafts as ok.
- A split of an order that dies leaves parties without a parcel, and overlapping ones
  double them (`overlapped` in `OneParcelEach`). A cancelled shipment can be marked
  shipped by a request that read it before (`shipmentService.ts:146`).

Campaigns, automations
- `campaignSend.service.ts:152` says "Safe to call twice; the row status is the lock":
  text rows are sent without a claim (`alone` in `OneCopyEach`).
- A transport over an API that times out may have taken the mail; it is tried again,
  against :238-245 (`carrier = "api"` is left out of `OneCopyEach`).
- Consent is read with the batch, not at the moment of sending (:184).
- The last `sent` is written over a pause, a cancel or a new schedule (:267); a run that
  read `scheduled` marks a cancelled draft as sending; rows claimed by a dead run stay
  claimed and its campaign `sending`.
- `automation.service.ts:271` mails an address without a subscriber row, while the
  campaign says "Null is not consent"; a run whose enqueue failed blocks its later
  firings (:247, :255); two firings both find no run; a process that dies between the
  mail and its record, or whose record fails, sends again.
- A guest who unsubscribed still gets the abandoned-cart nudge: the fallback looks at
  `customer.meta.noMarketing` only, against `lifecycle.service.ts:297`.

Accounts, memberships, cache
- A request that dies between voiding another account's address and renaming its own
  leaves the address nobody's; concurrent edits of one account's addresses can leave
  the column with an address that leads nowhere (`orderly` in `ProofLetsIn`).
- A signup is spent when a registration fails after the increment or the customer has
  joined meanwhile, against `milieu.service.ts:292`.
- A group prolonged while the sweep runs is deleted all the same (:271), memberships
  extended during it are announced as revoked, two sweeps announce twice, two reminder
  runs remind twice, and a reminder stamped after an extension means none at the real
  end. `reset_expiry` gives a pending row an end, so the sweep may take it before it
  was approved; a registration in flight joins as active a group that was just put
  under approval.
- Two first readers of a namespace can set generation 1 over an invalidation
  (`lib/cache.ts:45-48`); an entry written under generation 0 while Redis was away lives
  on till its TTL; raw SQL on stock (`order.service.ts:234`, :397-424) and edits of
  cluster groups invalidate nothing, against `db.ts:18-26` (`sound` in
  `FreshAfterWrite`).

## 9. Not modelled

- In modelled services: per-line production stages, contact backfill, remembered
  addresses, creation of coupons and edits of their limits, saved cards, lists of
  methods, audiences and segments, tracking of opens, wording of errors; of the totals,
  shipping zones and currencies, which are table look-ups.
- Reports that change nothing: `auditAll`, `reconcile` and `sweep` of the audit.
- Parsing and signatures of webhooks, and the requests to providers and vendors:
  the adapters' contract is modelled as external behaviour.
- Automations and life-cycle mail, admin sign-in, host actions, edit proposals: read,
  with what was found in section 8 or here, and not modelled. Proposals live in the
  memory of one process and are applied by a check and then a write. `hostAction` marks
  rows older than a minute as interrupted at any boot, although an action may take
  three, and its late result then overwrites the mark. They are away from the commerce
  core, and their protocols are those of `Campaign` (claim, send, record) in smaller form.
- The WooPayments bridge makes single calls to its provider. Catalogue sync overwrites
  single rows, which is `WriteStock` in `OrderLifecycle`. Reads of the category tree
  are capped at a depth of twelve and keep no state.
- CRUD over single rows (settings, connections, capabilities, content, products,
  roles), which has no protocol to check.
- I/O and rendering: mail, SMS, storefront, admin UI, builder, media, backup, host
  console, agents, the Woo- and Shopify-compatible formats, imports.

The last two groups are by far most of the repository: its lines produce HTML,
translate formats or edit a row. That is why the modules, which follow the services
that keep the protocols, stand for a small share of the lines.
