# Formal models of Kloel's money path and message path

TLA+ models of the parts of this repository where several actors change shared
state and a mistake costs money or loses a customer: the Connect ledger with its
payouts and approvals, the Stripe webhook, the marketplace treasury, the prepaid
and the seller's wallet, checkout behind its idempotency guard, the split of a
sale and its reversal, the administrator's destructive intents, the flow engine,
and the way of a WhatsApp message from the webhook to a reply. TLC checks small
instances; TLAPS proves every safety property the passing runs check, for all
values of the constants. `PROJECT.json` is the index: components, runs, theorems, the lines of
code each definition models, findings and hazards.

    tlc -config MCConnect_faults.cfg MCConnect    # any run of PROJECT.json
    tlapm ConnectProofs.tla                       # any *Proofs module

## 1. Inventory

The repository is a monorepo: a NestJS `backend` (PostgreSQL through Prisma,
Redis, BullMQ), a `worker` that consumes its queues, two Next.js frontends, an
e2e suite and a large set of quality scanners.

| Component | State | Operations | What is hard | What must hold |
|---|---|---|---|---|
| **Connect ledger** `payments/ledger` | balance row per connected account, ledger rows unique per (reference, type) | creditPending, moveFromPendingToAvailable (cron), debitAvailableForPayout, debitForRefund, debitForChargeback, creditAvailableByAdjustment, reconcile | read-then-write at READ COMMITTED, overlapping crons, retries | balances are the replay of the rows; a credit matures once; payouts are covered |
| **Connect payouts** `payments/connect` | approval requests, payouts at Stripe | createPayout, createRequest, approve, reject, payout.failed | calls to the database and to Stripe in turn, with a compensation; ids, accounts and amounts that a client combines; crashes; lost replies; failing webhooks; concurrent answers | a payout has its debit, debits settle, approval states tell the truth, unless there is a cause |
| **Stripe webhook** `webhooks/payment-webhook.controller.ts` | claim in Redis, payment and order status, snapshot | payment_intent.*, refund.created, charge.dispute.created, payout.* | duplicates, expiry of the claim under a slow handler, events out of order, partial failure | an acknowledged event had its effect, unless its claim outlived its handler; statuses never run ahead of the money |
| **Post-sale fan-out** `payments/stripe` | transfers at Stripe | one transfer and one credit per split line | failure between lines | every line exactly once |
| **Connect reversals** `payments/connect/connect-reversal.service.ts` | reversals at Stripe | refund, dispute | overtaking the sale, rounding of partial refunds | only what was distributed is taken back, and all of it |
| **Marketplace treasury** `marketplace-treasury` | balance per bucket, rows unique per (order, kind) | append, mature, payout, payout.failed, reconcile | decisions from a balance read earlier, cron limited to the oldest 500 | each movement is booked once; reversals take the whole share |
| **Prepaid wallet** `wallet`, `ai-brain`, worker | balance, transactions | top up, charge, settle, refund | read-then-write, settlement after the usage, retries by a queue | a call costs what its outcome says |
| **HTTP idempotency** `common/idempotency.*` | scope and entry per key in Redis | claim, look up, poll, store, clear | separate commands, slow first request, Redis down, expiry | no answer for another body; a stored response is final |
| **Checkout** `checkout` | order, PaymentIntent, payment, coupon | createOrder | no transaction around five writes | a payment has its intent and order; a final response adds nothing |
| **Split engine** `payments/split` | none | split of a sale | rounding, clamps | cents are conserved |
| **Seller wallet** `kloel/wallet.service.ts` | pending and available, rows, credits | sale, confirm, cron, withdraw | optimistic lock some writers lack, status raised before the money, balances kept in cents and as a Float | a sale is credited and released once; a withdrawal is covered by the Float, and by the cents up to the rounding |
| **Admin transactions** `admin/transactions` | order status, seller debits | refund, chargeback | status checked before the transaction | one debit per order and kind unless calls overlap |
| **Destructive intents** `admin/destructive`, `admin/products` | intent row, product | create, confirm, expire, undo | updates by id alone, an update nobody awaits | an intent takes effect once, and its status says whether |
| **Flow engine** `worker/flow-engine-global.ts` | context, timeouts and reply list in Redis, execution row | run, resume, timeout, retry | three loops that each read and write back the whole context | no flow hangs or is deaf to a reply |
| **Inbound WhatsApp** `whatsapp/inbound-processor.service.ts` | dedup key, two locks, message rows | deduplicate, store, tell the flow, collect, reply | webhook against catch-up, locks that expire, a batch of limited size against rows that cut it off | each message stored and told once, answered unless there is a cause |
| Queues and dead letters, autopilot, campaigns, onboarding, billing, fraud, auth, CRM, member area, frontends, tooling | | | | not modelled, see section 7 |

**How they interact.** The checkout creates an order and a PaymentIntent and
stores the split with the payment. Stripe calls the webhook. For a sale that
succeeded the webhook calls the fan-out (a transfer at Stripe and `creditPending`
per line), stores the snapshot reversals need, credits the fee to the treasury
and sets the statuses. Crons move due credits from PENDING to AVAILABLE, from
which payouts debit. Refunds and disputes reach the reversal service through the
webhook; it reverses transfers, debits the ledger and takes the rest from the
treasury. `payout.failed` credits AVAILABLE back. The administrator refunds
orders without a Stripe payment against the seller's wallet. Features that use
language models bill the prepaid wallet before they work and settle afterwards.
A WhatsApp message goes through the inbound processor to the flow engine's reply
list and to the autopilot.

**Hazards.** `PROJECT.json` lists each at its line with the properties that would
catch it going wrong.

## 2. Modules

| Module | Models | Remark |
|---|---|---|
| `Journal` | abstract ledger: append-only, one posting per (reference, type), a credit promoted at most once | refined by `ConnectLedger` |
| `Book` | abstract account book: buckets change only with a row in the same step, a row is entered once | refined by `MarketplaceTreasury` and `SellerWallet` |
| `ConnectLedger` | the six ledger operations, the cron, the unique index, the replay | one transaction = Begin, ReadBalance, Commit or Rollback |
| `ConnectPayout` | createPayout await by await, direct endpoint, approvals, payout.failed with its claim, Stripe, crashes | ledger operations are atomic here |
| `StripeWebhook` | deliveries, the claim, the fan-out, refund and dispute | Stripe calls and rows are sets, because they carry keys |
| `PrepaidWallet` | the four wallet operations and their callers, inline and through the worker | |
| `MarketplaceTreasury` | fees, reversals, payouts, the cron with its window | |
| `IdempotencyGuard` | guard and interceptor, any handler | |
| `CheckoutOrders` | the guard composed with createOrder | refines `IdempotencyGuard` |
| `SplitEngine` | the split and the reversal plan as functions | pure |
| `SaleReversal` | refunds and disputes of one sale, in cents | uses `SplitEngine` |
| `SellerWallet` | sales, confirmations, the cron, withdrawals in cents and reais, the administrator's debits | |
| `DestructiveIntents` | intents and the two handlers that change a product | |
| `FlowEngine` | the three loops over one contact's executions | |
| `InboundMessages` | one contact's messages through the inbound processor | |
| `Cents` | sums of cents over a set, by counting them | used by the ledger's and the payouts' properties |
| `MC*` | instances for TLC; `MCConnect` has the ledger and the payouts, `MCSale` checkout, seller's wallet and reversals | |
| `*Proofs` | the theorems: `ConnectProofs` about ledger and payouts, `SaleProofs` about checkout, the seller's wallet and reversals, the others about the module they are named after | |

The models stack: what a `Credit`, `DebitStakeholder` or `Debit` step of
`StripeWebhook` and `ConnectPayout` does to the ledger is one transaction of
`ConnectLedger`; the residue of a reversal, recorded there by its key, is a
`DebitPending` or `DebitAvailable` of `MarketplaceTreasury` with its amounts; `SaleReversal` has
the cents `StripeWebhook` leaves out; `InboundMessages` ends where a reply is in
the list from which `FlowEngine` starts. They are not multiplied into one state
space: the lower model shows what the upper one assumes (a posting happens at most
once per reference whatever races), except that the upper two take a debit's
balance check to be atomic, which it is not when writers of one account
overlap; `DriftOnlyFromLostUpdates` is about that.

`MCConnect` and `MCSale` explore modules that share no variable side by side: a
behaviour moves one part and leaves the others at their initial state, so the state
space is the sum of theirs and not the product. The variable `part` says which one
moves. In `MCSale` each fairness condition is about a part only when it is the one; in
`MCConnect` the part that rests has no fair action enabled, since it is at its initial
state.

A *cause* in the names below (`irregular`, `excused`, `failed`, `thrown`, ...) is a
history variable. Code like this cannot promise that nothing ever goes wrong, and
an unconditional invariant would be false; the properties say instead that every
deviation has one of a short list of causes, and so that interleaving alone,
without a cause, produces none.

## 3. The modules and the code

**ConnectLedger.** `balance` and `rows` are the two tables; `stage`, `job` and
`snap` the local state of an open transaction. Prisma's `$transaction` is used
without an isolation level, so PostgreSQL runs it at READ COMMITTED and other
transactions commit between its statements. The UPDATE names only some columns
(`Written`) and sets them to values computed from the read (`After`). UPDATE,
INSERT and commit are one step because the UPDATE holds the row lock. `replayed`
follows the reconciliation's `replay()` over the rows in commit order, `lost`
remembers the columns on which a commit overwrote a change made since its read.
Left out: time, the cron's batch of 500 (a batch only delays: matured credits are
excluded), the missing account row, balance-after columns, rows with equal
creation times in the replay.

**ConnectPayout.** A request is what one call names: an id, an account and cents. The
endpoint takes the three from the body independently, so requests may share an id
(`IdOf`); a generated id has one request of the server's own. `debits`, `returns` and
`credits` are the ledger rows posted; the ledger looks for a row by its reference only,
whatever account it is on (`HasRow`), while Stripe's idempotency key has the account in
it, and a key used again with other cents is refused (`Exists`, `Accepted`). A handler's
`phase` is the await it has reached in `createPayout`, `createRequest`, `approveRequest`
or `rejectRequest`. Approval requests are read once and updated later by id alone.
`payout.failed` is a delivery that claims its event in Redis, a handler that credits the
cents and then writes an audit entry, either of which may throw (`FailNotice`,
`EndNotice`), and a claim that stays (`ClaimExpires`): a delivery that finds it is answered
200 with nothing done. `Calls` bounds the calls of createPayout, `Mishaps` the crashes,
lost replies, failing credits and failing webhooks together. The histories `repeated`,
`unheard`, `broken`, `thrown` and `skipped` are the causes; `calls` and `begun` count.
Left out: createPayout's audit rows, alerts.

**StripeWebhook.** One sale, its intent's events, at most one refund and one
dispute. `claims` are the Redis keys with their expiry; Stripe may deliver any
unanswered event again at any time, also while its claim is held. `Throw` is an await
that throws, a server that dies or a reply that is lost: all look alike to Stripe.
The two updates whose errors the code swallows are a choice inside `EarlyPayment`
and `ApprovePayment`. The histories `thrown` and `skipped` tell which events a handler
failed on and which were answered 200 as duplicates; an event in both is `Forgone`.
Left out: the kloelSale mirror, lines of zero cents, amounts.

**PrepaidWallet.** Look-up and read are one step (a duplicate that commits in
between is refused by the index either way), write, row and commit another: the
balance written is the one read, plus the amount, so overlapping writers overwrite
each other. The callers are part of the model: an inline feature charges, works and
settles in one handler, the knowledge base charges in the handler and settles in a
queued job that is repeated when it throws. Six kinds of fault can be chosen per run.

**MarketplaceTreasury.** A change is one transaction that inserts the row and
increments the balance, so nothing is overwritten; what was read *before* it may be
stale, and the model keeps that read in the handler. The read is an upsert with an
empty update, which takes no lock when the row exists. RESERVED is never written.

**IdempotencyGuard, CheckoutOrders.** Every Redis command is a step; `settled`
are the responses stored while no other request was past its look-up. The guard is
version 2, the default. createOrder is the one decorated method that writes; its
five steps have no transaction around them.

**SplitEngine, SaleReversal.** Functions of the validated input, with floors and
clamps as in the code. Each refund is planned from the *original* amounts. Stripe
refuses to reverse more than is left of a transfer.

**SellerWallet.** Sales, confirmations and withdrawals demand the `updatedAt` they
read; two writes may fall in one millisecond (`ties`). A confirmation that finds
the wallet changed returns `race_lost`, which *commits* its raised status. The cron
and the administrator's debits take no lock. Each balance is kept twice. A withdrawal's
amount may have any number of decimals; it is compared with the Float
(`kloel/wallet.service.ts:273`, although `schema.prisma:1579-1586` calls the Float
columns deprecated to read), taken from the Float as it is and from the cents as
`Math.round(amount * 100)` (281, 293). `reais` is the Float of AVAILABLE in parts of a
cent, `Grain` of them to the cent; all other operations change it by whole cents. Retries
are further elements of the request sets. Left out: the errors of Float arithmetic (sums,
and the product with 100, are exact here), the Float columns nothing is compared with, and
the audit row after a withdrawal. A withdrawal's id given to `confirmPayment` rolls back.

**DestructiveIntents.** A call loads the row, judges it, and updates by id alone,
one statement at a time. The update to EXPIRED is sent without an await and
counted in `expiring`. Product statuses stand for the pair (active, status); expiry
may come at any moment. Challenge, creator and token are taken as right, and the
handlers for sessions and caches, which have no undo, are left out.

**FlowEngine.** One contact of one workspace and one worker container: flow-jobs
and flow-engine with concurrency 1, the monitor's check every five seconds, never
two at a time. The nodes are of three kinds: one that acts, one that parks the
flow (waitNode), one that looks for a reply and parks when there is none. The
database log is written with a node's first effect. Three failed attempts of a node
go to its fallback or to FAILED with the context kept. A timeout does not elapse
within the moment of its arming (`Calm`). Left out: executions without a row,
subflows, delays, the iteration limit, list TTL, failing `context.set`.

**InboundMessages.** A handler is one call of `process`; its phases are the awaits
of `checkDuplicate`, `saveMessageByPhone`, `deliverToFlowContext` and
`triggerInlineAutopilot`. `older` stands for creation times: the messages not after
the last reply's row, which a message written within the second of that reply
joins, since the provider's time is in whole seconds. The catch-up runs the same code and differs in
three places: it does not tell the flow, it may leave the reply to the worker, and
nobody acknowledges it. A batch is the oldest `Limit` rows after the last outbound row
(`take: 50`, ascending): what a full one leaves out is cut off by the reply's row. Any
other outbound row, of a person, a campaign or a flow, moves the cut too
(`SpeakOtherwise`). A lock taken by somebody else ends the call; a refused send
is only logged and keeps the lock; the key is deleted without looking whose it is.
Left out: human mode, audio, profiles, the worker's scan of a contact; a reply in
several parts is one, and three looks at a claim are one.

## 4. Runs

| Run | Instance | Shows |
|---|---|---|
| `connect_faults`, the ledger | 1 account, 5 requests, 2 callers and the cron, rollbacks | drift only from lost updates, PENDING explained, payouts covered, refinement of `Journal`, credits mature |
| `connect_faults`, the payouts | a direct request and an approval that the funds cannot both cover, the approval's id sent again for another account, 2 handlers, 2 calls of createPayout, 1 crash, lost reply, failing credit or failing webhook | paid only against a debit, deviations have causes, verdicts true, within funds, debits settle |
| `payout_resubmitted` (violation) | the same, no fault | one id, two payouts, one debit |
| `webhook_overlap` | 2 lines, 2 handlers, failed and refund events, 1 failure, expiring claims, redelivery at any time | undone only if forgone, nothing ahead of the money, sale and refund complete unless forgone |
| `webhook_claim` (violation) | the same | an acknowledged sale that is never distributed |
| `wallet_faults` | an inline page and an ingestion, 2 top-ups, 2 processes, 6 kinds of fault | calls cost what their outcome says, whatever overwrites the balance |
| `wallet_overspend` (violation) | the same, no fault | rows that spend more than was topped up |
| `treasury_books` | 2 sales, a reversal delivered twice, a payout requested twice, 2 handlers, 2 crons, 2 failures | refinement of `Book`, whole reversals, payouts accounted for |
| `treasury_window` (violation) | 2 sales, a window of 1 | a fee that never matures |
| `sale_parts`, checkout | 3 requests of a key, 2 bodies, Redis faults, a crash, expiry | answers match bodies, final responses, everyone answered |
| `sale_parts`, the seller's wallet | a sale of 2 cents, withdrawals of 1.5 and 0.5 cents, 2 chargebacks of one order, 2 processes | refinement of `Book`, stranded credits and double debits have causes, withdrawals covered |
| `sale_parts`, reversals | small sales, up to 3 refunds of any size | cents conserved, plans exact, reversals complete unless a plan exceeds a transfer |
| `intents_overlap` | 2 intents on one product, 2 handlers, 4 calls, 1 edit, 1 failure | effects once, statuses true, undo restores |
| `flow_resume` | 3 nodes with two questions, 1 execution, 1 reply, 1 fault | no flow hangs or is deaf, repeats have causes, waits end |
| `inbound_contact` | 2 messages, one delivered twice, batches of 1, other outbound rows, 2 handlers, expiry, 1 failure | heard once, nobody forgotten, two replies only when a lock went |

**Bounds.** Every race in this code is between two parties over one row or key, so
two processes and one account, wallet or contact show each interference; the
proofs remove these bounds where there are any. Two split lines let a failure fall
between a line and the next. One failure per behaviour reaches every phase with any
prefix of the work done. Amounts are chosen so that a dispute spills over into
AVAILABLE, a payout is refused, funds cover one of two requests, an id is sent again for
an account with cents of its own, and two withdrawals together take all reais of a sale
and, rounded, a cent more than its cents (a cent has 10 parts, 1.5 rounds to 2 and 0.5
to 1). Two calls of createPayout are enough for an id called twice. The treasury's window
is 1 instead of 500, the batch of a reply 1 instead of 50, and a coupon may be used twice.

Larger instances were checked once and gave the same results: the payouts with three
calls (safety, 3.5 million states), the seller's wallet with two sales, a refund and two
chargebacks (4.4 million), the webhook with a dispute as well, two payout requests with
two treasury crons (2.5 million), two replies or two faults in the flow engine (3
million), two executions (safety, 10 million), three inbound messages in batches of two,
delivered once and without failures (15.6 million). Every system may come to rest when all requests are done,
hence `CHECK_DEADLOCK FALSE`.

Type invariants are theorems, so TLC need not repeat them.

**Fairness.** Ledger: a transaction does not stay open (Prisma's timeout), so weak
fairness of its next step; the cron runs every minute and the database does not roll
back every one of infinitely many attempts, so strong fairness of beginning, reading
and committing a maturation. Payouts: a handler that started goes on, of the webhook
too, Stripe settles and delivers `payout.failed` until answered 200 (weak). Webhook:
handlers go on and claims expire (weak); Stripe delivers an unanswered event again and
again, which is strong because the claim and busy handlers disable it in between. When a
delivery falls within the time of a claim is left open, so no liveness result rests on a
retry's being late: `SaleSettles`, `ReversalCompletes` and `EveryDebitSettles` except by
name the event that failed and was then answered as a duplicate. Stripe's retries end
after some days; the liveness results are about a system that recovers sooner. Treasury: the cron runs (weak). Checkout: a request's own steps (weak).
Reversals: Stripe repeats an event until it is done (weak). Flow engine: the two workers and the
monitor go on and armed timeouts elapse (weak). Wallets, intents and inbound
messages state safety only and assume none.

## 5. Proofs

All theorems are of the form `Spec => []Inv`, `Spec => [][A]_vars` or refinement, from
the named assumptions on the constants only, hence for any accounts, requests,
handlers, lines, messages and number of failures.

*ConnectProofs, the ledger.* Types first. `DriftOnlyFromLostUpdates` is inductive with
them: each operation's arithmetic agrees with its case of the replay on every column
it writes and that was current when read. `MaturedIffMoved` needs that a process about
to post a MATURE row names an existing credit. Each commit is then a Journal append
or promotion (`LedgerImplementsJournal`). With a single process the read is still
current at commit (`SerialLedgerNeverDrifts`). `PendingIsAccountedFor` is about sums
over rows. Each row stands for a set of its cents (`Cents`), so a sum is the
cardinality of a set and adding a row is a disjoint union; that needs the library's
theorems on finite sets and no induction. The strengthening `PendingInv` adds that
only refunds and chargebacks take from PENDING and that the sets are finite.

*ConnectProofs, the payouts.* The strengthening says that a handler past Stripe has a
payout, that nothing exists for a request before createPayout was called for it, and that
a request whose id was called once is the only one with that id (`HandlersAreBacked`).
Of such a request whose reply came it has at most one handler, whose phase tells its
debit, return and payout (`RegularRequests`); with `ApprovedExist` that is
`PaidAgainstADebit`, for every way of sharing ids, accounts and amounts among requests. For the
verdicts it adds who is still asking Stripe and who is about to write FAILED (`Asking`,
`Failing`). `PaidWithinFunds` follows from an equation that holds under every fault,
`Books`: what is available and was debited is the funds and what was returned or credited,
where only failed payouts are credited (`Announced`); the debits of an account without
irregular requests cover its living payouts.

*StripeWebhookProofs.* A handler in the fan-out at line n has transferred and
credited the lines before n, one past it all of them, one in a reversal likewise
(`SaleProgress`, `ReversalProgress`). Sets only grow, so the progress of one handler
survives the steps of others. `AcknowledgedIsDone` assumes nothing of Stripe's retries. A
handler that is about to acknowledge has done its event's work (`HandlerDone`). A claim
that can answer a redelivery belongs to a handler at work or to one that threw
(`ClaimFate`), and what was acknowledged undone was answered as a duplicate
(`SkippedFate`); so an acknowledged event is done, or still handled, or forgone
(`AckedFate`).

*PrepaidWalletProofs.* A process holds a snapshot that covers its charge
(`SnapsCover`), which makes the types hold: the balance is never negative, though the
rows may be. Outcomes follow from a table of what each stage of a call has posted
(`Stage`, `Accounted`), and not from the balance.

*MarketplaceTreasuryProofs.* Rows and buckets change together, so every step is a
entry of the book or a stutter. `ReversalsAreWhole` and `PayoutsAreAccountedFor`
follow from what each phase has taken (`Taken`, `Parted`, `Whole`) or posted
(`Accounted`, `Resting`).

*SaleProofs, the checkout.* Each step of checkout is one of the guard
(`CheckoutImplementsGuard`), so the guard's invariant carries over: entries match
bodies, a scope holds while nothing failed or expired, a response settled without
rivals is final.

*SaleProofs, the seller's wallet.* A release is exclusive per sale and rows follow credits
(`BookInv`); a credit is stranded only if its confirmation noticed an overlap
(`Noticed`); a withdrawal whose stamp matched is still covered by the Float (`Covered`).
The cents follow by the rounding (`Near`): each booked withdrawal takes half a cent at
most more from the cents than from the Float (`RoundedBound`), and everything else
changes both alike. Debits of an order that were not in progress together see each other (`DebitInv`).

*SaleProofs, reversals.* A sale has five lines, so its sums have a fixed number of
terms. `SplitOwners` follows the cents through the clamps: each part is taken out of
what is left. For a plan, floors differ from the shares by fractions below one; the
fractions add up to whole cents, fewer than the lines that have one, and the ranks of
these lines give each a different place (`RankSum`, `ZeroRank`), so exactly as many
get a cent as are missing (`BonusSum`, `PlanExact`). `ReversalInv` says that every
plan is such a plan of its event.

*FlowEngineProofs.* The types say which copies and results each loop holds in which
phase (`Shape`). Repeats are excluded by a rank of the nodes in a forward flow
(`InOrder`, `StartedOnce`). `NoFlowHangs` and `RepliesAreHeard` follow from `Kept`: at
every step somebody is responsible for the context, the runner or one of the other
loops, a job or an armed timeout.

*InboundMessagesProofs.* The type invariant is strengthened by `OneHandlerStores`, the
unique row's effect on handlers. What the flow hears: a stored message is told, or its
one storing handler still has to tell it, and a claim belongs to a message somebody
serves (`ToldOnce`, `ClaimsAreServed`). Second replies: as long as the reply lock has
not gone under it, a replying handler holds it and is alone (`LockHeld`), and what was
answered is not after the last reply's row (`AnsweredAreOlder`, `Fresh`). Nobody
forgotten: an unanswered message without a cause is in every batch to come, and a
handler is on its way that will collect it (`OwedAreServed`). The limit of a batch is any
positive number: what a full batch leaves out, and what another outbound row cuts off, has
a cause from that step on.

*DestructiveIntentsProofs.* About intents of which no two calls overlapped: the one
call at work (`Alone`) knows what the row says (`Good`), so what it writes by id agrees
with the effects so far; only a lapsed intent is being expired (`LateOnly`), and none
that is executed. Types come first, since undo writes back what a snapshot holds
(`Snapped`).

**Only model-checked.** Liveness (`EveryCreditMatures`, `EveryDebitSettles`,
`SaleSettles`, `ReversalCompletes`, `EveryRequestIsAnswered`, `ReversalsComplete`,
`WaitsEnd`): the prover does not reason about fairness or ENABLED. The strengthened
invariants were checked by TLC on the instances of the runs before they were proved.

## 6. Findings and observations

Four runs show a disagreement between the code and what the repository says of it:

- `treasury_window`: each run of the treasury's cron takes the 500 oldest fee credits
  without excluding those already matured, so after 500 matured fees no later one is
  looked at (`marketplace-treasury-maturation.service.ts:70`, which "Moves marketplace fee
  credits from PENDING to AVAILABLE", line 24).
- `payout_resubmitted`: a request id sent again for another account finds the debit
  posted and pays that account without one (`ledger.service.ts:174`, against "retries
  remain one-payout/one-ledger-debit end-to-end", `connect-payout.service.ts:69-71`). An
  id sent again after a refused payout is paid without a debit as well (143).
- `webhook_claim`: the claim is kept when the work throws, and a delivery within 300 s is
  answered 200 as a duplicate, so Stripe stops and the sale is never distributed
  (`payment-webhook.controller.ts:1767`, against "Re-throw so the webhook handler returns
  non-2xx and Stripe retries", `stripe-webhook.processor.ts:286-287`). The same loses the
  cents of a failed payout whose handler threw; `EveryDebitSettles` excepts it.
- `wallet_overspend`: two charges of the prepaid wallet read the same balance and both
  are posted (`wallet.service.ts:265`, against "concurrent debits never over-spend",
  33-35).

Met while modelling; each is either a cause in a property or outside the models.

*Webhooks and payments.*
- A repeated `succeeded` turns REFUNDED back into APPROVED (`:830`), and a PENDING
  order stays PROCESSING.
- Two partial refunds may give the extra cent to the same line, Stripe refuses, and
  the webhook fails for ever; `ReversalsComplete` excepts it.
- `split.types.ts:11-13` calls a part "never zero unless remaining is zero", but
  small commissions are floored to 0.

*Ledger and payouts.*
- Two transactions on one account lose an update although all writes are inside
  `$transaction`; the lifetime identity in the title of a test
  (`ledger.service.spec.ts:507`) ends with a refund, which lowers no lifetime column.
- An approval request answered by two administrators may end REJECTED with its payout
  made (`connect-payout-approval.service.ts:261`); `VerdictsAreTrue` is about FAILED.
- The migration (`20260417220000_connect_ledger/migration.sql:8`) says entries are
  "never UPDATEd"; the maturation raises `matured` (`ledger.service.ts:141`).
- The reconciliation reads balances before rows, outside a transaction
  (`connect-ledger-reconciliation.service.ts:128`).

*Wallets and treasury.*
- A failure after a settlement refunds the original charge. A PDF's request id comes
  from its name and size, so equal ones are served free. A knowledge base source
  that fails to be created, or an ingestion given up, keeps its charge.
- A seller's credit is stranded by the committed `race_lost`
  (`kloel/wallet.service.ts:221`, against the comment at 165-168).
- Withdrawals of fractions of a cent may take the seller's cents below zero while the
  Float covers them (`kloel/wallet.service.ts:273`).
- The treasury's AVAILABLE may go below zero by a stale check
  (`marketplace-treasury.service.ts:263`).

*Checkout and administration.*
- The comment at `checkout.service.ts:1870` says an existing record prevents a second
  charge; there is no look-up, only the guard. A coupon may be used more often than
  its limit (`:1397`).
- `refund_requested` may be written over `refunded` (`admin-transactions.service.ts:125`).
- Confirming an UNDONE intent after its TTL turns the row EXPIRED; FAILED may be
  written although the product was archived; overlapping confirmations both execute.

*Flows and messages.*
- One reply may answer two questions, since the copy in the context does not consume
  the list (`flow-engine-global.ts:546`); a timeout never leads a waitNode on (`:1741`); the
  late flag survives an answered question; a stale write revives a finished flow; the
  reply list is keyed by phone only, shared between workspaces.
- A handler that fails is answered 200 (`meta-webhook.controller.ts:178`), and an error
  also drops the rest of its entry; a repeated delivery within 300 s finds the claim.
  Such a message is stored only if a catch-up imports it, although the architecture
  record calls the table the authoritative log (`docs/adr/0001...:141`).
- A message the catch-up stores first is never told to a waiting flow.
- Of more than 50 waiting messages a reply sees the oldest 50
  (`inbound-processor.service.ts:945`), and its row cuts off the rest, the one being
  answered included.
- A message that arrives in the rest of the 45 s after a reply is turned away, and
  nobody answers it until the contact writes again.
- The limit on rescues from the dead-letter queue is counted by an id that changes with
  each rescue (`worker/dlq-monitor.ts`), so it limits nothing.

## 7. Not modelled, and the plan

*Partly modelled.* Of the webhook, `account.updated`, `checkout.session.completed` and
the shop endpoints, which update one row each. Of checkout, totals, shipping, bumps and
later status changes. Of the administrator's transactions, the Stripe refund, which only
calls Stripe. Of the flow engine and the inbound processor, what section 3 lists.

*Not modelled.* The autopilot and the agents decide by language models. Campaigns are
a loop of jobs. Onboarding, billing, fraud screening, authentication, CRM, member area
and affiliates keep records with single-statement updates or evaluate pure rules.
Frontends hold the server's state; tooling is not part of the product.

Next, in this order:

1. Dead letters: the copy by both processes' listeners, the monitor's rescue, the two
   scripts; nothing vanishes, rescues are bounded.
2. The worker's scan of a contact beside the inline reply, on the same locks.
3. Theorems about compositions: the ledger's transactions under the payouts'
   `debits` and `returns`, the treasury's book under the webhook's residues.
