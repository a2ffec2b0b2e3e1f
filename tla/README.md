# V2rayMarket in TLA+

V2rayMarket is a Laravel 12 shop (PHP 8.3, MySQL) that sells VPN services on a
website and through a Telegram bot, and provisions them on one of three panels:
Marzban, 3x-ui (`xui`) or XMPlus. This directory holds TLA+ models of the part of
it that moves money and delivers services, the TLC configurations that check them
on small instances, and TLAPS proofs about them for instances of every size.
Paths below are relative to `src/`, `WebhookController` without a directory is
`Modules/TelegramBot/Http/Controllers/WebhookController.php`.

## 1. The system

A request is served by one PHP process at a time: a php-fpm worker (site, payment
callbacks, the bot's webhook, the admin panel) or a queue worker. Workers share the
database, the cache and the panel, nothing else, so all concurrency is between
requests and all synchronisation is by row locks (`lockForUpdate`, writes inside
`DB::transaction`) and cache locks (`Cache::lock`, which has a time to live).

### Components

| component | state | operations | how it interacts | hard part | correct when |
|---|---|---|---|---|---|
| **Order settlement** (`app/Actions/FulfillOrderAfterPaymentAction.php`, `ApprovePendingOrderAction.php`, `OrderController`, `PlisioWebhookController`, NOWPayments' `WebhookController`, the bot) | `orders.status`, `config_details`; `users.balance`; `transactions` | place, Plisio callback, NOWPayments callback, admin approval and cancel, wallet payment on the site and in the bot, renewal in the bot, reopening | calls a panel inside its transaction; locks order and user rows, in different orders | two paths settle one order; checks made before the transaction; rollback after an effect at the panel; row-lock deadlock | each payment is carried out once, wallets add up, a callback is acknowledged only when settled |
| **XMPlus provisioning** (`app/Services/XmplusProvisioningService.php`) | `orders.xmplus_inv_id`; cache locks `xmplus_provision_order_*` (180 s) and `xmplus_ensure_inv_*` (60 s); the panel's invoices | make sure of an invoice, keep or drop it, pay it, poll for the link, enforce a renewal | called by fulfilment (in its transaction), approval and order pages | the lock may run out under its owner; the order is read before the lock; invoices outlive rollbacks | one provisioner, one settlement, no service without a paid invoice but for a renewal the panel grants without one |
| **XMPlus gateway payments** (`app/Actions/CompleteXmplusGatewayPaymentAction.php`, `app/Jobs/PollXmplusOffsitePayment.php`) | cached context `xmplus_inv_ctx_*` | choose a gateway, pay offsite, check, poll by job, persist | shares the invoice and the order with the two above | the job, the bot's button and the page's button poll for minutes and then write | the order is completed once, the paid invoice stays the one asked about |
| **Renewals** (`app/Support/XmplusRenewalEligibility.php`, `app/Services/XmplusServiceRenewalService.php`, `XmplusPackageAwareRenewalService.php`) | expiry and traffic of the renewed order | may it be renewed, new expiry | read by provisioning and by the order pages | boundaries of dates and quotas | refused exactly while neither expired nor used up |
| **XMPlus database sync** (`app/Services/XmplusInvoiceDatabaseSyncService.php`) | tables of the panel's database | link an invoice to a service, apply a renewal | called by provisioning | external schema | – |
| **Queue jobs** (`config/queue.php`, `app/Jobs`) | the `jobs` table | reserve, run, release, retry, fail | the worker's `retry_after` against the job's `timeout` | redelivery while the first attempt runs | attempts are bounded and end, the customer gets a word |
| **Discount codes** (`app/Models/DiscountCode.php`, `DiscountCodeUsage.php`) | `used_count`, usage rows | apply, count at payment | order pages and settlement | limit checked long before it is counted | uses are counted once, a used-up code reaches nobody new |
| **Referral and welcome gifts** (`app/Listeners/RewardReferrerListener.php`, `RegisteredUserController`) | balance, transactions | reward on first paid order, gift on registration | an event fired inside the settling transaction | "first" counted by overlapping transactions | the first purchase is rewarded, repetitions are bounded |
| **Bot conversation** (`WebhookController`) | `users.bot_state`, messages | menus, receipts, trials, broadcasts | every update is a webhook request | updates of one user overlap | a state is consumed by the update it was meant for |
| **Panel clients** (`app/Services/MarzbanService.php`, `XUIService.php`, `XmplusService.php`) | none of their own | HTTP calls | called everywhere | an answer lost after the effect | – |
| **Payment providers** (Plisio client, manual crypto, prepaid gateway) | – | invoice, signature check | callbacks | repeated callbacks | – |
| **Service shares** (`app/Services/ServiceShareService.php`) | five-digit codes | create, redeem | bot and site | look up, then insert | a code names one share |
| **Admin panel** (`app/Filament`) | – | approve, edit status, adjust balance | writes orders and users directly | edits race with settlement | – |
| **Ticketing** (`Modules/Ticketing`) | ticket status | open, answer, close | notifications | – | – |
| **Blog, themes, authentication, installers** | – | presentation and scaffolding | – | – | – |

`PROJECT.json` lists the same components with their sources, and every hazard at
its line with the property that covers it.

## 2. The plan

| order | module | abstracts | status |
|---|---|---|---|
| 1 | `PlisioSettlement`, `ShopOrders` | settlement by every path, panels marzban and xui | modelled, checked, proved |
| 2 | `XmplusOrder` | provisioning, its locks, gateway payments | modelled, checked, proved; liveness by TLC |
| 3 | `OffsitePoll` | reservation, `retry_after` 90 s against a 300 s job, tries, `release(60)`, on top of an abstraction of `XmplusOrder`'s check | modelled, checked, proved; liveness by TLC |
| 4 | `SettlementEffects` | the code's limit checked at apply and counted at payment; `count === 1` inside overlapping transactions | modelled, checked, proved |
| 5 | `Renewal` | expiry dates of overlapping renewals; eligibility as pure operators against a reference definition | planned |
| 6 | `ManualCrypto`, `BotConversation`, `Ticketing` | a proof of payment submitted twice; one user's overlapping updates; ticket status | planned |

`ShopOrders` and `XmplusOrder` both implement `PlisioSettlement`, which is what
composes them: the rest of the shop may rely on it whichever panel is configured.
`OffsitePoll` takes over where `XmplusOrder` counts the poll job as one more check:
it has the check in four steps (answer at once, poll, persist, forget the context)
and around it the queue that decides how often it runs. `SettlementEffects` has the
settling transactions of `ShopOrders` again, with what `ShopOrders` leaves out (the
use of a code, the event `OrderPaid`) in place of money and statements. Discounts
and rewards share it because both ride on the same transactions and both read from
their snapshots.

## 3. The modules

### `PlisioSettlement` – what the shop promises

No workers, transactions or panel: for each order its `status`, Plisio's view of it
(`none`, `owed`, `acked`), how often its payment was carried out, and the total of
each user's deposits. A payment is carried out in one step, on an order that is not
paid, crediting exactly the amount of a top-up. Approvals, wallet payments,
cancellations and reopening are the other steps an order may take.

### `ShopOrders` – settlement with panels marzban and xui

| state | code |
|---|---|
| `status`, `config` | the row of `orders`; `none` is not placed, `deleted` is gone |
| `balance`, `deposited`, `spent` | `users.balance`, sums over `transactions` by type |
| `plisio` | what Plisio knows |
| `held` | the rows each worker's transaction has locked |
| `req` | per worker: operation, order, next statement |
| `returned` | what the bot's catch blocks handed back, which no row records |
| `fulfilled`, `approved`, `reverted` | history, read by properties only |

One action per statement that another request can observe or wait for: `LockOrder` is
`lockForUpdate` with the check under it, `PanelAnswers` and `PanelFails` the call to
the panel, `LockUser` the first write to the user's row, the actions under `Writing`
the rest of the transaction up to its commit, or the answer, or what a catch block
does (`Throw`, `MarkFailed`, `Refund`). What a transaction writes appears at its
commit; a rollback or a crash (`Crash`) leaves the database as it was and frees the
rows, and whatever the panel did stays done. Inserts into `transactions` take the
user's row (the foreign key's shared lock), as they do in InnoDB. A deadlock makes one
of its participants fail (`LockWaitFails`).

### `XmplusOrder` – one order of an XMPlus shop

| state | code |
|---|---|
| `kind`, `autoPay` | a purchase, a repurchase of a package the user has, a renewal; setting `xmplus_auto_pay_gateway_id` |
| `status`, `config`, `saved` | the row: `status`, `config_details`, `xmplus_inv_id` |
| `invoice`, `byShop`, `byCustomer`, `offered` | the panel's invoices, who paid them, which have an offsite page |
| `granted` | the panel accepted the renewal (`serviceRenew` answered OK) and named no invoice for it |
| `ctx` | the cached context of the gateway payment |
| `provLock`, `ensureLock`, `rowLock` | the two cache locks and the row's lock; `Dead` is a cache lock whose owner died |
| `req` | per worker: operation, next step, the invoice at hand, whether its lock ran out (`late`) |
| `fulfilled`, `approved`, `completed` | history: commits by fulfilment, approval, `persistAfterPoll` |

| actions | code |
|---|---|
| `LockRow`, `CommitFulfilment`, `Respond` | `FulfillOrderAfterPaymentAction::execute`, `PlisioWebhookController` |
| `AdminApproves`, `CommitApproval` | `ApprovePendingOrderAction::approveXmplusPendingOrder` |
| `TakeProvisionLock` … `EnforceRenewal` | `provisionPurchase`, `pollForSublink`, `enforcePanelRenewalAfterShopPay` |
| `PlaceOrder`, `OpenPage`, `TakeEnsureLock`, `Reread`, `PutContext` | `ensurePendingShopInvoice`, `prepareWebPaymentGateways` |
| `KeepInvoice`, `DropInvoice`, `ClearInvoice`, `CreateInvoice`, `SaveInvoice`, `Refuse` | the choice of the invoice and the eligibility of a renewal |
| `RenewUninvoiced` | `doRenewal` when `serviceRenew` answers OK without `invid` (1030–1036, 1239–1258) |
| `ChooseGateway`, `PayByGateway`, `CheckPayment`, `GiveUp`, `Persist`, `ForgetContext` | `CompleteXmplusGatewayPaymentAction`, `PollXmplusOffsitePayment` |
| `LockExpires`, `Fails`, `Crash` | times to live, failing calls, dying workers |

The cache locks are taken without waiting (a busy provisioning lock throws, a busy
ensure lock lets the page go on), the row's lock is waited for. The invoice of a
fulfilment is written inside its transaction, so a rollback forgets it although the
panel has it; an approval's is written at once.

`RenewUninvoiced` is the branch of `doRenewal` in which nothing is opened, saved or paid:
the panel accepts the renewal and names no invoice, the code takes the link of the
service there is and the order is committed as paid, whether or not a gateway for the
shop's payments is set. If no link is found it throws (a fault), and the next attempt may be
refused, because the service may have been renewed (`Refuse`, guarded by `granted`).
`PayByShop` is one step for up to three calls of `invoice/pay`
(`runInvoicePayStrictForShopCollected`), and for the further call the code makes when
an invoice is paid and has no service id: these are calls about one invoice, so
`byShop` and the bounds on it count invoices and not calls.

### `OffsitePoll` – one poll job in the redis queue

| state | code |
|---|---|
| `kind`, `status`, `ctx`, `paid` | the order, the cached context, the panel's answer about the invoice |
| `ready`, `delayed`, `reserved` | redis' list and its two sorted sets; the job's payloads differ in `attempts`, which stands for them |
| `proc` | per queue worker and page: step and attempt |
| `runs`, `told`, `completed` | history: attempts begun, "still pending" sent, commits of `persistAfterPoll` |

| actions | code |
|---|---|
| `Pop`, `PopExhausted`, `Release`, `Delete`, `DelayEnds`, `Throw` | Laravel's redis queue and worker, as the job uses them |
| `ReservationExpires` | `config/queue.php`, `retry_after` |
| `NotYet`, `StartPolling`, `Persist`, `ForgetContext`, `GiveUp`, … | `finalizeTelegramAfterOffsite`, `finalizeWebAfterOffsite`, `persistAfterPoll` |
| `NotifyStillPending`, `RetryLater`, `EndJob` | `PollXmplusOffsitePayment::handle` |
| `CustomerPays`, `SettledElsewhere`, `Cancelled` | the gateway, an approval or Plisio's callback, the admin |

A payload popped by one worker goes back to the list when its reservation is 90
seconds old, although the first worker goes on; `release` and `delete` remove the
reservation of their own attempt number and nothing else, so a second payload of the
same number can live on. What `shouldRetry` makes of a message is modelled by which
answers lead to `retry` and which to `done`: nearly all of the messages contain one
of its words, that of a settled order included. A job killed by its timeout, a
process that dies and an exception whose message has none of the words are faults.

### `SettlementEffects` – codes and rewards

| state | code |
|---|---|
| `status`, `code` | the row of `orders`: `status`, whether `discount_code_id` is set |
| `session` | `discount_applied_order_id` of the browser's session |
| `usage`, `used` | `discount_code_usages`, `discount_codes.used_count` |
| `rewards` | rewards paid to the referrer |
| `req` | per worker: operation, order, next step, and what the request has read: whether the order was paid and had the code, its copy of the session, the snapshot |
| `first`, `undone`, `repaid`, `gone`, `lost`, `late` | history, read by properties only |

| actions | code |
|---|---|
| `ApplyOnSite`, `ApplyInBot`, `WriteCode` | `applyDiscountCode`, `processDiscountCode`, `DiscountCode::isValidForOrder` |
| `RemoveInBot`, `WriteNoCode` | `removeDiscount` |
| `SubmitReceipt`, `LookForUse`, `InsertUse`, `CountUse` | `submitCardReceipt` |
| `Fulfil`, `Approve`, `PayOnSite`, `PayInBot`, `RenewInBot`, then `LockOrder`, `LockUser`, `Read`, `Commit`, `RollBack` | the settling transactions, with the rule of each for counting the code (`Counts`) and `RewardReferrerListener` (`Rewards`, `SeenPaid`) |
| `NowPayments`, `Cancel`, `Reopen` | the other writes to `status` |
| `SaveSession` | the session is written as a whole when a request ends |

A settling transaction is its snapshot (`Read`) and its commit; of its locks those
are modelled that another request of the model can meet. It writes its order only if
it had not read it as paid, as Eloquent does with unchanged attributes, and fails if
the order or its row of usage is in the way. The unique key of
`discount_code_usages` and the cascade from `orders` are in `Commit`, `InsertUse` and
`WriteCancel`.

### Proof modules

`ShopOrdersProofs` (types and the inductive invariant `Locks`), `ShopOrdersSafety`
(settlement, acknowledgement, wallets, refinement), `ShopOrdersOverdraft` (the
counting argument), `ShopOrdersRequests` (how a request goes through its statements,
repeated approvals), `XmplusOrderProofs` (types, the provisioning lock, settlement,
refinement), `XmplusOrderBounds` (how far a request goes, whose the locks are, how often
an order is settled and how much the shop pays), `OffsitePollProofs` (types, settlements,
the last word, the number of attempts), `SettlementEffectsProofs` (types and the four
properties of codes and rewards). `MCShopOrders`, `MCXmplusOrder`,
`MCOffsitePoll` and `MCSettlementEffects` add the model values, the owner and amount
functions and the symmetry set that the configurations use.

## 4. What is checked

| run | instance | shows |
|---|---|---|
| `shop_safety` | 2 workers, a top-up, a plan order, a bot renewal, 1 user, 3 requests, 1 crash, callbacks unbounded | types; `WalletExplained`, `FulfilledOnce`, `AckedIsSettled`, `OverdraftBounded`; `ApprovalsBounded`: overlapping approvals are carried out once for each worker at most; `RequestsAdvance`: no request comes back to a statement; implements `PlisioSettlement` |
| `shop_liveness` | plan and renewal, 1 request, 1 crash | `RequestsEnd`: no request waits for ever although rows are locked in different orders; `PlisioHonoured` |
| `shop_refund` | violation of `ReturnsOnlyWhatWasTaken` | the bot hands back what the rollback already returned |
| `shop_approve_twice` | violation of `ApprovedOnce` | two approvals of one order are both carried out |
| `xmplus_safety` | 2 workers, every kind, 2 invoices, 3 requests, 1 fault | types; `ShopSettlesOnce`, `AckedIsSettled`, `ProvisioningExclusive`; `SettledHasService`: a settled order has a paid invoice, for a first purchase a served one, except a renewal that the panel accepted without an invoice; `LocksAtWork`: nothing but a death leaves a lock behind; `ShopPaymentsBounded`: the invoices the shop paid and may yet pay are at most one for each worker and each failure; `CarriedOutBounded`: an order that is no renewal is settled once for each worker at most; `RequestsAdvance`; implements `PlisioSettlement` |
| `xmplus_liveness` | purchases and repurchases, 4 invoices, 1 request, 1 fault | `PlisioHonoured` |
| `xmplus_renewal_lost` | violation of `RenewalHonoured` | one failure after the panel served or granted a renewal: later callbacks are refused for ever |
| `xmplus_pays_twice` | violation of `ShopPaysOneInvoice` | two approvals pay two invoices |
| `xmplus_renews_twice` | violation of `CarriedOutOnce` | an approved renewal is carried out again by the check button |
| `xmplus_invoice_lost` | violation of `PaidInvoiceKept` | coming back to the order's page replaces the paid invoice |
| `offsite_poll` | 2 queue workers, 1 page, 3 tries, both kinds, 1 press, 1 fault | types; `RunsBounded`: a payload that had n attempts is run at most 2^n times, although payloads multiply; `CompletionsBounded`: one settlement for each process and fault; `WordBeforeEnd`: a job that is over without a fault has settled the order or told the customer; `JobEnds` |
| `settlement_effects` | 2 workers, 2 purchases, a renewal, a code of one use, 4 requests, 1 crash | types; `RewardsBounded`, `FirstPurchaseRewarded`, `UsedExplained`, `ExhaustedCodeStops` |

The violation runs check what a message or document of the repository says and the
code does not do; `PROJECT.json` "findings" quotes the line of each.

**Bounds.** The hazards are races of two requests over one order or one wallet: two
workers produce each of them, and three requests by people (callbacks come on top, and
are not bounded) let one request follow a race. `MaxCrashes` and `MaxFaults` are one:
a single failure can fall between any two steps of any request; what more of them can
do to safety is left to the theorems, which do not bound them. Two invoices are the
shop's and the one a stale reader opens in addition, and with both of them paid
`ShopPaymentsBounded` leaves no request that could pay a third; where the property is
that things end well (`xmplus_liveness`) there are four, so that the model never runs
out of invoices before the callback succeeds. `OverdraftBounded` needs at least as many
payments as workers. `offsite_poll` has the two workers that `install.sh` configures
and three tries instead of five: two redeliveries after one another already give every
multiplicity of payloads. `settlement_effects` lets two purchases overlap, a third
request pay again or reopen, and a fourth follow; the code has one use, so the second
applicant is the one that is late. The theorems remove these bounds for the safety
properties. A top-up is worth two plans and the
wallet opens with the price of one: enough to tell a credit from a debit and to let a
second payment overdraw it. `CHECK_DEADLOCK FALSE` is set because a shop whose
requests are all served may stop.

**Fairness.** `FairSpec` of `ShopOrders` assumes that a worker goes on with its
request (weak), that a row it keeps asking for is some time granted (strong: InnoDB
grants locks in the order of the waits, and ends a wait that lasts too long), and that
a panel called again and again some time answers (strong: without it nothing is ever
provisioned, and no code could help). `FairSpec` of `XmplusOrder` assumes strong
fairness of each worker's steps, for the same row lock, and bounds failures by
`MaxFaults` instead; there the panel serves what is paid and a cache lock's time to
live runs out (both weak). In both Plisio repeats a callback until it is answered with
200 (strong; `PlisioWebhookController` answers 500 on an exception so that it does).
`FairSpec` of `OffsitePoll` assumes that time passes (delays and reservations run out)
and that each queue worker goes on (both weak): supervisor restarts a worker that died
(`autorestart=true`). Pages need no fairness there. `SettlementEffects` states safety
only. Nothing is assumed of customers and admins: they need not come. A poll that
gives up on a paid invoice counts as a fault and is bounded, and so does a renewal
granted without an invoice for which no link is found. `RenewalHonoured` excuses
behaviours in which the model has no invoice left to open; its counterexample uses one
invoice and then only refusals.

## 5. What is proved

For any finite set of workers and, in `ShopOrders`, any users, orders, amounts and
opening balances; for any number of requests, crashes, faults and invoices:

| theorem | says |
|---|---|
| `ShopOrdersProofs!TypeCorrect` | `TypeOK` |
| `ShopOrdersSafety!FulfilledOnceHolds` | a payment is carried out once per time its order was left unpaid |
| `ShopOrdersSafety!AckedIsSettledHolds` | an acknowledged payment's order is paid, deleted, or was set back from paid by somebody |
| `ShopOrdersSafety!WalletExplainedHolds` | every wallet is accounted for by its rows and the bot's refunds |
| `ShopOrdersSafety!ImplementsSettlement` | `ShopOrders` implements `PlisioSettlement` |
| `ShopOrdersOverdraft!OverdraftBoundedHolds` | a wallet is overdrawn by at most one order for each worker beyond the first |
| `ShopOrdersRequests!ApprovalsBoundedHolds` | approvals of an order are carried out once for each worker at most, and as often again each time it was left unpaid |
| `ShopOrdersRequests!RequestsAdvanceHolds` | a request never comes back to a statement |
| `ShopOrdersRequests!ServedInSixSteps` | every step for a request shortens it, and it has six at most |
| `XmplusOrderProofs!TypeCorrect` | `TypeOK`, every lock has a live owner, a dead one or none |
| `XmplusOrderProofs!ProvisioningExclusiveHolds` | of the requests that provision at most one still owns its lock |
| `XmplusOrderProofs!ShopSettlesOnceHolds` | callbacks and approvals settle the order once between them |
| `XmplusOrderProofs!AckedIsSettledHolds` | an acknowledged payment's order is paid |
| `XmplusOrderProofs!SettledHasServiceHolds` | a settled order has a paid, or for a first purchase served, invoice; or it is a renewal that the panel accepted without one and the shop settled |
| `XmplusOrderProofs!ImplementsSettlement` | `XmplusOrder` implements `PlisioSettlement` |
| `XmplusOrderBounds!LocksAtWorkHolds` | a lock belongs to a request at the work it is for, or to a dead process |
| `XmplusOrderBounds!ShopPaymentsBoundedHolds` | the invoices the shop paid and may yet pay are at most one for each worker and each failure |
| `XmplusOrderBounds!CarriedOutBoundedHolds` | an order that is no renewal is settled once for each worker at most |
| `XmplusOrderBounds!RequestsAdvanceHolds` | a request never goes back, whatever fails |
| `XmplusOrderBounds!ServedInTwentySteps` | every step for a request shortens it, and it has twenty at most |
| `OffsitePollProofs!TypeCorrect` | `TypeOK`; no payload was tried more than `$tries` times |
| `OffsitePollProofs!CompletionsBoundedHolds` | the order is settled at most once for each process and each fault |
| `OffsitePollProofs!RunsBoundedHolds` | a payload that had n attempts is run at most 2^n times |
| `OffsitePollProofs!WordBeforeEndHolds` | a job over without a fault leaves the order settled or the customer told |
| `SettlementEffectsProofs!TypeCorrect` | `TypeOK`; `used_count` never falls below zero |
| `SettlementEffectsProofs!FirstPurchaseRewardedHolds` | a first purchase that dispatches `OrderPaid` is rewarded |
| `SettlementEffectsProofs!RewardsBoundedHolds` | at most one reward for each worker in each round, one more for each payment of a paid order |
| `SettlementEffectsProofs!UsedExplainedHolds` | `used_count` accounts for the rows of usage |
| `SettlementEffectsProofs!ExhaustedCodeStopsHolds` | a used-up code reaches at most one order for each other worker |

Assumptions: those the modules name on their constants (a finite non-empty set of
workers, distinct lock values, natural bounds and amounts, `MaxAmount` at least
the amount of every order a wallet can pay; finite sets of orders and processes,
positive tries and limits).

**Arguments.** `FulfilledOnce` is not inductive: a worker past its check could commit
twice as far as the property knows. `ShopOrders`' invariant `Locks` adds that no row
is held twice and that a request inside its transaction holds its order, which is
unpaid if a callback found it so; as every commit needs the row, the status read under
the lock is still true when it is used. `OverdraftBounded` counts: while `k` payments
from a wallet are past their check and not committed, the balance covers one of them
once each of the other workers had at most its share (`Bound`); a payment that joins
has just seen enough money for itself, one that commits takes its own amount and
leaves the count. `XmplusOrder`'s invariant `Rows` is the same idea with one row, and
adds that the worker that owns the provisioning lock is one that provisions and
conversely, unless late: an expiring lock marks exactly the request it belonged to,
and a release by token cannot take a successor's lock. `Settles` describes what any
worker's step does to the settlement in five cases, and each theorem and the
refinement is then a case distinction over those. `SettledHasService` rests on what
comes before a commit: once a request has a link, some invoice backs it, or it is a
request of the shop about a renewal the panel has granted (`BackedInv`); invoices only
move on, and `granted` stays. The second case cannot be dropped: the code settles such a
renewal with no invoice at all.

`ApprovalsBounded`: before an order is paid none of the approvals at work on it has
counted, so those carried out and those at work fit one for each worker; once it is
paid nobody joins them, and leaving it unpaid opens a new share (`Within`).
`LocksAtWork` needs to know which requests come to which step (`Roles`): only a
callback commits a fulfilment, only a page or the start of an offsite payment inspects
an invoice with the ensure lock. `CarriedOutBounded` is false of a single step, since
`persistAfterPoll` settles whatever it finds: what bounds it is that an order with its
own configuration is not gone on with, so that after the first settlement nobody joins
the requests that may settle again (`Carried`). `ShopPaymentsBounded` weighs payments
against requests (`Owed`): until the order is paid, each invoice the shop paid belongs
to a request past its payment or to a failure; after that, payments made and still to
be made fit one for each worker and each failure.

`RequestsAdvance` orders the statements by how many may follow (`StepsLeft`): every way
out of a step, the catch blocks included, leads to fewer. That is the ranking a liveness
proof would use; `ServedInSixSteps` and `ServedInTwentySteps` say that every step of
`Serve` lowers it, so that under the fairness of `Serve` a request could only fail to end
by being stuck, which is what TLC excludes.

`CompletionsBounded`: while the context is cached, every settlement has a process that
is about to forget it, or that failed before it could; once it is forgotten no process
joins those that poll, and each of these settles at most once more (`Accounted`).
`WordBeforeEnd`: as long as the order is pending, nothing was said and nothing failed,
the job is queued or worked on, and a payload whose attempts are used up belongs to a
last attempt that still runs (`Heard`); so failing such a payload unrun loses nothing,
and the last attempt ends with its message.

In `SettlementEffects` each property has its own invariant. *First purchase*: as long
as nothing was settled, no snapshot shows a paid order (`Unsettled`), so the first
commit counts exactly its own order. *Rewards*: a transaction that will reward has
seen at most its own order paid (`Rewarding`); while an order is paid nobody joins
that set, so the rewards given and those still to come fit one for each worker
(`Granted`), and each time a paid order ceases to be paid a new round begins. A reward
outside the set is a wallet payment of a paid order: fulfilment cannot give one,
because its order stays unpaid under its lock (`Locked`). *Uses*: rows and count move
together except for a receipt's row, which waits for its worker. *Limit*: the
worker that counted the last use is not about to write a code, so at most the others
are (`Stopping`).

`RunsBounded`: a run leaves two payloads at most, the one its expired reservation gives
back and the one it releases itself. So the runs of payloads with
n + 1 attempts, together with the payloads of that number in the queue and the workers
that may still release one, are at most twice the runs of payloads with n attempts
(`Doubles`), and 2^n follows by induction.

**Only model-checked.** Liveness (`RequestsEnd`, `PlisioHonoured`, `JobEnds`): the
prover has no ENABLED. Every safety invariant and action property of a passing run has
its theorem. The induction theorems of the library take an operator as a parameter and
cannot be used here; the one induction needed, over the number of attempts, is made of
the least number of a set instead (`OffsitePollProofs!Induction`). The violations are counterexamples and need no proof.

## 6. What is not modelled

- In `ShopOrders`: admin balance adjustments and welcome gifts (each one write to the
  balance, with its own row), renewals placed on the site, expiry dates.
  `WalletExplained` speaks of the rows the modelled paths write. A wallet does get
  overdrawn, because the balance is checked before the transaction that decrements it
  (`OrderController.php:452`); `OverdraftBounded` says how far. `CommitWalletPayment`
  always writes the status, while Eloquent leaves out an attribute that is unchanged
  since the order was read: in the code, a payment that read its order as paid does not
  undo what reopened it meanwhile (`OrderController.php:827`). `DeliverPlisio` leaves
  out the update of `plisio_txn_id` before the transaction
  (`PlisioWebhookController.php:41-44`), which no other statement of the model reads.
- In `XmplusOrder`: registration of the panel account and recovery of its credentials,
  deleting and reopening the order, `provisionPurchase` without a collected payment
  (no caller makes such a call); the poll job is one more check. Whose link is
  delivered when a user has several services is not told apart, so `SettledHasService`
  accepts an older service's link for a repurchase, as `pollForSublink` does.
- In `OffsitePoll`: more than one job at a time (each visit of the gateway picker
  dispatches another), the context's time to live of 48 hours, pages and further
  gateway choices that write it again (`CompleteXmplusGatewayPaymentAction.php:116`;
  `XmplusOrder` has them), a settlement without a service (NOWPayments). A worker polls
  in the model only when the invoice is paid; in the code also when `invoice/view`
  throws or answers neither paid nor pending (199–212). `told` says that the message was
  handed to Telegram: `notifyStillPending` (82–84, 95–99) passes over a missing token and
  a failed sending, and the job then ends without the customer hearing of it.
- In `SettlementEffects`: more than one customer or code, amounts, orders still to be
  placed, XMPlus orders (whose settlement dispatches the same event), and writes of
  the whole session by pages that have nothing to do with codes. The bot's wallet
  payment, the bot's renewal and NOWPayments dispatch no `OrderPaid`:
  `FirstPurchaseRewarded` is about the others. Orders that have the code already may
  be paid after the limit was reached, so `used_count` may exceed it. `SeenPaid` counts
  the snapshot and the order itself; that a row becomes visible in its latest version
  when its own transaction rewrites it is left out.
- Renewals: the new expiry date is the old one plus the plan's days, read without a
  lock and written at the end, so two overlapping renewals of one service extend it
  once. The models have no dates. Eligibility is a choice in `XmplusOrder`.
- The job that sends broadcasts and the one that attaches photos only send messages.
- Telegram messages: `sendOrEditMessage` swallows exceptions and changes no shop
  state.
- Panel clients are calls that answer or throw; their HTTP is not modelled. The XMPlus
  database sync is SQL over a foreign schema and appears as the panel linking or
  serving an invoice.
- Blog, themes, authentication and installers keep no shop state. The JavaScript of
  the repository is Filament's published bundles, build configuration (the modules'
  `vite.config.js`, an unused `vite-module-loader.js`) and the themes' animations:
  presentation and build code, none of which reads or writes what the shop is about.
  The models therefore cover the PHP code.

Smaller faults met while reading, outside the modelled state:
`MarzbanService::resetUserTraffic` is called (`WebhookController.php:4170`) and not
defined; the hint at `WebhookController.php:605-611` suggests setting a renewal that
was carried out back to pending; `markInvoiceContextWalletCharged` has no caller.
