----------------------------- MODULE ShopOrders -----------------------------
(***************************************************************************)
(* Orders, wallets and the request workers that settle them, for a panel   *)
(* of type marzban or xui (XMPlus has modules of its own).                 *)
(*                                                                         *)
(* Every entry point that pays for, approves or cancels an order is a      *)
(* request served by one PHP worker.  A request reads the rows it checks,  *)
(* opens a database transaction, takes row locks as its statements reach   *)
(* them, calls the panel over HTTP, and commits or rolls back.  Requests   *)
(* interleave between those steps.  A transaction's writes become visible  *)
(* at its commit, so the variables below hold the committed values.        *)
(***************************************************************************)
EXTENDS Integers, FiniteSets

CONSTANTS
    Users, Workers,     \* wallets; PHP workers
    TopUps,             \* orders without a plan: a wallet top-up
    Plans,              \* orders that buy a plan
    Renewals,           \* orders the bot creates while it pays a renewal
    Renews,             \* the order each of Renewals renews
    Owner, Amount,      \* the user and the amount of an order
    MaxAmount,          \* no order for a plan costs more
    Opening,            \* the balance each wallet opens with
    MaxRequests,        \* bound: requests by people (not Plisio's callbacks)
    MaxCrashes,         \* bound: workers that die in a request
    NoOrder

Orders == TopUps \cup Plans \cup Renewals
Rows == Orders \cup Users

ASSUME OrderAssumption ==
    /\ Users \cap Orders = {}
    /\ TopUps \cap Plans = {} /\ TopUps \cap Renewals = {} /\ Plans \cap Renewals = {}
    /\ NoOrder \notin Orders
    /\ Renews \in [Renewals -> Plans]
    /\ Owner \in [Orders -> Users]
    /\ \A n \in Renewals : Owner[n] = Owner[Renews[n]]

ASSUME AmountAssumption ==
    /\ MaxAmount \in Nat
    /\ Amount \in [Orders -> Nat]
    /\ \A o \in Plans \cup Renewals : Amount[o] <= MaxAmount
    /\ Opening \in [Users -> Nat]

ASSUME SettingAssumption ==
    /\ MaxRequests \in Nat /\ MaxCrashes \in Nat
    /\ IsFiniteSet(Workers) /\ Workers # {}

VARIABLES
    panel,      \* the setting panel_type
    status,     \* orders.status; "none" before the row exists, "deleted" after
    config,     \* whether orders.config_details holds a service
    balance,    \* users.balance
    deposited,  \* total of a user's Transaction rows of type deposit
    spent,      \* total of the Transaction rows written by wallet payments
    returned,   \* total handed back by the bot's catch blocks (no Transaction row)
    plisio,     \* Plisio's view of the order: "none", "owed" or "acked"
    held,       \* the rows each worker's transaction has locked
    req,        \* the request each worker serves
    started,    \* number of requests by people so far
    crashes,    \* number of workers that died so far
    fulfilled,  \* history: commits of FulfillOrderAfterPaymentAction per order
    approved,   \* history: commits of ApprovePendingOrderAction per order
    reverted    \* history: times an order left the status paid and stayed

money == <<balance, deposited, spent, returned>>
counts == <<fulfilled, approved, reverted>>
budget == <<started, crashes>>
vars == <<panel, status, config, money, plisio, held, req, budget, counts>>

Statuses == {"none", "pending", "paid", "failed", "deleted"}
Operations == {"plisio", "nowpayments", "approve", "cancel",
               "webWallet", "botWallet", "botRenew"}
Steps == {"lockOrder", "panel", "lockUser", "commit", "respond",
          "write", "delete", "markFailed", "refund"}

Idle == [op |-> "none", ord |-> NoOrder, pc |-> "idle", ok |-> TRUE]
Requests == [op: Operations, ord: Orders, pc: Steps, ok: BOOLEAN]

Exists(o) == status[o] \notin {"none", "deleted"}
Free(w, r) == \A v \in Workers \ {w} : r \notin held[v]
At(w, step) == req[w].pc = step
User(w) == Owner[req[w].ord]

\* A renewal paid in the bot writes the order it renews; its own row is new
\* and nobody else can see it.
Row(w) == IF req[w].op = "botRenew" THEN Renews[req[w].ord] ELSE req[w].ord

-----------------------------------------------------------------------------
(* A request's way through its statements.                                 *)

FirstStep(op, o) ==
    CASE op = "plisio" -> "lockOrder"
      [] op = "approve" -> IF o \in TopUps THEN "lockOrder" ELSE "panel"
      [] op = "nowpayments" -> "write"
      [] op = "cancel" -> "delete"
      [] op \in {"webWallet", "botWallet", "botRenew"} -> "lockUser"

InBot(op) == op \in {"botWallet", "botRenew"}

StepAfter(r) ==
    CASE r.pc = "lockOrder" ->
            IF r.op = "webWallet" THEN "commit"
            ELSE IF InBot(r.op) \/ (r.op = "plisio" /\ r.ord \notin TopUps) THEN "panel"
            ELSE "lockUser"
      [] r.pc = "panel" ->
            IF r.op = "plisio" THEN "lockUser"
            ELSE IF InBot(r.op) THEN "commit" ELSE "lockOrder"
      [] r.pc = "lockUser" ->
            IF r.op = "webWallet" THEN "panel"
            ELSE IF InBot(r.op) THEN "lockOrder" ELSE "commit"

Advance(w) == req' = [req EXCEPT ![w] = [@ EXCEPT !.pc = StepAfter(req[w])]]
GoTo(w, step) == req' = [req EXCEPT ![w] = [@ EXCEPT !.pc = step]]
Finish(w) == req' = [req EXCEPT ![w] = Idle]
Unlock(w) == held' = [held EXCEPT ![w] = {}]

\* Variant: the exception leaves the transaction open.
ThrowKeepingLocks(w) ==
    /\ UNCHANGED held
    /\ IF req[w].op = "botWallet" THEN GoTo(w, "markFailed")
       ELSE IF req[w].op = "botRenew" /\ ~At(w, "lockUser") THEN GoTo(w, "refund")
       ELSE Finish(w)

\* Variant: Plisio's callback is answered with 200 after an exception too.
ThrowAnswering(w) ==
    /\ Unlock(w)
    /\ IF req[w].op = "plisio" THEN GoTo(w, "respond")
       ELSE IF req[w].op = "botWallet" THEN GoTo(w, "markFailed")
       ELSE IF req[w].op = "botRenew" /\ ~At(w, "lockUser") THEN GoTo(w, "refund")
       ELSE Finish(w)

\* Variant: the transaction is tried again from its start.
ThrowRetrying(w) == Unlock(w) /\ GoTo(w, FirstStep(req[w].op, req[w].ord))

\* An exception leaves the transaction: rollback, then the caller's catch.
\* The bot's catch blocks go on; a renewal's only after the decrement ran.
Throw(w) ==
    /\ Unlock(w)
    /\ IF req[w].op = "botWallet" THEN GoTo(w, "markFailed")
       ELSE IF req[w].op = "botRenew" /\ ~At(w, "lockUser") THEN GoTo(w, "refund")
       ELSE Finish(w)

Init ==
    /\ panel \in {"marzban", "xui"}
    /\ status = [o \in Orders |-> "none"]
    /\ config = [o \in Orders |-> FALSE]
    /\ balance = Opening
    /\ deposited = [u \in Users |-> 0]
    /\ spent = [u \in Users |-> 0]
    /\ returned = [u \in Users |-> 0]
    /\ plisio = [o \in Orders |-> "none"]
    /\ held = [w \in Workers |-> {}]
    /\ req = [w \in Workers |-> Idle]
    /\ started = 0
    /\ crashes = 0
    /\ fulfilled = [o \in Orders |-> 0]
    /\ approved = [o \in Orders |-> 0]
    /\ reverted = [o \in Orders |-> 0]

-----------------------------------------------------------------------------
(* What people and Plisio do outside a worker.                             *)

\* OrderController::store, createChargeOrder and renew, and their twins in
\* the bot: one INSERT of a pending order.
PlaceOrder(o) ==
    /\ o \notin Renewals
    /\ status[o] = "none"
    /\ status' = [status EXCEPT ![o] = "pending"]
    /\ UNCHANGED <<panel, config, money, plisio, held, req, budget, counts>>

\* The customer pays a Plisio invoice of a pending order; Plisio now owes the
\* shop a callback and repeats it until it is answered with 200.
CustomerPaysPlisio(o) ==
    /\ status[o] = "pending"
    /\ plisio[o] = "none"
    /\ plisio' = [plisio EXCEPT ![o] = "owed"]
    /\ UNCHANGED <<panel, status, config, money, held, req, budget, counts>>

\* The admin follows the hint of handleAdminApprovePendingOrder for a paid
\* order that has no service: back to pending in the admin panel, one UPDATE.
AdminReopens(o) ==
    /\ started < MaxRequests
    /\ o \notin TopUps /\ status[o] = "paid" /\ ~config[o]
    /\ \A w \in Workers : o \notin held[w]
    /\ status' = [status EXCEPT ![o] = "pending"]
    /\ reverted' = [reverted EXCEPT ![o] = @ + 1]
    /\ started' = started + 1
    /\ UNCHANGED <<panel, config, money, plisio, held, req, crashes, fulfilled, approved>>

-----------------------------------------------------------------------------
(* A worker accepts a request: the reads and checks before any transaction *)

Accept(w, op, o) ==
    /\ req[w] = Idle
    /\ req' = [req EXCEPT ![w] =
                 [op |-> op, ord |-> o, pc |-> FirstStep(op, o), ok |-> TRUE]]
    /\ UNCHANGED <<panel, status, config, money, plisio, held, crashes, counts>>

Requested(w, op, o) ==
    /\ started < MaxRequests
    /\ started' = started + 1
    /\ Accept(w, op, o)

\* PlisioWebhookController::handle for status completed.
DeliverPlisio(w, o) ==
    /\ plisio[o] = "owed"
    /\ UNCHANGED started
    /\ Accept(w, "plisio", o)

\* WebhookController::handle: the status is read here, written later.
DeliverNowPayments(w, o) ==
    /\ Exists(o) /\ status[o] # "paid"
    /\ Requested(w, "nowpayments", o)

\* Variant: an approval does not look at the status.
ApproveUnchecked(w, o) ==
    /\ Exists(o)
    /\ Requested(w, "approve", o)

\* handleAdminApprovePendingOrder, and the admin panel's approve button.
AdminApproves(w, o) ==
    /\ status[o] = "pending"
    /\ Requested(w, "approve", o)

\* handleAdminCancelPendingOrder.
AdminCancels(w, o) ==
    /\ status[o] = "pending"
    /\ Requested(w, "cancel", o)

\* Variant: the balance is not checked.
PayUnchecked(w, o) ==
    /\ Exists(o) /\ o \notin TopUps
    /\ Requested(w, "webWallet", o)

\* OrderController::processWalletPayment: any status, a plan, enough balance.
PayFromWalletOnSite(w, o) ==
    /\ Exists(o) /\ o \notin TopUps
    /\ balance[Owner[o]] >= Amount[o]
    /\ Requested(w, "webWallet", o)

\* WebhookController::processWalletPayment of the bot.
PayFromWalletInBot(w, o) ==
    /\ status[o] = "pending" /\ o \in Plans
    /\ balance[Owner[o]] >= Amount[o]
    /\ Requested(w, "botWallet", o)

\* WebhookController::processRenewalWalletPayment of the bot.
RenewFromWalletInBot(w, n) ==
    /\ n \in Renewals /\ status[n] = "none"
    /\ \A v \in Workers : req[v].ord # n
    /\ status[Renews[n]] = "paid"
    /\ balance[Owner[n]] >= Amount[n]
    /\ Requested(w, "botRenew", n)

-----------------------------------------------------------------------------
(* Row locks.                                                              *)

\* The locking read of FulfillOrderAfterPaymentAction finds nothing to do:
\* it returns false and the webhook answers 200.
FindSettled(w) ==
    /\ At(w, "lockOrder") /\ req[w].op = "plisio"
    /\ Free(w, Row(w)) /\ status[Row(w)] \in {"paid", "deleted"}
    /\ GoTo(w, "respond")
    /\ UNCHANGED <<panel, status, config, money, plisio, held, budget, counts>>

\* Variant: the locked order is not checked again.
LockWithoutCheck(w) ==
    /\ At(w, "lockOrder")
    /\ Free(w, Row(w)) /\ Exists(Row(w))
    /\ held' = [held EXCEPT ![w] = @ \cup {Row(w)}]
    /\ Advance(w)
    /\ UNCHANGED <<panel, status, config, money, plisio, budget, counts>>

\* Variant: the order is read without lockForUpdate.
ReadWithoutLock(w) ==
    /\ At(w, "lockOrder")
    /\ Free(w, Row(w)) /\ Exists(Row(w))
    /\ req[w].op = "plisio" => status[Row(w)] # "paid"
    /\ Advance(w)
    /\ UNCHANGED <<panel, status, config, money, plisio, held, budget, counts>>

\* The order is still to be carried out: lockForUpdate and its re-check, or
\* the row lock taken by another path's UPDATE.
LockOrder(w) ==
    /\ At(w, "lockOrder")
    /\ Free(w, Row(w)) /\ Exists(Row(w))
    /\ req[w].op = "plisio" => status[Row(w)] # "paid"
    /\ held' = [held EXCEPT ![w] = @ \cup {Row(w)}]
    /\ Advance(w)
    /\ UNCHANGED <<panel, status, config, money, plisio, budget, counts>>

\* The row is gone: the UPDATE matches nothing and the Transaction row's
\* foreign key then fails.
LockMissing(w) ==
    /\ At(w, "lockOrder") /\ req[w].op # "plisio"
    /\ ~Exists(Row(w))
    /\ Throw(w)
    /\ UNCHANGED <<panel, status, config, money, plisio, budget, counts>>

LockUser(w) ==
    /\ At(w, "lockUser")
    /\ Free(w, User(w))
    /\ held' = [held EXCEPT ![w] = @ \cup {User(w)}]
    /\ Advance(w)
    /\ UNCHANGED <<panel, status, config, money, plisio, budget, counts>>

WaitsFor(w) ==
    CASE req[w].pc \in {"lockOrder", "write", "delete", "markFailed"} -> Row(w)
      [] req[w].pc \in {"lockUser", "refund"} -> User(w)

\* Variant: the statement is tried again inside the transaction.
LockWaitRetried(w) ==
    /\ req[w].pc \in {"lockOrder", "lockUser", "write", "delete", "markFailed", "refund"}
    /\ ~Free(w, WaitsFor(w))
    /\ UNCHANGED vars

\* InnoDB ends a wait for a row lock: deadlock victim or lock wait timeout.
\* In the catch blocks the exception ends the request.
LockWaitFails(w) ==
    /\ req[w].pc \in {"lockOrder", "lockUser", "write", "delete", "markFailed", "refund"}
    /\ ~Free(w, WaitsFor(w))
    /\ IF req[w].pc \in {"lockOrder", "lockUser"} THEN Throw(w) ELSE Finish(w) /\ Unlock(w)
    /\ UNCHANGED <<panel, status, config, money, plisio, budget, counts>>

-----------------------------------------------------------------------------
(* The panel call, made inside the transaction.                            *)

\* Renewing on Marzban calls MarzbanService::resetUserTraffic, which does not
\* exist: an Error no catch (\Exception) stops, so the request just dies.
BotRenewalBreaks(w) == req[w].op = "botRenew" /\ panel = "marzban"

PanelAnswers(w) ==
    /\ At(w, "panel")
    /\ IF BotRenewalBreaks(w) THEN Finish(w) /\ Unlock(w) ELSE Advance(w) /\ UNCHANGED held
    /\ UNCHANGED <<panel, status, config, money, plisio, budget, counts>>

\* FulfillOrderAfterPaymentAction goes on without a service when the failing
\* panel is Marzban; ApprovePendingOrderAction returns; the others throw.
PanelFails(w) ==
    /\ At(w, "panel")
    /\ IF req[w].op = "plisio" /\ panel = "marzban" THEN
            /\ req' = [req EXCEPT ![w] =
                  [op |-> @.op, ord |-> @.ord, pc |-> StepAfter(@), ok |-> FALSE]]
            /\ UNCHANGED held
       ELSE IF req[w].op = "approve" \/ BotRenewalBreaks(w) THEN Finish(w) /\ Unlock(w)
       ELSE Throw(w)
    /\ UNCHANGED <<panel, status, config, money, plisio, budget, counts>>

-----------------------------------------------------------------------------
(* Commits.                                                                *)

Committing(w, op) == At(w, "commit") /\ req[w].op = op

Settle(w, o) ==
    /\ status' = [status EXCEPT ![o] = "paid"]
    /\ config' = [config EXCEPT ![o] = IF o \in TopUps THEN @ ELSE req[w].ok]
    /\ Unlock(w)

Credit(u, a) ==
    /\ balance' = [balance EXCEPT ![u] = @ + a]
    /\ deposited' = [deposited EXCEPT ![u] = @ + a]
    /\ UNCHANGED <<spent, returned>>

CreditTopUp(o) ==
    IF o \in TopUps THEN Credit(Owner[o], Amount[o]) ELSE UNCHANGED money

\* Variant: no row of transactions is written.
DebitUnrecorded(u, a) ==
    /\ balance' = [balance EXCEPT ![u] = @ - a]
    /\ UNCHANGED <<deposited, spent, returned>>

\* Variant: the row has the wrong sign.
DebitNegative(u, a) ==
    /\ balance' = [balance EXCEPT ![u] = @ - a]
    /\ spent' = [spent EXCEPT ![u] = @ - a]
    /\ UNCHANGED <<deposited, returned>>

Debit(u, a) ==
    /\ balance' = [balance EXCEPT ![u] = @ - a]
    /\ spent' = [spent EXCEPT ![u] = @ + a]
    /\ UNCHANGED <<deposited, returned>>

\* FulfillOrderAfterPaymentAction::execute commits; 200 is still to be sent.
CommitFulfilment(w) ==
    /\ Committing(w, "plisio")
    /\ Settle(w, req[w].ord)
    /\ CreditTopUp(req[w].ord)
    /\ fulfilled' = [fulfilled EXCEPT ![req[w].ord] = @ + 1]
    /\ GoTo(w, "respond")
    /\ UNCHANGED <<panel, plisio, budget, approved, reverted>>

\* PlisioWebhookController answers 200.
Respond(w) ==
    /\ At(w, "respond")
    /\ plisio' = [plisio EXCEPT ![req[w].ord] = "acked"]
    /\ Finish(w)
    /\ UNCHANGED <<panel, status, config, money, held, budget, counts>>

\* ApprovePendingOrderAction::execute commits.
CommitApproval(w) ==
    /\ Committing(w, "approve")
    /\ Settle(w, req[w].ord)
    /\ CreditTopUp(req[w].ord)
    /\ approved' = [approved EXCEPT ![req[w].ord] = @ + 1]
    /\ Finish(w)
    /\ UNCHANGED <<panel, plisio, budget, fulfilled, reverted>>

\* A wallet payment commits, on the site, in the bot, or as a renewal there
\* (the new order has no configuration of its own).
CommitWalletPayment(w) ==
    /\ At(w, "commit") /\ req[w].op \in {"webWallet", "botWallet", "botRenew"}
    /\ status' = [status EXCEPT ![req[w].ord] = "paid"]
    /\ config' = [config EXCEPT ![req[w].ord] = req[w].op # "botRenew"]
    /\ Unlock(w)
    /\ Debit(User(w), Amount[req[w].ord])
    /\ Finish(w)
    /\ UNCHANGED <<panel, plisio, budget, counts>>

\* NOWPayments' webhook: one UPDATE, whatever the status has become.
WriteNowPayments(w) ==
    /\ At(w, "write") /\ Free(w, Row(w))
    /\ status' = [status EXCEPT ![Row(w)] = IF Exists(Row(w)) THEN "paid" ELSE @]
    /\ Finish(w)
    /\ UNCHANGED <<panel, config, money, plisio, held, budget, counts>>

\* The cancel button: one DELETE, whatever the status has become.
DeleteOrder(w) ==
    /\ At(w, "delete") /\ Free(w, Row(w))
    /\ status' = [status EXCEPT ![Row(w)] = IF Exists(Row(w)) THEN "deleted" ELSE @]
    /\ Finish(w)
    /\ UNCHANGED <<panel, config, money, plisio, held, budget, counts>>

-----------------------------------------------------------------------------
(* The bot's catch blocks, each statement committed on its own.            *)

MarkFailed(w) ==
    /\ At(w, "markFailed") /\ Free(w, Row(w))
    /\ status' = [status EXCEPT ![Row(w)] = IF Exists(Row(w)) THEN "failed" ELSE @]
    /\ reverted' = [reverted EXCEPT ![Row(w)] = IF status[Row(w)] = "paid" THEN @ + 1 ELSE @]
    /\ GoTo(w, "refund")
    /\ UNCHANGED <<panel, config, money, plisio, held, budget, fulfilled, approved>>

Refund(w) ==
    /\ At(w, "refund") /\ Free(w, User(w))
    /\ balance' = [balance EXCEPT ![User(w)] = @ + Amount[req[w].ord]]
    /\ returned' = [returned EXCEPT ![User(w)] = @ + Amount[req[w].ord]]
    /\ Finish(w)
    /\ UNCHANGED <<panel, status, config, deposited, spent, plisio, held, budget, counts>>

\* The worker dies in the middle of a request: MySQL rolls its transaction back.
Crash(w) ==
    /\ req[w] # Idle /\ crashes < MaxCrashes
    /\ crashes' = crashes + 1
    /\ Unlock(w)
    /\ Finish(w)
    /\ UNCHANGED <<panel, status, config, money, plisio, started, counts>>

-----------------------------------------------------------------------------
Customers ==
    \E o \in Orders : PlaceOrder(o) \/ CustomerPaysPlisio(o) \/ AdminReopens(o)

Receive(w) ==
    \E o \in Orders :
        \/ DeliverPlisio(w, o)
        \/ DeliverNowPayments(w, o)
        \/ AdminApproves(w, o)
        \/ AdminCancels(w, o)
        \/ PayFromWalletOnSite(w, o)
        \/ PayFromWalletInBot(w, o)
        \/ RenewFromWalletInBot(w, o)

Locking(w) == FindSettled(w) \/ LockOrder(w) \/ LockMissing(w) \/ LockUser(w) \/ LockWaitFails(w)
Provisioning(w) == PanelAnswers(w) \/ PanelFails(w)
Writing(w) ==
    \/ CommitFulfilment(w) \/ Respond(w) \/ CommitApproval(w) \/ CommitWalletPayment(w)
    \/ WriteNowPayments(w) \/ DeleteOrder(w) \/ MarkFailed(w) \/ Refund(w)

Serve(w) == Locking(w) \/ Provisioning(w) \/ Writing(w)

Next == Customers \/ \E w \in Workers : Receive(w) \/ Serve(w) \/ Crash(w)

Spec == Init /\ [][Next]_vars

-----------------------------------------------------------------------------
(* Scheduling: php-fpm runs every request on to its end (a blocked statement
   ends at the lock wait timeout at the latest); Plisio repeats a callback
   until it is answered; a row lock asked for again and again, and a panel
   called again and again, are some time granted and some time answer. *)
Fairness ==
    /\ \A w \in Workers :
        /\ WF_vars(Serve(w))
        /\ SF_vars(FindSettled(w) \/ LockOrder(w) \/ LockUser(w))
        /\ SF_vars(PanelAnswers(w))
    /\ \A o \in Orders : SF_vars(\E w \in Workers : DeliverPlisio(w, o))

FairSpec == Spec /\ Fairness

-----------------------------------------------------------------------------
(* Properties.                                                             *)

TypeOK ==
    /\ panel \in {"marzban", "xui"}
    /\ status \in [Orders -> Statuses]
    /\ config \in [Orders -> BOOLEAN]
    /\ balance \in [Users -> Int]
    /\ deposited \in [Users -> Nat] /\ spent \in [Users -> Nat] /\ returned \in [Users -> Nat]
    /\ plisio \in [Orders -> {"none", "owed", "acked"}]
    /\ held \in [Workers -> SUBSET Rows]
    /\ req \in [Workers -> Requests \cup {Idle}]
    /\ started \in Nat /\ crashes \in Nat
    /\ fulfilled \in [Orders -> Nat] /\ approved \in [Orders -> Nat] /\ reverted \in [Orders -> Nat]

\* A wallet's balance is what it opened with, plus the deposit rows, minus the
\* rows of wallet payments, plus what the bot's catch blocks handed back:
\* whatever interleaves, rolls back or dies (users.balance, transactions).
WalletExplained ==
    \A u \in Users : balance[u] = Opening[u] + deposited[u] - spent[u] + returned[u]

\* However often Plisio repeats a callback, and to however many workers at
\* once, the payment is carried out once for each time the order was left
\* unpaid (FulfillOrderAfterPaymentAction::execute, lockForUpdate and re-check).
FulfilledOnce == \A o \in Orders : fulfilled[o] <= 1 + reverted[o]

\* A callback is answered with 200 only when the order has been paid, or is gone.
AckedIsSettled ==
    \A o \in Orders :
        plisio[o] = "acked" => status[o] \in {"paid", "deleted"} \/ reverted[o] > 0

\* The balance is checked before the transaction that takes it, so concurrent
\* payments overdraw a wallet, but by no more than one order for each worker
\* beyond the first (processWalletPayment, on the site and in the bot).
OverdraftBounded ==
    \A u \in Users : balance[u] >= -(Cardinality(Workers) - 1) * MaxAmount

\* An approval looks at the status before its transaction and not again, so
\* approvals that overlap are all carried out; but only those: one for each
\* worker, and again as many for each time the order was left unpaid
\* (handleAdminApprovePendingOrder, ApprovePendingOrderAction::execute).
ApprovalsBounded ==
    \A o \in Orders : approved[o] <= Cardinality(Workers) * (1 + reverted[o])

\* The statements a request has at most before it.
StepsLeft(r) ==
    CASE r.pc = "idle" -> 0
      [] r.pc \in {"respond", "refund", "write", "delete"} -> 1
      [] r.pc \in {"commit", "markFailed"} -> 2
      [] r.pc = "lockUser" -> IF InBot(r.op) \/ r.op = "webWallet" THEN 5 ELSE 3
      [] r.pc = "lockOrder" ->
            IF r.op = "webWallet" THEN 3 ELSE IF InBot(r.op) THEN 4 ELSE 5
      [] r.pc = "panel" ->
            IF InBot(r.op) THEN 3 ELSE IF r.op = "approve" THEN 6 ELSE 4

\* A request never comes back to a statement: whatever it waits for, and however
\* the wait or the panel call ends, it has fewer statements before it than it had
\* (DB::transaction without a number of attempts, the catch blocks after it).
RequestsAdvance ==
    [][\A w \in Workers :
          req[w] # Idle /\ req'[w] # req[w] => StepsLeft(req'[w]) < StepsLeft(req[w])]_vars

\* Every request comes to an end: a deadlock of row locks does not last.
RequestsEnd == \A w \in Workers : (req[w] # Idle) ~> (req[w] = Idle)

\* A payment made at Plisio is acknowledged in the end, through rollbacks, dead
\* workers and failing panel calls: with AckedIsSettled, it is carried out.
PlisioHonoured ==
    \A o \in Orders : (plisio[o] = "owed") ~> (plisio[o] = "acked")

\* Workers, transactions, locks and rollbacks implement PlisioSettlement: a
\* payment at Plisio is carried out as if in one step, on an unpaid order.
Settlement == INSTANCE PlisioSettlement
SettlesAsPromised == Settlement!Spec

\* What the bot tells the customer when a wallet payment fails, "the amount was
\* returned to your wallet": no wallet ends above what its deposits and
\* payments leave in it.
ReturnsOnlyWhatWasTaken ==
    \A u \in Users : balance[u] <= Opening[u] + deposited[u] - spent[u]

\* What the bot tells the admin who approves an order a second time, "already
\* processed": an approval is carried out once for each time it was left unpaid.
ApprovedOnce == \A o \in Orders : approved[o] <= 1 + reverted[o]
=============================================================================
