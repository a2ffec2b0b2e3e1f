----------------------------- MODULE XmplusOrder -----------------------------
(***************************************************************************)
(* One order of a shop whose panel is XMPlus.  The panel sells a service   *)
(* through an invoice of its own: the shop opens one, someone pays it, the *)
(* panel then serves it.  The shop pays it when the customer has paid the  *)
(* shop (a Plisio callback, an admin's approval); the customer pays it when*)
(* an XMPlus gateway was chosen.  The shop remembers one invoice in the    *)
(* order's row and one in a cached context, and keeps the requests apart   *)
(* by two cache locks with a time to live and by the row's lock.           *)
(***************************************************************************)
EXTENDS Integers, FiniteSets

CONSTANTS
    Workers,        \* PHP workers, of php-fpm or of the queue
    Nobody, Dead,   \* a lock is free; its owner died and its time runs
    Kinds,          \* what the order may be
    MaxInvoices,    \* bound: invoices the panel opens for the order
    MaxRequests,    \* bound: requests (not Plisio's callbacks)
    MaxFaults       \* bound: failing calls, crashes, locks outlived

ASSUME KindAssumption == Kinds \subseteq {"purchase", "repurchase", "renewal"}
ASSUME WorkerAssumption ==
    /\ IsFiniteSet(Workers) /\ Workers # {}
    /\ Nobody \notin Workers /\ Dead \notin Workers /\ Nobody # Dead
ASSUME BoundAssumption ==
    MaxInvoices \in Nat /\ MaxRequests \in Nat /\ MaxFaults \in Nat

Invoices == 1 .. MaxInvoices        \* in the order they are opened; 0 is none

VARIABLES
    kind,       \* a repurchase is of a package the user already has
    autoPay,    \* the setting xmplus_auto_pay_gateway_id names a gateway
    status,     \* orders.status: "none", "pending", "paid"
    config,     \* whether orders.config_details holds a service
    saved,      \* orders.xmplus_inv_id
    invoice,    \* the panel's invoices: "none", "pending", "paid", "served"
    byShop,     \* the invoices the shop paid
    byCustomer, \* the invoices the customer paid
    offered,    \* the invoices with a payment page at an offsite gateway
    granted,    \* the panel accepted the renewal and named no invoice for it
    ctx,        \* the invoice in the cached context xmplus_inv_ctx
    plisio,     \* Plisio's view of the order: "none", "owed", "acked"
    provLock,   \* owner of the cache lock xmplus_provision_order
    ensureLock, \* owner of the cache lock xmplus_ensure_inv
    rowLock,    \* the worker whose transaction locked the order's row
    req,        \* the request each worker serves
    started, faults,
    fulfilled, approved, completed  \* history: commits that settled the order

settings == <<kind, autoPay>>
order == <<status, config, saved>>
panel == <<invoice, byShop, byCustomer, offered, granted>>
locks == <<provLock, ensureLock, rowLock>>
budget == <<started, faults>>
counts == <<fulfilled, approved, completed>>
vars == <<settings, order, panel, ctx, plisio, locks, req, budget, counts>>

\* A page is served in two parts, each of which makes sure of an invoice:
\* ensurePendingShopInvoice ("page"; alone when the order is placed, "ensure")
\* and prepareWebPaymentGateways ("prepare").
Operations == {"plisio", "approve", "ensure", "page", "prepare", "gateway", "check"}
Provisioning == {"inspect", "clear", "create", "save", "pay", "poll", "enforce"}
Steps == Provisioning \cup
         {"lockRow", "lock", "reread", "putContext", "commit", "persist", "forget", "respond"}

Idle == [op |-> "none", pc |-> "idle", hand |-> 0, late |-> FALSE]
Requests == [op: Operations, pc: Steps, hand: Invoices \cup {0}, late: BOOLEAN]

At(w, step) == req[w].pc = step
Hand(w) == req[w].hand              \* the invoice the request works with
ByShop(w) == req[w].op \in {"plisio", "approve"}
Ensures(w) == req[w].op \in {"ensure", "page"}
InPage(w) == Ensures(w) \/ req[w].op = "prepare"
ByGateway(w) == req[w].op \in {"gateway", "check"}
Opened == {i \in Invoices : invoice[i] # "none"}
RowFree(w) == rowLock \in {Nobody, w}

\* Some service is there whose link the polling accepts for a paid invoice.
HasService == kind # "purchase" \/ \E i \in Invoices : invoice[i] = "served"

\* Variant: the order gets the status of its transaction.
SettledCompleted == status' = "completed" /\ config' = (config \/ kind # "renewal")

\* A settled renewal leaves its own config_details empty: the service is the
\* renewed order's.
Settled == status' = "paid" /\ config' = (config \/ kind # "renewal")

\* Variant: a settled order is gone on with, too, when its service is there.
CanProceedAgain == status \in {"pending", "paid"}

CanProceed == status = "pending" \/ (status = "paid" /\ ~config)

GoTo(w, step) == req' = [req EXCEPT ![w].pc = step]
Take(w, step, i) == req' = [req EXCEPT ![w].pc = step, ![w].hand = i]
Fault == faults < MaxFaults /\ faults' = faults + 1
Finish(w) == req' = [req EXCEPT ![w] = Idle]

\* Variant: release without a look at the owner.
ReleasedByAnyone(lock, w) == Nobody

\* Release by the owner's token; an expired lock is somebody else's.
Released(lock, w) == IF lock = w THEN Nobody ELSE lock

\* Variant: an exception of the fulfilment is answered with 200 too.
ThrowAnswering(w) ==
    /\ provLock' = Released(provLock, w)
    /\ ensureLock' = Released(ensureLock, w)
    /\ rowLock' = Released(rowLock, w)
    /\ IF Ensures(w) THEN GoTo(w, "reread")
       ELSE IF req[w].op = "plisio" THEN GoTo(w, "respond") ELSE Finish(w)

\* Variant: an exception leaves the ensure lock to its time to live.
ThrowHolding(w) ==
    /\ provLock' = Released(provLock, w)
    /\ rowLock' = Released(rowLock, w)
    /\ IF Ensures(w) THEN GoTo(w, "reread") ELSE Finish(w)
    /\ UNCHANGED ensureLock

\* An exception: the locks are released, a transaction is rolled back, and the
\* page goes on without the invoice it wanted to make sure of.
Throw(w) ==
    /\ provLock' = Released(provLock, w)
    /\ ensureLock' = Released(ensureLock, w)
    /\ rowLock' = Released(rowLock, w)
    /\ IF Ensures(w) THEN GoTo(w, "reread") ELSE Finish(w)

-----------------------------------------------------------------------------
Init ==
    /\ kind \in Kinds /\ autoPay \in BOOLEAN
    /\ status = "none" /\ config = FALSE /\ saved = 0
    /\ invoice = [i \in Invoices |-> "none"]
    /\ byShop = {} /\ byCustomer = {} /\ offered = {} /\ granted = FALSE
    /\ ctx = 0 /\ plisio = "none"
    /\ provLock = Nobody /\ ensureLock = Nobody /\ rowLock = Nobody
    /\ req = [w \in Workers |-> Idle]
    /\ started = 0 /\ faults = 0
    /\ fulfilled = 0 /\ approved = 0 /\ completed = 0

-----------------------------------------------------------------------------
(* Requests arrive.                                                        *)

Accept(w, op, step, i) ==
    /\ req[w] = Idle
    /\ req' = [req EXCEPT ![w] = [Idle EXCEPT !.op = op, !.pc = step, !.hand = i]]
    /\ UNCHANGED <<settings, panel, ctx, plisio, locks, faults, counts>>

Requested == started < MaxRequests /\ started' = started + 1

\* OrderController::store, or the bot: insert, then ensurePendingShopInvoice.
PlaceOrder(w) ==
    /\ status = "none" /\ status' = "pending"
    /\ Accept(w, "ensure", "lock", 0)
    /\ UNCHANGED <<config, saved, started>>

\* The order's page, or the bot's list of payment methods.
OpenPage(w) ==
    /\ status = "pending" /\ Requested
    /\ Accept(w, "page", "lock", saved)
    /\ UNCHANGED order

\* Variant: approve whatever order there is.
ApproveUnchecked(w) ==
    /\ status # "none" /\ Requested
    /\ Accept(w, "approve", "lock", saved)
    /\ UNCHANGED order

\* The order is read here, before the provisioning lock is asked for.
AdminApproves(w) ==
    /\ status = "pending" /\ Requested
    /\ Accept(w, "approve", "lock", saved)
    /\ UNCHANGED order

ChooseGateway(w) ==
    /\ CanProceed /\ ctx # 0 /\ Requested
    /\ Accept(w, "gateway", "pay", ctx)
    /\ UNCHANGED order

\* The button "I have paid, check", the page's button, or the poll job.
CheckPayment(w) ==
    /\ CanProceed /\ ctx # 0 /\ Requested
    /\ Accept(w, "check", "poll", ctx)
    /\ UNCHANGED order

DeliverPlisio(w) ==
    /\ plisio = "owed"
    /\ Accept(w, "plisio", "lockRow", 0)
    /\ UNCHANGED <<order, started>>

CustomerPaysPlisio ==
    /\ status = "pending" /\ plisio = "none" /\ plisio' = "owed"
    /\ UNCHANGED <<settings, order, panel, ctx, locks, req, budget, counts>>

-----------------------------------------------------------------------------
(* Locks.                                                                  *)

\* Variant: the fulfilment carries on with a paid order.
LockRowUnchecked(w) ==
    /\ At(w, "lockRow") /\ rowLock = Nobody
    /\ Take(w, "lock", saved) /\ rowLock' = w
    /\ UNCHANGED <<settings, order, panel, ctx, plisio, provLock, ensureLock, budget, counts>>

\* FulfillOrderAfterPaymentAction: the row's lock, then a look at the status.
LockRow(w) ==
    /\ At(w, "lockRow") /\ rowLock = Nobody
    /\ IF status = "paid" THEN GoTo(w, "respond") /\ UNCHANGED rowLock
       ELSE Take(w, "lock", saved) /\ rowLock' = w
    /\ UNCHANGED <<settings, order, panel, ctx, plisio, provLock, ensureLock, budget, counts>>

TakeProvisionLock(w) ==
    /\ At(w, "lock") /\ ByShop(w) /\ provLock = Nobody
    /\ provLock' = w /\ GoTo(w, "inspect")
    /\ UNCHANGED <<settings, order, panel, ctx, plisio, ensureLock, rowLock, budget, counts>>

ProvisionLockBusy(w) ==
    /\ At(w, "lock") /\ ByShop(w) /\ provLock # Nobody
    /\ Throw(w)
    /\ UNCHANGED <<settings, order, panel, ctx, plisio, budget, counts>>

TakeEnsureLock(w) ==
    /\ At(w, "lock") /\ InPage(w) /\ ensureLock = Nobody
    /\ ensureLock' = w /\ GoTo(w, "inspect")
    /\ UNCHANGED <<settings, order, panel, ctx, plisio, provLock, rowLock, budget, counts>>

\* Somebody makes sure of the invoice already: ok, the page goes on.
EnsureLockBusy(w) ==
    /\ At(w, "lock") /\ InPage(w) /\ ensureLock # Nobody
    /\ GoTo(w, "reread")
    /\ UNCHANGED <<settings, order, panel, ctx, plisio, locks, budget, counts>>

\* Variant: locks without a time to live.
LocksStay == FALSE /\ UNCHANGED vars

\* Time to live: 180 and 60 seconds; the owner may still be at work.
LockExpires ==
    /\ \/ /\ provLock # Nobody /\ provLock' = Nobody /\ UNCHANGED ensureLock
          /\ IF provLock = Dead THEN UNCHANGED <<req, faults>>
             ELSE /\ Fault
                  /\ req' = [req EXCEPT ![provLock].late = TRUE]
       \/ /\ ensureLock # Nobody /\ ensureLock' = Nobody /\ UNCHANGED <<provLock, req>>
          /\ IF ensureLock = Dead THEN UNCHANGED faults
             ELSE Fault
    /\ UNCHANGED <<settings, order, panel, ctx, plisio, rowLock, started, counts>>

-----------------------------------------------------------------------------
(* An invoice for the order: keep the stored one or open another.          *)

\* A renewal is refused while its service is neither expired nor used up: a
\* served invoice of this order renewed it, a renewal granted without one may
\* have.
Eligible == kind = "renewal" => \A i \in Invoices : invoice[i] # "served"

Refuse(w) ==
    /\ At(w, "inspect") /\ (~Eligible \/ granted) /\ Throw(w)
    /\ UNCHANGED <<settings, order, panel, ctx, plisio, budget, counts>>

\* There is an invoice: the shop pays it, or the page's part is done.
HaveIt(w) ==
    /\ GoTo(w, IF ByShop(w) THEN "pay"
               ELSE IF Ensures(w) THEN "reread" ELSE "putContext")
    /\ ensureLock' = IF Ensures(w) THEN Released(ensureLock, w) ELSE ensureLock
    /\ UNCHANGED <<provLock, rowLock>>

\* The shop's payment keeps the stored invoice, paid or not; a page keeps it only
\* while nobody has paid it.
KeepInvoice(w) ==
    /\ At(w, "inspect") /\ Eligible
    /\ Hand(w) # 0 /\ (InPage(w) => invoice[Hand(w)] = "pending")
    /\ HaveIt(w)
    /\ UNCHANGED <<settings, order, panel, ctx, plisio, budget, counts>>

\* A renewal's invoice is dropped, too, unless the panel links it to the
\* service, which depends on the panel; a page's when it cannot be read.
DropInvoice(w) ==
    /\ At(w, "inspect") /\ Eligible /\ Hand(w) # 0
    /\ IF kind = "renewal" \/ (InPage(w) /\ invoice[Hand(w)] # "pending")
       THEN UNCHANGED faults ELSE InPage(w) /\ Fault
    /\ GoTo(w, "clear")
    /\ UNCHANGED <<settings, order, panel, ctx, plisio, locks, started, counts>>

WantInvoice(w) ==
    /\ At(w, "inspect") /\ Eligible /\ Hand(w) = 0
    /\ GoTo(w, "create")
    /\ UNCHANGED <<settings, order, panel, ctx, plisio, locks, budget, counts>>

\* A statement on the row.  Plisio's transaction writes at its commit.
Write(w, i) ==
    /\ RowFree(w)
    /\ saved' = IF req[w].op = "plisio" THEN saved ELSE i
    /\ UNCHANGED <<status, config>>

ClearInvoice(w) ==
    /\ At(w, "clear") /\ Write(w, 0) /\ Take(w, "create", 0)
    /\ UNCHANGED <<settings, panel, ctx, plisio, locks, budget, counts>>

CreateInvoice(w) ==
    /\ At(w, "create")
    /\ \E i \in Invoices :
          /\ Opened = 1 .. i - 1
          /\ invoice' = [invoice EXCEPT ![i] = "pending"]
          /\ Take(w, "save", i)
    /\ UNCHANGED <<settings, order, byShop, byCustomer, offered, granted, ctx, plisio, locks,
                   budget, counts>>

\* The panel accepts the renewal and names no invoice: nothing is paid, with or
\* without a gateway to pay with, and the link is that of the service there is,
\* if one is found; that there is none is a failure, as in a poll that gives up.  A
\* page fails here, a new order too.
RenewUninvoiced(w) ==
    /\ At(w, "create") /\ ByShop(w) /\ kind = "renewal"
    /\ granted' = TRUE
    /\ \/ /\ GoTo(w, "commit") /\ provLock' = Released(provLock, w)
          /\ UNCHANGED <<ensureLock, rowLock, faults>>
       \/ Throw(w) /\ Fault
    /\ UNCHANGED <<settings, order, invoice, byShop, byCustomer, offered, ctx, plisio, started,
                   counts>>

SaveInvoice(w) ==
    /\ At(w, "save") /\ Write(w, Hand(w)) /\ HaveIt(w)
    /\ UNCHANGED <<settings, panel, ctx, plisio, budget, counts>>

\* The page's second part reads the order again; the bot does not look at its
\* status.  Without the XMPlus gateways the page ends here.
Reread(w) ==
    /\ At(w, "reread")
    /\ \/ /\ req[w].op = "page"
          /\ req' = [req EXCEPT ![w] = [@ EXCEPT !.op = "prepare", !.pc = "inspect", !.hand = saved]]
       \/ Finish(w)
    /\ UNCHANGED <<settings, order, panel, ctx, plisio, locks, budget, counts>>

PutContext(w) ==
    /\ At(w, "putContext") /\ ctx' = Hand(w) /\ Finish(w)
    /\ UNCHANGED <<settings, order, panel, plisio, locks, budget, counts>>

-----------------------------------------------------------------------------
(* The invoice is paid and served.                                         *)

\* invoice/pay with the shop's own gateway, unless the invoice is paid.  The calls
\* of one request for one invoice are one step: the code repeats a failed call,
\* and one for an invoice that is paid and has no service yet.
PayByShop(w) ==
    /\ At(w, "pay") /\ ByShop(w)
    /\ IF ~autoPay THEN Throw(w) /\ UNCHANGED <<invoice, byShop>>
       ELSE /\ GoTo(w, "poll") /\ UNCHANGED locks
            /\ IF invoice[Hand(w)] = "pending"
               THEN /\ invoice' = [invoice EXCEPT ![Hand(w)] = "paid"]
                    /\ byShop' = byShop \cup {Hand(w)}
               ELSE UNCHANGED <<invoice, byShop>>
    /\ UNCHANGED <<settings, order, byCustomer, offered, granted, ctx, plisio, budget, counts>>

\* invoice/pay with a gateway of the customer: refused, a page of the gateway,
\* or paid at once.
PayByGateway(w) ==
    /\ At(w, "pay") /\ ByGateway(w)
    /\ \/ Finish(w) /\ UNCHANGED <<invoice, byCustomer, offered, ctx>>
       \/ /\ invoice[Hand(w)] = "pending"
          /\ offered' = offered \cup {Hand(w)}
          /\ ctx' \in {ctx, Hand(w)}
          /\ Finish(w)
          /\ UNCHANGED <<invoice, byCustomer>>
       \/ /\ invoice[Hand(w)] = "pending"
          /\ invoice' = [invoice EXCEPT ![Hand(w)] = "paid"]
          /\ byCustomer' = byCustomer \cup {Hand(w)}
          /\ GoTo(w, "poll")
          /\ UNCHANGED <<offered, ctx>>
    /\ UNCHANGED <<settings, order, byShop, granted, plisio, locks, budget, counts>>

CustomerPaysOffsite ==
    /\ \E i \in offered :
          /\ invoice[i] = "pending"
          /\ invoice' = [invoice EXCEPT ![i] = "paid"]
          /\ byCustomer' = byCustomer \cup {i}
    /\ UNCHANGED <<settings, order, byShop, offered, granted, ctx, plisio, locks, req, budget,
                   counts>>

PanelServes ==
    /\ \E i \in Invoices :
          /\ invoice[i] = "paid" /\ invoice' = [invoice EXCEPT ![i] = "served"]
    /\ UNCHANGED <<settings, order, byShop, byCustomer, offered, granted, ctx, plisio, locks, req,
                   budget, counts>>

\* Variant: any service of the user is good enough.
HasAnyLink(i) == HasService \/ invoice[i] = "served"

\* pollForSublink returns a link.
HasLink(i) == invoice[i] = "served" \/ (invoice[i] = "paid" /\ HasService)

Poll(w) ==
    /\ At(w, "poll") /\ HasLink(Hand(w))
    /\ IF ByGateway(w) THEN GoTo(w, "persist") /\ UNCHANGED provLock
       ELSE IF kind = "renewal" THEN GoTo(w, "enforce") /\ UNCHANGED provLock
       ELSE GoTo(w, "commit") /\ provLock' = Released(provLock, w)
    /\ UNCHANGED <<settings, order, panel, ctx, plisio, ensureLock, rowLock, budget, counts>>

\* Variant: the customer has not paid: the gateway is asked once more.
AskAgain(w) ==
    /\ At(w, "poll") /\ ByGateway(w) /\ invoice[Hand(w)] = "pending"
    /\ GoTo(w, "pay")
    /\ UNCHANGED <<settings, order, panel, ctx, plisio, locks, budget, counts>>

\* The customer has not paid: the poll gives up.
GiveUp(w) ==
    /\ At(w, "poll") /\ ByGateway(w) /\ invoice[Hand(w)] = "pending"
    /\ Finish(w)
    /\ UNCHANGED <<settings, order, panel, ctx, plisio, locks, budget, counts>>

\* enforcePanelRenewalAfterShopPay: a renewal the panel did not apply is
\* applied in the panel's database, unless the service cannot be read.
EnforceRenewal(w) ==
    /\ At(w, "enforce")
    /\ invoice' \in {invoice, [invoice EXCEPT ![Hand(w)] = "served"]}
    /\ GoTo(w, "commit") /\ provLock' = Released(provLock, w)
    /\ UNCHANGED <<settings, order, byShop, byCustomer, offered, granted, ctx, plisio,
                   ensureLock, rowLock, budget, counts>>

-----------------------------------------------------------------------------
(* The order is settled.                                                   *)

CommitFulfilment(w) ==
    /\ At(w, "commit") /\ req[w].op = "plisio"
    /\ Settled /\ saved' = Hand(w)
    /\ rowLock' = Nobody /\ GoTo(w, "respond")
    /\ fulfilled' = fulfilled + 1
    /\ UNCHANGED <<settings, panel, ctx, plisio, provLock, ensureLock, budget, approved, completed>>

\* Variant: the approval trusts the status it read before the provisioning.
CommitApprovalUnchecked(w) ==
    /\ At(w, "commit") /\ req[w].op = "approve" /\ rowLock = Nobody
    /\ Settled /\ approved' = approved + 1
    /\ Finish(w)
    /\ UNCHANGED <<settings, saved, panel, ctx, plisio, locks, budget, fulfilled, completed>>

\* The row is locked and its status read again.
CommitApproval(w) ==
    /\ At(w, "commit") /\ req[w].op = "approve" /\ rowLock = Nobody
    /\ IF status = "pending"
       THEN Settled /\ approved' = approved + 1
       ELSE UNCHANGED <<status, config, approved>>
    /\ Finish(w)
    /\ UNCHANGED <<settings, saved, panel, ctx, plisio, locks, budget, fulfilled, completed>>

\* persistAfterPoll: the order was read before the payment and is not read again.
Persist(w) ==
    /\ At(w, "persist") /\ rowLock = Nobody
    /\ Settled /\ completed' = completed + 1
    /\ GoTo(w, "forget")
    /\ UNCHANGED <<settings, saved, panel, ctx, plisio, locks, budget, fulfilled, approved>>

ForgetContext(w) ==
    /\ At(w, "forget") /\ ctx' = 0 /\ Finish(w)
    /\ UNCHANGED <<settings, order, panel, plisio, locks, budget, counts>>

Respond(w) ==
    /\ At(w, "respond") /\ plisio' = "acked" /\ Finish(w)
    /\ UNCHANGED <<settings, order, panel, ctx, locks, budget, counts>>

-----------------------------------------------------------------------------
(* What goes wrong.                                                        *)

\* A call to the panel or a statement fails, a lock wait times out, polling
\* gives up on a paid invoice.  What the panel had done by then stays done.
Fails(w) ==
    /\ req[w] # Idle /\ ~At(w, "reread") /\ ~At(w, "forget") /\ ~At(w, "respond")
    /\ Fault /\ Throw(w)
    /\ UNCHANGED <<settings, order, panel, ctx, plisio, started, counts>>

\* The database ends a dead worker's transaction; its cache locks stay.
Crash(w) ==
    /\ req[w] # Idle /\ Fault /\ Finish(w)
    /\ rowLock' = Released(rowLock, w)
    /\ provLock' = IF provLock = w THEN Dead ELSE provLock
    /\ ensureLock' = IF ensureLock = w THEN Dead ELSE ensureLock
    /\ UNCHANGED <<settings, order, panel, ctx, plisio, started, counts>>

-----------------------------------------------------------------------------
Arrive(w) == \/ PlaceOrder(w) \/ OpenPage(w) \/ AdminApproves(w)
             \/ ChooseGateway(w) \/ CheckPayment(w) \/ DeliverPlisio(w)

Lock(w) == \/ LockRow(w) \/ TakeProvisionLock(w) \/ ProvisionLockBusy(w)
           \/ TakeEnsureLock(w) \/ EnsureLockBusy(w)

HaveInvoice(w) == \/ Refuse(w) \/ KeepInvoice(w) \/ DropInvoice(w) \/ WantInvoice(w)
                  \/ ClearInvoice(w) \/ CreateInvoice(w) \/ RenewUninvoiced(w) \/ SaveInvoice(w)
                  \/ Reread(w) \/ PutContext(w)

Pay(w) == \/ PayByShop(w) \/ PayByGateway(w) \/ Poll(w) \/ GiveUp(w) \/ EnforceRenewal(w)

Settle(w) == \/ CommitFulfilment(w) \/ CommitApproval(w) \/ Persist(w)
             \/ ForgetContext(w) \/ Respond(w)

Serve(w) == Lock(w) \/ HaveInvoice(w) \/ Pay(w) \/ Settle(w)

Environment == CustomerPaysPlisio \/ CustomerPaysOffsite \/ PanelServes \/ LockExpires

Next == Environment \/ \E w \in Workers : Arrive(w) \/ Serve(w) \/ Fails(w) \/ Crash(w)

Spec == Init /\ [][Next]_vars

\* Workers go on (InnoDB grants a row lock in the order of the waits), the panel
\* serves what is paid, locks expire, and Plisio calls again until a callback is
\* acknowledged.
Fairness ==
    /\ WF_vars(PanelServes) /\ WF_vars(LockExpires)
    /\ \A w \in Workers : SF_vars(Serve(w))
    /\ SF_vars(\E w \in Workers : DeliverPlisio(w))

FairSpec == Spec /\ Fairness
-----------------------------------------------------------------------------
(* Properties.                                                             *)

\* The variables keep their types.
TypeOK ==
    /\ kind \in Kinds /\ autoPay \in BOOLEAN
    /\ status \in {"none", "pending", "paid"} /\ config \in BOOLEAN
    /\ saved \in Invoices \cup {0} /\ ctx \in Invoices \cup {0}
    /\ invoice \in [Invoices -> {"none", "pending", "paid", "served"}]
    /\ byShop \subseteq Invoices /\ byCustomer \subseteq Invoices /\ offered \subseteq Invoices
    /\ granted \in BOOLEAN
    /\ plisio \in {"none", "owed", "acked"}
    /\ provLock \in Workers \cup {Nobody, Dead} /\ ensureLock \in Workers \cup {Nobody, Dead}
    /\ rowLock \in Workers \cup {Nobody}
    /\ req \in [Workers -> Requests \cup {Idle}]
    /\ started \in 0 .. MaxRequests /\ faults \in 0 .. MaxFaults
    /\ fulfilled \in Nat /\ approved \in Nat /\ completed \in Nat

\* The money the shop collected settles the order once: however Plisio's
\* callbacks and the admin's approvals overlap, and whatever the provisioning
\* lock does meanwhile, the row's lock and the status read under it
\* (FulfillOrderAfterPaymentAction, approveXmplusPendingOrder) let one through.
ShopSettlesOnce == fulfilled + approved <= 1

\* Plisio's payments are carried out as PlisioSettlement promises.
Promise == INSTANCE PlisioSettlement
    WITH Orders <- {"order"}, TopUps <- {}, Users <- {}, Owner <- <<>>, Amount <- <<>>,
         status <- [o \in {"order"} |-> status],
         plisio <- [o \in {"order"} |-> plisio],
         fulfilled <- [o \in {"order"} |-> fulfilled],
         deposited <- [u \in {} |-> 0]
SettlesAsPromised == Promise!Spec

\* A callback is answered with 200 only when the order is settled
\* (PlisioWebhookController): after that Plisio never calls again.
AckedIsSettled == plisio = "acked" => status = "paid"

\* provisionPurchase runs for one request at a time, but for a request whose
\* lock ran out: nobody releases a lock that another request has taken since.
ProvisioningExclusive ==
    \A v, w \in Workers :
        /\ v # w /\ ByShop(v) /\ ByShop(w)
        /\ req[v].pc \in Provisioning /\ req[w].pc \in Provisioning
        => req[v].late \/ req[w].late

\* A lock belongs to a request that does what the lock is for: no way out of
\* provisionPurchase, of ensurePendingShopInvoice or of the callback's transaction
\* leaves one behind, but for the death of the process.
LocksAtWork ==
    /\ provLock \in Workers => ByShop(provLock) /\ req[provLock].pc \in Provisioning
    /\ ensureLock \in Workers =>
          Ensures(ensureLock) /\ req[ensureLock].pc \in {"inspect", "clear", "create", "save"}
    /\ rowLock \in Workers =>
          req[rowLock].op = "plisio" /\ ~(req[rowLock].pc \in {"lockRow", "respond"})

\* An order is settled when an invoice of it is paid and, if the user had no
\* service before, served (pollForSublink, every caller); only a renewal can be
\* settled with no invoice paid, by the shop's own requests, and only when the
\* panel once accepted it and named none (doRenewal).
SettledHasService ==
    status = "paid" =>
        \/ \E i \in Invoices :
              invoice[i] = "served" \/ (invoice[i] = "paid" /\ kind # "purchase")
        \/ kind = "renewal" /\ granted /\ fulfilled + approved > 0

\* The shop's requests that may yet pay an invoice.
ToPay ==
    {w \in Workers :
        ByShop(w) /\ req[w].pc \in {"lock", "inspect", "clear", "create", "save", "pay"}}

\* The shop may pay more than one invoice for an order, since a request that
\* failed after paying forgets it and the provisioning lock runs out; but those it
\* paid and those it may yet pay are never more than one for each worker and one
\* for each request that failed: a request pays for one invoice at most, and none
\* starts on an order that is settled (provisionPurchase, approveXmplusPendingOrder,
\* FulfillOrderAfterPaymentAction).
ShopPaymentsBounded ==
    Cardinality(byShop) + Cardinality(ToPay) <= Cardinality(Workers) + faults

\* persistAfterPoll does not look at the status again, so an order can be settled
\* by the shop and through a gateway, or through a gateway twice; but only by
\* requests that were at work when it was settled first, one for each worker.  A
\* renewal is different: its own config_details stay empty, so that it is gone
\* on with after it was settled.
CarriedOutBounded ==
    kind # "renewal" => fulfilled + approved + completed <= Cardinality(Workers)

\* The steps a request has at most before it; a page makes sure of an invoice
\* twice.
StepsFrom ==
    [idle |-> 0, respond |-> 1, forget |-> 1, reread |-> 1, commit |-> 2, persist |-> 2,
     putContext |-> 2, enforce |-> 3, poll |-> 4, pay |-> 5, save |-> 6, create |-> 7,
     clear |-> 8, inspect |-> 9, lock |-> 10, lockRow |-> 11]
StepsLeft(r) == StepsFrom[r.pc] + (IF r.op = "page" THEN 9 ELSE 0)

\* A request never goes back, to open or to pay another invoice after a failure:
\* whatever it finds or whatever fails, it ends or has fewer steps before it; only
\* a page makes sure of an invoice twice, and the failure of the first time leads
\* it to the second (provisionPurchase, prepareWebPaymentGateways).
RequestsAdvance ==
    [][\A w \in Workers :
          \/ req'[w] = req[w] \/ req[w] = Idle
          \/ req'[w] = [req[w] EXCEPT !.late = TRUE]
          \/ StepsLeft(req'[w]) < StepsLeft(req[w])]_vars

\* A payment made at Plisio is acknowledged, hence settled, in the end: locks of
\* dead workers run out and no two requests wait for each other.
PlisioHonoured == (plisio = "owed" /\ autoPay) ~> (plisio = "acked")

\* README, payments: a payment at Plisio is "completed automatically with
\* FulfillOrderAfterPaymentAction"; here it must be, until the model has no
\* invoice left to open.
RenewalHonoured ==
    (plisio = "owed" /\ autoPay) ~> (plisio = "acked" \/ Opened = Invoices)

\* Message of provisionPurchase's lock: approve again only if the order is still
\* pending, "so that no duplicate invoice is made in the panel".  The shop pays
\* one invoice for one order.
ShopPaysOneInvoice == Cardinality(byShop) <= 1

\* Message of finalizeTelegramAfterOffsite: "this order was completed already".
\* The order is settled once, by whichever way.
CarriedOutOnce == fulfilled + approved + completed <= 1

\* Flash of processXmplusGatewayPayment: come back to the order's page after
\* paying and complete the payment there.  The invoice the customer paid stays
\* the one the shop asks about.
PaidInvoiceKept == \A i \in byCustomer : status = "pending" => ctx = i
=============================================================================
