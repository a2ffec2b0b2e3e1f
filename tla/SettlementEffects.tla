------------------------- MODULE SettlementEffects -------------------------
(***************************************************************************)
(* What settling an order of a plan brings about besides the service: the  *)
(* use of its discount code is counted and whoever invited the customer is *)
(* rewarded for the first purchase.                                        *)
(*                                                                         *)
(* Both ride on the transactions that settle an order, whichever they are, *)
(* and decide from the snapshot such a transaction reads (InnoDB's         *)
(* REPEATABLE READ).  The model has the orders of one invited customer,    *)
(* one code, panels marzban and xui.  A transaction's writes appear at its *)
(* commit; of its locks only those are told apart that it holds while      *)
(* others may act: fulfilment's on the order's row, a wallet payment's on  *)
(* the user's.  ShopOrders has the same transactions statement by          *)
(* statement, with the money they move.                                    *)
(***************************************************************************)
EXTENDS Integers, FiniteSets

CONSTANTS
    Workers,        \* php-fpm workers
    Purchases,      \* orders placed and pending
    Renewals,       \* orders the bot places when it renews a service
    NoOrder,        \* the session applied the code to no order
    Limit,          \* discount_codes.usage_limit
    UserLimit,      \* discount_codes.usage_limit_per_user
    MaxRequests,    \* bound: requests by the customer and the admin
    MaxCrashes      \* bound: workers that die

Orders == Purchases \cup Renewals

ASSUME SettingAssumption ==
    /\ IsFiniteSet(Workers) /\ Workers # {}
    /\ IsFiniteSet(Orders) /\ Purchases \cap Renewals = {}
    /\ NoOrder \notin Orders

ASSUME BoundAssumption ==
    /\ Limit \in Nat \ {0} /\ UserLimit \in Nat
    /\ MaxRequests \in Nat /\ MaxCrashes \in Nat

VARIABLES
    status,         \* orders.status; "deleted" when the row is gone
    code,           \* whether orders.discount_code_id is set
    session,        \* the browser's discount_applied_order_id
    usage,          \* orders with a row in discount_code_usages
    used,           \* discount_codes.used_count
    rewards,        \* rewards paid to the referrer
    req,            \* the request each worker serves
    requests,       \* number of requests so far
    crashes,        \* number of crashes so far
    first,          \* history: the operation that first settled an order
    undone,         \* history: times a paid order ceased to be paid
    repaid,         \* history: wallet payments of an order that was paid
    gone,           \* history: usage rows deleted with their order
    lost,           \* history: usage rows whose worker died before it counted them
    late            \* history: orders that got the code when it was used up

discount == <<code, session, usage, used, gone, lost, late>>
referral == <<rewards, first, undone, repaid>>
budget == <<requests, crashes>>
vars == <<status, discount, referral, req, budget>>

Settling == {"fulfil", "approve", "webWallet", "botWallet", "botRenew"}
Dispatching == {"fulfil", "approve", "webWallet"}
OnSite == {"webWallet", "applyOnSite", "receipt"}
Operations == Settling \cup OnSite \cup {"nowpayments", "applyInBot", "remove", "cancel"}
Steps == {"lock", "read", "commit", "fail", "write", "exists", "insert", "count", "save"}

\* A request: its order, the next step, the order's status and code as it read
\* them, its copy of the session, and what its snapshot shows: the paid orders,
\* and whether the order's use was counted.
Requests == [op : Operations, ord : Orders, pc : Steps, paid : BOOLEAN, coded : BOOLEAN,
             session : Orders \cup {NoOrder}, sees : SUBSET Orders, counted : BOOLEAN]

Idle == [pc |-> "idle", op |-> "none", ord |-> NoOrder]

At(w, step) == req[w].pc = step
Doing(w, op) == req[w].op = op
Order(w) == req[w].ord
Exists(o) == ~(status[o] \in {"none", "deleted"})
Paid == {o \in Orders : status[o] = "paid"}
GoTo(w, step) == req' = [req EXCEPT ![w].pc = step]
Finish(w) == req' = [req EXCEPT ![w] = Idle]

\* The request forgets the code and ends.
Forget(w) == req' = [req EXCEPT ![w].pc = "save", ![w].session = NoOrder]

Init ==
    /\ status = [o \in Orders |-> IF o \in Purchases THEN "pending" ELSE "none"]
    /\ code = [o \in Orders |-> FALSE]
    /\ session = NoOrder
    /\ usage = {} /\ used = 0
    /\ rewards = 0
    /\ req = [w \in Workers |-> Idle]
    /\ requests = 0 /\ crashes = 0
    /\ first = "none" /\ undone = 0 /\ repaid = 0
    /\ gone = 0 /\ lost = 0 /\ late = {}

-----------------------------------------------------------------------------
(* Locks.                                                                  *)

\* Fulfilment holds its order's row, a wallet payment the user's.
HoldsOrder(w, o) == Doing(w, "fulfil") /\ Order(w) = o /\ req[w].pc \in {"read", "commit"}
HoldsUser(w) ==
    req[w].op \in {"webWallet", "botWallet", "botRenew"} /\ req[w].pc \in {"read", "commit"}

OrderFree(w, o) == \A v \in Workers \ {w} : ~HoldsOrder(v, o)
UserFree(w) == \A v \in Workers \ {w} : ~HoldsUser(v)

-----------------------------------------------------------------------------
(* Requests: what is read and checked before any transaction.              *)

Receive(w, op, o, step) ==
    /\ At(w, "idle")
    /\ requests < MaxRequests
    /\ requests' = requests + 1
    /\ req' = [req EXCEPT ![w] =
          [op |-> op, ord |-> o, pc |-> step, paid |-> status[o] = "paid", coded |-> code[o],
           session |-> IF op \in OnSite THEN session ELSE NoOrder,
           sees |-> {}, counted |-> FALSE]]
    /\ UNCHANGED <<status, discount, referral, crashes>>

\* Plisio's callback; it is the lock that checks the status.
Fulfil(w, o) == Exists(o) /\ Receive(w, "fulfil", o, "lock")

\* The admin approves a pending order.
Approve(w, o) == status[o] = "pending" /\ Receive(w, "approve", o, "read")

\* The wallet payment of the site asks for the balance, not for the status.
PayOnSite(w, o) == Exists(o) /\ Receive(w, "webWallet", o, "lock")

PayInBot(w, o) == status[o] = "pending" /\ Receive(w, "botWallet", o, "lock")

\* The bot's renewal makes its order, paid, in its transaction.
RenewInBot(w, o) ==
    /\ status[o] = "none" /\ \A v \in Workers : Order(v) # o
    /\ Receive(w, "botRenew", o, "lock")

NowPayments(w, o) ==
    Exists(o) /\ status[o] # "paid" /\ Receive(w, "nowpayments", o, "write")

Cancel(w, o) == status[o] = "pending" /\ Receive(w, "cancel", o, "write")

\* Variant: the code's total limit is not asked for.
Unlimited == TRUE

\* isValidForOrder: the code is not used up.
Available == used < Limit

\* The site also asks how often this user used it; the bot asks for nobody's
\* uses, as it has no authenticated user.
ApplyOnSite(w, o) ==
    /\ status[o] = "pending"
    /\ Available /\ Cardinality(usage) < UserLimit
    /\ Receive(w, "applyOnSite", o, "write")

ApplyInBot(w, o) ==
    /\ status[o] = "pending"
    /\ Available /\ 0 < UserLimit
    /\ Receive(w, "applyInBot", o, "write")

RemoveInBot(w, o) == status[o] = "pending" /\ Receive(w, "remove", o, "write")

\* submitCardReceipt asks for no status.
SubmitReceipt(w, o) == Exists(o) /\ Receive(w, "receipt", o, "exists")

\* The admin sets a paid order back to pending.
Reopen(o) ==
    /\ requests < MaxRequests
    /\ status[o] = "paid"
    /\ \A w \in Workers : ~HoldsOrder(w, o)
    /\ requests' = requests + 1
    /\ status' = [status EXCEPT ![o] = "pending"]
    /\ undone' = undone + 1
    /\ UNCHANGED <<discount, rewards, first, repaid, req, crashes>>

-----------------------------------------------------------------------------
(* The transactions that settle an order.                                  *)

\* lockForUpdate; the order is read again under the lock.
LockOrder(w) ==
    /\ Doing(w, "fulfil") /\ At(w, "lock")
    /\ OrderFree(w, Order(w))
    /\ Exists(Order(w)) /\ status[Order(w)] # "paid"
    /\ req' = [req EXCEPT ![w].pc = "read", ![w].paid = FALSE, ![w].coded = code[Order(w)]]
    /\ UNCHANGED <<status, discount, referral, budget>>

NothingToFulfil(w) ==
    /\ Doing(w, "fulfil") /\ At(w, "lock")
    /\ OrderFree(w, Order(w))
    /\ ~Exists(Order(w)) \/ status[Order(w)] = "paid"
    /\ Finish(w)
    /\ UNCHANGED <<status, discount, referral, budget>>

\* The decrement of the balance, first in the transaction.
LockUser(w) ==
    /\ ~Doing(w, "fulfil") /\ At(w, "lock")
    /\ UserFree(w)
    /\ GoTo(w, IF Doing(w, "webWallet") THEN "read" ELSE "commit")
    /\ UNCHANGED <<status, discount, referral, budget>>

\* The first consistent read fixes the transaction's snapshot: after the lock, or,
\* in an approval, before or after its first write as the panel's branch has it.
Read(w) ==
    /\ At(w, "read")
    /\ req' = [req EXCEPT ![w].pc = "commit", ![w].sees = Paid, ![w].counted = Order(w) \in usage]
    /\ UNCHANGED <<status, discount, referral, budget>>

\* Whether the transaction counts a use of the code: fulfilment by the order's
\* code, the site by the session, the bot by the order's code without looking.
Counts(w) ==
    \/ Doing(w, "fulfil") /\ req[w].coded /\ ~req[w].counted
    \/ Doing(w, "webWallet") /\ req[w].session = Order(w) /\ ~req[w].counted
    \/ Doing(w, "botWallet") /\ req[w].coded

\* Variant: fulfilment counts the code of every order it settles.
IncrementAnyway(w) == IF Counts(w) \/ (Doing(w, "fulfil") /\ req[w].coded) THEN 1 ELSE 0

Increment(w) == IF Counts(w) THEN 1 ELSE 0

\* Variant: the event is dispatched before the order is written.
SeenBefore(w) == req[w].sees

\* The paid orders as the listener counts them: those of the snapshot and the
\* order itself, which is written unless it was paid when it was read.
SeenPaid(w) == req[w].sees \cup (IF req[w].paid THEN {} ELSE {Order(w)})

\* Variant: every purchase is rewarded.
RewardsAlways(w) == req[w].op \in Dispatching

\* RewardReferrerListener, run by the OrderPaid event in the transaction.
Rewards(w) == req[w].op \in Dispatching /\ Cardinality(SeenPaid(w)) = 1

Settled(op) == first' = IF first = "none" THEN op ELSE first

\* The usage row must be new and the order there, or the transaction fails.
Commit(w) ==
    /\ At(w, "commit")
    /\ OrderFree(w, Order(w)) /\ UserFree(w)
    /\ Exists(Order(w)) \/ Doing(w, "botRenew")
    /\ Counts(w) => Order(w) \notin usage
    /\ status' = IF req[w].paid THEN status ELSE [status EXCEPT ![Order(w)] = "paid"]
    /\ usage' = usage \cup {o \in {Order(w)} : Counts(w)}
    /\ used' = used + Increment(w)
    /\ rewards' = rewards + (IF Rewards(w) THEN 1 ELSE 0)
    /\ repaid' = repaid + (IF Doing(w, "webWallet") /\ (req[w].paid \/ Order(w) \in Paid)
                              THEN 1 ELSE 0)
    /\ Settled(req[w].op)
    /\ IF Doing(w, "webWallet") THEN Forget(w) ELSE Finish(w)
    /\ UNCHANGED <<code, session, gone, lost, late, undone, budget>>

\* A transaction fails: the panel, a lock, a duplicate row, a deleted order.
\* Only the bot's wallet payment goes on to write.
RollBack(w) ==
    /\ req[w].op \in Settling /\ req[w].pc \in {"lock", "read", "commit"}
    /\ CASE Doing(w, "botWallet") -> GoTo(w, "fail")
         [] Doing(w, "webWallet") -> GoTo(w, "save")
         [] OTHER                 -> Finish(w)
    /\ UNCHANGED <<status, discount, referral, budget>>

\* The bot's catch block.
MarkFailed(w) ==
    /\ At(w, "fail")
    /\ OrderFree(w, Order(w))
    /\ status' = [status EXCEPT ![Order(w)] = IF Exists(Order(w)) THEN "failed" ELSE @]
    /\ undone' = undone + (IF Order(w) \in Paid THEN 1 ELSE 0)
    /\ Finish(w)
    /\ UNCHANGED <<discount, rewards, first, repaid, budget>>

-----------------------------------------------------------------------------
(* The other requests, each statement committed on its own.                *)

WriteNowPayments(w) ==
    /\ Doing(w, "nowpayments") /\ At(w, "write")
    /\ OrderFree(w, Order(w))
    /\ IF Exists(Order(w))
          THEN /\ status' = [status EXCEPT ![Order(w)] = "paid"]
               /\ Settled("nowpayments")
          ELSE UNCHANGED <<status, first>>
    /\ Finish(w)
    /\ UNCHANGED <<discount, rewards, undone, repaid, budget>>

\* Variant: cancelling hands the use of the code back.
WriteCancelBack(w) ==
    /\ Doing(w, "cancel") /\ At(w, "write")
    /\ OrderFree(w, Order(w))
    /\ status' = [status EXCEPT ![Order(w)] = IF Exists(Order(w)) THEN "deleted" ELSE @]
    /\ undone' = undone + (IF Order(w) \in Paid THEN 1 ELSE 0)
    /\ gone' = gone + (IF Order(w) \in usage THEN 1 ELSE 0)
    /\ used' = used - (IF code[Order(w)] THEN 1 ELSE 0)
    /\ usage' = usage \ {Order(w)}
    /\ Finish(w)
    /\ UNCHANGED <<code, session, lost, late, rewards, first, repaid, budget>>

\* The DELETE takes the order's row of usage with it, not its count.
WriteCancel(w) ==
    /\ Doing(w, "cancel") /\ At(w, "write")
    /\ OrderFree(w, Order(w))
    /\ status' = [status EXCEPT ![Order(w)] = IF Exists(Order(w)) THEN "deleted" ELSE @]
    /\ undone' = undone + (IF Order(w) \in Paid THEN 1 ELSE 0)
    /\ gone' = gone + (IF Order(w) \in usage THEN 1 ELSE 0)
    /\ usage' = usage \ {Order(w)}
    /\ Finish(w)
    /\ UNCHANGED <<code, session, used, lost, late, rewards, first, repaid, budget>>

\* The order gets the code, whatever happened since the check; nothing is written
\* if it had it when it was read.
WriteCode(w) ==
    /\ req[w].op \in {"applyOnSite", "applyInBot"} /\ At(w, "write")
    /\ OrderFree(w, Order(w))
    /\ code' = [code EXCEPT ![Order(w)] = @ \/ (~req[w].coded /\ Exists(Order(w)))]
    /\ late' = late \cup {o \in {Order(w)} : used >= Limit}
    /\ IF Doing(w, "applyOnSite")
          THEN req' = [req EXCEPT ![w].pc = "save", ![w].session = Order(w)]
          ELSE Finish(w)
    /\ UNCHANGED <<status, session, usage, used, gone, lost, referral, budget>>

WriteNoCode(w) ==
    /\ Doing(w, "remove") /\ At(w, "write")
    /\ OrderFree(w, Order(w))
    /\ code' = [code EXCEPT ![Order(w)] = @ /\ ~req[w].coded]
    /\ Finish(w)
    /\ UNCHANGED <<status, session, usage, used, gone, lost, late, referral, budget>>

\* submitCardReceipt counts the session's code, outside any transaction.
LookForUse(w) ==
    /\ Doing(w, "receipt") /\ At(w, "exists")
    /\ IF req[w].session = Order(w) /\ Order(w) \notin usage
          THEN GoTo(w, "insert")
          ELSE Forget(w)
    /\ UNCHANGED <<status, discount, referral, budget>>

InsertUse(w) ==
    /\ Doing(w, "receipt") /\ At(w, "insert")
    /\ OrderFree(w, Order(w)) /\ UserFree(w)
    /\ IF Exists(Order(w)) /\ Order(w) \notin usage
          THEN usage' = usage \cup {Order(w)} /\ GoTo(w, "count")
          ELSE usage' = usage /\ GoTo(w, "save")
    /\ UNCHANGED <<status, code, session, used, gone, lost, late, referral, budget>>

CountUse(w) ==
    /\ Doing(w, "receipt") /\ At(w, "count")
    /\ used' = used + 1
    /\ Forget(w)
    /\ UNCHANGED <<status, code, session, usage, gone, lost, late, referral, budget>>

\* The session is written when the request ends, whatever another one wrote.
SaveSession(w) ==
    /\ At(w, "save")
    /\ session' = req[w].session
    /\ Finish(w)
    /\ UNCHANGED <<status, code, usage, used, gone, lost, late, referral, budget>>

Crash(w) ==
    /\ ~At(w, "idle")
    /\ crashes < MaxCrashes
    /\ crashes' = crashes + 1
    /\ lost' = lost + (IF At(w, "count") THEN 1 ELSE 0)
    /\ Finish(w)
    /\ UNCHANGED <<status, code, session, usage, used, gone, late, referral, requests>>

-----------------------------------------------------------------------------
Arrive(w) ==
    \E o \in Orders :
        \/ Fulfil(w, o) \/ Approve(w, o) \/ PayOnSite(w, o) \/ PayInBot(w, o)
        \/ RenewInBot(w, o) \/ NowPayments(w, o) \/ Cancel(w, o)
        \/ ApplyOnSite(w, o) \/ ApplyInBot(w, o) \/ RemoveInBot(w, o) \/ SubmitReceipt(w, o)

Lock(w) == LockOrder(w) \/ NothingToFulfil(w) \/ LockUser(w) \/ Read(w)

Write(w) ==
    \/ WriteNowPayments(w) \/ WriteCancel(w) \/ WriteCode(w) \/ WriteNoCode(w)
    \/ LookForUse(w) \/ InsertUse(w) \/ CountUse(w) \/ SaveSession(w)

Serve(w) == Arrive(w) \/ Lock(w) \/ Commit(w) \/ RollBack(w) \/ MarkFailed(w) \/ Write(w)

Next == \/ \E o \in Orders : Reopen(o)
        \/ \E w \in Workers : Serve(w) \/ Crash(w)

Spec == Init /\ [][Next]_vars

-----------------------------------------------------------------------------
(* Properties.                                                             *)

\* The variables keep their types; the count of a code's uses never falls below
\* zero.
TypeOK ==
    /\ status \in [Orders -> {"none", "pending", "paid", "failed", "deleted"}]
    /\ code \in [Orders -> BOOLEAN]
    /\ session \in Orders \cup {NoOrder}
    /\ usage \subseteq Orders /\ late \subseteq Orders
    /\ used \in Nat /\ gone \in Nat /\ lost \in Nat
    /\ rewards \in Nat /\ undone \in Nat /\ repaid \in Nat
    /\ req \in [Workers -> Requests \cup {Idle}]
    /\ requests \in Nat /\ crashes \in Nat
    /\ first \in Operations \cup {"none"}

\* Each transaction counts the paid orders in its own snapshot, so overlapping
\* settlements all find theirs the first: one reward for each worker.  A paid
\* order that ceases to be paid makes another such round possible, and a wallet
\* payment of a paid order, which the site does not refuse, rewards again.
RewardsBounded == rewards <= Cardinality(Workers) * (1 + undone) + repaid

\* The referrer is never forgotten: when the customer's first order was settled
\* by Plisio, the admin or the site's wallet, the reward was paid, however many
\* settlements overlapped it.
FirstPurchaseRewarded == first \in Dispatching => rewards > 0

Uncounted == {w \in Workers : At(w, "count")}

\* used_count is the number of orders whose use was recorded, each once, whichever
\* path recorded it: but for rows that went with their order, and rows whose
\* worker has not counted them yet or died before.
UsedExplained ==
    used + lost + Cardinality(Uncounted) = Cardinality(usage) + gone

\* A code that is used up reaches no further orders, except those of requests
\* that had asked before and write later, at most one for each other worker.
ExhaustedCodeStops == Cardinality(late) < Cardinality(Workers)
=============================================================================
