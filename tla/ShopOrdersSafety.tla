--------------------------- MODULE ShopOrdersSafety ---------------------------
(***************************************************************************)
(* What the inductive invariant Locks of ShopOrdersProofs gives: payments  *)
(* at Plisio are carried out once and acknowledged only when settled, every*)
(* wallet is explained by its rows, and ShopOrders implements              *)
(* PlisioSettlement.                                                       *)
(***************************************************************************)
EXTENDS ShopOrdersProofs

-----------------------------------------------------------------------------
(* What any step may do to one order.                                      *)

OrderStep(o) ==
    /\ \/ fulfilled'[o] = fulfilled[o]
       \/ /\ fulfilled'[o] = fulfilled[o] + 1
          /\ status[o] \in {"pending", "failed"} /\ status'[o] = "paid"
    /\ reverted'[o] \in {reverted[o], reverted[o] + 1}
    /\ status[o] = "paid" =>
          status'[o] \in {"paid", "deleted"} \/ reverted'[o] = reverted[o] + 1
    /\ status[o] = "deleted" => status'[o] = "deleted"

LEMMA WritingOrder ==
    ASSUME Locks, NEW w \in Workers, Writing(w), NEW o \in Orders
    PROVE  OrderStep(o)
<1>1. req[w].pc # "idle"
  BY DEF Writing, CommitFulfilment, Respond, CommitApproval, CommitWalletPayment,
         WriteNowPayments, DeleteOrder, MarkFailed, Refund, Committing, At
<1>2. /\ req[w] \in Requests /\ Fits(req[w])
      /\ req[w].ord \in Orders /\ Row(w) \in Orders
  BY <1>1, InRequest DEF Locks
<1>3. Inside(req[w]) => /\ Exists(req[w].ord)
                        /\ req[w].op = "plisio" => status[req[w].ord] # "paid"
  BY DEF Locks, Holding
<1>4. CASE CommitFulfilment(w)
  <2>1. Inside(req[w]) /\ req[w].op = "plisio"
    BY <1>4 DEF CommitFulfilment, Committing, At, Inside
  <2>2. status[req[w].ord] \in {"pending", "failed"}
    BY <1>2, <1>3, <2>1 DEF Locks, Shape, TypeOK, Statuses, Exists
  <2> QED
    BY <1>2, <1>4, <2>2 DEF CommitFulfilment, Settle, OrderStep, Locks, Shape, TypeOK
<1>5. CASE CommitApproval(w)
  <2>1. Inside(req[w])
    BY <1>5 DEF CommitApproval, Committing, At, Inside
  <2> QED
    BY <1>2, <1>3, <1>5, <2>1 DEF CommitApproval, Settle, OrderStep, Exists, Locks, Shape, TypeOK
<1>6. CASE CommitWalletPayment(w)
  <2>1. status[req[w].ord] # "deleted"
    <3>1. CASE req[w].op = "botRenew"
      BY <3>1 DEF Locks, Fresh
    <3>2. CASE req[w].op # "botRenew"
      BY <1>3, <1>6, <3>2 DEF CommitWalletPayment, At, Inside, Exists
    <3> QED
      BY <3>1, <3>2
  <2> QED
    BY <1>2, <1>6, <2>1 DEF CommitWalletPayment, OrderStep, counts, Locks, Shape, TypeOK
<1>7. CASE WriteNowPayments(w) \/ DeleteOrder(w)
  BY <1>2, <1>7 DEF WriteNowPayments, DeleteOrder, OrderStep, Exists, counts, Locks, Shape, TypeOK
<1>8. CASE MarkFailed(w)
  BY <1>2, <1>8 DEF MarkFailed, OrderStep, Exists, Locks, Shape, TypeOK
<1>9. CASE Respond(w) \/ Refund(w)
  BY <1>9 DEF Respond, Refund, OrderStep, counts
<1> QED
  BY <1>4, <1>5, <1>6, <1>7, <1>8, <1>9 DEF Writing

LEMMA StepOrder ==
    ASSUME Locks, [Next]_vars, NEW o \in Orders
    PROVE  OrderStep(o)
<1>1. ASSUME NEW w \in Workers, Receive(w) \/ Locking(w) \/ Provisioning(w) \/ Crash(w)
      PROVE  UNCHANGED <<status, fulfilled, reverted>>
  BY <1>1 DEF Receive, DeliverPlisio, DeliverNowPayments, AdminApproves, AdminCancels,
     PayFromWalletOnSite, PayFromWalletInBot, RenewFromWalletInBot, Requested, Accept,
     Locking, FindSettled, LockOrder, LockMissing, LockUser, LockWaitFails,
     Provisioning, PanelAnswers, PanelFails, Crash, counts
<1>2. ASSUME UNCHANGED <<status, fulfilled, reverted>>
      PROVE  OrderStep(o)
  BY <1>2 DEF OrderStep
<1>3. ASSUME NEW p \in Orders, PlaceOrder(p) \/ CustomerPaysPlisio(p) \/ AdminReopens(p)
      PROVE  OrderStep(o)
  BY <1>3 DEF PlaceOrder, CustomerPaysPlisio, AdminReopens, OrderStep, counts,
              Locks, Shape, TypeOK
<1>4. UNCHANGED vars => UNCHANGED <<status, fulfilled, reverted>>
  BY DEF vars, counts
<1> QED
  BY <1>1, <1>2, <1>3, <1>4, WritingOrder DEF Next, Customers, Serve

-----------------------------------------------------------------------------
(* Carried out once.                                                       *)

Carried(o) ==
    /\ fulfilled[o] <= 1 + reverted[o]
    /\ status[o] \in {"none", "pending", "failed"} => fulfilled[o] <= reverted[o]

OnceInv == Locks /\ \A o \in Orders : Carried(o)

LEMMA OnceNext == OnceInv /\ [Next]_vars => OnceInv'
<1> SUFFICES ASSUME OnceInv, [Next]_vars PROVE OnceInv'
  OBVIOUS
<1>1. Locks'
  BY LocksNext DEF OnceInv
<1>2. ASSUME NEW o \in Orders PROVE Carried(o)'
  <2>1. OrderStep(o)
    BY StepOrder DEF OnceInv
  <2>2. /\ fulfilled[o] \in Nat /\ reverted[o] \in Nat /\ status[o] \in Statuses
        /\ Carried(o)
    BY DEF OnceInv, Locks, Shape, TypeOK
  <2> QED
    BY <2>1, <2>2 DEF OrderStep, Carried, Statuses
<1> QED
  BY <1>1, <1>2 DEF OnceInv

\* However many workers receive Plisio's callback for an order, and whatever
\* else runs, FulfillOrderAfterPaymentAction carries it out once for each time
\* the order was left unpaid.
THEOREM FulfilledOnceHolds == Spec => []FulfilledOnce
<1>1. Init => OnceInv
  <2> SUFFICES ASSUME Init PROVE OnceInv
    OBVIOUS
  <2>1. \A o \in Orders : Carried(o)
    BY DEF Init, Carried
  <2> QED
    BY <2>1, LocksInit DEF OnceInv
<1>2. OnceInv => FulfilledOnce
  BY DEF OnceInv, Carried, FulfilledOnce
<1> QED
  BY <1>1, <1>2, OnceNext, PTL DEF Spec

-----------------------------------------------------------------------------
(* Acknowledged only when settled.                                         *)

Settled(o) == status[o] \in {"paid", "deleted"} \/ reverted[o] > 0

AckInv ==
    /\ Locks
    /\ \A o \in Orders : plisio[o] = "acked" => Settled(o)
    /\ \A w \in Workers : req[w].pc = "respond" => Settled(req[w].ord)

LEMMA SettledStays ==
    ASSUME Locks, [Next]_vars, NEW o \in Orders, Settled(o)
    PROVE  Settled(o)'
  BY StepOrder DEF OrderStep, Settled, Locks, Shape, TypeOK

\* A request reaches its answer only past a settled order.
LEMMA Answering ==
    ASSUME Locks, Next, NEW v \in Workers, req'[v].pc = "respond"
    PROVE  \/ req[v].pc = "respond" /\ req'[v].ord = req[v].ord
           \/ status'[req'[v].ord] \in {"paid", "deleted"}
<1>1. req \in [Workers -> Requests \cup {Idle}]
  BY DEF Locks, Shape, TypeOK
<1>2. ASSUME NEW o \in Orders, PlaceOrder(o) \/ CustomerPaysPlisio(o) \/ AdminReopens(o)
      PROVE  req' = req
  BY <1>2 DEF PlaceOrder, CustomerPaysPlisio, AdminReopens
<1>3. ASSUME NEW w \in Workers, NEW op \in Operations, NEW o \in Orders, Accept(w, op, o)
      PROVE  req[v].pc = "respond" /\ req'[v].ord = req[v].ord
  <2> DEFINE r == [op |-> op, ord |-> o, pc |-> FirstStep(op, o), ok |-> TRUE]
  <2>1. r.pc # "respond"
    BY DEF FirstStep, Operations
  <2>2. req' = [req EXCEPT ![w] = r]
    BY <1>3 DEF Accept
  <2> HIDE DEF r
  <2> QED
    BY <1>1, <2>1, <2>2
<1>4. ASSUME NEW w \in Workers, Receive(w)
      PROVE  \E op \in Operations, o \in Orders : Accept(w, op, o)
  BY <1>4 DEF Receive, DeliverPlisio, DeliverNowPayments, AdminApproves, AdminCancels,
     PayFromWalletOnSite, PayFromWalletInBot, RenewFromWalletInBot, Requested, Operations
<1>5. ASSUME NEW w \in Workers, Serve(w) \/ Crash(w)
      PROVE  /\ \A x \in Workers \ {w} : req'[x] = req[x]
             /\ req[w].pc # "idle"
  BY <1>1, <1>5
  DEF Serve, Locking, FindSettled, LockOrder, LockMissing, LockUser, LockWaitFails,
      Provisioning, PanelAnswers, PanelFails, Writing, CommitFulfilment, Respond,
      CommitApproval, CommitWalletPayment, WriteNowPayments, DeleteOrder, MarkFailed, Refund,
      Crash, Committing, At, Throw, Advance, GoTo, Finish, Requests, Steps
<1>6. ASSUME Serve(v) \/ Crash(v)
      PROVE  status'[req'[v].ord] \in {"paid", "deleted"}
  <2>1. req[v] \in Requests /\ Fits(req[v]) /\ Row(v) \in Orders /\ req[v].ord \in Orders
    BY <1>5, <1>6, InRequest DEF Locks
  <2>2. ASSUME GoTo(v, "respond") PROVE req'[v].ord = req[v].ord
    BY <1>1, <2>1, <2>2, AdvanceIs, <1>5, <1>6 DEF GoTo, Locks
  <2>3. CASE FindSettled(v)
    BY <2>1, <2>2, <2>3 DEF FindSettled, Row
  <2>4. CASE CommitFulfilment(v)
    BY <2>1, <2>2, <2>4 DEF CommitFulfilment, Settle, Locks, Shape, TypeOK
  <2>5. ASSUME Advance(v), req[v].pc \in {"lockOrder", "panel", "lockUser"}
        PROVE  FALSE
    <3>1. req'[v].pc = StepAfter(req[v])
      BY <1>1, <2>5 DEF Advance
    <3> QED
      BY <2>1, <2>5, <3>1 DEF StepAfter
  <2>6. ASSUME NEW step, GoTo(v, step), step # "respond" PROVE FALSE
    <3>1. req'[v].pc = step
      BY <1>1, <2>6, AdvanceIs, <1>5, <1>6 DEF GoTo, Locks
    <3> QED
      BY <2>6, <3>1
  <2>7. ASSUME Finish(v) \/ Throw(v) \/ GoTo(v, "refund") PROVE FALSE
    <3>1. ~Finish(v)
      BY <1>1 DEF Finish, Idle
    <3> QED
      BY <2>6, <2>7, <3>1 DEF Throw
  <2>8. CASE PanelFails(v)
    <3>1. CASE req' = [req EXCEPT ![v] =
                  [op |-> @.op, ord |-> @.ord, pc |-> StepAfter(@), ok |-> FALSE]]
      <4>1. req'[v].pc = StepAfter(req[v])
        BY <1>1, <3>1
      <4> QED
        BY <2>1, <2>8, <4>1 DEF StepAfter, PanelFails, At
    <3> QED
      BY <2>7, <2>8, <3>1 DEF PanelFails
  <2> QED
    BY <1>6, <2>3, <2>4, <2>5, <2>7, <2>8
    DEF Serve, Locking, LockOrder, LockMissing, LockUser, LockWaitFails, Provisioning,
        PanelAnswers, Writing, Respond, CommitApproval, CommitWalletPayment,
        WriteNowPayments, DeleteOrder, MarkFailed, Refund, Crash, At
<1> QED
  BY <1>2, <1>3, <1>4, <1>5, <1>6 DEF Next, Customers

LEMMA AckNext == AckInv /\ [Next]_vars => AckInv'
<1> SUFFICES ASSUME AckInv, [Next]_vars PROVE AckInv'
  OBVIOUS
<1>1. Locks /\ Locks'
  BY LocksNext DEF AckInv
<1>2. \A w \in Workers : req[w].pc = "respond" => req[w].ord \in Orders
  BY <1>1, InRequest DEF Locks
<1>3. ASSUME NEW o \in Orders, plisio'[o] = "acked"
      PROVE  plisio[o] = "acked" \/ \E w \in Workers : req[w].pc = "respond" /\ req[w].ord = o
  <2>1. \/ plisio' = plisio
        \/ \E p \in Orders : CustomerPaysPlisio(p)
        \/ \E w \in Workers : Respond(w)
    BY DEF Next, Customers, PlaceOrder, AdminReopens, Receive, DeliverPlisio, DeliverNowPayments,
       AdminApproves, AdminCancels, PayFromWalletOnSite, PayFromWalletInBot,
       RenewFromWalletInBot, Requested, Accept, Serve, Locking, FindSettled, LockOrder,
       LockMissing, LockUser, LockWaitFails, Provisioning, PanelAnswers, PanelFails, Writing,
       CommitFulfilment, CommitApproval, CommitWalletPayment, WriteNowPayments, DeleteOrder,
       MarkFailed, Refund, Crash, vars
  <2> QED
    BY <1>1, <1>3, <2>1 DEF CustomerPaysPlisio, Respond, At, Locks, Shape, TypeOK
<1>4. ASSUME NEW o \in Orders, plisio'[o] = "acked" PROVE Settled(o)'
  BY <1>1, <1>3, <1>4, SettledStays DEF AckInv
<1>5. ASSUME NEW w \in Workers, req'[w].pc = "respond" PROVE Settled(req[w].ord)'
  <2>1. CASE Next
    BY <1>1, <1>2, <1>5, <2>1, Answering, SettledStays DEF AckInv, Settled
  <2>2. CASE UNCHANGED vars
    BY <1>5, <2>2 DEF vars, counts, AckInv, Settled
  <2> QED
    BY <2>1, <2>2
<1> QED
  BY <1>1, <1>4, <1>5 DEF AckInv

\* Plisio gets its 200, and stops repeating the callback, only for an order
\* that has been paid or is gone: no rollback, crash or cancel in between can
\* lose a payment Plisio took.
THEOREM AckedIsSettledHolds == Spec => []AckedIsSettled
<1>1. Init => AckInv
  BY LocksInit DEF Init, AckInv, Idle
<1>2. AckInv => AckedIsSettled
  BY DEF AckInv, AckedIsSettled, Settled
<1> QED
  BY <1>1, <1>2, AckNext, PTL DEF Spec

-----------------------------------------------------------------------------
(* Wallets.                                                                *)

WalletInv == Shape /\ WalletExplained

LEMMA WalletNext == WalletInv /\ [Next]_vars => WalletInv'
<1> SUFFICES ASSUME WalletInv, [Next]_vars PROVE WalletInv'
  OBVIOUS
<1>1. Shape'
  BY ShapeNext DEF WalletInv
<1>2. Opening \in [Users -> Nat] /\ Amount \in [Orders -> Nat] /\ Owner \in [Orders -> Users]
  BY OrderAssumption, AmountAssumption
<1>3. \/ UNCHANGED money
      \/ \E u \in Users, a \in Nat : Credit(u, a) \/ Debit(u, a)
      \/ \E w \in Workers : Refund(w)
  <2>1. ASSUME NEW w \in Workers, CommitFulfilment(w) \/ CommitApproval(w)
        PROVE  UNCHANGED money \/ \E u \in Users, a \in Nat : Credit(u, a)
    <3>1. req[w].ord \in Orders /\ CreditTopUp(req[w].ord)
      BY <2>1, InRequest DEF WalletInv, CommitFulfilment, CommitApproval, Committing, At
    <3> QED
      BY <1>2, <3>1 DEF CreditTopUp
  <2>2. ASSUME NEW w \in Workers, CommitWalletPayment(w)
        PROVE  \E u \in Users, a \in Nat : Debit(u, a)
    BY <2>2, InRequest DEF WalletInv, CommitWalletPayment, At
  <2> QED
    BY <2>1, <2>2
    DEF Next, Customers, PlaceOrder, CustomerPaysPlisio, AdminReopens, Receive, DeliverPlisio,
        DeliverNowPayments, AdminApproves, AdminCancels, PayFromWalletOnSite,
        PayFromWalletInBot, RenewFromWalletInBot, Requested, Accept, Serve, Locking,
        FindSettled, LockOrder, LockMissing, LockUser, LockWaitFails, Provisioning,
        PanelAnswers, PanelFails, Writing, Respond, WriteNowPayments, DeleteOrder,
        MarkFailed, Crash, vars
<1>4. WalletExplained'
  <2>1. CASE UNCHANGED money
    BY <2>1 DEF money, WalletInv, WalletExplained
  <2>2. ASSUME NEW u \in Users, NEW a \in Nat, Credit(u, a) \/ Debit(u, a)
        PROVE  WalletExplained'
    <3>1. /\ balance \in [Users -> Int] /\ deposited \in [Users -> Nat]
          /\ spent \in [Users -> Nat] /\ returned \in [Users -> Nat]
      BY DEF WalletInv, Shape, TypeOK
    <3>2. CASE Credit(u, a)
      BY <1>2, <3>1, <3>2 DEF Credit, WalletInv, WalletExplained
    <3>3. CASE Debit(u, a)
      BY <1>2, <3>1, <3>3 DEF Debit, WalletInv, WalletExplained
    <3> QED
      BY <2>2, <3>2, <3>3
  <2>3. ASSUME NEW w \in Workers, Refund(w)
        PROVE  WalletExplained'
    <3>1. User(w) \in Users /\ Amount[req[w].ord] \in Nat
      BY <2>3, InRequest DEF WalletInv, Refund, At
    <3> QED
      BY <1>2, <2>3, <3>1 DEF Refund, WalletInv, WalletExplained, Shape, TypeOK
  <2> QED
    BY <1>3, <2>1, <2>2, <2>3
<1> QED
  BY <1>1, <1>4 DEF WalletInv

\* No interleaving, rollback or crash loses or makes money in a wallet other
\* than by the rows of transactions and the refunds of the bot's catch blocks.
THEOREM WalletExplainedHolds == Spec => []WalletExplained
<1>1. Init => WalletInv
  <2> SUFFICES ASSUME Init PROVE WalletInv
    OBVIOUS
  <2>1. WalletExplained
    BY AmountAssumption DEF Init, WalletExplained
  <2> QED
    BY <2>1, ShapeInit DEF WalletInv
<1>2. WalletInv => WalletExplained
  BY DEF WalletInv
<1> QED
  BY <1>1, <1>2, WalletNext, PTL DEF Spec

-----------------------------------------------------------------------------
(* ShopOrders implements PlisioSettlement.                                 *)

Promise == <<status, plisio, fulfilled, deposited>>

LEMMA PromiseWriting ==
    ASSUME Locks, NEW w \in Workers, Writing(w)
    PROVE  [Settlement!Next]_Promise
<1>1. req[w].pc # "idle"
  BY DEF Writing, CommitFulfilment, Respond, CommitApproval, CommitWalletPayment,
         WriteNowPayments, DeleteOrder, MarkFailed, Refund, Committing, At
<1>2. /\ req[w] \in Requests /\ Fits(req[w])
      /\ req[w].ord \in Orders /\ Row(w) \in Orders
  BY <1>1, InRequest DEF Locks
<1>3. Inside(req[w]) => /\ Exists(req[w].ord)
                        /\ req[w].op = "plisio" => status[req[w].ord] # "paid"
  BY DEF Locks, Holding
<1>4. req[w].op = "plisio" => plisio[req[w].ord] # "none"
  BY DEF Locks, Billed
<1>5. ASSUME NEW o \in Orders, CreditTopUp(o) PROVE Settlement!Credit(o)
  BY <1>5 DEF CreditTopUp, Credit, money, Settlement!Credit
<1>6. CASE CommitFulfilment(w)
  <2>1. Inside(req[w]) /\ req[w].op = "plisio"
    BY <1>6 DEF CommitFulfilment, Committing, At, Inside
  <2>2. status[req[w].ord] \in {"pending", "failed"}
    BY <1>2, <1>3, <2>1 DEF Locks, Shape, TypeOK, Statuses, Exists
  <2>3. Settlement!CarryOut(req[w].ord)
    BY <1>2, <1>4, <1>5, <1>6, <2>1, <2>2
    DEF CommitFulfilment, Settle, Settlement!CarryOut, Settlement!Unpaid
  <2> QED
    BY <1>2, <2>3 DEF Settlement!Next
<1>7. CASE CommitApproval(w)
  <2>1. Inside(req[w])
    BY <1>7 DEF CommitApproval, Committing, At, Inside
  <2>2. status[req[w].ord] \in {"pending", "failed", "paid"}
    BY <1>2, <1>3, <2>1 DEF Locks, Shape, TypeOK, Statuses, Exists
  <2>3. Settlement!Approve(req[w].ord)
    BY <1>2, <1>5, <1>7, <2>2
    DEF CommitApproval, Settle, Settlement!Approve, Settlement!Present
  <2> QED
    BY <1>2, <2>3 DEF Settlement!Next
<1>8. CASE Respond(w)
  <2>1. req[w].op = "plisio"
    BY <1>2, <1>8 DEF Respond, At, Fits
  <2>2. Settlement!Acknowledge(req[w].ord)
    BY <1>4, <1>8, <2>1 DEF Respond, money, counts, Settlement!Acknowledge
  <2> QED
    BY <1>2, <2>2 DEF Settlement!Next
<1>9. CASE CommitWalletPayment(w)
  <2>1. status[req[w].ord] # "deleted"
    <3>1. CASE req[w].op = "botRenew"
      BY <3>1 DEF Locks, Fresh
    <3>2. CASE req[w].op # "botRenew"
      BY <1>3, <1>9, <3>2 DEF CommitWalletPayment, At, Inside, Exists
    <3> QED
      BY <3>1, <3>2
  <2>2. Settlement!Other(req[w].ord)
    BY <1>2, <1>9, <2>1 DEF CommitWalletPayment, Debit, counts, Settlement!Other,
                            Settlement!Present
  <2> QED
    BY <1>2, <2>2 DEF Settlement!Next
<1>10. CASE WriteNowPayments(w) \/ DeleteOrder(w) \/ MarkFailed(w)
  <2>1. CASE Exists(Row(w))
    <3>1. Settlement!Other(Row(w))
      BY <1>2, <1>10, <2>1
      DEF WriteNowPayments, DeleteOrder, MarkFailed, money, counts, Exists, Settlement!Other,
          Settlement!Present
    <3> QED
      BY <1>2, <3>1 DEF Settlement!Next
  <2>2. CASE ~Exists(Row(w))
    BY <1>2, <1>10, <2>2 DEF WriteNowPayments, DeleteOrder, MarkFailed, money, counts,
                             Promise, Locks, Shape, TypeOK
  <2> QED
    BY <2>1, <2>2
<1>11. CASE Refund(w)
  BY <1>11 DEF Refund, counts, Promise
<1> QED
  BY <1>6, <1>7, <1>8, <1>9, <1>10, <1>11 DEF Writing

LEMMA PromiseNext == Locks /\ [Next]_vars => [Settlement!Next]_Promise
<1> SUFFICES ASSUME Locks, [Next]_vars PROVE [Settlement!Next]_Promise
  OBVIOUS
<1>1. ASSUME NEW w \in Workers, Receive(w) \/ Locking(w) \/ Provisioning(w) \/ Crash(w)
      PROVE  UNCHANGED Promise
  BY <1>1 DEF Receive, DeliverPlisio, DeliverNowPayments, AdminApproves, AdminCancels,
     PayFromWalletOnSite, PayFromWalletInBot, RenewFromWalletInBot, Requested, Accept,
     Locking, FindSettled, LockOrder, LockMissing, LockUser, LockWaitFails,
     Provisioning, PanelAnswers, PanelFails, Crash, counts, money, Promise
<1>2. ASSUME NEW o \in Orders, PlaceOrder(o) \/ AdminReopens(o)
      PROVE  Settlement!Other(o)
  BY <1>2 DEF PlaceOrder, AdminReopens, Settlement!Other, Settlement!Present, money, counts
<1>3. ASSUME NEW o \in Orders, CustomerPaysPlisio(o)
      PROVE  Settlement!Pay(o)
  BY <1>3 DEF CustomerPaysPlisio, Settlement!Pay, money, counts
<1>4. UNCHANGED vars => UNCHANGED Promise
  BY DEF vars, money, counts, Promise
<1> QED
  BY <1>1, <1>2, <1>3, <1>4, PromiseWriting DEF Next, Customers, Serve, Settlement!Next

\* Requests, transactions, row locks, rollbacks and crashes implement the
\* settlement the shop promises: every step of ShopOrders is a step of
\* PlisioSettlement or leaves its variables alone.
THEOREM ImplementsSettlement == Spec => SettlesAsPromised
<1>1. Init => Settlement!Init
  BY DEF Init, Settlement!Init
<1>2. Locks /\ [Next]_vars => [Settlement!Next]_Settlement!vars
  BY PromiseNext DEF Promise, Settlement!vars
<1> QED
  BY <1>1, <1>2, LocksInit, LocksNext, PTL DEF Spec, SettlesAsPromised, Settlement!Spec
===============================================================================
