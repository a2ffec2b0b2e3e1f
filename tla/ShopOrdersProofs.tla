--------------------------- MODULE ShopOrdersProofs ---------------------------
(***************************************************************************)
(* Proofs about ShopOrders, for every set of users, orders and workers.    *)
(***************************************************************************)
EXTENDS ShopOrders, TLAPS

-----------------------------------------------------------------------------
(* The inductive invariant.                                                *)

\* The step a request is at fits its operation, and its operation its order.
Fits(r) ==
    /\ r.op \in {"plisio", "approve", "webWallet"} =>
         r.pc \in {"lockOrder", "panel", "lockUser", "commit", "respond"}
    /\ r.op = "nowpayments" => r.pc = "write"
    /\ r.op = "cancel" => r.pc = "delete"
    /\ InBot(r.op) =>
         r.pc \in {"lockOrder", "panel", "lockUser", "commit", "markFailed", "refund"}
    /\ r.pc = "markFailed" => r.op = "botWallet"
    /\ r.pc = "respond" => r.op = "plisio"
    /\ r.op = "botRenew" => r.ord \in Renewals

\* The steps in which a request's transaction holds the order it pays for.
Inside(r) ==
    \/ r.op = "plisio" /\ r.pc \in {"panel", "lockUser", "commit"}
    \/ r.op = "approve" /\ r.pc \in {"lockUser", "commit"}
    \/ r.op = "webWallet" /\ r.pc = "commit"
    \/ r.op = "botWallet" /\ r.pc \in {"panel", "commit"}

Fitting == \A w \in Workers : req[w] # Idle => Fits(req[w])

\* No row is locked twice.
Exclusive == \A w, v \in Workers : w # v => held[w] \cap held[v] = {}

\* Inside its transaction a request has its order locked, so the order is
\* still there, and still unpaid if Plisio's callback found it so.
Holding ==
    \A w \in Workers : Inside(req[w]) =>
        /\ req[w].ord \in held[w]
        /\ Exists(req[w].ord)
        /\ req[w].op = "plisio" => status[req[w].ord] # "paid"

\* The order a renewal in the bot is about to create is known to no one else.
Fresh ==
    \A w \in Workers : req[w].op = "botRenew" =>
        /\ status[req[w].ord] = "none"
        /\ \A v \in Workers \ {w} : req[v].ord # req[w].ord

\* Plisio knows only orders the shop has placed.
Billed ==
    /\ \A o \in Orders : plisio[o] # "none" => status[o] # "none"
    /\ \A w \in Workers : req[w].op = "plisio" => plisio[req[w].ord] # "none"

Shape == TypeOK /\ Fitting
Locks == Shape /\ Exclusive /\ Holding /\ Fresh /\ Billed

-----------------------------------------------------------------------------
(* Type correctness.                                                       *)

\* The step after a statement is a step, and the rest of the request is kept.
LEMMA StepAfterType ==
    ASSUME NEW r \in Requests, r.pc \in {"lockOrder", "panel", "lockUser"}
    PROVE  StepAfter(r) \in Steps
  BY DEF StepAfter, Steps, Requests, InBot

LEMMA RowType ==
    ASSUME NEW w \in Workers, Shape, req[w] # Idle
    PROVE  /\ req[w] \in Requests
           /\ req[w].ord \in Orders
           /\ Row(w) \in Orders /\ Row(w) \in Rows
           /\ User(w) \in Users /\ User(w) \in Rows
  BY OrderAssumption DEF Shape, Fitting, Fits, TypeOK, Row, Rows, Orders, User, Requests

\* What a request becomes keeps the shape, if it becomes idle or fits.
LEMMA Becomes ==
    ASSUME NEW w \in Workers, NEW r \in Requests \cup {Idle}, Shape,
           r = Idle \/ Fits(r), req' = [req EXCEPT ![w] = r]
    PROVE  /\ req' \in [Workers -> Requests \cup {Idle}]
           /\ Fitting'
<1>1. req' \in [Workers -> Requests \cup {Idle}]
  BY DEF Shape, TypeOK
<1>2. ASSUME NEW v \in Workers, req'[v] # Idle
      PROVE  Fits(req'[v])
  BY <1>1, <1>2 DEF Shape, TypeOK, Fitting
<1> QED
  BY <1>1, <1>2 DEF Fitting

LEMMA AdvanceShape ==
    ASSUME NEW w \in Workers, Shape, req[w].pc \in {"lockOrder", "panel", "lockUser"},
           NEW ok \in BOOLEAN,
           req' = [req EXCEPT ![w] = [op |-> req[w].op, ord |-> req[w].ord,
                                      pc |-> StepAfter(req[w]), ok |-> ok]]
    PROVE  /\ req' \in [Workers -> Requests \cup {Idle}]
           /\ Fitting'
<1>1. req[w] \in Requests /\ Fits(req[w])
  BY DEF Shape, TypeOK, Fitting, Idle
<1>2. StepAfter(req[w]) \in Steps
  BY <1>1, StepAfterType
<1> DEFINE r == [op |-> req[w].op, ord |-> req[w].ord, pc |-> StepAfter(req[w]), ok |-> ok]
<1>3. r \in Requests
  BY <1>1, <1>2 DEF Requests
<1>4. Fits(r)
  BY <1>1 DEF Fits, StepAfter, InBot, Requests, Operations
<1> HIDE DEF r
<1>5. req' = [req EXCEPT ![w] = r]
  BY DEF r
<1> QED
  BY <1>3, <1>4, <1>5, Becomes

LEMMA InRequest ==
    ASSUME NEW w \in Workers, Shape, req[w].pc # "idle"
    PROVE  /\ req[w] # Idle /\ req[w] \in Requests /\ Fits(req[w])
           /\ req[w].ord \in Orders /\ Row(w) \in Orders
           /\ User(w) \in Users /\ Amount[req[w].ord] \in Nat
<1>1. req[w] # Idle /\ req[w] \in Requests /\ Fits(req[w])
  BY DEF Shape, TypeOK, Fitting, Idle
<1> QED
  BY <1>1, RowType, AmountAssumption

LEMMA AdvanceIs ==
    ASSUME NEW w \in Workers, Shape, req[w].pc # "idle", NEW step
    PROVE  /\ req[w] \in Requests /\ Fits(req[w])
           /\ [req[w] EXCEPT !.pc = step] =
                [op |-> req[w].op, ord |-> req[w].ord, pc |-> step, ok |-> req[w].ok]
<1>1. req[w] \in Requests /\ Fits(req[w])
  BY DEF Shape, TypeOK, Fitting, Idle
<1> QED
  BY <1>1 DEF Requests

LEMMA GoToShape ==
    ASSUME NEW w \in Workers, NEW step \in Steps, Shape, req[w].pc # "idle",
           Fits([op |-> req[w].op, ord |-> req[w].ord, pc |-> step, ok |-> req[w].ok]),
           GoTo(w, step)
    PROVE  /\ req' \in [Workers -> Requests \cup {Idle}]
           /\ Fitting'
<1> DEFINE r == [op |-> req[w].op, ord |-> req[w].ord, pc |-> step, ok |-> req[w].ok]
<1>1. r \in Requests
  BY AdvanceIs DEF Requests
<1>2. req' = [req EXCEPT ![w] = r]
  BY AdvanceIs DEF GoTo, Shape, TypeOK
<1> HIDE DEF r
<1> QED
  BY <1>1, <1>2, Becomes DEF r

LEMMA FinishShape ==
    ASSUME NEW w \in Workers, Shape, Finish(w)
    PROVE  /\ req' \in [Workers -> Requests \cup {Idle}]
           /\ Fitting'
  BY Becomes DEF Finish

LEMMA UnlockType ==
    ASSUME NEW w \in Workers, Shape, Unlock(w)
    PROVE  held' \in [Workers -> SUBSET Rows]
  BY DEF Unlock, Shape, TypeOK

LEMMA ThrowShape ==
    ASSUME NEW w \in Workers, Shape, req[w].pc \in {"lockOrder", "panel", "lockUser"}, Throw(w)
    PROVE  /\ req' \in [Workers -> Requests \cup {Idle}]
           /\ Fitting'
           /\ held' \in [Workers -> SUBSET Rows]
<1>1. held' \in [Workers -> SUBSET Rows]
  BY UnlockType DEF Throw
<1>2. req[w] \in Requests /\ Fits(req[w])
  BY AdvanceIs
<1>3. CASE req[w].op = "botWallet"
  <2>1. GoTo(w, "markFailed")
    BY <1>3 DEF Throw
  <2> QED
    BY <1>1, <1>2, <1>3, <2>1, GoToShape DEF Fits, InBot, Steps
<1>4. CASE req[w].op = "botRenew" /\ ~At(w, "lockUser")
  <2>1. GoTo(w, "refund")
    BY <1>4 DEF Throw
  <2> QED
    BY <1>1, <1>2, <1>4, <2>1, GoToShape DEF Fits, InBot, Steps
<1>5. CASE req[w].op # "botWallet" /\ ~(req[w].op = "botRenew" /\ ~At(w, "lockUser"))
  BY <1>1, <1>5, FinishShape DEF Throw
<1> QED
  BY <1>3, <1>4, <1>5

LEMMA ShapeInit == Init => Shape
<1> SUFFICES ASSUME Init PROVE Shape
  OBVIOUS
<1>1. TypeOK
  BY AmountAssumption DEF Init, TypeOK, Statuses
<1>2. Fitting
  BY DEF Init, Fitting
<1> QED
  BY <1>1, <1>2 DEF Shape

LEMMA ShapeCustomers ==
    ASSUME Shape, NEW o \in Orders,
           PlaceOrder(o) \/ CustomerPaysPlisio(o) \/ AdminReopens(o)
    PROVE  Shape'
<1>1. TypeOK'
  BY DEF Shape, TypeOK, PlaceOrder, CustomerPaysPlisio, AdminReopens, money, budget, counts,
         Statuses
<1>2. req' = req
  BY DEF PlaceOrder, CustomerPaysPlisio, AdminReopens
<1> QED
  BY <1>1, <1>2 DEF Shape, Fitting

LEMMA FirstStepFits ==
    ASSUME NEW op \in Operations, NEW o \in Orders, op = "botRenew" => o \in Renewals
    PROVE  LET r == [op |-> op, ord |-> o, pc |-> FirstStep(op, o), ok |-> TRUE]
           IN  r \in Requests /\ Fits(r)
  BY DEF Operations, FirstStep, Requests, Fits, Steps, InBot

LEMMA ShapeAccept ==
    ASSUME Shape, NEW w \in Workers, NEW op \in Operations, NEW o \in Orders,
           op = "botRenew" => o \in Renewals,
           Accept(w, op, o), started' \in Nat
    PROVE  Shape'
<1> DEFINE r == [op |-> op, ord |-> o, pc |-> FirstStep(op, o), ok |-> TRUE]
<1>1. r \in Requests /\ Fits(r)
  BY FirstStepFits
<1>2. req' = [req EXCEPT ![w] = r]
  BY DEF Accept
<1> HIDE DEF r
<1>3. req' \in [Workers -> Requests \cup {Idle}] /\ Fitting'
  BY <1>1, <1>2, Becomes
<1>4. UNCHANGED <<panel, status, config, balance, deposited, spent, returned, plisio, held,
                  crashes, fulfilled, approved, reverted>>
  BY DEF Accept, money, counts
<1> QED
  BY <1>3, <1>4 DEF Shape, TypeOK

LEMMA ShapeReceive ==
    ASSUME Shape, NEW w \in Workers, Receive(w)
    PROVE  Shape'
<1>1. PICK o \in Orders, op \in Operations :
        /\ Accept(w, op, o)
        /\ started' = started \/ started' = started + 1
        /\ op = "botRenew" => o \in Renewals
  BY DEF Receive, DeliverPlisio, DeliverNowPayments, AdminApproves, AdminCancels,
         PayFromWalletOnSite, PayFromWalletInBot, RenewFromWalletInBot, Requested, Operations
<1>2. started' \in Nat
  BY <1>1 DEF Shape, TypeOK
<1> QED
  BY <1>1, <1>2, ShapeAccept

LEMMA ShapeLocking ==
    ASSUME Shape, NEW w \in Workers, Locking(w)
    PROVE  Shape'
<1>1. UNCHANGED <<panel, status, config, balance, deposited, spent, returned, plisio,
                  started, crashes, fulfilled, approved, reverted>>
  BY DEF Locking, FindSettled, LockOrder, LockMissing, LockUser, LockWaitFails,
         money, budget, counts
<1>2. /\ req' \in [Workers -> Requests \cup {Idle}]
      /\ Fitting'
      /\ held' \in [Workers -> SUBSET Rows]
  <2>0. req[w].pc # "idle" => req[w] # Idle
    BY DEF Idle
  <2>1. CASE FindSettled(w)
    <3>1. req[w].pc # "idle" /\ req[w].op = "plisio" /\ GoTo(w, "respond")
      BY <2>1 DEF FindSettled, At
    <3>2. held' \in [Workers -> SUBSET Rows]
      BY <2>1 DEF FindSettled, Shape, TypeOK
    <3> QED
      BY <3>1, <3>2, AdvanceIs, GoToShape DEF Fits, Steps, InBot
  <2>2. CASE LockOrder(w)
    <3>1. req[w].pc = "lockOrder" /\ Advance(w)
      BY <2>2 DEF LockOrder, At
    <3>2. held' \in [Workers -> SUBSET Rows]
      BY <2>0, <2>2, <3>1, RowType DEF LockOrder, Shape, TypeOK
    <3>3. /\ req[w].ok \in BOOLEAN
          /\ req' = [req EXCEPT ![w] = [op |-> req[w].op, ord |-> req[w].ord,
                                        pc |-> StepAfter(req[w]), ok |-> req[w].ok]]
      BY <3>1, AdvanceIs DEF Advance, Requests, Shape, TypeOK
    <3> QED
      BY <3>1, <3>2, <3>3, AdvanceShape
  <2>3. CASE LockMissing(w)
    BY <2>3, ThrowShape DEF LockMissing, At
  <2>4. CASE LockUser(w)
    <3>1. req[w].pc = "lockUser" /\ Advance(w)
      BY <2>4 DEF LockUser, At
    <3>2. held' \in [Workers -> SUBSET Rows]
      BY <2>0, <2>4, <3>1, RowType DEF LockUser, Shape, TypeOK
    <3>3. /\ req[w].ok \in BOOLEAN
          /\ req' = [req EXCEPT ![w] = [op |-> req[w].op, ord |-> req[w].ord,
                                        pc |-> StepAfter(req[w]), ok |-> req[w].ok]]
      BY <3>1, AdvanceIs DEF Advance, Requests, Shape, TypeOK
    <3> QED
      BY <3>1, <3>2, <3>3, AdvanceShape
  <2>5. CASE LockWaitFails(w)
    BY <2>5, ThrowShape, FinishShape, UnlockType DEF LockWaitFails
  <2> QED
    BY <2>1, <2>2, <2>3, <2>4, <2>5 DEF Locking
<1> QED
  BY <1>1, <1>2 DEF Shape, TypeOK

LEMMA ShapeProvisioning ==
    ASSUME Shape, NEW w \in Workers, Provisioning(w)
    PROVE  Shape'
<1>1. /\ UNCHANGED <<panel, status, config, balance, deposited, spent, returned, plisio,
                     started, crashes, fulfilled, approved, reverted>>
      /\ req[w].pc = "panel"
  BY DEF Provisioning, PanelAnswers, PanelFails, money, budget, counts, At
<1>2. /\ req' \in [Workers -> Requests \cup {Idle}]
      /\ Fitting'
      /\ held' \in [Workers -> SUBSET Rows]
  <2>1. CASE Finish(w) /\ Unlock(w)
    BY <2>1, FinishShape, UnlockType
  <2>2. CASE Throw(w)
    BY <2>2, <1>1, ThrowShape
  <2>3. CASE Advance(w) /\ UNCHANGED held
    <3>1. /\ req[w].ok \in BOOLEAN
          /\ req' = [req EXCEPT ![w] = [op |-> req[w].op, ord |-> req[w].ord,
                                        pc |-> StepAfter(req[w]), ok |-> req[w].ok]]
      BY <2>3, <1>1, AdvanceIs DEF Advance, Requests, Shape, TypeOK
    <3> QED
      BY <2>3, <3>1, <1>1, AdvanceShape DEF Shape, TypeOK
  <2>4. CASE /\ req' = [req EXCEPT ![w] = [op |-> @.op, ord |-> @.ord,
                                           pc |-> StepAfter(@), ok |-> FALSE]]
             /\ UNCHANGED held
    <3>1. req' = [req EXCEPT ![w] = [op |-> req[w].op, ord |-> req[w].ord,
                                    pc |-> StepAfter(req[w]), ok |-> FALSE]]
      BY <2>4 DEF Shape, TypeOK
    <3> QED
      BY <2>4, <3>1, <1>1, AdvanceShape DEF Shape, TypeOK
  <2> QED
    BY <2>1, <2>2, <2>3, <2>4 DEF Provisioning, PanelAnswers, PanelFails
<1> QED
  BY <1>1, <1>2 DEF Shape, TypeOK

LEMMA SettleType ==
    ASSUME Shape, NEW w \in Workers, NEW o \in Orders, req[w] \in Requests, Settle(w, o)
    PROVE  /\ status' \in [Orders -> Statuses]
           /\ config' \in [Orders -> BOOLEAN]
           /\ held' \in [Workers -> SUBSET Rows]
  BY UnlockType DEF Settle, Shape, TypeOK, Requests, Statuses

LEMMA CreditType ==
    ASSUME Shape, NEW o \in Orders, CreditTopUp(o)
    PROVE  /\ balance' \in [Users -> Int]
           /\ deposited' \in [Users -> Nat]
           /\ UNCHANGED <<spent, returned>>
  BY OrderAssumption, AmountAssumption DEF CreditTopUp, Credit, money, Shape, TypeOK

LEMMA ShapeWriting ==
    ASSUME Shape, NEW w \in Workers, Writing(w)
    PROVE  Shape'
<1>0. Writing(w) => req[w].pc # "idle"
  BY DEF Writing, CommitFulfilment, Respond, CommitApproval, CommitWalletPayment,
         WriteNowPayments, DeleteOrder, MarkFailed, Refund, Committing, At
<1>1. /\ req[w] # Idle
      /\ req[w] \in Requests /\ Fits(req[w])
      /\ req[w].ord \in Orders /\ Row(w) \in Orders /\ User(w) \in Users
      /\ Amount[req[w].ord] \in Nat
  BY <1>0, InRequest
<1>2. CASE CommitFulfilment(w)
  <2>1. req' \in [Workers -> Requests \cup {Idle}] /\ Fitting'
    BY <1>1, <1>2, GoToShape DEF CommitFulfilment, Committing, At, Fits, Steps, InBot
  <2>2. fulfilled' \in [Orders -> Nat]
    BY <1>1, <1>2 DEF CommitFulfilment, Shape, TypeOK
  <2> QED
    BY <1>1, <1>2, <2>1, <2>2, SettleType, CreditType
    DEF CommitFulfilment, Shape, TypeOK, budget
<1>3. CASE CommitApproval(w)
  <2>1. req' \in [Workers -> Requests \cup {Idle}] /\ Fitting'
    BY <1>3, FinishShape DEF CommitApproval
  <2>2. approved' \in [Orders -> Nat]
    BY <1>1, <1>3 DEF CommitApproval, Shape, TypeOK
  <2> QED
    BY <1>1, <1>3, <2>1, <2>2, SettleType, CreditType
    DEF CommitApproval, Shape, TypeOK, budget
<1>4. CASE CommitWalletPayment(w)
  <2>1. /\ req' \in [Workers -> Requests \cup {Idle}] /\ Fitting'
        /\ held' \in [Workers -> SUBSET Rows]
    BY <1>4, FinishShape, UnlockType DEF CommitWalletPayment
  <2>2. balance' \in [Users -> Int] /\ spent' \in [Users -> Nat]
    BY <1>1, <1>4 DEF CommitWalletPayment, Debit, Shape, TypeOK
  <2>3. status' \in [Orders -> Statuses] /\ config' \in [Orders -> BOOLEAN]
    BY <1>1, <1>4 DEF CommitWalletPayment, Shape, TypeOK, Statuses
  <2> QED
    BY <1>4, <2>1, <2>2, <2>3 DEF CommitWalletPayment, Debit, Shape, TypeOK, budget, counts
<1>5. CASE Respond(w)
  <2>1. req' \in [Workers -> Requests \cup {Idle}] /\ Fitting'
    BY <1>5, FinishShape DEF Respond
  <2> QED
    BY <1>1, <1>5, <2>1 DEF Respond, Shape, TypeOK, money, budget, counts
<1>6. CASE WriteNowPayments(w) \/ DeleteOrder(w)
  <2>1. req' \in [Workers -> Requests \cup {Idle}] /\ Fitting'
    BY <1>6, FinishShape DEF WriteNowPayments, DeleteOrder
  <2>2. status' \in [Orders -> Statuses]
    BY <1>1, <1>6 DEF WriteNowPayments, DeleteOrder, Shape, TypeOK, Statuses
  <2> QED
    BY <1>6, <2>1, <2>2 DEF WriteNowPayments, DeleteOrder, Shape, TypeOK, money, budget, counts
<1>7. CASE MarkFailed(w)
  <2>1. req' \in [Workers -> Requests \cup {Idle}] /\ Fitting'
    BY <1>1, <1>7, GoToShape DEF MarkFailed, At, Fits, Steps, InBot
  <2>2. status' \in [Orders -> Statuses] /\ reverted' \in [Orders -> Nat]
    BY <1>1, <1>7 DEF MarkFailed, Shape, TypeOK, Statuses
  <2> QED
    BY <1>7, <2>1, <2>2 DEF MarkFailed, Shape, TypeOK, money, budget
<1>8. CASE Refund(w)
  <2>1. req' \in [Workers -> Requests \cup {Idle}] /\ Fitting'
    BY <1>8, FinishShape DEF Refund
  <2>2. balance' \in [Users -> Int] /\ returned' \in [Users -> Nat]
    BY <1>1, <1>8 DEF Refund, Shape, TypeOK
  <2> QED
    BY <1>8, <2>1, <2>2 DEF Refund, Shape, TypeOK, budget, counts
<1> QED
  BY <1>2, <1>3, <1>4, <1>5, <1>6, <1>7, <1>8 DEF Writing

LEMMA ShapeCrash ==
    ASSUME Shape, NEW w \in Workers, Crash(w)
    PROVE  Shape'
<1>1. req' \in [Workers -> Requests \cup {Idle}] /\ Fitting' /\ held' \in [Workers -> SUBSET Rows]
  BY FinishShape, UnlockType DEF Crash
<1> QED
  BY <1>1 DEF Crash, Shape, TypeOK, money, counts

LEMMA ShapeNext == Shape /\ [Next]_vars => Shape'
<1> SUFFICES ASSUME Shape, [Next]_vars PROVE Shape'
  OBVIOUS
<1>1. CASE Next
  BY <1>1, ShapeCustomers, ShapeReceive, ShapeLocking, ShapeProvisioning, ShapeWriting, ShapeCrash
  DEF Next, Customers, Serve
<1>2. CASE UNCHANGED vars
  BY <1>2 DEF vars, money, budget, counts, Shape, TypeOK, Fitting
<1> QED
  BY <1>1, <1>2

\* Every variable keeps its type, and every request the shape of its operation,
\* whatever the numbers of users, orders and workers.
THEOREM TypeCorrect == Spec => []TypeOK
<1>1. Shape => TypeOK
  BY DEF Shape
<1> QED
  BY <1>1, ShapeInit, ShapeNext, PTL DEF Spec

-----------------------------------------------------------------------------
(* Row locks protect what a transaction has read.                          *)

LEMMA LocksInit == Init => Locks
<1> SUFFICES ASSUME Init PROVE Locks
  OBVIOUS
<1>1. Exclusive /\ Holding /\ Fresh /\ Billed
  BY DEF Init, Exclusive, Holding, Fresh, Billed, Inside, Idle
<1> QED
  BY <1>1, ShapeInit DEF Locks

LEMMA HeldRow ==
    ASSUME Locks, NEW w \in Workers, NEW o \in Orders, o \in held[w]
    PROVE  Free(w, o)
  BY DEF Locks, Exclusive, Free

\* Only worker w's request and locks change.
Only(w) == \A v \in Workers \ {w} : req'[v] = req[v] /\ held'[v] = held[v]

\* The request goes on, or is over.
GoesOn(w) == req'[w] = Idle \/ (req'[w].op = req[w].op /\ req'[w].ord = req[w].ord)

\* What a transaction may rely on about the order it has inside.
Secured(w) ==
    Inside(req[w]) => /\ req[w].ord \in held[w]
                      /\ Exists(req[w].ord)
                      /\ req[w].op = "plisio" => status[req[w].ord] # "paid"

\* A step of worker w keeps what the other transactions rely on, if it leaves
\* the orders they have inside alone.
LEMMA OthersKeep ==
    ASSUME Locks, NEW w \in Workers, Only(w), Secured(w)',
           \A v \in Workers \ {w} : Inside(req[v]) => status'[req[v].ord] = status[req[v].ord]
    PROVE  Holding'
<1> SUFFICES ASSUME NEW v \in Workers, v # w, Inside(req[v])'
             PROVE  (/\ req[v].ord \in held[v]
                     /\ Exists(req[v].ord)
                     /\ req[v].op = "plisio" => status[req[v].ord] # "paid")'
  BY DEF Holding, Secured
<1>1. req'[v] = req[v] /\ held'[v] = held[v] /\ Inside(req[v])
  BY DEF Only, Inside
<1>2. status'[req[v].ord] = status[req[v].ord]
  BY <1>1
<1> QED
  BY <1>1, <1>2 DEF Locks, Holding, Exists

\* The same for the orders that renewals are about to create.
LEMMA FreshKept ==
    ASSUME Locks, NEW w \in Workers, Only(w), GoesOn(w),
           \A p \in Renewals : status[p] = "none" =>
               status'[p] = "none"
               \/ (req[w].op = "botRenew" /\ req[w].ord = p /\ req'[w] = Idle)
    PROVE  Fresh'
<1> SUFFICES ASSUME NEW v \in Workers, req'[v].op = "botRenew"
             PROVE  /\ status'[req'[v].ord] = "none"
                    /\ \A x \in Workers \ {v} : req'[x].ord # req'[v].ord
  BY DEF Fresh
<1>1. /\ req[v].op = "botRenew" /\ req[v].ord = req'[v].ord
      /\ req'[w] = Idle => v # w
  BY DEF Idle, Only, GoesOn
<1>2. req[v].ord \in Renewals /\ req[v].ord \in Orders
  BY <1>1, OrderAssumption DEF Locks, Shape, Fitting, Fits, Idle, Orders
<1>3. status[req[v].ord] = "none" /\ \A x \in Workers \ {v} : req[x].ord # req[v].ord
  BY <1>1 DEF Locks, Fresh
<1>4. status'[req[v].ord] = "none"
  BY <1>1, <1>2, <1>3
<1>5. \A x \in Workers \ {v} : req'[x].ord # req[v].ord
  BY <1>2, <1>3, OrderAssumption DEF Idle, Only, GoesOn
<1> QED
  BY <1>1, <1>4, <1>5

LEMMA BilledKept ==
    ASSUME Locks, NEW w \in Workers, Only(w),
           \A p \in Orders : status[p] # "none" => status'[p] # "none",
           \A p \in Orders : plisio'[p] # "none" => plisio[p] # "none" \/ status[p] # "none",
           \A p \in Orders : plisio[p] # "none" => plisio'[p] # "none",
           req'[w].op = "plisio" => req'[w].ord \in Orders /\ plisio[req'[w].ord] # "none"
    PROVE  Billed'
<1>1. \A o \in Orders : plisio'[o] # "none" => status'[o] # "none"
  BY DEF Locks, Billed
<1>2. ASSUME NEW v \in Workers, v # w, req'[v].op = "plisio"
      PROVE  plisio'[req'[v].ord] # "none"
  <2>1. req'[v] = req[v]
    BY <1>2 DEF Only
  <2>2. req[v].ord \in Orders
    BY <1>2, <2>1 DEF Locks, Shape, TypeOK, Requests, Idle
  <2> QED
    BY <1>2, <2>1, <2>2 DEF Locks, Billed
<1> QED
  BY <1>1, <1>2 DEF Billed

LEMMA ExclusiveKept ==
    ASSUME Locks, NEW w \in Workers, Only(w),
           \A v \in Workers \ {w} : held[v] \cap held'[w] = {}
    PROVE  Exclusive'
  BY DEF Locks, Only, Exclusive

LEMMA LocksCustomers ==
    ASSUME Locks, NEW o \in Orders,
           PlaceOrder(o) \/ CustomerPaysPlisio(o) \/ AdminReopens(o)
    PROVE  Locks'
<1>1. Shape'
  BY ShapeCustomers DEF Locks
<1>2. held' = held /\ req' = req
  BY DEF PlaceOrder, CustomerPaysPlisio, AdminReopens
<1>3. Exclusive'
  BY <1>2 DEF Locks, Exclusive
<1>4. /\ \A p \in Orders \ {o} : status'[p] = status[p]
      /\ status'[o] # "none"
      /\ status[o] = "none" => o \notin Renewals
      /\ status'[o] # status[o] =>
            status[o] = "none" \/ \A v \in Workers : o \notin held[v]
  BY DEF PlaceOrder, CustomerPaysPlisio, AdminReopens, Locks, Shape, TypeOK
<1>5. ASSUME NEW v \in Workers, Inside(req[v]) PROVE status'[req[v].ord] = status[req[v].ord]
  <2>1. req[v].ord \in held[v] /\ status[req[v].ord] # "none" /\ req[v].ord \in Orders
    BY <1>5 DEF Locks, Holding, Exists, Shape, TypeOK, Inside, Requests, Idle
  <2> QED
    BY <1>4, <2>1
<1>6. Holding'
  BY <1>2, <1>5 DEF Locks, Holding, Exists, Inside
<1>7. ASSUME NEW v \in Workers, req[v].op = "botRenew" PROVE status'[req[v].ord] = "none"
  <2>1. req[v].ord \in Renewals /\ req[v].ord \in Orders /\ status[req[v].ord] = "none"
    BY <1>7 DEF Locks, Fresh, Shape, Fitting, Fits, Idle, Orders
  <2>2. req[v].ord # o
    BY <2>1, <1>4, <1>7 DEF PlaceOrder, CustomerPaysPlisio, AdminReopens
  <2> QED
    BY <1>4, <2>1, <2>2
<1>8. Fresh'
  BY <1>2, <1>7 DEF Locks, Fresh
<1>9. /\ \A p \in Orders : status[p] # "none" => status'[p] # "none"
      /\ \A p \in Orders : plisio'[p] # "none" => plisio[p] # "none" \/ status[p] # "none"
      /\ \A p \in Orders : plisio[p] # "none" => plisio'[p] # "none"
  BY <1>4 DEF PlaceOrder, CustomerPaysPlisio, AdminReopens, Locks, Shape, TypeOK
<1>10. Billed'
  BY <1>2, <1>9 DEF Locks, Billed, Shape, TypeOK, Requests, Idle
<1> QED
  BY <1>1, <1>3, <1>6, <1>8, <1>10 DEF Locks

LEMMA LocksAccept ==
    ASSUME Locks, Shape', NEW w \in Workers, NEW op \in Operations, NEW o \in Orders,
           Accept(w, op, o),
           op = "plisio" => plisio[o] # "none",
           IF op = "botRenew" THEN /\ o \in Renewals /\ status[o] = "none"
                                   /\ \A v \in Workers : req[v].ord # o
                              ELSE status[o] # "none"
    PROVE  Locks'
<1> DEFINE r == [op |-> op, ord |-> o, pc |-> FirstStep(op, o), ok |-> TRUE]
<1>1. /\ req' = [req EXCEPT ![w] = r] /\ req[w] = Idle
      /\ held' = held /\ status' = status /\ plisio' = plisio
  BY DEF Accept
<1>2. ~Inside(r) /\ r.op = op /\ r.ord = o
  BY DEF Inside, FirstStep, Operations
<1> HIDE DEF r
<1>3. Exclusive'
  BY <1>1 DEF Locks, Exclusive
<1>4. \A v \in Workers : Inside(req'[v]) => req'[v] = req[v]
  BY <1>1, <1>2 DEF Locks, Shape, TypeOK
<1>5. Holding'
  BY <1>1, <1>4 DEF Locks, Holding, Exists, Inside
<1>6. Fresh'
  <2>0. \A v \in Workers : req'[v] = IF v = w THEN r ELSE req[v]
    BY <1>1 DEF Locks, Shape, TypeOK
  <2> SUFFICES ASSUME NEW v \in Workers, req'[v].op = "botRenew"
               PROVE  /\ status[req'[v].ord] = "none"
                      /\ \A x \in Workers \ {v} : req'[x].ord # req'[v].ord
    BY <1>1 DEF Fresh
  <2>1. CASE v = w
    BY <1>2, <2>0, <2>1
  <2>2. CASE v # w
    <3>1. status[req[v].ord] = "none" /\ \A x \in Workers \ {v} : req[x].ord # req[v].ord
      BY <2>0, <2>2 DEF Locks, Fresh
    <3>2. o # req[v].ord
      BY <3>1
    <3> QED
      BY <1>2, <2>0, <2>2, <3>1, <3>2
  <2> QED
    BY <2>1, <2>2
<1>7. Only(w) /\ req'[w] = r
  BY <1>1 DEF Only, Locks, Shape, TypeOK
<1>8. Billed'
  BY <1>1, <1>2, <1>7, BilledKept
<1> QED
  BY <1>3, <1>5, <1>6, <1>8 DEF Locks

LEMMA LocksReceive ==
    ASSUME Locks, NEW w \in Workers, Receive(w)
    PROVE  Locks'
<1>1. Shape'
  BY ShapeReceive DEF Locks
<1>2. PICK o \in Orders :
        \/ DeliverPlisio(w, o) \/ DeliverNowPayments(w, o) \/ AdminApproves(w, o)
        \/ AdminCancels(w, o) \/ PayFromWalletOnSite(w, o) \/ PayFromWalletInBot(w, o)
        \/ RenewFromWalletInBot(w, o)
  BY DEF Receive
<1>3. PICK op \in Operations :
        /\ Accept(w, op, o)
        /\ op = "plisio" => plisio[o] # "none"
        /\ IF op = "botRenew" THEN /\ o \in Renewals /\ status[o] = "none"
                                   /\ \A v \in Workers : req[v].ord # o
                              ELSE status[o] # "none"
  <2>1. plisio[o] = "owed" => status[o] # "none"
    BY DEF Locks, Billed
  <2> QED
    BY <1>2, <2>1
    DEF DeliverPlisio, DeliverNowPayments, AdminApproves, AdminCancels, PayFromWalletOnSite,
        PayFromWalletInBot, RenewFromWalletInBot, Requested, Operations, Exists
<1> QED
  BY <1>1, <1>3, LocksAccept

\* A step that writes no row but may lock one, or end the request.
LEMMA LocksQuiet ==
    ASSUME Locks, Shape', NEW w \in Workers, Only(w), GoesOn(w), Secured(w)',
           UNCHANGED <<status, plisio>>, req[w].pc # "idle",
           \A v \in Workers \ {w} : held[v] \cap held'[w] = {}
    PROVE  Locks'
<1>1. Exclusive'
  BY ExclusiveKept
<1>2. Holding'
  BY OthersKeep
<1>3. Fresh'
  BY FreshKept
<1>4. req'[w].op = "plisio" => req'[w].ord \in Orders /\ plisio[req'[w].ord] # "none"
  BY InRequest DEF Idle, Locks, Billed, GoesOn
<1>5. Billed'
  BY <1>4, BilledKept
<1> QED
  BY <1>1, <1>2, <1>3, <1>5 DEF Locks

LEMMA OverIsSecured ==
    ASSUME Locks, NEW w \in Workers, NEW step, req[w].pc # "idle",
           Finish(w) \/ (GoTo(w, step) /\ step \in {"markFailed", "refund", "respond"})
    PROVE  /\ \A v \in Workers \ {w} : req'[v] = req[v]
           /\ GoesOn(w)
           /\ Secured(w)'
<1>1. CASE Finish(w)
  BY <1>1 DEF Finish, Locks, Shape, TypeOK, GoesOn, Secured, Inside, Idle
<1>2. CASE GoTo(w, step) /\ step \in {"markFailed", "refund", "respond"}
  <2>1. req' = [req EXCEPT ![w] = [op |-> req[w].op, ord |-> req[w].ord,
                                   pc |-> step, ok |-> req[w].ok]]
    BY <1>2, AdvanceIs DEF GoTo, Locks, Shape, TypeOK
  <2> QED
    BY <1>2, <2>1 DEF Locks, Shape, TypeOK, GoesOn, Secured, Inside
<1> QED
  BY <1>1, <1>2

LEMMA LocksFinish ==
    ASSUME Locks, Shape', NEW w \in Workers, NEW step, req[w].pc # "idle",
           Finish(w) \/ (GoTo(w, step) /\ step \in {"markFailed", "refund", "respond"}),
           Unlock(w) \/ UNCHANGED held, UNCHANGED <<status, plisio>>
    PROVE  Locks'
<1>1. Only(w) /\ GoesOn(w) /\ Secured(w)'
  BY OverIsSecured DEF Only, Unlock, Locks, Shape, TypeOK
<1>2. \A v \in Workers \ {w} : held[v] \cap held'[w] = {}
  BY DEF Unlock, Locks, Shape, TypeOK, Exclusive
<1> QED
  BY <1>1, <1>2, LocksQuiet

LEMMA LocksThrow ==
    ASSUME Locks, Shape', NEW w \in Workers, req[w].pc # "idle", Throw(w),
           UNCHANGED <<status, plisio>>
    PROVE  Locks'
<1>1. CASE GoTo(w, "markFailed") /\ Unlock(w)
  BY <1>1, LocksFinish
<1>2. CASE GoTo(w, "refund") /\ Unlock(w)
  BY <1>2, LocksFinish
<1>3. CASE Finish(w) /\ Unlock(w)
  BY <1>3, LocksFinish
<1> QED
  BY <1>1, <1>2, <1>3 DEF Throw

\* A statement done: the request goes on, perhaps with one more row locked.
LEMMA LocksAdvance ==
    ASSUME Locks, Shape', NEW w \in Workers, NEW ok \in BOOLEAN,
           req[w].pc \in {"lockOrder", "panel", "lockUser"},
           req' = [req EXCEPT ![w] = [op |-> req[w].op, ord |-> req[w].ord,
                                      pc |-> StepAfter(req[w]), ok |-> ok]],
           UNCHANGED <<status, plisio>>,
           \/ /\ UNCHANGED held
              /\ req[w].pc # "lockOrder"
           \/ /\ held' = [held EXCEPT ![w] = @ \cup {User(w)}]
              /\ Free(w, User(w))
              /\ req[w].pc # "lockOrder"
           \/ /\ held' = [held EXCEPT ![w] = @ \cup {Row(w)}]
              /\ Free(w, Row(w)) /\ Exists(Row(w))
              /\ req[w].op = "plisio" => status[Row(w)] # "paid"
    PROVE  Locks'
<1>1. req[w] \in Requests /\ Fits(req[w])
  BY InRequest DEF Locks
<1>2. /\ Only(w) /\ GoesOn(w)
      /\ req'[w] = [op |-> req[w].op, ord |-> req[w].ord, pc |-> StepAfter(req[w]), ok |-> ok]
      /\ held[w] \subseteq held'[w]
      /\ \A v \in Workers \ {w} : held[v] \cap held'[w] = {}
  BY DEF Locks, Shape, TypeOK, Exclusive, Free, Only, GoesOn
<1>3. ASSUME Inside(req'[w])
      PROVE  (req[w].pc = "lockOrder" /\ req[w].op # "botRenew") \/ Inside(req[w])
  BY <1>1, <1>2, <1>3 DEF Inside, StepAfter, InBot, Fits
<1>4. ASSUME Inside(req'[w])
      PROVE  /\ req[w].ord \in held'[w]
             /\ Exists(req[w].ord)
             /\ req[w].op = "plisio" => status[req[w].ord] # "paid"
  <2>1. CASE Inside(req[w])
    BY <1>2, <2>1 DEF Locks, Holding
  <2>2. CASE req[w].pc = "lockOrder" /\ req[w].op # "botRenew"
    BY <2>2 DEF Row, Locks, Shape, TypeOK
  <2> QED
    BY <1>3, <1>4, <2>1, <2>2
<1>5. Secured(w)'
  BY <1>2, <1>4 DEF Secured, Inside, Exists
<1> QED
  BY <1>2, <1>5, LocksQuiet

LEMMA AdvanceRecord ==
    ASSUME Shape, NEW w \in Workers, req[w].pc # "idle", Advance(w)
    PROVE  /\ req[w].ok \in BOOLEAN
           /\ req' = [req EXCEPT ![w] = [op |-> req[w].op, ord |-> req[w].ord,
                                         pc |-> StepAfter(req[w]), ok |-> req[w].ok]]
  BY AdvanceIs DEF Advance, Requests, Shape, TypeOK

LEMMA LocksLocking ==
    ASSUME Locks, NEW w \in Workers, Locking(w)
    PROVE  Locks'
<1>0. Shape'
  BY ShapeLocking DEF Locks
<1>1. UNCHANGED <<status, plisio>>
  BY DEF Locking, FindSettled, LockOrder, LockMissing, LockUser, LockWaitFails
<1>2. CASE FindSettled(w)
  BY <1>0, <1>1, <1>2, LocksFinish DEF FindSettled, At
<1>3. CASE LockOrder(w)
  <2>1. req[w].pc = "lockOrder" /\ Advance(w)
    BY <1>3 DEF LockOrder, At
  <2> QED
    BY <1>0, <1>1, <1>3, <2>1, AdvanceRecord, LocksAdvance DEF LockOrder, Locks
<1>4. CASE LockMissing(w)
  BY <1>0, <1>1, <1>4, LocksThrow DEF LockMissing, At
<1>5. CASE LockUser(w)
  <2>1. req[w].pc = "lockUser" /\ Advance(w)
    BY <1>5 DEF LockUser, At
  <2> QED
    BY <1>0, <1>1, <1>5, <2>1, AdvanceRecord, LocksAdvance DEF LockUser, Locks
<1>6. CASE LockWaitFails(w)
  <2>1. CASE Throw(w)
    BY <1>0, <1>1, <1>6, <2>1, LocksThrow DEF LockWaitFails
  <2>2. CASE Finish(w) /\ Unlock(w)
    BY <1>0, <1>1, <1>6, <2>2, LocksFinish DEF LockWaitFails
  <2> QED
    BY <1>6, <2>1, <2>2 DEF LockWaitFails
<1> QED
  BY <1>2, <1>3, <1>4, <1>5, <1>6 DEF Locking

LEMMA LocksProvisioning ==
    ASSUME Locks, NEW w \in Workers, Provisioning(w)
    PROVE  Locks'
<1>0. Shape'
  BY ShapeProvisioning DEF Locks
<1>1. UNCHANGED <<status, plisio>> /\ req[w].pc = "panel"
  BY DEF Provisioning, PanelAnswers, PanelFails, At
<1>2. CASE Finish(w) /\ Unlock(w)
  BY <1>0, <1>1, <1>2, LocksFinish
<1>3. CASE Throw(w)
  BY <1>0, <1>1, <1>3, LocksThrow
<1>4. CASE UNCHANGED held /\ Advance(w)
  BY <1>0, <1>1, <1>4, AdvanceRecord, LocksAdvance DEF Locks
<1>5. CASE UNCHANGED held /\ req' = [req EXCEPT ![w] =
             [op |-> @.op, ord |-> @.ord, pc |-> StepAfter(@), ok |-> FALSE]]
  <2>1. req' = [req EXCEPT ![w] = [op |-> req[w].op, ord |-> req[w].ord,
                                  pc |-> StepAfter(req[w]), ok |-> FALSE]]
    BY <1>5 DEF Locks, Shape, TypeOK
  <2> QED
    BY <1>0, <1>1, <1>5, <2>1, LocksAdvance
<1> QED
  BY <1>2, <1>3, <1>4, <1>5 DEF Provisioning, PanelAnswers, PanelFails

\* A step that writes one order's status, at the end of a request or of its
\* transaction: nobody else has the order inside.
LEMMA LocksWrite ==
    ASSUME Locks, Shape', NEW w \in Workers, NEW o \in Orders,
           req[w].pc # "idle", Only(w), GoesOn(w), Secured(w)',
           held'[w] \subseteq held[w],
           \A p \in Orders \ {o} : status'[p] = status[p],
           Free(w, o) \/ status[o] = "none",
           status[o] # "none" => status'[o] # "none",
           status[o] = "none" =>
               status'[o] = "none"
               \/ (req[w].op = "botRenew" /\ req[w].ord = o /\ req'[w] = Idle),
           \A p \in Orders : plisio'[p] # "none" <=> plisio[p] # "none"
    PROVE  Locks'
<1>1. Exclusive'
  BY ExclusiveKept DEF Locks, Exclusive
<1>2. ASSUME NEW v \in Workers \ {w}, Inside(req[v])
      PROVE  status'[req[v].ord] = status[req[v].ord]
  <2>1. req[v].ord \in held[v] /\ status[req[v].ord] # "none"
    BY <1>2 DEF Locks, Holding, Exists
  <2>2. req[v].ord \in Orders
    BY <1>2 DEF Locks, Shape, TypeOK, Requests, Idle, Inside
  <2>3. req[v].ord # o
    BY <2>1 DEF Free
  <2> QED
    BY <2>2, <2>3
<1>3. Holding'
  BY <1>2, OthersKeep
<1>4. Fresh'
  BY FreshKept, OrderAssumption DEF Orders
<1>5. req'[w].op = "plisio" => req'[w].ord \in Orders /\ plisio[req'[w].ord] # "none"
  BY InRequest DEF Idle, Locks, Billed, GoesOn
<1>6. Billed'
  BY <1>5, BilledKept
<1> QED
  BY <1>1, <1>3, <1>4, <1>6 DEF Locks

LEMMA LocksWriting ==
    ASSUME Locks, NEW w \in Workers, Writing(w)
    PROVE  Locks'
<1>0. Shape'
  BY ShapeWriting DEF Locks
<1>1. req[w].pc # "idle"
  BY DEF Writing, CommitFulfilment, Respond, CommitApproval, CommitWalletPayment,
         WriteNowPayments, DeleteOrder, MarkFailed, Refund, Committing, At
<1>2. /\ req[w] # Idle /\ req[w] \in Requests /\ Fits(req[w])
      /\ req[w].ord \in Orders /\ Row(w) \in Orders /\ User(w) \in Users
  BY <1>1, InRequest DEF Locks
<1>3. Unlock(w) \/ UNCHANGED held
  BY DEF Writing, CommitFulfilment, Respond, CommitApproval, CommitWalletPayment,
         WriteNowPayments, DeleteOrder, MarkFailed, Refund, Settle
<1>4. Finish(w) \/ GoTo(w, "respond") \/ GoTo(w, "refund")
  BY DEF Writing, CommitFulfilment, Respond, CommitApproval, CommitWalletPayment,
         WriteNowPayments, DeleteOrder, MarkFailed, Refund
<1>5. Only(w) /\ GoesOn(w) /\ Secured(w)' /\ held'[w] \subseteq held[w]
  BY <1>1, <1>3, <1>4, OverIsSecured DEF Only, Unlock, Locks, Shape, TypeOK
<1>6. CASE Refund(w)
  <2>1. UNCHANGED <<status, plisio>>
    BY <1>6 DEF Refund
  <2> QED
    BY <1>0, <1>1, <1>3, <1>6, <2>1, LocksFinish DEF Refund
<1>7. CASE Respond(w)
  <2>1. req[w].op = "plisio"
    BY <1>2, <1>7 DEF Respond, At, Fits
  <2>2. plisio[req[w].ord] # "none"
    BY <2>1 DEF Locks, Billed
  <2>3. \A p \in Orders : plisio'[p] # "none" <=> plisio[p] # "none"
    BY <1>2, <1>7, <2>2 DEF Respond, Locks, Shape, TypeOK
  <2>4. status[req[w].ord] # "none" /\ UNCHANGED status
    BY <1>2, <1>7, <2>2 DEF Respond, Locks, Billed
  <2>5. Exclusive' /\ Holding' /\ Fresh'
    BY <1>5, <2>4, ExclusiveKept, OthersKeep, FreshKept DEF Locks, Exclusive
  <2>6. req'[w].op = "plisio" => req'[w].ord \in Orders /\ plisio[req'[w].ord] # "none"
    BY <1>2, <2>1, <2>2, <1>5 DEF GoesOn, Idle
  <2>7. Billed'
    BY <1>5, <2>3, <2>4, <2>6, BilledKept
  <2> QED
    BY <1>0, <2>5, <2>7 DEF Locks
<1>8. CASE CommitFulfilment(w) \/ CommitApproval(w)
  <2>1. Inside(req[w]) /\ UNCHANGED plisio /\ Settle(w, req[w].ord)
    BY <1>8 DEF CommitFulfilment, CommitApproval, Committing, At, Inside
  <2>2. req[w].ord \in held[w] /\ Exists(req[w].ord)
    BY <2>1 DEF Locks, Holding
  <2>3. Free(w, req[w].ord)
    BY <1>2, <2>2, HeldRow
  <2>4. /\ \A p \in Orders \ {req[w].ord} : status'[p] = status[p]
        /\ status'[req[w].ord] = "paid" /\ status[req[w].ord] # "none"
    BY <1>2, <2>1, <2>2 DEF Settle, Locks, Shape, TypeOK, Exists
  <2> QED
    BY <1>0, <1>1, <1>2, <1>5, <2>1, <2>3, <2>4, LocksWrite
<1>9. CASE CommitWalletPayment(w)
  <2>1. /\ UNCHANGED plisio /\ req'[w] = Idle
        /\ \A p \in Orders \ {req[w].ord} : status'[p] = status[p]
        /\ status'[req[w].ord] = "paid"
    BY <1>2, <1>9 DEF CommitWalletPayment, Finish, Locks, Shape, TypeOK
  <2>2. CASE req[w].op = "botRenew"
    <3>1. status[req[w].ord] = "none"
      BY <2>2 DEF Locks, Fresh
    <3> QED
      BY <1>0, <1>1, <1>2, <1>5, <2>1, <2>2, <3>1, LocksWrite
  <2>3. CASE req[w].op # "botRenew"
    <3>1. Inside(req[w])
      BY <1>9, <2>3 DEF CommitWalletPayment, At, Inside
    <3>2. req[w].ord \in held[w] /\ Exists(req[w].ord)
      BY <3>1 DEF Locks, Holding
    <3>3. Free(w, req[w].ord) /\ status[req[w].ord] # "none"
      BY <1>2, <3>2, HeldRow DEF Exists
    <3> QED
      BY <1>0, <1>1, <1>2, <1>5, <2>1, <3>3, LocksWrite
  <2> QED
    BY <2>2, <2>3
<1>10. CASE WriteNowPayments(w) \/ DeleteOrder(w) \/ MarkFailed(w)
  <2>1. /\ UNCHANGED plisio /\ Free(w, Row(w))
        /\ \A p \in Orders \ {Row(w)} : status'[p] = status[p]
        /\ status[Row(w)] # "none" => status'[Row(w)] # "none"
        /\ status[Row(w)] = "none" => status'[Row(w)] = "none"
    BY <1>2, <1>10 DEF WriteNowPayments, DeleteOrder, MarkFailed, Locks, Shape, TypeOK, Exists
  <2> QED
    BY <1>0, <1>1, <1>2, <1>5, <2>1, LocksWrite
<1> QED
  BY <1>6, <1>7, <1>8, <1>9, <1>10 DEF Writing

LEMMA LocksCrash ==
    ASSUME Locks, NEW w \in Workers, Crash(w)
    PROVE  Locks'
<1>1. Shape'
  BY ShapeCrash DEF Locks
<1>2. req[w].pc # "idle"
  BY DEF Crash, Locks, Shape, TypeOK, Requests, Steps
<1> QED
  BY <1>1, <1>2, LocksFinish DEF Crash

LEMMA LocksNext == Locks /\ [Next]_vars => Locks'
<1> SUFFICES ASSUME Locks, [Next]_vars PROVE Locks'
  OBVIOUS
<1>1. CASE Next
  BY <1>1, LocksCustomers, LocksReceive, LocksLocking, LocksProvisioning, LocksWriting, LocksCrash
  DEF Next, Customers, Serve
<1>2. CASE UNCHANGED vars
  <2>1. Shape'
    BY <1>2, ShapeNext DEF Locks
  <2> QED
    BY <1>2, <2>1 DEF vars, money, budget, counts, Locks, Exclusive, Holding, Fresh, Billed,
                      Inside, Exists
<1> QED
  BY <1>1, <1>2
===============================================================================
