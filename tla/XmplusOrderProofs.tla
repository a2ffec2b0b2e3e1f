-------------------------- MODULE XmplusOrderProofs --------------------------
(***************************************************************************)
(* Proofs about XmplusOrder, for every set of workers, every number of     *)
(* invoices and requests, and any number of failures, crashes and locks    *)
(* outlived.                                                               *)
(***************************************************************************)
EXTENDS XmplusOrder, TLAPS

-----------------------------------------------------------------------------
(* The inductive invariant.                                                *)

\* A request that saves, pays or polls an invoice has one.
Handed == \A w \in Workers : req[w].pc \in {"save", "pay", "poll"} => Hand(w) # 0

\* Only a request that provisions owns the provisioning lock, so an owner whose
\* lock expires is a request at work.
OwnerProvisions ==
    provLock \in Workers => ByShop(provLock) /\ req[provLock].pc \in Provisioning

\* And each that provisions owns it, unless its lock has expired.
ProvisionerOwns ==
    \A w \in Workers :
        ByShop(w) /\ req[w].pc \in Provisioning /\ ~req[w].late => provLock = w

\* A callback works on the order inside its transaction: it holds the row, which
\* it found unpaid; it answers when the order is paid.
Fulfils(w) == req[w].op = "plisio" /\ ~(req[w].pc \in {"lockRow", "respond"})
RowHeld == \A w \in Workers : Fulfils(w) => rowLock = w /\ status # "paid"
Answered ==
    \A w \in Workers :
        /\ req[w].pc = "respond" => status = "paid"
        /\ req[w].pc \in {"lockRow", "respond"} => req[w].op = "plisio"

\* Plisio calls only about an order it was paid for.
Billed ==
    /\ plisio # "none" => status # "none"
    /\ \A w \in Workers : req[w].op = "plisio" => plisio # "none"

Shape == TypeOK /\ Handed /\ OwnerProvisions /\ ProvisionerOwns
Rows == Shape /\ RowHeld /\ Answered /\ Billed

-----------------------------------------------------------------------------
(* Type correctness.                                                       *)

\* A request at a step is a request, and moves on to requests.
LEMMA AtStep ==
    ASSUME TypeOK, NEW w \in Workers, req[w].pc \in Steps
    PROVE  req[w] \in Requests
  BY DEF TypeOK, Idle, Steps, Provisioning

\* A request that moves to another step, with an invoice or none, stays a request.
LEMMA Moves ==
    ASSUME TypeOK, NEW w \in Workers, req[w].pc \in Steps, NEW step \in Steps,
           NEW i \in Invoices \cup {0}
    PROVE  /\ GoTo(w, step) => req' \in [Workers -> Requests \cup {Idle}]
           /\ Take(w, step, i) => req' \in [Workers -> Requests \cup {Idle}]
  <1>1. req[w] \in Requests
    BY AtStep
  <1>2. [req[w] EXCEPT !.pc = step] \in Requests
    BY <1>1 DEF Requests
  <1>3. [req[w] EXCEPT !.pc = step, !.hand = i] \in Requests
    BY <1>1 DEF Requests
  <1> QED
    BY <1>2, <1>3 DEF TypeOK, GoTo, Take

\* The next request of each worker that GoTo, Take and Finish describe.
LEMMA After ==
    ASSUME TypeOK, NEW w \in Workers, req[w].pc \in Steps, NEW step, NEW i, NEW v \in Workers
    PROVE  /\ GoTo(w, step) =>
                req'[v].op = req[v].op /\ req'[v].hand = req[v].hand
                /\ req'[v].late = req[v].late
                /\ req'[v].pc = (IF v = w THEN step ELSE req[v].pc)
           /\ Take(w, step, i) =>
                req'[v].op = req[v].op /\ req'[v].late = req[v].late
                /\ req'[v].hand = (IF v = w THEN i ELSE req[v].hand)
                /\ req'[v].pc = (IF v = w THEN step ELSE req[v].pc)
           /\ Finish(w) => req'[v] = IF v = w THEN Idle ELSE req[v]
  <1>1. /\ req[w] \in Requests
        /\ DOMAIN req = Workers
        /\ req = [x \in Workers |-> req[x]]
    BY AtStep DEF TypeOK
  <1>2. req[w] = [op |-> req[w].op, pc |-> req[w].pc, hand |-> req[w].hand, late |-> req[w].late]
    BY <1>1 DEF Requests
  <1>3. GoTo(w, step) => req'[v] = IF v = w THEN [req[w] EXCEPT !.pc = step] ELSE req[v]
    BY <1>1 DEF GoTo
  <1>4. Take(w, step, i) =>
            req'[v] = IF v = w THEN [req[w] EXCEPT !.pc = step, !.hand = i] ELSE req[v]
    BY <1>1 DEF Take
  <1>5. Finish(w) => req'[v] = IF v = w THEN Idle ELSE req[v]
    BY <1>1 DEF Finish
  <1> QED
    BY <1>2, <1>3, <1>4, <1>5

\* What a step of w may do to the requests and to the provisioning lock: nobody
\* else's request or lock changes.
LockPasses(w) ==
    \/ provLock' = provLock
    \/ provLock = Nobody /\ provLock' = w
    \/ provLock = w /\ provLock' \in {Nobody, Dead}
ProvisionsNext(w) == req'[w].op \in {"plisio", "approve"} /\ req'[w].pc \in Provisioning
Advances(w) ==
    /\ req' \in [Workers -> Requests \cup {Idle}]
    /\ \A v \in Workers \ {w} : req'[v] = req[v]
    /\ req'[w].pc \in {"save", "pay", "poll"} => req'[w].hand # 0
    /\ LockPasses(w)
    /\ provLock' = w => ProvisionsNext(w)
    /\ ProvisionsNext(w) /\ ~req'[w].late => provLock' = w

LEMMA ShapeAdvances ==
    ASSUME Shape, NEW w \in Workers, Advances(w), TypeOK'
    PROVE  Shape'
  BY WorkerAssumption
  DEF Shape, TypeOK, Handed, OwnerProvisions, ProvisionerOwns, Advances, LockPasses,
      ProvisionsNext, Hand, ByShop

\* A lock is released by its owner or stays as it is.
LEMMA ReleasedLock ==
    ASSUME NEW lock, NEW w \in Workers
    PROVE  /\ Released(lock, w) \in {lock, Nobody} /\ Released(lock, w) # w
           /\ lock # w => Released(lock, w) = lock
  BY WorkerAssumption DEF Released

\* After an exception the request is over, or goes on with its page.
LEMMA Throws ==
    ASSUME Shape, NEW w \in Workers, req[w].pc \in Steps, Throw(w)
    PROVE  /\ Advances(w)
           /\ ensureLock' \in Workers \cup {Nobody, Dead}
           /\ rowLock' \in Workers \cup {Nobody} /\ rowLock' # w
           /\ rowLock' \in {rowLock, Nobody}
           /\ IF Ensures(w) THEN req'[w].op = req[w].op /\ req'[w].pc = "reread"
              ELSE req'[w] = Idle
  <1>1. /\ LockPasses(w) /\ provLock' # w
        /\ ensureLock' \in {ensureLock, Nobody}
        /\ rowLock' \in {rowLock, Nobody} /\ rowLock' # w
    BY ReleasedLock DEF Throw, LockPasses
  <1>2. CASE Ensures(w)
    <2>1. GoTo(w, "reread")
      BY <1>2 DEF Throw
    <2>2. req' \in [Workers -> Requests \cup {Idle}]
      BY <2>1, Moves DEF Shape, Steps
    <2>3. /\ req'[w].op = req[w].op /\ req'[w].pc = "reread"
          /\ \A v \in Workers \ {w} : req'[v] = req[v]
      BY <2>1, After DEF Shape, GoTo, TypeOK
    <2> QED
      BY <1>1, <1>2, <2>2, <2>3 DEF Advances, ProvisionsNext, Provisioning, Shape, TypeOK
  <1>3. CASE ~Ensures(w)
    <2>1. Finish(w)
      BY <1>3 DEF Throw
    <2>2. /\ req' \in [Workers -> Requests \cup {Idle}] /\ req'[w] = Idle
          /\ \A v \in Workers \ {w} : req'[v] = req[v]
      BY <2>1 DEF Finish, Shape, TypeOK
    <2> QED
      BY <1>1, <1>3, <2>2 DEF Advances, ProvisionsNext, Idle, Shape, TypeOK
  <1> QED
    BY <1>2, <1>3

LEMMA ShapeInit == Init => Shape
<1> SUFFICES ASSUME Init PROVE Shape
  OBVIOUS
<1>1. TypeOK
  <2>1. req \in [Workers -> Requests \cup {Idle}]
    BY DEF Init
  <2>2. started \in 0 .. MaxRequests /\ faults \in 0 .. MaxFaults
    BY BoundAssumption DEF Init
  <2>3. invoice \in [Invoices -> {"none", "pending", "paid", "served"}]
    BY DEF Init
  <2>4. config \in BOOLEAN
    BY DEF Init
  <2> QED
    BY <2>1, <2>2, <2>3, <2>4 DEF Init, TypeOK
<1>2. Handed
  BY DEF Init, Handed, Idle
<1>3. OwnerProvisions
  BY WorkerAssumption DEF Init, OwnerProvisions
<1>4. ProvisionerOwns
  BY DEF Init, ProvisionerOwns, ByShop, Idle
<1> QED
  BY <1>1, <1>2, <1>3, <1>4 DEF Shape

\* A request that comes in starts at a step, with an invoice if it needs one.
LEMMA ShapeAccept ==
    ASSUME Shape, NEW w \in Workers, NEW op \in Operations,
           NEW step \in {"lock", "lockRow", "pay", "poll"}, NEW i \in Invoices \cup {0},
           Accept(w, op, step, i), step \in {"pay", "poll"} => i # 0 /\ op \in {"gateway", "check"}
    PROVE  Advances(w)
  <1>1. [Idle EXCEPT !.op = op, !.pc = step, !.hand = i] \in Requests
    BY DEF Idle, Requests, Steps, Provisioning
  <1>2. /\ req[w] = Idle /\ provLock' = provLock
        /\ req' = [req EXCEPT ![w] = [Idle EXCEPT !.op = op, !.pc = step, !.hand = i]]
    BY DEF Accept, locks
  <1>3. provLock # w
    BY <1>2 DEF Shape, OwnerProvisions, ByShop, Idle
  <1>4. ~(op \in {"plisio", "approve"} /\ step \in {"pay", "poll"})
    OBVIOUS
  <1> QED
    BY <1>1, <1>2, <1>3, <1>4
    DEF Advances, LockPasses, ProvisionsNext, Provisioning, Shape, TypeOK, Idle

LEMMA ShapeArrive ==
    ASSUME Shape, NEW w \in Workers, Arrive(w)
    PROVE  Shape' /\ Advances(w)
<1> USE DEF Shape
<1> USE DEF Operations
<1> SUFFICES Advances(w) /\ TypeOK'
  BY ShapeAdvances
<1>1. CASE PlaceOrder(w)
  <2>1. Advances(w)
    BY <1>1, ShapeAccept DEF PlaceOrder
  <2> QED
    BY <1>1, <2>1 DEF PlaceOrder, Accept, Advances, LockPasses, TypeOK, settings, panel, locks, counts
<1>2. CASE OpenPage(w)
  <2>1. Advances(w)
    BY <1>2, ShapeAccept DEF OpenPage, TypeOK
  <2> QED
    BY <1>2, <2>1, BoundAssumption
    DEF OpenPage, Requested, Accept, Advances, LockPasses, TypeOK, settings, order, panel, locks, counts
<1>3. CASE AdminApproves(w)
  <2>1. Advances(w)
    BY <1>3, ShapeAccept DEF AdminApproves, TypeOK
  <2> QED
    BY <1>3, <2>1, BoundAssumption
    DEF AdminApproves, Requested, Accept, Advances, LockPasses, TypeOK, settings, order, panel, locks, counts
<1>4. CASE ChooseGateway(w)
  <2>1. Advances(w)
    BY <1>4, ShapeAccept DEF ChooseGateway, TypeOK
  <2> QED
    BY <1>4, <2>1, BoundAssumption
    DEF ChooseGateway, Requested, Accept, Advances, LockPasses, TypeOK, settings, order, panel, locks, counts
<1>5. CASE CheckPayment(w)
  <2>1. Advances(w)
    BY <1>5, ShapeAccept DEF CheckPayment, TypeOK
  <2> QED
    BY <1>5, <2>1, BoundAssumption
    DEF CheckPayment, Requested, Accept, Advances, LockPasses, TypeOK, settings, order, panel, locks, counts
<1>6. CASE DeliverPlisio(w)
  <2>1. Advances(w)
    BY <1>6, ShapeAccept DEF DeliverPlisio
  <2> QED
    BY <1>6, <2>1 DEF DeliverPlisio, Accept, Advances, LockPasses, TypeOK, settings, order, panel, locks, counts
<1> QED
  BY <1>1, <1>2, <1>3, <1>4, <1>5, <1>6 DEF Arrive

\* A request that only moves on, keeping the provisioning lock as it is.
LEMMA GoesTo ==
    ASSUME Shape, NEW w \in Workers, req[w].pc \in Steps, NEW step \in Steps, GoTo(w, step),
           step \in {"save", "pay", "poll"} => Hand(w) # 0,
           LockPasses(w),
           provLock' = w => ByShop(w) /\ step \in Provisioning,
           ByShop(w) /\ step \in Provisioning /\ ~req[w].late => provLock' = w
    PROVE  Advances(w)
<1>1. req' \in [Workers -> Requests \cup {Idle}]
  BY Moves DEF Shape
<1>2. /\ req'[w].op = req[w].op /\ req'[w].pc = step /\ req'[w].hand = req[w].hand
      /\ req'[w].late = req[w].late
  BY After DEF Shape
<1>3. \A v \in Workers \ {w} : req'[v] = req[v]
  BY DEF GoTo, Shape, TypeOK
<1> QED
  BY <1>1, <1>2, <1>3 DEF Advances, ProvisionsNext, ByShop, Hand

\* One that takes up another invoice, or none.
LEMMA Takes ==
    ASSUME Shape, NEW w \in Workers, req[w].pc \in Steps, NEW step \in Steps,
           NEW i \in Invoices \cup {0}, Take(w, step, i),
           step \in {"save", "pay", "poll"} => i # 0,
           provLock' = provLock,
           provLock = w => ByShop(w) /\ step \in Provisioning,
           ByShop(w) /\ step \in Provisioning /\ ~req[w].late => provLock = w
    PROVE  Advances(w)
<1>1. req' \in [Workers -> Requests \cup {Idle}]
  BY Moves DEF Shape
<1>2. /\ req'[w].op = req[w].op /\ req'[w].pc = step /\ req'[w].hand = i
      /\ req'[w].late = req[w].late
  BY After DEF Shape
<1>3. \A v \in Workers \ {w} : req'[v] = req[v]
  BY DEF Take, Shape, TypeOK
<1> QED
  BY <1>1, <1>2, <1>3 DEF Advances, LockPasses, ProvisionsNext, ByShop

\* One that ends, and does not own the provisioning lock.
LEMMA Finishes ==
    ASSUME Shape, NEW w \in Workers, Finish(w),
           LockPasses(w), provLock' # w
    PROVE  Advances(w)
  BY DEF Advances, ProvisionsNext, Finish, Shape, TypeOK, Idle

LEMMA ShapeLock ==
    ASSUME Shape, NEW w \in Workers, Lock(w)
    PROVE  Shape' /\ Advances(w)
<1> USE DEF Shape
<1> USE DEF At, Steps, Provisioning
<1> SUFFICES Advances(w) /\ TypeOK'
  BY ShapeAdvances
<1>0. /\ provLock = w => ByShop(w) /\ req[w].pc \in Provisioning
      /\ ByShop(w) /\ req[w].pc \in Provisioning /\ ~req[w].late => provLock = w
      /\ ~(ByShop(w) /\ InPage(w)) /\ ~(ByShop(w) /\ ByGateway(w))
      /\ provLock' = provLock => LockPasses(w)
  BY DEF OwnerProvisions, ProvisionerOwns, ByShop, InPage, Ensures, ByGateway, LockPasses
<1>1. CASE LockRow(w)
  <2>1. Advances(w)
    <3>1. CASE GoTo(w, "respond")
      BY <1>0, <1>1, <3>1, GoesTo DEF LockRow
    <3>2. CASE Take(w, "lock", saved)
      BY <1>0, <1>1, <3>2, Takes DEF LockRow, TypeOK
    <3> QED
      BY <1>1, <3>1, <3>2 DEF LockRow
  <2> QED
    BY <1>1, <2>1 DEF LockRow, Advances, LockPasses, TypeOK, settings, order, panel, budget, counts
<1>2. CASE TakeProvisionLock(w)
  <2>1. Advances(w)
    BY <1>2, GoesTo DEF TakeProvisionLock, LockPasses
  <2> QED
    BY <1>2, <2>1 DEF TakeProvisionLock, Advances, LockPasses, TypeOK, settings, order, panel, budget, counts
<1>3. CASE ProvisionLockBusy(w)
  <2> QED
    BY <1>3, Throws
    DEF ProvisionLockBusy, Advances, LockPasses, TypeOK, settings, order, panel, budget, counts
<1>4. CASE TakeEnsureLock(w)
  <2>1. Advances(w)
    BY <1>0, <1>4, GoesTo DEF TakeEnsureLock
  <2> QED
    BY <1>4, <2>1 DEF TakeEnsureLock, Advances, LockPasses, TypeOK, settings, order, panel, budget, counts
<1>5. CASE EnsureLockBusy(w)
  <2>1. Advances(w)
    BY <1>0, <1>5, GoesTo DEF EnsureLockBusy, locks
  <2> QED
    BY <1>5, <2>1 DEF EnsureLockBusy, Advances, LockPasses, TypeOK, settings, order, panel, locks, budget, counts
<1> QED
  BY <1>1, <1>2, <1>3, <1>4, <1>5 DEF Lock

LEMMA HasInvoice ==
    ASSUME Shape, NEW w \in Workers, req[w].pc \in {"inspect", "save"}, Hand(w) # 0, HaveIt(w)
    PROVE  /\ Advances(w)
           /\ ensureLock' \in {ensureLock, Nobody} /\ rowLock' = rowLock
<1>1. PICK step \in {"pay", "reread", "putContext"} :
         GoTo(w, step) /\ (ByShop(w) <=> step = "pay")
  BY DEF HaveIt
<1>2. /\ provLock = w => ByShop(w)
      /\ ByShop(w) /\ ~req[w].late => provLock = w
  BY DEF Shape, OwnerProvisions, ProvisionerOwns, Provisioning
<1>3. Advances(w)
  BY <1>1, <1>2, GoesTo DEF HaveIt, LockPasses, Steps, Provisioning
<1> QED
  BY <1>3, ReleasedLock DEF HaveIt

LEMMA ShapeInvoice ==
    ASSUME Shape, NEW w \in Workers, HaveInvoice(w)
    PROVE  Shape' /\ Advances(w)
<1> USE DEF Shape
<1> USE DEF At, Steps, Provisioning
<1> SUFFICES Advances(w) /\ TypeOK'
  BY ShapeAdvances
<1>0. /\ provLock = w => ByShop(w) /\ req[w].pc \in Provisioning
      /\ ByShop(w) /\ req[w].pc \in Provisioning /\ ~req[w].late => provLock = w
      /\ ~(ByShop(w) /\ InPage(w)) /\ ~(ByShop(w) /\ ByGateway(w))
      /\ provLock' = provLock => LockPasses(w)
  BY DEF OwnerProvisions, ProvisionerOwns, ByShop, InPage, Ensures, ByGateway, LockPasses
<1>1. CASE Refuse(w)
  BY <1>1, Throws DEF Refuse, Advances, LockPasses, TypeOK, settings, order, panel, budget, counts
<1>2. CASE KeepInvoice(w)
  BY <1>2, HasInvoice DEF KeepInvoice, Advances, LockPasses, TypeOK, settings, order, panel, budget, counts
<1>3. CASE DropInvoice(w)
  <2>1. Advances(w)
    BY <1>0, <1>3, GoesTo DEF DropInvoice, locks
  <2>2. faults' \in 0 .. MaxFaults
    BY <1>3, BoundAssumption DEF DropInvoice, Fault, TypeOK
  <2> QED
    BY <1>3, <2>1, <2>2 DEF DropInvoice, Advances, LockPasses, TypeOK, settings, order, panel, locks, counts
<1>4. CASE WantInvoice(w)
  <2>1. Advances(w)
    BY <1>0, <1>4, GoesTo DEF WantInvoice, locks
  <2> QED
    BY <1>4, <2>1 DEF WantInvoice, Advances, LockPasses, TypeOK, settings, order, panel, locks, budget, counts
<1>5. CASE ClearInvoice(w)
  <2>1. Advances(w)
    BY <1>0, <1>5, Takes DEF ClearInvoice, locks
  <2> QED
    BY <1>5, <2>1
    DEF ClearInvoice, Write, Advances, LockPasses, TypeOK, settings, panel, locks, budget, counts
<1>6. CASE CreateInvoice(w)
  <2>1. PICK i \in Invoices : /\ invoice' = [invoice EXCEPT ![i] = "pending"]
                              /\ Take(w, "save", i)
    BY <1>6 DEF CreateInvoice
  <2>2. i # 0
    BY BoundAssumption DEF Invoices
  <2>3. Advances(w)
    BY <1>0, <1>6, <2>1, <2>2, Takes DEF CreateInvoice, locks
  <2>4. invoice' \in [Invoices -> {"none", "pending", "paid", "served"}]
    BY <2>1 DEF TypeOK
  <2> QED
    BY <1>6, <2>3, <2>4
    DEF CreateInvoice, Advances, LockPasses, TypeOK, settings, order, locks, budget, counts
<1>7. CASE SaveInvoice(w)
  <2>1. Hand(w) \in Invoices \cup {0} /\ Hand(w) # 0
    BY <1>7, AtStep DEF SaveInvoice, Handed, Requests, Hand
  <2> QED
    BY <1>7, <2>1, HasInvoice
    DEF SaveInvoice, Write, Advances, LockPasses, TypeOK, settings, panel, budget, counts
<1>8. CASE Reread(w)
  <2>1. CASE Finish(w)
    BY <1>0, <1>8, <2>1, Finishes
    DEF Reread, Advances, LockPasses, TypeOK, settings, order, panel, locks, budget, counts
  <2>2. CASE req' = [req EXCEPT ![w] = [@ EXCEPT !.op = "prepare", !.pc = "inspect", !.hand = saved]]
    <3>1. req[w] \in Requests
      BY <1>8, AtStep DEF Reread
    <3>2. [req[w] EXCEPT !.op = "prepare", !.pc = "inspect", !.hand = saved] \in Requests
      BY <3>1 DEF Requests, Operations, TypeOK
    <3>3. req'[w].pc = "inspect" /\ req'[w].op = "prepare"
      BY <2>2, <3>1 DEF TypeOK, Requests
    <3>4. Advances(w)
      BY <1>0, <1>8, <2>2, <3>2, <3>3 DEF Reread, Advances, ProvisionsNext, TypeOK, locks
    <3> QED
      BY <1>8, <3>4 DEF Reread, Advances, LockPasses, TypeOK, settings, order, panel, locks, budget, counts
  <2> QED
    BY <1>8, <2>1, <2>2 DEF Reread
<1>9. CASE PutContext(w)
  <2>1. Advances(w)
    BY <1>0, <1>9, Finishes DEF PutContext, locks
  <2>2. Hand(w) \in Invoices \cup {0}
    BY <1>9, AtStep DEF PutContext, Requests, Hand
  <2> QED
    BY <1>9, <2>1, <2>2
    DEF PutContext, Advances, LockPasses, TypeOK, settings, order, panel, locks, budget, counts
<1>10. CASE RenewUninvoiced(w)
  <2>1. CASE GoTo(w, "commit") /\ provLock' = Released(provLock, w)
             /\ UNCHANGED <<ensureLock, rowLock, faults>>
    <3>1. Advances(w)
      BY <1>10, <2>1, GoesTo, ReleasedLock DEF RenewUninvoiced, LockPasses
    <3> QED
      BY <1>10, <2>1, <3>1
      DEF RenewUninvoiced, Advances, LockPasses, TypeOK, settings, order, budget, counts
  <2>2. CASE Throw(w) /\ Fault
    <3>1. faults' \in 0 .. MaxFaults
      BY <2>2, BoundAssumption DEF Fault, TypeOK
    <3> QED
      BY <1>10, <2>2, <3>1, Throws
      DEF RenewUninvoiced, Advances, LockPasses, TypeOK, settings, order, counts
  <2> QED
    BY <1>10, <2>1, <2>2 DEF RenewUninvoiced
<1> QED
  BY <1>1, <1>2, <1>3, <1>4, <1>5, <1>6, <1>7, <1>8, <1>9, <1>10
  DEF HaveInvoice

LEMMA ShapePay ==
    ASSUME Shape, NEW w \in Workers, Pay(w)
    PROVE  Shape' /\ Advances(w)
<1> USE DEF Shape
<1> USE DEF At, Steps, Provisioning
<1> SUFFICES Advances(w) /\ TypeOK'
  BY ShapeAdvances
<1>0. /\ provLock = w => ByShop(w) /\ req[w].pc \in Provisioning
      /\ ByShop(w) /\ req[w].pc \in Provisioning /\ ~req[w].late => provLock = w
      /\ ~(ByShop(w) /\ InPage(w)) /\ ~(ByShop(w) /\ ByGateway(w))
      /\ provLock' = provLock => LockPasses(w)
  BY DEF OwnerProvisions, ProvisionerOwns, ByShop, InPage, Ensures, ByGateway, LockPasses
<1>1. ASSUME req[w].pc \in {"pay", "poll"} PROVE Hand(w) \in Invoices /\ Hand(w) # 0
  BY <1>1, AtStep DEF Handed, Requests, Hand
<1>3. CASE PayByShop(w)
  <2>1. CASE Throw(w) /\ UNCHANGED <<invoice, byShop>>
    BY <1>3, <2>1, Throws
    DEF PayByShop, Advances, LockPasses, TypeOK, settings, order, budget, counts
  <2>2. CASE GoTo(w, "poll") /\ UNCHANGED locks
    <3>1. Advances(w)
      BY <1>0, <1>1, <1>3, <2>2, GoesTo DEF PayByShop, locks
    <3>2. /\ invoice' \in [Invoices -> {"none", "pending", "paid", "served"}]
          /\ byShop' \subseteq Invoices
      BY <1>1, <1>3, <2>2 DEF PayByShop, TypeOK
    <3> QED
      BY <1>3, <2>2, <3>1, <3>2
      DEF PayByShop, Advances, LockPasses, TypeOK, settings, order, locks, budget, counts
  <2> QED
    BY <1>3, <2>1, <2>2 DEF PayByShop
<1>4. CASE PayByGateway(w)
  <2>1. Advances(w)
    <3>1. CASE Finish(w)
      BY <1>0, <1>4, <3>1, Finishes DEF PayByGateway, locks
    <3>2. CASE GoTo(w, "poll")
      BY <1>0, <1>1, <1>4, <3>2, GoesTo DEF PayByGateway, locks
    <3> QED
      BY <1>4, <3>1, <3>2 DEF PayByGateway
  <2>2. /\ invoice' \in [Invoices -> {"none", "pending", "paid", "served"}]
        /\ byCustomer' \subseteq Invoices /\ offered' \subseteq Invoices
        /\ ctx' \in Invoices \cup {0}
    BY <1>1, <1>4 DEF PayByGateway, TypeOK
  <2> QED
    BY <1>4, <2>1, <2>2
    DEF PayByGateway, Advances, LockPasses, TypeOK, settings, order, locks, budget, counts
<1>5. CASE Poll(w)
  <2>1. Advances(w)
    <3>1. CASE GoTo(w, "persist") /\ UNCHANGED provLock /\ ByGateway(w)
      BY <1>0, <1>5, <3>1, GoesTo DEF Poll
    <3>2. CASE GoTo(w, "enforce") /\ UNCHANGED provLock
      BY <1>0, <1>5, <3>2, GoesTo DEF Poll
    <3>3. CASE GoTo(w, "commit") /\ provLock' = Released(provLock, w)
      BY <1>5, <3>3, GoesTo, ReleasedLock DEF Poll, LockPasses
    <3> QED
      BY <1>5, <3>1, <3>2, <3>3 DEF Poll
  <2> QED
    BY <1>5, <2>1 DEF Poll, Advances, LockPasses, TypeOK, settings, order, panel, budget, counts
<1>6. CASE GiveUp(w)
  <2>1. Advances(w)
    BY <1>0, <1>6, Finishes DEF GiveUp, locks
  <2> QED
    BY <1>6, <2>1 DEF GiveUp, Advances, LockPasses, TypeOK, settings, order, panel, locks, budget, counts
<1>7. CASE EnforceRenewal(w)
  <2>1. Advances(w)
    BY <1>7, GoesTo, ReleasedLock DEF EnforceRenewal, LockPasses
  <2>2. invoice' \in [Invoices -> {"none", "pending", "paid", "served"}]
    BY <1>7 DEF EnforceRenewal, TypeOK
  <2> QED
    BY <1>7, <2>1, <2>2 DEF EnforceRenewal, Advances, LockPasses, TypeOK, settings, order, budget, counts
<1> QED
  BY <1>3, <1>4, <1>5, <1>6, <1>7 DEF Pay

LEMMA ShapeSettle ==
    ASSUME Shape, NEW w \in Workers, Settle(w)
    PROVE  Shape' /\ Advances(w)
<1> USE DEF Shape
<1> USE DEF At, Steps, Provisioning
<1> SUFFICES Advances(w) /\ TypeOK'
  BY ShapeAdvances
<1>0. /\ provLock = w => ByShop(w) /\ req[w].pc \in Provisioning
      /\ ByShop(w) /\ req[w].pc \in Provisioning /\ ~req[w].late => provLock = w
      /\ ~(ByShop(w) /\ InPage(w)) /\ ~(ByShop(w) /\ ByGateway(w))
      /\ provLock' = provLock => LockPasses(w)
  BY DEF OwnerProvisions, ProvisionerOwns, ByShop, InPage, Ensures, ByGateway, LockPasses
<1>1. ASSUME Settled PROVE status' \in {"none", "pending", "paid"} /\ config' \in BOOLEAN
  BY <1>1 DEF Settled
<1>2. CASE CommitFulfilment(w)
  <2>1. Advances(w)
    BY <1>0, <1>2, GoesTo DEF CommitFulfilment
  <2>2. Hand(w) \in Invoices \cup {0}
    BY <1>2, AtStep DEF CommitFulfilment, Requests, Hand
  <2> QED
    BY <1>1, <1>2, <2>1, <2>2 DEF CommitFulfilment, Advances, LockPasses, TypeOK, settings, panel, budget
<1>3. CASE CommitApproval(w)
  <2>1. Advances(w)
    BY <1>0, <1>3, Finishes DEF CommitApproval, locks
  <2>2. status' \in {"none", "pending", "paid"} /\ config' \in BOOLEAN /\ approved' \in Nat
    BY <1>1, <1>3 DEF CommitApproval, TypeOK
  <2> QED
    BY <1>3, <2>1, <2>2 DEF CommitApproval, Advances, LockPasses, TypeOK, settings, panel, locks, budget
<1>4. CASE Persist(w)
  <2>1. Advances(w)
    BY <1>0, <1>4, GoesTo DEF Persist, locks
  <2> QED
    BY <1>1, <1>4, <2>1 DEF Persist, Advances, LockPasses, TypeOK, settings, panel, locks, budget
<1>5. CASE ForgetContext(w)
  <2>1. Advances(w)
    BY <1>0, <1>5, Finishes DEF ForgetContext, locks
  <2> QED
    BY <1>5, <2>1 DEF ForgetContext, Advances, LockPasses, TypeOK, settings, order, panel, locks, budget, counts
<1>6. CASE Respond(w)
  <2>1. Advances(w)
    BY <1>0, <1>6, Finishes DEF Respond, locks
  <2> QED
    BY <1>6, <2>1 DEF Respond, Advances, LockPasses, TypeOK, settings, order, panel, locks, budget, counts
<1> QED
  BY <1>2, <1>3, <1>4, <1>5, <1>6 DEF Settle

LEMMA ShapeTrouble ==
    ASSUME Shape, NEW w \in Workers, Fails(w) \/ Crash(w)
    PROVE  Shape' /\ Advances(w)
<1> USE DEF Shape
<1> SUFFICES Advances(w) /\ TypeOK'
  BY ShapeAdvances
<1>1. faults' \in 0 .. MaxFaults
  BY BoundAssumption DEF Fails, Crash, Fault, TypeOK
<1>2. CASE Fails(w)
  <2>1. req[w].pc \in Steps
    BY <1>2 DEF Fails, TypeOK, Requests
  <2> QED
    BY <1>1, <1>2, <2>1, Throws DEF Fails, Advances, LockPasses, TypeOK, settings, order, panel, counts
<1>3. CASE Crash(w)
  <2>1. Advances(w)
    BY <1>3, Finishes, WorkerAssumption DEF Crash, LockPasses
  <2> QED
    BY <1>1, <1>3, <2>1, ReleasedLock
    DEF Crash, Advances, LockPasses, TypeOK, settings, order, panel, counts
<1> QED
  BY <1>2, <1>3

\* An owner outlived is marked late and keeps the rest of its request.
LEMMA Expires ==
    ASSUME Shape, LockExpires
    PROVE  /\ req' \in [Workers -> Requests \cup {Idle}]
           /\ \A v \in Workers : /\ req'[v].op = req[v].op /\ req'[v].pc = req[v].pc
                                 /\ req'[v].hand = req[v].hand
                                 /\ ~req'[v].late => ~req[v].late
           /\ \/ UNCHANGED <<provLock, req>>
              \/ /\ provLock' = Nobody
                 /\ \A v \in Workers : provLock = v => req'[v].late
<1> USE DEF Shape
<1>1. CASE UNCHANGED <<provLock, req>>
  BY <1>1 DEF TypeOK
<1>2. CASE provLock = Dead /\ provLock' = Nobody /\ UNCHANGED req
  BY <1>2, WorkerAssumption DEF TypeOK
<1>3. CASE /\ provLock \notin {Nobody, Dead} /\ provLock' = Nobody
           /\ req' = [req EXCEPT ![provLock].late = TRUE]
  <2>1. provLock \in Workers
    BY <1>3 DEF TypeOK
  <2>2. req[provLock] \in Requests
    BY <2>1, AtStep DEF OwnerProvisions, Steps
  <2>3. [req[provLock] EXCEPT !.late = TRUE] \in Requests
    BY <2>2 DEF Requests
  <2>4. \A v \in Workers :
            req'[v] = IF v = provLock THEN [req[v] EXCEPT !.late = TRUE] ELSE req[v]
    BY <1>3 DEF TypeOK
  <2>5. LET r == [req[provLock] EXCEPT !.late = TRUE]
        IN  /\ r.op = req[provLock].op /\ r.pc = req[provLock].pc
            /\ r.hand = req[provLock].hand /\ r.late
    BY <2>2 DEF Requests
  <2> QED
    BY <1>3, <2>1, <2>3, <2>4, <2>5 DEF TypeOK
<1> QED
  BY <1>1, <1>2, <1>3 DEF LockExpires

LEMMA ShapeEnvironment ==
    ASSUME Shape, Environment
    PROVE  Shape'
<1> USE DEF Shape
<1>1. CASE CustomerPaysPlisio
  BY <1>1 DEF CustomerPaysPlisio, TypeOK, Handed, OwnerProvisions, ProvisionerOwns, Hand, ByShop,
              settings, order, panel, locks, budget, counts
<1>2. CASE CustomerPaysOffsite
  <2>1. PICK i \in offered : /\ invoice' = [invoice EXCEPT ![i] = "paid"]
                             /\ byCustomer' = byCustomer \cup {i}
    BY <1>2 DEF CustomerPaysOffsite
  <2>2. /\ invoice' \in [Invoices -> {"none", "pending", "paid", "served"}]
        /\ byCustomer' \subseteq Invoices
    BY <2>1 DEF TypeOK
  <2> QED
    BY <1>2, <2>2 DEF CustomerPaysOffsite, TypeOK, Handed, OwnerProvisions, ProvisionerOwns, Hand, ByShop,
                      settings, order, locks, budget, counts
<1>3. CASE PanelServes
  <2>1. invoice' \in [Invoices -> {"none", "pending", "paid", "served"}]
    BY <1>3 DEF PanelServes, TypeOK
  <2> QED
    BY <1>3, <2>1 DEF PanelServes, TypeOK, Handed, OwnerProvisions, ProvisionerOwns, Hand, ByShop,
                      settings, order, locks, budget, counts
<1>4. CASE LockExpires
  <2>1. Handed'
    BY <1>4, Expires DEF Handed, Hand
  <2>2. OwnerProvisions'
    BY <1>4, Expires, WorkerAssumption DEF OwnerProvisions, ByShop
  <2>6. ProvisionerOwns'
    BY <1>4, Expires, WorkerAssumption DEF ProvisionerOwns, ByShop
  <2>3. faults' \in 0 .. MaxFaults
    BY <1>4, BoundAssumption DEF LockExpires, Fault, TypeOK
  <2>4. provLock' \in {provLock, Nobody} /\ ensureLock' \in {ensureLock, Nobody}
    BY <1>4 DEF LockExpires
  <2>5. TypeOK'
    BY <1>4, <2>3, <2>4, Expires
    DEF LockExpires, TypeOK, settings, order, panel, counts
  <2> QED
    BY <2>1, <2>2, <2>5, <2>6
<1> QED
  BY <1>1, <1>2, <1>3, <1>4 DEF Environment

LEMMA ShapeStutter == Shape /\ UNCHANGED vars => Shape'
  BY DEF Shape, TypeOK, Handed, OwnerProvisions, ProvisionerOwns, Hand, ByShop, vars, settings, order, panel,
         locks, budget, counts

\* Whatever a worker does.
Works(w) == Arrive(w) \/ Serve(w) \/ Fails(w) \/ Crash(w)

LEMMA WorkerNext ==
    ASSUME Shape, NEW w \in Workers, Works(w)
    PROVE  Shape' /\ Advances(w)
  BY ShapeArrive, ShapeLock, ShapeInvoice, ShapePay, ShapeSettle, ShapeTrouble DEF Works, Serve

LEMMA ShapeNext == Shape /\ [Next]_vars => Shape'
<1> SUFFICES ASSUME Shape, [Next]_vars PROVE Shape'
  OBVIOUS
<1> QED
  BY WorkerNext, ShapeEnvironment, ShapeStutter DEF Next, Works

\* The variables keep their types: in particular the locks belong to workers or to
\* nobody, and a request works with an invoice of the order.
THEOREM TypeCorrect == Spec => []TypeOK
<1>1. Spec => []Shape
  BY ShapeInit, ShapeNext, PTL DEF Spec
<1>2. Shape => TypeOK
  BY DEF Shape
<1> QED
  BY <1>1, <1>2, PTL

\* provisionPurchase runs for one request at a time, but for those whose lock ran
\* out: each of the others owns the provisioning lock.
THEOREM ProvisioningExclusiveHolds == Spec => []ProvisioningExclusive
<1>1. Spec => []Shape
  BY ShapeInit, ShapeNext, PTL DEF Spec
<1>2. Shape => ProvisioningExclusive
  BY DEF Shape, ProvisionerOwns, ProvisioningExclusive
<1> QED
  BY <1>1, <1>2, PTL

-----------------------------------------------------------------------------
(* The order's row.                                                        *)

\* What the next state must say of w's request and of the row's lock.
RowFits(w) ==
    /\ rowLock' = rowLock \/ rowLock = w \/ (rowLock = Nobody /\ rowLock' = w)
    /\ req'[w].op = "plisio" /\ ~(req'[w].pc \in {"lockRow", "respond"}) =>
          rowLock' = w /\ status' # "paid"
    /\ req'[w].pc = "respond" => status' = "paid"
    /\ req'[w].pc \in {"lockRow", "respond"} => req'[w].op = "plisio"
    /\ req'[w].op = "plisio" => plisio' # "none"

\* What a worker's step may do to the order's settlement.
Placed ==
    /\ status = "none" /\ status' = "pending"
    /\ UNCHANGED <<plisio, fulfilled, approved>>
CarriedOut(w) ==
    /\ Fulfils(w) /\ status' = "paid" /\ fulfilled' = fulfilled + 1
    /\ UNCHANGED <<plisio, approved>>
Approved ==
    /\ rowLock = Nobody /\ status' = "paid"
    /\ approved' = approved \/ (status = "pending" /\ approved' = approved + 1)
    /\ UNCHANGED <<plisio, fulfilled>>
Acknowledged(w) ==
    /\ req[w].pc = "respond" /\ plisio' = "acked"
    /\ UNCHANGED <<status, fulfilled, approved>>
Unsettled == UNCHANGED <<status, plisio, fulfilled, approved>>
Settles(w) == Placed \/ CarriedOut(w) \/ Approved \/ Acknowledged(w) \/ Unsettled

LEMMA RowsAdvance ==
    ASSUME Rows, NEW w \in Workers, Shape', Advances(w), RowFits(w), Settles(w)
    PROVE  Rows'
<1>1. ASSUME NEW v \in Workers, v # w PROVE req'[v] = req[v]
  BY <1>1 DEF Advances
<1>2. RowHeld'
  BY <1>1, WorkerAssumption
  DEF Rows, RowHeld, Fulfils, RowFits, Settles, Placed, CarriedOut, Approved,
      Acknowledged, Unsettled
<1>3. Answered'
  BY <1>1
  DEF Rows, Answered, RowFits, Settles, Placed, CarriedOut, Approved, Acknowledged, Unsettled
<1>4. Billed'
  BY <1>1
  DEF Rows, Billed, Answered, RowFits, Settles, Placed, CarriedOut, Approved, Acknowledged,
      Unsettled
<1> QED
  BY <1>2, <1>3, <1>4 DEF Rows

\* A request that goes on, or ends, without touching the order.
LEMMA RowKept ==
    ASSUME Rows, NEW w \in Workers, UNCHANGED <<status, plisio>>,
           \/ req'[w] = Idle /\ (rowLock' = rowLock \/ rowLock = w)
           \/ /\ req'[w].op = req[w].op /\ rowLock' = rowLock
              /\ ~(req[w].pc \in {"lockRow", "respond"})
              /\ ~(req'[w].pc \in {"lockRow", "respond"})
    PROVE  RowFits(w)
  BY DEF Rows, RowHeld, Answered, Billed, Fulfils, RowFits, Idle

LEMMA RowsInit == Init => Rows
<1>1. Init => RowHeld /\ Answered /\ Billed
  BY DEF Init, RowHeld, Answered, Billed, Fulfils, Idle
<1> QED
  BY <1>1, ShapeInit DEF Rows

LEMMA RowsArrive ==
    ASSUME Rows, NEW w \in Workers, Arrive(w)
    PROVE  RowFits(w) /\ Settles(w)
<1> USE DEF Rows, Shape
<1> SUFFICES ASSUME NEW op \in Operations, NEW step \in {"lock", "lockRow", "pay", "poll"},
                    NEW i \in Invoices \cup {0}, Accept(w, op, step, i),
                    op = "plisio" <=> step = "lockRow", op = "plisio" => plisio = "owed",
                    status' = status \/ (status = "none" /\ status' = "pending")
             PROVE  RowFits(w) /\ Settles(w)
  BY DEF Arrive, PlaceOrder, OpenPage, AdminApproves, ChooseGateway, CheckPayment,
         DeliverPlisio, Operations, order, TypeOK
<1>1. /\ req'[w].op = op /\ req'[w].pc = step
      /\ UNCHANGED <<plisio, rowLock, fulfilled, approved>>
  BY DEF Accept, TypeOK, Idle, locks, counts
<1>2. RowFits(w)
  BY <1>1 DEF RowFits
<1>3. Settles(w)
  BY <1>1 DEF Settles, Placed, Unsettled
<1> QED
  BY <1>2, <1>3

\* An exception of a callback rolls its transaction back.
LEMMA RowsThrow ==
    ASSUME Rows, NEW w \in Workers, req[w].pc \in Steps \ {"respond"}, Throw(w),
           UNCHANGED <<status, plisio, fulfilled, approved>>
    PROVE  RowFits(w) /\ Settles(w)
<1> USE DEF Rows
<1>1. rowLock' = rowLock \/ rowLock = w
  BY ReleasedLock DEF Throw, Released
<1>2. \/ req'[w] = Idle
      \/ req'[w].op \in {"ensure", "page"} /\ req'[w].pc = "reread"
  BY Throws DEF Ensures
<1>3. RowFits(w)
  BY <1>1, <1>2 DEF RowFits, Idle
<1> QED
  BY <1>3 DEF Settles, Unsettled

LEMMA RowsLock ==
    ASSUME Rows, NEW w \in Workers, Lock(w)
    PROVE  RowFits(w) /\ Settles(w)
<1> USE DEF Rows, Shape
<1> USE DEF At, Steps, Provisioning
<1>0. UNCHANGED <<status, plisio, fulfilled, approved>>
  BY DEF Lock, LockRow, TakeProvisionLock, ProvisionLockBusy, TakeEnsureLock, EnsureLockBusy,
         order, counts
<1>1. CASE LockRow(w)
  <2>1. req[w].op = "plisio" /\ plisio # "none"
    BY <1>1 DEF LockRow, Answered, Billed
  <2>2. CASE status = "paid" /\ GoTo(w, "respond") /\ UNCHANGED rowLock
    <3>1. req'[w].op = "plisio" /\ req'[w].pc = "respond"
      BY <1>1, <2>1, <2>2, After DEF LockRow
    <3> QED
      BY <1>0, <2>1, <2>2, <3>1 DEF RowFits, Settles, Unsettled
  <2>3. CASE status # "paid" /\ Take(w, "lock", saved) /\ rowLock' = w
    <3>1. req'[w].op = "plisio" /\ req'[w].pc = "lock"
      BY <1>1, <2>1, <2>3, After DEF LockRow
    <3> QED
      BY <1>0, <1>1, <2>1, <2>3, <3>1 DEF LockRow, RowFits, Settles, Unsettled
  <2> QED
    BY <1>1, <2>2, <2>3 DEF LockRow
<1>2. CASE ProvisionLockBusy(w)
  BY <1>0, <1>2, RowsThrow DEF ProvisionLockBusy
<1>3. CASE TakeProvisionLock(w) \/ TakeEnsureLock(w) \/ EnsureLockBusy(w)
  <2>1. /\ req[w].pc = "lock" /\ rowLock' = rowLock
        /\ GoTo(w, "inspect") \/ GoTo(w, "reread")
    BY <1>3 DEF TakeProvisionLock, TakeEnsureLock, EnsureLockBusy, locks
  <2>2. req'[w].op = req[w].op /\ req'[w].pc \in {"inspect", "reread"}
    BY <2>1, After
  <2> QED
    BY <1>0, <2>1, <2>2, RowKept DEF Settles, Unsettled
<1> QED
  BY <1>1, <1>2, <1>3 DEF Lock

LEMMA RowsInvoice ==
    ASSUME Rows, NEW w \in Workers, HaveInvoice(w)
    PROVE  RowFits(w) /\ Settles(w)
<1> USE DEF Rows, Shape
<1> USE DEF At, Steps, Provisioning
<1>0. UNCHANGED <<status, plisio, fulfilled, approved>>
  BY DEF HaveInvoice, Refuse, KeepInvoice, DropInvoice, WantInvoice, ClearInvoice,
         CreateInvoice, RenewUninvoiced, SaveInvoice, Reread, PutContext, Write, order, counts
<1>1. CASE Throw(w) /\ (Refuse(w) \/ RenewUninvoiced(w))
  BY <1>0, <1>1, RowsThrow DEF Refuse, RenewUninvoiced
<1>2. CASE Finish(w) /\ rowLock' = rowLock
  <2>1. req'[w] = Idle
    BY <1>2 DEF Finish, TypeOK
  <2> QED
    BY <1>0, <1>2, <2>1, RowKept DEF Settles, Unsettled
<1>3. CASE Reread(w) /\ ~Finish(w)
  <2>1. /\ req[w].op = "page" /\ rowLock' = rowLock
        /\ req' = [req EXCEPT ![w] = [@ EXCEPT !.op = "prepare", !.pc = "inspect", !.hand = saved]]
    BY <1>3 DEF Reread, locks
  <2>2. req[w] \in Requests
    BY <1>3, AtStep DEF Reread
  <2>3. req'[w].op = "prepare" /\ req'[w].pc = "inspect"
    BY <2>1, <2>2 DEF Requests, TypeOK
  <2> QED
    BY <1>0, <2>1, <2>3 DEF RowFits, Settles, Unsettled
<1>4. CASE KeepInvoice(w) \/ DropInvoice(w) \/ WantInvoice(w) \/ ClearInvoice(w)
           \/ CreateInvoice(w) \/ (RenewUninvoiced(w) /\ ~Throw(w)) \/ SaveInvoice(w)
  <2>1. PICK step \in {"pay", "reread", "putContext", "clear", "create", "save", "commit"},
             i \in Invoices \cup {0} :
           GoTo(w, step) \/ Take(w, step, i)
    BY <1>4 DEF KeepInvoice, DropInvoice, WantInvoice, ClearInvoice, CreateInvoice,
                RenewUninvoiced, SaveInvoice,
                HaveIt
  <2>2. req[w].pc \in {"inspect", "clear", "create", "save"} /\ rowLock' = rowLock
    BY <1>4 DEF KeepInvoice, DropInvoice, WantInvoice, ClearInvoice, CreateInvoice,
                RenewUninvoiced, SaveInvoice,
                HaveIt, locks
  <2>3. req'[w].op = req[w].op /\ req'[w].pc = step
    BY <2>1, <2>2, After
  <2> QED
    BY <1>0, <2>2, <2>3, RowKept DEF Settles, Unsettled
<1> QED
  BY <1>1, <1>2, <1>3, <1>4 DEF HaveInvoice, Refuse, Reread, PutContext, locks

LEMMA RowsPay ==
    ASSUME Rows, NEW w \in Workers, Pay(w)
    PROVE  RowFits(w) /\ Settles(w)
<1> USE DEF Rows, Shape
<1> USE DEF At, Steps, Provisioning
<1>0. UNCHANGED <<status, plisio, fulfilled, approved>>
  BY DEF Pay, PayByShop, PayByGateway, Poll, GiveUp, EnforceRenewal, order, counts
<1>1. CASE Throw(w) /\ PayByShop(w)
  BY <1>0, <1>1, RowsThrow DEF PayByShop
<1>2. CASE Finish(w) /\ (PayByGateway(w) \/ GiveUp(w))
  <2>1. req'[w] = Idle /\ rowLock' = rowLock
    BY <1>2 DEF Finish, TypeOK, PayByGateway, GiveUp, locks
  <2> QED
    BY <1>0, <2>1, RowKept DEF Settles, Unsettled
<1>3. ASSUME ~(Throw(w) /\ PayByShop(w)), ~(Finish(w) /\ (PayByGateway(w) \/ GiveUp(w)))
      PROVE  RowFits(w) /\ Settles(w)
  <2>1. PICK step \in {"poll", "persist", "enforce", "commit"} : GoTo(w, step)
    BY <1>3 DEF Pay, PayByShop, PayByGateway, Poll, GiveUp, EnforceRenewal
  <2>2. req[w].pc \in {"pay", "poll", "enforce"} /\ rowLock' = rowLock
    BY <1>3 DEF Pay, PayByShop, PayByGateway, Poll, GiveUp, EnforceRenewal, locks
  <2>3. req'[w].op = req[w].op /\ req'[w].pc = step
    BY <2>1, <2>2, After
  <2> QED
    BY <1>0, <2>2, <2>3, RowKept DEF Settles, Unsettled
<1> QED
  BY <1>1, <1>2, <1>3

LEMMA RowsSettle ==
    ASSUME Rows, NEW w \in Workers, Settle(w)
    PROVE  RowFits(w) /\ Settles(w)
<1> USE DEF Rows, Shape
<1> USE DEF At, Steps, Provisioning
<1>1. CASE CommitFulfilment(w)
  <2>1. Fulfils(w) /\ rowLock = w /\ plisio # "none"
    BY <1>1 DEF CommitFulfilment, Fulfils, RowHeld, Billed
  <2>2. req'[w].op = "plisio" /\ req'[w].pc = "respond"
    BY <1>1, After DEF CommitFulfilment
  <2> QED
    BY <1>1, <2>1, <2>2 DEF CommitFulfilment, Settled, RowFits, Settles, CarriedOut
<1>2. CASE CommitApproval(w)
  <2>1. req'[w] = Idle
    BY <1>2 DEF CommitApproval, Finish, TypeOK
  <2>2. RowFits(w)
    BY <1>2, <2>1 DEF CommitApproval, RowFits, Idle, locks
  <2> QED
    BY <1>2, <2>2 DEF CommitApproval, Settled, Settles, Approved, Unsettled
<1>3. CASE Persist(w)
  <2>1. ~Fulfils(w) /\ req[w].op # "plisio"
    BY <1>3, WorkerAssumption DEF Persist, RowHeld, Fulfils
  <2>2. req'[w].op = req[w].op /\ req'[w].pc = "forget"
    BY <1>3, After DEF Persist
  <2>3. RowFits(w)
    BY <1>3, <2>1, <2>2 DEF Persist, RowFits, locks
  <2> QED
    BY <1>3, <2>3 DEF Persist, Settled, Settles, Approved
<1>4. CASE ForgetContext(w)
  <2>1. req'[w] = Idle /\ rowLock' = rowLock
    BY <1>4 DEF ForgetContext, Finish, TypeOK, locks
  <2> QED
    BY <1>4, <2>1 DEF ForgetContext, RowFits, Idle, Settles, Unsettled, order, counts
<1>5. CASE Respond(w)
  <2>1. req'[w] = Idle /\ rowLock' = rowLock
    BY <1>5 DEF Respond, Finish, TypeOK, locks
  <2> QED
    BY <1>5, <2>1 DEF Respond, RowFits, Idle, Settles, Acknowledged, order, counts
<1> QED
  BY <1>1, <1>2, <1>3, <1>4, <1>5 DEF Settle

LEMMA RowsTrouble ==
    ASSUME Rows, NEW w \in Workers, Fails(w) \/ Crash(w)
    PROVE  RowFits(w) /\ Settles(w)
<1> USE DEF Rows, Shape
<1>1. CASE Fails(w)
  <2>1. req[w].pc \in Steps \ {"respond"}
    BY <1>1 DEF Fails, At, TypeOK, Requests
  <2> QED
    BY <1>1, <2>1, RowsThrow DEF Fails, order, counts
<1>2. CASE Crash(w)
  <2>1. req'[w] = Idle /\ (rowLock' = rowLock \/ rowLock = w)
    BY <1>2 DEF Crash, Finish, Released, TypeOK
  <2> QED
    BY <1>2, <2>1 DEF Crash, RowFits, Idle, Settles, Unsettled, order, counts
<1> QED
  BY <1>1, <1>2

LEMMA WorkerSettles ==
    ASSUME Rows, NEW w \in Workers, Works(w)
    PROVE  Rows' /\ Settles(w)
<1>1. Shape' /\ Advances(w)
  BY WorkerNext DEF Rows
<1>2. RowFits(w) /\ Settles(w)
  BY RowsArrive, RowsLock, RowsInvoice, RowsPay, RowsSettle, RowsTrouble DEF Works, Serve
<1> QED
  BY <1>1, <1>2, RowsAdvance

\* What happens elsewhere leaves the row alone, but for the customer's payment.
LEMMA ElsewhereSettles ==
    ASSUME Rows, Environment \/ UNCHANGED vars
    PROVE  /\ Rows'
           /\ UNCHANGED <<status, fulfilled, approved>>
           /\ plisio' = plisio \/ (status = "pending" /\ plisio = "none" /\ plisio' = "owed")
<1>1. Shape'
  BY ShapeEnvironment, ShapeStutter DEF Rows
<1>2. /\ \A v \in Workers : req'[v].op = req[v].op /\ req'[v].pc = req[v].pc
      /\ UNCHANGED <<status, rowLock, fulfilled, approved>>
      /\ plisio' = plisio \/ (status = "pending" /\ plisio = "none" /\ plisio' = "owed")
  <2>1. CASE LockExpires
    BY <2>1, Expires DEF Rows, LockExpires, order, counts
  <2>2. CASE ~LockExpires
    BY <2>2 DEF Environment, CustomerPaysPlisio, CustomerPaysOffsite, PanelServes, vars, order,
                locks, counts
  <2> QED
    BY <2>1, <2>2
<1> QED
  BY <1>1, <1>2 DEF Rows, RowHeld, Answered, Billed, Fulfils

LEMMA RowsNext == Rows /\ [Next]_vars => Rows'
  BY WorkerSettles, ElsewhereSettles DEF Next, Works

-----------------------------------------------------------------------------
(* The order is settled once by the shop, and acknowledged when it is.     *)

\* An order that is not paid was neither fulfilled nor approved.
OnceInv ==
    /\ Rows /\ ShopSettlesOnce /\ AckedIsSettled
    /\ status # "paid" => fulfilled + approved = 0

LEMMA OnceNext == OnceInv /\ [Next]_vars => OnceInv'
<1> SUFFICES ASSUME OnceInv, [Next]_vars PROVE OnceInv'
  OBVIOUS
<1> USE DEF OnceInv, ShopSettlesOnce, AckedIsSettled
<1>1. fulfilled \in Nat /\ approved \in Nat
  BY DEF Rows, Shape, TypeOK
<1>2. Rows'
  BY RowsNext
<1>3. CASE Environment \/ UNCHANGED vars
  BY <1>2, <1>3, ElsewhereSettles
<1>4. ASSUME NEW w \in Workers, Works(w) PROVE OnceInv'
  <2>1. Settles(w)
    BY <1>4, WorkerSettles
  <2>2. CASE Placed \/ Unsettled
    BY <1>2, <2>2 DEF Placed, Unsettled
  <2>3. CASE CarriedOut(w)
    <3>1. status # "paid"
      BY <2>3 DEF CarriedOut, Rows, RowHeld
    <3> QED
      BY <1>1, <1>2, <2>3, <3>1 DEF CarriedOut
  <2>4. CASE Approved
    BY <1>1, <1>2, <2>4 DEF Approved
  <2>5. CASE Acknowledged(w)
    <3>1. status = "paid"
      BY <2>5 DEF Acknowledged, Rows, Answered
    <3> QED
      BY <1>1, <1>2, <2>5, <3>1 DEF Acknowledged
  <2> QED
    BY <2>1, <2>2, <2>3, <2>4, <2>5 DEF Settles
<1> QED
  BY <1>3, <1>4 DEF Next, Works

LEMMA OnceHolds == Spec => []OnceInv
<1>1. Init => OnceInv
  BY RowsInit DEF Init, OnceInv, ShopSettlesOnce, AckedIsSettled
<1> QED
  BY <1>1, OnceNext, PTL DEF Spec

\* Plisio's callbacks and the admin's approvals settle the order once between
\* them, whatever the provisioning lock does: the row's lock and the status read
\* under it decide.
THEOREM ShopSettlesOnceHolds == Spec => []ShopSettlesOnce
<1>1. OnceInv => ShopSettlesOnce
  BY DEF OnceInv
<1> QED
  BY <1>1, OnceHolds, PTL

\* A callback is answered with 200 only when the order is settled.
THEOREM AckedIsSettledHolds == Spec => []AckedIsSettled
<1>1. OnceInv => AckedIsSettled
  BY DEF OnceInv
<1> QED
  BY <1>1, OnceHolds, PTL

-----------------------------------------------------------------------------
(* A settled order has a service.                                          *)

\* A paid or served invoice as SettledHasService asks for.
Backing(i) == invoice[i] = "served" \/ (invoice[i] = "paid" /\ kind # "purchase")
Backed == \E i \in Invoices : Backing(i)

\* The panel accepted the renewal and named no invoice for it.
Granted == kind = "renewal" /\ granted

\* An invoice is there from the poll's answer on, and stays; without a poll only
\* the shop's own requests, once the panel has accepted the renewal, go on to
\* settle the order.
BackedInv ==
    /\ Rows
    /\ status = "paid" => Backed \/ (Granted /\ fulfilled + approved > 0)
    /\ \A w \in Workers : /\ req[w].pc \in {"enforce", "persist"} => Backed
                          /\ req[w].pc = "commit" => Backed \/ Granted

\* What was ordered stays, and the panel does not take back what it accepted.
LEMMA KindAndGrantStay == [Next]_vars => kind' = kind /\ (granted => granted')
<1> DEFINE Stay == kind' = kind /\ (granted => granted')
<1> SUFFICES ASSUME [Next]_vars PROVE Stay
  OBVIOUS
<1>1. CASE Environment \/ UNCHANGED vars
  BY <1>1 DEF Environment, CustomerPaysPlisio, CustomerPaysOffsite, PanelServes, LockExpires,
              vars, settings, panel
<1>2. ASSUME NEW w \in Workers, Arrive(w) \/ Lock(w) \/ Fails(w) \/ Crash(w) PROVE Stay
  BY <1>2 DEF Arrive, PlaceOrder, OpenPage, AdminApproves, ChooseGateway, CheckPayment,
              DeliverPlisio, Accept, Lock, LockRow, TakeProvisionLock, ProvisionLockBusy,
              TakeEnsureLock, EnsureLockBusy, Fails, Crash, settings, panel
<1>3. ASSUME NEW w \in Workers, HaveInvoice(w) PROVE Stay
  BY <1>3 DEF HaveInvoice, Refuse, KeepInvoice, DropInvoice, WantInvoice, ClearInvoice,
              CreateInvoice, RenewUninvoiced, SaveInvoice, Reread, PutContext, settings, panel
<1>4. ASSUME NEW w \in Workers, Pay(w) \/ Settle(w) PROVE Stay
  BY <1>4 DEF Pay, PayByShop, PayByGateway, Poll, GiveUp, EnforceRenewal, Settle,
              CommitFulfilment, CommitApproval, Persist, ForgetContext, Respond, settings, panel
<1> QED
  BY <1>1, <1>2, <1>3, <1>4 DEF Next, Serve

LEMMA KindStays == [Next]_vars => kind' = kind
  BY KindAndGrantStay

LEMMA GrantedStays == [Next]_vars /\ Granted => Granted'
  BY KindAndGrantStay DEF Granted

\* An invoice only moves on: opened, paid, served.
LEMMA BackingStays ==
    ASSUME Shape, [Next]_vars, NEW i \in Invoices, Backing(i)
    PROVE  Backing(i)'
<1> USE DEF Shape, TypeOK
<1>0. kind' = kind
  BY KindStays
<1>1. CASE CustomerPaysOffsite
  BY <1>0, <1>1 DEF CustomerPaysOffsite, Backing
<1>2. CASE PanelServes
  BY <1>0, <1>2 DEF PanelServes, Backing
<1>3. CASE \E w \in Workers : CreateInvoice(w)
  <2>1. PICK w \in Workers, j \in Invoices : /\ Opened = 1 .. j - 1
                                             /\ invoice' = [invoice EXCEPT ![j] = "pending"]
    BY <1>3 DEF CreateInvoice
  <2>2. j \notin Opened
    BY <2>1, BoundAssumption DEF Invoices
  <2> QED
    BY <1>0, <2>1, <2>2 DEF Opened, Backing
<1>4. CASE \E w \in Workers : PayByShop(w) \/ PayByGateway(w) \/ EnforceRenewal(w)
  BY <1>0, <1>4 DEF PayByShop, PayByGateway, EnforceRenewal, Backing
<1>5. CASE invoice' = invoice
  BY <1>0, <1>5 DEF Backing
<1>6. CASE \E w \in Workers : RenewUninvoiced(w)
  BY <1>5, <1>6 DEF RenewUninvoiced
<1> QED
  BY <1>1, <1>2, <1>3, <1>4, <1>5, <1>6
  DEF Next, Environment, CustomerPaysPlisio, LockExpires,
      Arrive, PlaceOrder, OpenPage, AdminApproves, ChooseGateway, CheckPayment, DeliverPlisio,
      Accept, Serve, Lock, LockRow, TakeProvisionLock, ProvisionLockBusy, TakeEnsureLock,
      EnsureLockBusy, HaveInvoice, Refuse, KeepInvoice, DropInvoice, WantInvoice, ClearInvoice,
      SaveInvoice, Reread, PutContext, Pay, Poll, GiveUp, Settle,
      CommitFulfilment, CommitApproval, Persist, ForgetContext, Respond, Fails, Crash, vars, panel

LEMMA BackedStays == Shape /\ [Next]_vars /\ Backed => Backed'
  BY BackingStays DEF Backed

\* The poll's answer: the invoice is served, or it is paid and a service is there.
LEMMA PolledIsBacked ==
    ASSUME Shape, NEW w \in Workers, Poll(w)
    PROVE  Backed
<1>1. Hand(w) \in Invoices
  BY AtStep DEF Poll, At, Shape, Handed, Hand, Requests, Steps, Provisioning
<1>2. HasLink(Hand(w))
  BY DEF Poll
<1>3. CASE kind # "purchase"
  BY <1>1, <1>2, <1>3 DEF HasLink, Backed, Backing
<1>4. CASE kind = "purchase"
  BY <1>1, <1>2, <1>4 DEF HasLink, HasService, Backed, Backing
<1> QED
  BY <1>3, <1>4

\* Only polling and what follows it, or the panel's word, brings a request to its
\* settlement.
LEMMA ComesFromPoll ==
    ASSUME Rows, NEW w \in Workers, Works(w),
           req'[w].pc \in {"enforce", "commit", "persist"}
    PROVE  \/ Poll(w) \/ req[w].pc \in {"enforce", "commit", "persist"}
           \/ RenewUninvoiced(w) /\ req'[w].pc = "commit"
<1> USE DEF Rows, Shape
<1> DEFINE Late == {"enforce", "commit", "persist"}
<1>1. ASSUME Throw(w), req[w].pc \in Steps PROVE FALSE
  BY <1>1, Throws DEF Idle
<1>2. ASSUME Finish(w) PROVE FALSE
  BY <1>2 DEF Finish, TypeOK, Idle
<1>3. ASSUME NEW step \in Steps \ Late, NEW i, req[w].pc \in Steps,
             GoTo(w, step) \/ Take(w, step, i)
      PROVE  FALSE
  BY <1>3, After
<1>4. ASSUME NEW op, NEW step \in {"lock", "lockRow", "pay", "poll"}, NEW i, Accept(w, op, step, i)
      PROVE  FALSE
  BY <1>4 DEF Accept, TypeOK, Idle
<1>5. ~Arrive(w)
  BY <1>4 DEF Arrive, PlaceOrder, OpenPage, AdminApproves, ChooseGateway, CheckPayment,
              DeliverPlisio
<1>6. ~Fails(w) /\ ~Crash(w)
  BY <1>1, <1>2 DEF Fails, Crash, TypeOK, Requests
<1> USE DEF At, Steps, Provisioning
<1>7. ~Lock(w)
  BY <1>1, <1>3 DEF Lock, LockRow, TakeProvisionLock, ProvisionLockBusy, TakeEnsureLock,
                    EnsureLockBusy
<1>8. HaveInvoice(w) => RenewUninvoiced(w) /\ req'[w].pc = "commit"
  <2>1. ~HaveIt(w) \/ ~(req[w].pc \in Steps)
    BY <1>3 DEF HaveIt
  <2>2. ~Reread(w)
    <3>1. ASSUME Reread(w), ~Finish(w) PROVE FALSE
      <4>1. req' = [req EXCEPT ![w] = [@ EXCEPT !.op = "prepare", !.pc = "inspect", !.hand = saved]]
        BY <3>1 DEF Reread
      <4>2. req[w] \in Requests
        BY <3>1, AtStep DEF Reread
      <4> QED
        BY <4>1, <4>2 DEF TypeOK, Requests
    <3> QED
      BY <1>2, <3>1
  <2>3. ~Refuse(w) /\ ~KeepInvoice(w) /\ ~SaveInvoice(w) /\ ~PutContext(w)
    BY <1>1, <1>2, <2>1 DEF Refuse, KeepInvoice, SaveInvoice, PutContext
  <2>4. ~DropInvoice(w) /\ ~WantInvoice(w) /\ ~ClearInvoice(w) /\ ~CreateInvoice(w)
    BY <1>3 DEF DropInvoice, WantInvoice, ClearInvoice, CreateInvoice
  <2>5. RenewUninvoiced(w) => req'[w].pc = "commit"
    BY <1>1, After DEF RenewUninvoiced
  <2> QED
    BY <2>2, <2>3, <2>4, <2>5 DEF HaveInvoice
<1>9. Pay(w) => Poll(w) \/ req[w].pc = "enforce"
  BY <1>1, <1>2, <1>3 DEF Pay, PayByShop, PayByGateway, GiveUp, EnforceRenewal
<1>10. Settle(w) => req[w].pc \in Late
  BY <1>2, <1>3 DEF Settle, CommitFulfilment, CommitApproval, Persist, ForgetContext, Respond
<1> QED
  BY <1>5, <1>6, <1>7, <1>8, <1>9, <1>10 DEF Works, Serve

\* A request at its commit settles the order or ends.
LEMMA LeavesCommit ==
    ASSUME Rows, NEW w \in Workers, Works(w), req[w].pc = "commit"
    PROVE  req'[w].pc # "enforce" /\ req'[w].pc # "persist"
<1> USE DEF Rows, Shape, At
<1>1. ASSUME Throw(w) PROVE req'[w].pc # "enforce" /\ req'[w].pc # "persist"
  BY <1>1, Throws DEF Idle, Steps
<1>2. ASSUME Finish(w) PROVE req'[w].pc # "enforce" /\ req'[w].pc # "persist"
  BY <1>2, After DEF Idle, Steps
<1>3. ASSUME GoTo(w, "respond") PROVE req'[w].pc # "enforce" /\ req'[w].pc # "persist"
  BY <1>3, After DEF Steps
<1>4. ~Arrive(w) /\ ~Lock(w) /\ ~HaveInvoice(w) /\ ~Pay(w)
  BY DEF Arrive, PlaceOrder, OpenPage, AdminApproves, ChooseGateway, CheckPayment,
         DeliverPlisio, Accept, Idle, Lock, LockRow, TakeProvisionLock, ProvisionLockBusy,
         TakeEnsureLock, EnsureLockBusy, HaveInvoice, Refuse, KeepInvoice, DropInvoice,
         WantInvoice, ClearInvoice, CreateInvoice, RenewUninvoiced, SaveInvoice, Reread,
         PutContext, Pay, PayByShop, PayByGateway, Poll, GiveUp, EnforceRenewal
<1> QED
  BY <1>1, <1>2, <1>3, <1>4
  DEF Works, Serve, Settle, CommitFulfilment, CommitApproval, Persist, ForgetContext, Respond,
      Fails, Crash

\* An order is settled at the end of a poll of the customer's, or by a commit of
\* the shop's, which counts.
LEMMA SettledBy ==
    ASSUME Rows, NEW w \in Workers, Works(w), status' = "paid", status # "paid"
    PROVE  req[w].pc = "persist" \/ (req[w].pc = "commit" /\ fulfilled' + approved' > 0)
<1>1. fulfilled \in Nat /\ approved \in Nat
  BY DEF Rows, Shape, TypeOK
<1>2. CASE CommitFulfilment(w) \/ CommitApproval(w)
  BY <1>1, <1>2 DEF CommitFulfilment, CommitApproval, At
<1>3. CASE Persist(w)
  BY <1>3 DEF Persist, At
<1>4. CASE ~CommitFulfilment(w) /\ ~CommitApproval(w) /\ ~Persist(w)
  <2>1. status' = status \/ status' = "pending"
    BY <1>4
    DEF Works, Arrive, PlaceOrder, OpenPage, AdminApproves, ChooseGateway, CheckPayment,
        DeliverPlisio, Accept, Serve, Lock, LockRow, TakeProvisionLock, ProvisionLockBusy,
        TakeEnsureLock, EnsureLockBusy, HaveInvoice, Refuse, KeepInvoice, DropInvoice,
        WantInvoice, ClearInvoice, CreateInvoice, RenewUninvoiced, SaveInvoice, Write, Reread,
        PutContext, Pay, PayByShop, PayByGateway, Poll, GiveUp, EnforceRenewal, Settle,
        ForgetContext, Respond, Fails, Crash, order
  <2> QED
    BY <2>1
<1> QED
  BY <1>2, <1>3, <1>4

LEMMA BackedNext == BackedInv /\ [Next]_vars => BackedInv'
<1> SUFFICES ASSUME BackedInv, [Next]_vars PROVE BackedInv'
  OBVIOUS
<1> USE DEF BackedInv
<1>1. Rows' /\ Shape
  BY RowsNext DEF Rows
<1>2. CASE Environment \/ UNCHANGED vars
  <2>1. UNCHANGED <<status, fulfilled, approved>>
    BY <1>2, ElsewhereSettles
  <2>2. \A w \in Workers : req'[w].pc = req[w].pc
    BY <1>1, <1>2, Expires
    DEF Environment, CustomerPaysPlisio, CustomerPaysOffsite, PanelServes, vars
  <2> QED
    BY <1>1, <2>1, <2>2, BackedStays, GrantedStays
<1>3. ASSUME NEW w \in Workers, Works(w) PROVE BackedInv'
  <2>1. Settles(w) /\ Advances(w)
    BY <1>1, <1>3, WorkerSettles, WorkerNext
  <2>2. /\ req'[w].pc \in {"enforce", "persist"} => Backed'
        /\ req'[w].pc = "commit" => Backed' \/ Granted'
    <3>1. CASE RenewUninvoiced(w) /\ req'[w].pc = "commit"
      BY <3>1 DEF RenewUninvoiced, Granted, settings
    <3>2. CASE Poll(w)
      BY <1>1, <3>2, PolledIsBacked, BackedStays
    <3>3. CASE req[w].pc \in {"enforce", "persist"}
      BY <1>1, <3>3, BackedStays
    <3>4. CASE req[w].pc = "commit"
      <4>1. req'[w].pc # "enforce" /\ req'[w].pc # "persist"
        BY <1>1, <1>3, <3>4, LeavesCommit
      <4> QED
        BY <1>1, <3>4, <4>1, BackedStays, GrantedStays
    <3> QED
      BY <1>1, <1>3, <3>1, <3>2, <3>3, <3>4, ComesFromPoll
  <2>3. ASSUME status' = "paid", status # "paid"
        PROVE  Backed \/ (Granted /\ fulfilled' + approved' > 0)
    <3>1. req[w].pc = "persist" \/ (req[w].pc = "commit" /\ fulfilled' + approved' > 0)
      BY <1>3, <2>3, SettledBy
    <3> QED
      BY <3>1
  <2>4. ASSUME status = "paid", fulfilled + approved > 0 PROVE fulfilled' + approved' > 0
    <3>1. fulfilled \in Nat /\ approved \in Nat /\ ~Fulfils(w)
      BY <1>1, <2>4 DEF Rows, Shape, TypeOK, RowHeld
    <3>2. fulfilled' = fulfilled /\ approved' = approved
      BY <2>1, <2>4, <3>1
      DEF Settles, Placed, CarriedOut, Approved, Acknowledged, Unsettled
    <3> QED
      BY <2>4, <3>2
  <2>5. status' = "paid" => Backed' \/ (Granted' /\ fulfilled' + approved' > 0)
    <3>1. (Backed => Backed') /\ (Granted => Granted')
      BY <1>1, BackedStays, GrantedStays
    <3>2. CASE status = "paid"
      BY <2>4, <3>1, <3>2
    <3>3. CASE status # "paid"
      BY <2>3, <3>1, <3>3
    <3> QED
      BY <3>2, <3>3
  <2>6. ASSUME NEW v \in Workers
        PROVE  /\ req'[v].pc \in {"enforce", "persist"} => Backed'
               /\ req'[v].pc = "commit" => Backed' \/ Granted'
    <3>1. CASE v = w
      BY <2>2, <3>1
    <3>2. CASE v # w
      <4>1. req'[v] = req[v]
        BY <2>1, <3>2 DEF Advances
      <4> QED
        BY <1>1, <4>1, BackedStays, GrantedStays
    <3> QED
      BY <3>1, <3>2
  <2> QED
    BY <1>1, <2>5, <2>6
<1> QED
  BY <1>2, <1>3 DEF Next, Works

\* A settled order has a paid invoice, a served one if the user had no service
\* before; a renewal can do without, when the shop settled it on the panel's word.
THEOREM SettledHasServiceHolds == Spec => []SettledHasService
<1>1. Init => BackedInv
  BY RowsInit DEF Init, BackedInv, Idle
<1>2. BackedInv => SettledHasService
  BY DEF BackedInv, Backed, Backing, Granted, SettledHasService
<1> QED
  BY <1>1, <1>2, BackedNext, PTL DEF Spec

-----------------------------------------------------------------------------
(* Plisio's payments are settled as promised.                              *)

\* A step of a worker or of its environment is a step of PlisioSettlement.
LEMMA PromiseNext == Rows /\ [Next]_vars => [Promise!Next]_Promise!vars
<1> SUFFICES ASSUME Rows, [Next]_vars PROVE [Promise!Next]_Promise!vars
  OBVIOUS
<1> USE DEF Rows, Shape, TypeOK
<1>1. ASSUME UNCHANGED <<status, plisio, fulfilled>> PROVE UNCHANGED Promise!vars
  BY <1>1 DEF Promise!vars
<1>2. CASE Environment \/ UNCHANGED vars
  <2>1. /\ UNCHANGED <<status, fulfilled>>
        /\ plisio' = plisio \/ (status = "pending" /\ plisio = "none" /\ plisio' = "owed")
    BY <1>2, ElsewhereSettles
  <2>2. CASE status = "pending" /\ plisio = "none" /\ plisio' = "owed"
    <3>1. Promise!Pay("order")
      BY <2>1, <2>2 DEF Promise!Pay
    <3> QED
      BY <3>1 DEF Promise!Next
  <2> QED
    BY <1>1, <2>1, <2>2
<1>3. ASSUME NEW w \in Workers, Works(w) PROVE [Promise!Next]_Promise!vars
  <2>1. Settles(w)
    BY <1>3, WorkerSettles
  <2>2. CASE Placed
    <3>1. Promise!Other("order")
      BY <2>2 DEF Placed, Promise!Other, Promise!Present
    <3> QED
      BY <3>1 DEF Promise!Next
  <2>3. CASE CarriedOut(w)
    <3>1. status = "pending" /\ plisio # "none"
      BY <2>3 DEF CarriedOut, Fulfils, RowHeld, Billed
    <3>2. Promise!CarryOut("order")
      BY <2>3, <3>1 DEF CarriedOut, Promise!CarryOut, Promise!Unpaid, Promise!Credit
    <3> QED
      BY <3>2 DEF Promise!Next
  <2>4. CASE Approved
    <3>1. Promise!Other("order")
      BY <2>4 DEF Approved, Promise!Other, Promise!Present
    <3> QED
      BY <3>1 DEF Promise!Next
  <2>5. CASE Acknowledged(w)
    <3>1. plisio # "none"
      BY <2>5 DEF Acknowledged, Answered, Billed
    <3>2. Promise!Acknowledge("order")
      BY <2>5, <3>1 DEF Acknowledged, Promise!Acknowledge
    <3> QED
      BY <3>2 DEF Promise!Next
  <2>6. CASE Unsettled
    BY <1>1, <2>6 DEF Unsettled
  <2> QED
    BY <2>1, <2>2, <2>3, <2>4, <2>5, <2>6 DEF Settles
<1> QED
  BY <1>2, <1>3 DEF Next, Works

\* Provisioning, its locks, exceptions and crashes implement the settlement the
\* shop promises: a payment made at Plisio is carried out in one step, on an
\* order that is not paid.
THEOREM ImplementsSettlement == Spec => SettlesAsPromised
<1>1. Init => Promise!Init
  BY DEF Init, Promise!Init
<1>2. Rows /\ [Next]_vars => [Promise!Next]_Promise!vars
  BY PromiseNext
<1> QED
  BY <1>1, <1>2, RowsInit, RowsNext, PTL DEF Spec, SettlesAsPromised, Promise!Spec
=============================================================================
