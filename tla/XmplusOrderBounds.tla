--------------------------- MODULE XmplusOrderBounds ---------------------------
(***************************************************************************)
(* How far XmplusOrder's requests go, who holds its locks, how often an    *)
(* order is settled and how many invoices the shop pays, for any number of *)
(* workers.                                                                *)
(***************************************************************************)
EXTENDS XmplusOrderProofs, FiniteSetTheorems

-----------------------------------------------------------------------------
(* Where a request goes.                                                   *)

\* The step that follows the one worker w's request is at.
Follows(step, w) ==
    \/ req[w].pc = "lockRow" /\ step \in {"lock", "respond"}
    \/ req[w].pc = "lock" /\ step = "inspect"
    \/ req[w].pc = "inspect" /\ step \in {"clear", "create"}
    \/ req[w].pc = "clear" /\ step = "create"
    \/ req[w].pc = "create" /\ step \in IF ByShop(w) THEN {"save", "commit"} ELSE {"save"}
    \/ req[w].pc \in {"inspect", "save"} /\ step = IF ByShop(w) THEN "pay" ELSE "putContext"
    \/ req[w].pc = "pay" /\ step = "poll"
    \/ req[w].pc = "poll" /\ step \in IF ByGateway(w) THEN {"persist"} ELSE {"enforce", "commit"}
    \/ req[w].pc = "enforce" /\ step = "commit"
    \/ req[w].pc = "commit" /\ req[w].op = "plisio" /\ step = "respond"
    \/ req[w].pc = "persist" /\ step = "forget"

\* A request ends, goes on to the step that follows, or, if a page made it,
\* goes on without its invoice and then to its second part.
Onward(w) ==
    \/ req'[w] = Idle
    \/ req'[w].op = req[w].op /\ Follows(req'[w].pc, w)
    \/ /\ req'[w].op = req[w].op /\ InPage(w)
       /\ req'[w].pc = "reread" /\ ~(req[w].pc \in {"reread", "forget", "respond"})
    \/ /\ req[w].op = "page" /\ req[w].pc = "reread"
       /\ req'[w].op = "prepare" /\ req'[w].pc = "inspect"

LEMMA OnwardTo ==
    ASSUME TypeOK, NEW w \in Workers, req[w].pc \in Steps, NEW step, NEW i,
           GoTo(w, step) \/ Take(w, step, i),
           \/ Follows(step, w)
           \/ step = "reread" /\ InPage(w) /\ ~(req[w].pc \in {"reread", "forget", "respond"})
    PROVE  Onward(w)
  BY After DEF Onward

LEMMA OnwardFinish ==
    ASSUME TypeOK, NEW w \in Workers, req[w].pc \in Steps, Finish(w)
    PROVE  Onward(w)
  BY After DEF Onward

LEMMA OnwardThrow ==
    ASSUME TypeOK, NEW w \in Workers, req[w].pc \in Steps,
           ~(req[w].pc \in {"reread", "forget", "respond"}), Throw(w)
    PROVE  Onward(w)
  <1>1. (GoTo(w, "reread") /\ InPage(w)) \/ Finish(w)
    BY DEF Throw, InPage
  <1> QED
    BY <1>1, OnwardTo, OnwardFinish

LEMMA ServeOnward ==
    ASSUME TypeOK, NEW w \in Workers, Serve(w)
    PROVE  req[w].pc \in Steps /\ Onward(w)
<1> USE DEF At
<1>0. req[w].pc \in Steps
  BY DEF Serve, Lock, LockRow, TakeProvisionLock, ProvisionLockBusy, TakeEnsureLock,
         EnsureLockBusy, HaveInvoice, Refuse, KeepInvoice, DropInvoice, WantInvoice,
         ClearInvoice, CreateInvoice, RenewUninvoiced, SaveInvoice, Reread, PutContext, Pay,
         PayByShop,
         PayByGateway, Poll, GiveUp, EnforceRenewal, Settle, CommitFulfilment, CommitApproval,
         Persist, ForgetContext, Respond, Steps, Provisioning
<1> SUFFICES Onward(w)
  BY <1>0
<1>1. CASE Lock(w)
  <2>1. CASE LockRow(w)
    BY <1>0, <2>1, OnwardTo DEF LockRow, Follows
  <2>2. CASE ProvisionLockBusy(w)
    BY <1>0, <2>2, OnwardThrow DEF ProvisionLockBusy
  <2>3. CASE TakeProvisionLock(w) \/ TakeEnsureLock(w) \/ EnsureLockBusy(w)
    BY <1>0, <2>3, OnwardTo DEF TakeProvisionLock, TakeEnsureLock, EnsureLockBusy, Follows
  <2> QED
    BY <1>1, <2>1, <2>2, <2>3 DEF Lock
<1>2. CASE HaveInvoice(w)
  <2>1. CASE Refuse(w)
    BY <1>0, <2>1, OnwardThrow DEF Refuse
  <2>2. CASE KeepInvoice(w) \/ SaveInvoice(w)
    BY <1>0, <2>2, OnwardTo DEF KeepInvoice, SaveInvoice, HaveIt, InPage, Follows
  <2>3. CASE DropInvoice(w) \/ WantInvoice(w) \/ ClearInvoice(w) \/ CreateInvoice(w)
    BY <1>0, <2>3, OnwardTo DEF DropInvoice, WantInvoice, ClearInvoice, CreateInvoice, Follows
  <2>4. CASE Reread(w)
    <3>1. CASE /\ req[w].op = "page"
               /\ req' = [req EXCEPT ![w] = [@ EXCEPT !.op = "prepare", !.pc = "inspect",
                                                      !.hand = saved]]
      <4>1. req'[w].op = "prepare" /\ req'[w].pc = "inspect"
        BY <1>0, <3>1, AtStep DEF Requests, TypeOK
      <4> QED
        BY <2>4, <3>1, <4>1 DEF Reread, Onward
    <3> QED
      BY <1>0, <2>4, <3>1, OnwardFinish DEF Reread
  <2>5. CASE PutContext(w)
    BY <1>0, <2>5, OnwardFinish DEF PutContext
  <2>6. CASE RenewUninvoiced(w)
    BY <1>0, <2>6, OnwardTo, OnwardThrow DEF RenewUninvoiced, Follows
  <2> QED
    BY <1>2, <2>1, <2>2, <2>3, <2>4, <2>5, <2>6 DEF HaveInvoice
<1>3. CASE Pay(w)
  <2>1. CASE PayByShop(w)
    BY <1>0, <2>1, OnwardTo, OnwardThrow DEF PayByShop, Follows
  <2>2. CASE PayByGateway(w) \/ GiveUp(w)
    BY <1>0, <2>2, OnwardTo, OnwardFinish DEF PayByGateway, GiveUp, Follows
  <2>3. CASE Poll(w) \/ EnforceRenewal(w)
    BY <1>0, <2>3, OnwardTo DEF Poll, EnforceRenewal, Follows
  <2> QED
    BY <1>3, <2>1, <2>2, <2>3 DEF Pay
<1>4. CASE Settle(w)
  <2>1. CASE CommitFulfilment(w) \/ Persist(w)
    BY <1>0, <2>1, OnwardTo DEF CommitFulfilment, Persist, Follows
  <2> QED
    BY <1>0, <1>4, <2>1, OnwardFinish DEF Settle, CommitApproval, ForgetContext, Respond
<1> QED
  BY <1>1, <1>2, <1>3, <1>4 DEF Serve

LEMMA TroubleOnward ==
    ASSUME TypeOK, NEW w \in Workers, Fails(w) \/ Crash(w)
    PROVE  req[w].pc \in Steps /\ Onward(w)
<1>1. req[w].pc \in Steps
  BY DEF Fails, Crash, TypeOK, Requests
<1> QED
  BY <1>1, OnwardThrow, OnwardFinish DEF Fails, Crash, At

-----------------------------------------------------------------------------
(* A request moves forward.                                                *)

\* The request of worker w ends or has fewer steps before it.
Forward(w) == StepsLeft(req'[w]) < StepsLeft(req[w])

\* The steps before a request that stands at step.
LEMMA StepsLeftIs ==
    ASSUME NEW r, NEW step, r.pc = step
    PROVE  LET more == IF r.op = "page" THEN 9 ELSE 0
           IN  /\ step = "idle" => StepsLeft(r) = 0 + more
               /\ step \in {"respond", "forget", "reread"} => StepsLeft(r) = 1 + more
               /\ step \in {"commit", "persist", "putContext"} => StepsLeft(r) = 2 + more
               /\ step = "enforce" => StepsLeft(r) = 3 + more
               /\ step = "poll" => StepsLeft(r) = 4 + more
               /\ step = "pay" => StepsLeft(r) = 5 + more
               /\ step = "save" => StepsLeft(r) = 6 + more
               /\ step = "create" => StepsLeft(r) = 7 + more
               /\ step = "clear" => StepsLeft(r) = 8 + more
               /\ step = "inspect" => StepsLeft(r) = 9 + more
               /\ step = "lock" => StepsLeft(r) = 10 + more
               /\ step = "lockRow" => StepsLeft(r) = 11 + more
  BY DEF StepsLeft, StepsFrom

LEMMA StepsLeftBounded ==
    ASSUME TypeOK, NEW w \in Workers, req[w].pc \in Steps
    PROVE  StepsLeft(req[w]) \in 1 .. 20
  BY AtStep, StepsLeftIs DEF Steps, Provisioning

LEMMA OnwardIsForward ==
    ASSUME TypeOK, NEW w \in Workers, req[w].pc \in Steps, Onward(w)
    PROVE  Forward(w)
  <1>1. CASE req'[w] = Idle
    <2>1. StepsLeft(req'[w]) = 0
      BY <1>1, StepsLeftIs DEF Idle
    <2> QED
      BY <2>1, StepsLeftBounded DEF Forward
  <1>2. CASE req'[w].op = req[w].op /\ Follows(req'[w].pc, w)
    BY <1>2, StepsLeftIs DEF Follows, Forward
  <1>3. CASE /\ req'[w].op = req[w].op
             /\ req'[w].pc = "reread" /\ ~(req[w].pc \in {"reread", "forget", "respond"})
    <2>1. req[w].pc \in {"inspect", "clear", "create", "save", "pay", "poll", "enforce",
                         "lockRow", "lock", "putContext", "commit", "persist"}
      BY <1>3 DEF Steps, Provisioning
    <2> QED
      BY <1>3, <2>1, StepsLeftIs DEF Forward
  <1>4. CASE /\ req[w].op = "page" /\ req[w].pc = "reread"
             /\ req'[w].op = "prepare" /\ req'[w].pc = "inspect"
    <2>1. StepsLeft(req'[w]) = 9 + 0
      BY <1>4, StepsLeftIs
    <2>2. StepsLeft(req[w]) = 1 + 9
      BY <1>4, StepsLeftIs
    <2> QED
      BY <2>1, <2>2 DEF Forward
  <1> QED
    BY <1>1, <1>2, <1>3, <1>4 DEF Onward

\* Whatever a step does, each request is left as it is, marked late, begun, or
\* brought forward.
LEMMA RequestStep ==
    ASSUME Shape, [Next]_vars, NEW w \in Workers
    PROVE  \/ req'[w] = req[w] \/ req[w] = Idle
           \/ req'[w] = [req[w] EXCEPT !.late = TRUE]
           \/ Forward(w)
<1>1. TypeOK
  BY DEF Shape
<1>2. CASE LockExpires
  BY <1>1, <1>2 DEF LockExpires, TypeOK
<1>3. CASE UNCHANGED vars \/ (Environment /\ ~LockExpires)
  BY <1>3 DEF Environment, CustomerPaysPlisio, CustomerPaysOffsite, PanelServes, vars
<1>4. ASSUME NEW v \in Workers, Works(v)
      PROVE  \/ req'[w] = req[w] \/ req[w] = Idle \/ Forward(w)
  <2>1. CASE v # w
    BY <1>4, <2>1, WorkerNext DEF Advances
  <2>2. CASE v = w /\ Arrive(v)
    BY <2>2 DEF Arrive, PlaceOrder, OpenPage, AdminApproves, ChooseGateway, CheckPayment,
                DeliverPlisio, Accept
  <2> QED
    BY <1>1, <1>4, <2>1, <2>2, ServeOnward, TroubleOnward,
       OnwardIsForward DEF Works
<1> QED
  BY <1>2, <1>3, <1>4 DEF Next, Works

\* A request never goes back, to open or to pay another invoice, whatever fails;
\* only a page makes sure of an invoice twice.
THEOREM RequestsAdvanceHolds == Spec => RequestsAdvance
<1> DEFINE Closer == \A w \in Workers :
                        \/ req'[w] = req[w] \/ req[w] = Idle
                        \/ req'[w] = [req[w] EXCEPT !.late = TRUE]
                        \/ StepsLeft(req'[w]) < StepsLeft(req[w])
<1>1. Shape /\ [Next]_vars => Closer
  BY RequestStep DEF Forward
<1>2. Closer => [Closer]_vars
  OBVIOUS
<1> HIDE DEF Closer
<1>3. Spec => [][Closer]_vars
  BY <1>1, <1>2, ShapeInit, ShapeNext, PTL DEF Spec
<1> QED
  BY <1>3 DEF Closer, RequestsAdvance

\* No step a worker takes for its request leaves it where it was, and at most
\* twenty are ever before it: with the fairness of Serve nothing else is needed for
\* a request to end than that one of its steps can always be taken.
THEOREM ServedInTwentySteps ==
    Spec => [][\A w \in Workers : Serve(w) =>
                  /\ StepsLeft(req[w]) \in 1 .. 20
                  /\ StepsLeft(req'[w]) < StepsLeft(req[w])]_vars
<1> DEFINE Shorter == \A w \in Workers : Serve(w) =>
                         /\ StepsLeft(req[w]) \in 1 .. 20
                         /\ StepsLeft(req'[w]) < StepsLeft(req[w])
<1>1. Shape => Shorter
  BY ServeOnward, OnwardIsForward, StepsLeftBounded DEF Shape, Forward
<1>2. Shorter => [Shorter]_vars
  OBVIOUS
<1> HIDE DEF Shorter
<1>3. Spec => [][Shorter]_vars
  BY <1>1, <1>2, ShapeInit, ShapeNext, PTL DEF Spec
<1> QED
  BY <1>3 DEF Shorter

-----------------------------------------------------------------------------
(* Locks belong to requests at work.                                       *)

\* Which requests come to which step.
Roles ==
    \A w \in Workers :
        /\ req[w].pc \in {"persist", "forget"} => ByGateway(w)
        /\ req[w].pc \in {"lockRow", "respond"} => req[w].op = "plisio"
        /\ req[w].pc = "putContext" => ~ByShop(w)
        /\ req[w].pc = "reread" => InPage(w)
        /\ req[w].pc = "lock" => req[w].op # "prepare"

\* What happens elsewhere keeps each request at its step.
LEMMA ElsewhereWaits ==
    ASSUME Shape, Environment \/ UNCHANGED vars
    PROVE  /\ \A w \in Workers : req'[w].op = req[w].op /\ req'[w].pc = req[w].pc
           /\ rowLock' = rowLock /\ provLock' \in {provLock, Nobody}
           /\ ensureLock' \in {ensureLock, Nobody}
<1>1. \A w \in Workers : req'[w].op = req[w].op /\ req'[w].pc = req[w].pc
  <2>1. CASE LockExpires
    BY <2>1, Expires
  <2> QED
    BY <2>1 DEF Environment, CustomerPaysPlisio, CustomerPaysOffsite, PanelServes, vars
<1> QED
  BY <1>1 DEF Environment, CustomerPaysPlisio, CustomerPaysOffsite, PanelServes, LockExpires, vars,
              locks

\* A request is begun at the step its operation begins with.
Begun(w) ==
    /\ req[w] = Idle
    /\ \/ req'[w].op = "plisio" /\ req'[w].pc = "lockRow"
       \/ req'[w].op \in {"ensure", "page", "approve"} /\ req'[w].pc = "lock"
       \/ req'[w].op = "gateway" /\ req'[w].pc = "pay"
       \/ req'[w].op = "check" /\ req'[w].pc = "poll"

LEMMA Arrives ==
    ASSUME TypeOK, NEW w \in Workers, Arrive(w)
    PROVE  Begun(w) /\ UNCHANGED locks
<1>1. PICK op \in Operations, step \in Steps, i \in Invoices \cup {0} :
         /\ Accept(w, op, step, i)
         /\ \/ op = "plisio" /\ step = "lockRow"
            \/ op \in {"ensure", "page", "approve"} /\ step = "lock"
            \/ op = "gateway" /\ step = "pay"
            \/ op = "check" /\ step = "poll"
  BY DEF Arrive, PlaceOrder, OpenPage, AdminApproves, ChooseGateway, CheckPayment,
         DeliverPlisio, Operations, Steps, Provisioning, TypeOK
<1>2. req[w] = Idle /\ req'[w].op = op /\ req'[w].pc = step /\ UNCHANGED locks
  BY <1>1 DEF Accept, Idle, TypeOK
<1> QED
  BY <1>1, <1>2 DEF Begun

LEMMA RolesNext ==
    ASSUME Shape, Roles, [Next]_vars
    PROVE  Roles'
<1>1. CASE Environment \/ UNCHANGED vars
  BY <1>1, ElsewhereWaits DEF Roles, ByGateway, ByShop, InPage, Ensures
<1>2. ASSUME NEW w \in Workers, Works(w) PROVE Roles'
  <2>1. \A v \in Workers \ {w} : req'[v] = req[v]
    BY <1>2, WorkerNext DEF Advances
  <2>2. Begun(w) \/ Onward(w)
    BY <1>2, Arrives, ServeOnward, TroubleOnward DEF Works, Shape
  <2>3. /\ req'[w].pc \in {"persist", "forget"} => ByGateway(w)'
        /\ req'[w].pc \in {"lockRow", "respond"} => req'[w].op = "plisio"
        /\ req'[w].pc = "putContext" => ~ByShop(w)'
        /\ req'[w].pc = "reread" => InPage(w)'
        /\ req'[w].pc = "lock" => req'[w].op # "prepare"
    BY <2>2 DEF Begun, Onward, Follows, Idle, Roles, ByGateway, ByShop, InPage, Ensures
  <2> QED
    BY <2>1, <2>3 DEF Roles, ByGateway, ByShop, InPage, Ensures
<1> QED
  BY <1>1, <1>2 DEF Next, Works

\* Who holds the row's and the ensure lock.
RowOwner == rowLock \in Workers => Fulfils(rowLock)
Ensuring(w) == Ensures(w) /\ req[w].pc \in {"inspect", "clear", "create", "save"}
EnsureOwner == ensureLock \in Workers => Ensuring(ensureLock)

LocksInv == Rows /\ Roles /\ RowOwner /\ EnsureOwner

LEMMA OthersLocks ==
    ASSUME NEW w \in Workers, Works(w)
    PROVE  /\ rowLock' \in {rowLock, w, Nobody}
           /\ ensureLock' \in {ensureLock, w, Nobody, Dead}
           /\ Throw(w) \/ Crash(w) => rowLock' # w /\ ensureLock' # w
<1>1. /\ rowLock' \in {rowLock, w, Nobody}
      /\ ensureLock' \in {ensureLock, w, Nobody, Dead}
  BY ReleasedLock
  DEF Works, Arrive, PlaceOrder, OpenPage, AdminApproves, ChooseGateway, CheckPayment,
      DeliverPlisio, Accept, Serve, Lock, LockRow, TakeProvisionLock, ProvisionLockBusy,
      TakeEnsureLock, EnsureLockBusy, HaveInvoice, Refuse, KeepInvoice, DropInvoice,
      WantInvoice, ClearInvoice, CreateInvoice, RenewUninvoiced, SaveInvoice, HaveIt, Reread,
      PutContext, Pay,
      PayByShop, PayByGateway, Poll, GiveUp, EnforceRenewal, Settle, CommitFulfilment,
      CommitApproval, Persist, ForgetContext, Respond, Fails, Crash, Throw, locks
<1>2. Throw(w) \/ Crash(w) => rowLock' # w /\ ensureLock' # w
  BY WorkerAssumption DEF Throw, Crash, Released
<1> QED
  BY <1>1, <1>2

LEMMA EnsureLockKept ==
    ASSUME Rows, Roles, EnsureOwner, NEW w \in Workers, Works(w), ensureLock' = w
    PROVE  Ensuring(w)'
<1> USE DEF Rows, Shape
<1>1. ~Throw(w) /\ ~Crash(w)
  BY OthersLocks
<1>2. CASE TakeEnsureLock(w)
  <2>1. req'[w].op = req[w].op /\ req'[w].pc = "inspect" /\ Ensures(w)
    BY <1>2, After DEF TakeEnsureLock, At, Steps, Provisioning, InPage, Roles
  <2> QED
    BY <2>1 DEF Ensuring, Ensures
<1>3. CASE ~TakeEnsureLock(w)
  <2>1. ensureLock = w
    BY <1>1, <1>3, ReleasedLock
    DEF Works, Arrive, PlaceOrder, OpenPage, AdminApproves, ChooseGateway, CheckPayment,
        DeliverPlisio, Accept, Serve, Lock, LockRow, TakeProvisionLock, ProvisionLockBusy,
        EnsureLockBusy, HaveInvoice, Refuse, KeepInvoice, DropInvoice, WantInvoice,
        ClearInvoice, CreateInvoice, RenewUninvoiced, SaveInvoice, HaveIt, Reread, PutContext,
        Pay, PayByShop,
        PayByGateway, Poll, GiveUp, EnforceRenewal, Settle, CommitFulfilment, CommitApproval,
        Persist, ForgetContext, Respond, Fails, locks
  <2>2. Ensuring(w)
    BY <2>1 DEF EnsureOwner
  <2>3. ~HaveIt(w)
    BY <2>2, ReleasedLock DEF HaveIt, Ensuring
  <2>4. DropInvoice(w) \/ WantInvoice(w) \/ ClearInvoice(w) \/ CreateInvoice(w)
    BY <1>1, <2>2, <2>3
    DEF Ensuring, Idle, Works, Arrive, PlaceOrder, OpenPage, AdminApproves, ChooseGateway,
        CheckPayment, DeliverPlisio, Accept, Serve, Lock, LockRow, TakeProvisionLock,
        ProvisionLockBusy, TakeEnsureLock, EnsureLockBusy, HaveInvoice, Refuse, KeepInvoice,
        SaveInvoice, Reread, PutContext, Pay, PayByShop, PayByGateway, Poll, GiveUp,
        RenewUninvoiced, ByShop, Ensures, EnforceRenewal, Settle, CommitFulfilment,
        CommitApproval, Persist, ForgetContext, Respond, Fails, At
  <2>5. req'[w].op = req[w].op /\ req'[w].pc \in {"clear", "create", "save"}
    BY <2>4, After
    DEF DropInvoice, WantInvoice, ClearInvoice, CreateInvoice, At, Steps, Provisioning
  <2> QED
    BY <2>2, <2>5 DEF Ensuring, Ensures
<1> QED
  BY <1>2, <1>3

LEMMA RowLockKept ==
    ASSUME Rows, Roles, RowOwner, NEW w \in Workers, Works(w), rowLock' = w
    PROVE  Fulfils(w)'
<1> USE DEF Rows, Shape
<1>1. ~Throw(w) /\ ~Crash(w)
  BY OthersLocks
<1>2. CASE LockRow(w) /\ status # "paid"
  <2>1. req'[w].op = req[w].op /\ req'[w].pc = "lock" /\ req[w].op = "plisio"
    BY <1>2, After DEF LockRow, At, Steps, Roles
  <2> QED
    BY <2>1 DEF Fulfils
<1>3. CASE ~(LockRow(w) /\ status # "paid")
  <2>1. rowLock = w /\ ~CommitFulfilment(w)
    BY <1>1, <1>3, WorkerAssumption
    DEF Works, Arrive, PlaceOrder, OpenPage, AdminApproves, ChooseGateway, CheckPayment,
        DeliverPlisio, Accept, Serve, Lock, LockRow, TakeProvisionLock, ProvisionLockBusy,
        TakeEnsureLock, EnsureLockBusy, HaveInvoice, Refuse, KeepInvoice, DropInvoice,
        WantInvoice, ClearInvoice, CreateInvoice, RenewUninvoiced, SaveInvoice, HaveIt, Reread,
        PutContext, Pay,
        PayByShop, PayByGateway, Poll, GiveUp, EnforceRenewal, Settle, CommitFulfilment,
        CommitApproval, Persist, ForgetContext, Respond, Fails, locks
  <2>2. Fulfils(w) /\ ByShop(w) /\ ~InPage(w) /\ ~ByGateway(w)
    BY <2>1 DEF RowOwner, Fulfils, ByShop, InPage, Ensures, ByGateway
  <2>3. ~Arrive(w)
    BY <2>2, Arrives DEF Begun, Idle, Fulfils
  <2>4. ~Fails(w) /\ Serve(w)
    BY <1>1, <2>3 DEF Works, Fails
  <2>5. PICK step \in {"inspect", "clear", "create", "save", "pay", "poll", "enforce", "commit"},
             i \in Invoices \cup {0} :
           GoTo(w, step) \/ Take(w, step, i)
    <3>1. CASE Lock(w)
      BY <1>1, <1>3, <2>2, <3>1
      DEF Lock, LockRow, TakeProvisionLock, ProvisionLockBusy, TakeEnsureLock, EnsureLockBusy,
          Fulfils, At
    <3>2. CASE HaveInvoice(w)
      BY <1>1, <2>2, <3>2
      DEF HaveInvoice, Refuse, KeepInvoice, DropInvoice, WantInvoice, ClearInvoice,
          CreateInvoice, RenewUninvoiced, SaveInvoice, HaveIt, Reread, PutContext, Roles, At
    <3>3. CASE Pay(w)
      BY <1>1, <2>2, <3>3
      DEF Pay, PayByShop, PayByGateway, Poll, GiveUp, EnforceRenewal
    <3>4. CASE Settle(w)
      BY <2>1, <2>2, <3>4
      DEF Settle, CommitApproval, Persist, ForgetContext, Respond, Roles, Fulfils, At
    <3> QED
      BY <2>4, <3>1, <3>2, <3>3, <3>4 DEF Serve
  <2>6. req[w].pc \in Steps
    BY <2>4, ServeOnward
  <2>7. req'[w].op = req[w].op /\ req'[w].pc = step
    BY <2>5, <2>6, After
  <2> QED
    BY <2>2, <2>5, <2>7 DEF Fulfils
<1> QED
  BY <1>2, <1>3

LEMMA LocksNext == LocksInv /\ [Next]_vars => LocksInv'
<1> SUFFICES ASSUME LocksInv, [Next]_vars PROVE LocksInv'
  OBVIOUS
<1> USE DEF LocksInv
<1>1. Rows' /\ Roles' /\ Shape
  BY RowsNext, RolesNext DEF Rows
<1>2. CASE Environment \/ UNCHANGED vars
  BY <1>1, <1>2, ElsewhereWaits, WorkerAssumption
  DEF RowOwner, EnsureOwner, Fulfils, Ensuring, Ensures
<1>3. ASSUME NEW w \in Workers, Works(w) PROVE RowOwner' /\ EnsureOwner'
  <2>1. \A v \in Workers \ {w} : req'[v] = req[v]
    BY <1>1, <1>3, WorkerNext DEF Advances
  <2>2. /\ rowLock' \in {rowLock, w, Nobody}
        /\ ensureLock' \in {ensureLock, w, Nobody, Dead}
        /\ rowLock' = w => Fulfils(w)'
        /\ ensureLock' = w => Ensuring(w)'
    BY <1>3, OthersLocks, RowLockKept, EnsureLockKept
  <2>3. RowOwner'
    <3>1. ASSUME NEW v \in Workers, rowLock' = v, v # w PROVE Fulfils(v)'
      BY <2>1, <2>2, <3>1, WorkerAssumption DEF RowOwner, Fulfils
    <3> QED
      BY <2>2, <3>1 DEF RowOwner
  <2>4. EnsureOwner'
    <3>1. ASSUME NEW v \in Workers, ensureLock' = v, v # w PROVE Ensuring(v)'
      BY <2>1, <2>2, <3>1, WorkerAssumption DEF EnsureOwner, Ensuring, Ensures
    <3> QED
      BY <2>2, <3>1 DEF EnsureOwner
  <2> QED
    BY <2>3, <2>4
<1> QED
  BY <1>1, <1>2, <1>3 DEF Next, Works

\* No way out of a request leaves a lock behind, and no lock is held by a request
\* that is not at the work the lock is for, but for the locks of dead processes.
THEOREM LocksAtWorkHolds == Spec => []LocksAtWork
<1>1. Init => LocksInv
  BY RowsInit, WorkerAssumption
  DEF Init, LocksInv, Roles, RowOwner, EnsureOwner, Idle
<1>2. LocksInv => LocksAtWork
  BY DEF LocksInv, Rows, Shape, OwnerProvisions, RowOwner, EnsureOwner, Fulfils, Ensuring,
         LocksAtWork
<1> QED
  BY <1>1, <1>2, LocksNext, PTL DEF Spec

-----------------------------------------------------------------------------
(* How often an order is settled, by whichever way.                        *)

\* The requests through a gateway that may still settle the order.
Completing(w) == ByGateway(w) /\ req[w].pc \in {"pay", "poll", "persist"}
Completers == {w \in Workers : Completing(w)}

Total == fulfilled + approved + completed

\* Nothing has settled an order that is not paid.  One that is paid and is no
\* renewal has its service, so that only the requests at work on it settle it again.
Carried ==
    /\ status # "paid" => Total = 0
    /\ status = "paid" /\ kind # "renewal" =>
          config /\ Total + Cardinality(Completers) <= Cardinality(Workers)

CarriedInv == Rows /\ Roles /\ Carried

LEMMA CompletersFinite ==
    /\ IsFiniteSet(Workers) /\ Cardinality(Workers) \in Nat
    /\ IsFiniteSet(Completers) /\ Cardinality(Completers) \in Nat
    /\ IsFiniteSet(Completers') /\ Cardinality(Completers') \in Nat
    /\ Cardinality(Completers) <= Cardinality(Workers)
<1>1. Completers \in SUBSET Workers /\ Completers' \in SUBSET Workers
  BY DEF Completers
<1> QED
  BY <1>1, WorkerAssumption, FS_Subset, FS_CardinalityType

\* A request begins to complete the order only while the order can proceed, and
\* one that goes on was completing it before.
LEMMA CompletesOn ==
    ASSUME Shape, NEW w \in Workers, Works(w)
    PROVE  \/ Completers' \subseteq Completers
           \/ CanProceed /\ UNCHANGED <<status, config, fulfilled, approved, completed>>
<1>1. \A v \in Workers \ {w} : req'[v] = req[v]
  BY WorkerNext DEF Advances
<1>2. CASE Arrive(w)
  <2>1. CASE ChooseGateway(w) \/ CheckPayment(w)
    BY <2>1 DEF ChooseGateway, CheckPayment, Accept, order, counts
  <2>2. CASE ~(ChooseGateway(w) \/ CheckPayment(w))
    <3>1. PICK op \in {"ensure", "page", "approve", "plisio"}, step \in {"lock", "lockRow"},
               i \in Invoices \cup {0} :
             Accept(w, op, step, i)
      BY <1>2, <2>2 DEF Arrive, PlaceOrder, OpenPage, AdminApproves, DeliverPlisio, Shape, TypeOK
    <3>2. req'[w].op = op
      BY <3>1 DEF Accept, Idle, Shape, TypeOK
    <3> QED
      BY <1>1, <3>2 DEF Completers, Completing, ByGateway
  <2> QED
    BY <2>1, <2>2
<1>3. CASE Serve(w) \/ Fails(w) \/ Crash(w)
  <2>1. Onward(w)
    BY <1>3, ServeOnward, TroubleOnward DEF Shape
  <2>2. Completing(w)' => Completing(w)
    BY <2>1 DEF Onward, Follows, Completing, ByGateway, ByShop, InPage, Ensures, Idle
  <2> QED
    BY <1>1, <2>2 DEF Completers, Completing, ByGateway
<1> QED
  BY <1>2, <1>3 DEF Works

\* What a worker's step may do: settle nothing, settle an order that is not paid,
\* or, only through a gateway, one that is.
SettlesNot ==
    /\ UNCHANGED <<fulfilled, approved, completed>>
    /\ UNCHANGED <<status, config>> \/ (status = "none" /\ status' = "pending")
SettlesFirst(w) ==
    /\ status # "paid" /\ Settled /\ Total' = Total + 1 /\ w \notin Completers'
SettlesAgain(w) ==
    /\ status = "paid" /\ Settled /\ Total' = Total + 1
    /\ w \in Completers \ Completers'

LEMMA WorkerCarries ==
    ASSUME Rows, Roles, NEW w \in Workers, Works(w)
    PROVE  SettlesNot \/ SettlesFirst(w) \/ SettlesAgain(w)
<1> USE DEF At
<1>0. fulfilled \in Nat /\ approved \in Nat /\ completed \in Nat
  BY DEF Rows, Shape, TypeOK
<1>1. CASE CommitFulfilment(w)
  <2>1. status # "paid"
    BY <1>1 DEF CommitFulfilment, Rows, RowHeld, Fulfils
  <2>2. req'[w].op = "plisio"
    BY <1>1, After DEF CommitFulfilment, Rows, Shape, Steps
  <2> QED
    BY <1>0, <1>1, <2>1, <2>2
    DEF CommitFulfilment, SettlesFirst, Total, Completers, Completing, ByGateway
<1>2. CASE CommitApproval(w)
  <2>1. req'[w] = Idle
    BY <1>2 DEF CommitApproval, Finish, Rows, Shape, TypeOK
  <2>2. CASE status = "pending"
    BY <1>0, <1>2, <2>1, <2>2
    DEF CommitApproval, SettlesFirst, Total, Completers, Completing, ByGateway, Idle
  <2> QED
    BY <1>2, <2>2 DEF CommitApproval, SettlesNot
<1>3. CASE Persist(w)
  <2>1. req'[w].pc = "forget" /\ req[w] \in Requests
    BY <1>3, After, AtStep DEF Persist, Rows, Shape, Steps
  <2>2. w \notin Completers'
    BY <2>1 DEF Completers, Completing
  <2>3. Total' = Total + 1 /\ Settled
    BY <1>0, <1>3 DEF Persist, Total
  <2>4. CASE status # "paid"
    BY <2>2, <2>3, <2>4 DEF SettlesFirst
  <2>5. CASE status = "paid"
    <3>1. ByGateway(w)
      BY <1>3 DEF Persist, Roles
    <3> QED
      BY <1>3, <2>2, <2>3, <2>5, <3>1 DEF SettlesAgain, Persist, Completers, Completing
  <2> QED
    BY <2>4, <2>5
<1>4. CASE Arrive(w) \/ Lock(w) \/ HaveInvoice(w) \/ Pay(w) \/ Fails(w) \/ Crash(w)
           \/ ForgetContext(w) \/ Respond(w)
  BY <1>4
  DEF SettlesNot, Arrive, PlaceOrder, OpenPage, AdminApproves, ChooseGateway, CheckPayment,
      DeliverPlisio, Accept, Lock, LockRow, TakeProvisionLock, ProvisionLockBusy,
      TakeEnsureLock, EnsureLockBusy, HaveInvoice, Refuse, KeepInvoice, DropInvoice,
      WantInvoice, ClearInvoice, CreateInvoice, RenewUninvoiced, SaveInvoice, Write, Reread,
      PutContext, Pay,
      PayByShop, PayByGateway, Poll, GiveUp, EnforceRenewal, ForgetContext, Respond, Fails,
      Crash, order, counts
<1> QED
  BY <1>1, <1>2, <1>3, <1>4 DEF Works, Serve, Settle

\* Nothing else settles the order, or changes whether it has its service.
LEMMA ElsewhereCarries ==
    ASSUME Shape, Environment \/ UNCHANGED vars
    PROVE  /\ UNCHANGED <<status, config, fulfilled, approved, completed>>
           /\ Completers' = Completers
<1>1. UNCHANGED <<status, config, fulfilled, approved, completed>>
  BY DEF Environment, CustomerPaysPlisio, CustomerPaysOffsite, PanelServes, LockExpires, vars,
         order, counts
<1> QED
  BY <1>1, ElsewhereWaits DEF Completers, Completing, ByGateway

LEMMA CarriedNext == CarriedInv /\ [Next]_vars => CarriedInv'
<1> SUFFICES ASSUME CarriedInv, [Next]_vars PROVE CarriedInv'
  OBVIOUS
<1> USE DEF CarriedInv
<1>1. Rows' /\ Roles' /\ Shape
  BY RowsNext, RolesNext DEF Rows
<1>2. kind' = kind /\ Total \in Nat /\ config \in BOOLEAN
  BY KindStays DEF Rows, Shape, TypeOK, Total
<1> DEFINE n == Cardinality(Workers)
           c == Cardinality(Completers)
           d == Cardinality(Completers')
<1>3. n \in Nat /\ c \in Nat /\ d \in Nat /\ c <= n
  BY CompletersFinite
<1>4. Completers' \subseteq Completers => d <= c
  BY CompletersFinite, FS_Subset
<1>5. ASSUME NEW w \in Workers, w \notin Completers' PROVE d + 1 <= n
  <2>1. Completers' \subseteq Workers \ {w}
    BY <1>5 DEF Completers
  <2>2. Cardinality(Workers \ {w}) = n - 1 /\ IsFiniteSet(Workers \ {w})
    BY CompletersFinite, FS_RemoveElement
  <2>3. d <= n - 1
    BY <2>1, <2>2, FS_Subset
  <2> QED
    BY <1>3, <2>3
<1>6. SUFFICES /\ status' # "paid" => Total' = 0
               /\ status' = "paid" /\ kind # "renewal" => config' /\ Total' + d <= n
  BY <1>1, <1>2 DEF Carried, Completers, Completing, ByGateway
<1>7. /\ status # "paid" => Total = 0
      /\ status = "paid" /\ kind # "renewal" => config /\ Total + c <= n
  BY DEF Carried
<1> HIDE DEF n, c, d
<1>8. CASE Environment \/ UNCHANGED vars
  <2>1. UNCHANGED <<status, config, fulfilled, approved, completed>> /\ Completers' = Completers
    BY <1>1, <1>8, ElsewhereCarries
  <2>2. Total' = Total
    BY <2>1 DEF Total
  <2>3. d <= c
    BY <1>4, <2>1
  <2> QED
    BY <1>2, <1>3, <1>7, <2>1, <2>2, <2>3
<1>9. ASSUME NEW w \in Workers, Works(w)
      PROVE  /\ status' # "paid" => Total' = 0
             /\ status' = "paid" /\ kind # "renewal" => config' /\ Total' + d <= n
  <2>1. CASE SettlesNot
    <3>1. Total' = Total
      BY <2>1 DEF SettlesNot, Total
    <3>2. CASE Completers' \subseteq Completers
      BY <1>2, <1>3, <1>4, <1>7, <2>1, <3>1, <3>2 DEF SettlesNot
    <3>3. CASE CanProceed /\ UNCHANGED <<status, config>>
      BY <1>7, <3>1, <3>3 DEF CanProceed
    <3> QED
      BY <1>1, <1>9, <3>2, <3>3, CompletesOn
  <2>2. CASE SettlesFirst(w)
    <3>1. Total' = 1 /\ d + 1 <= n
      BY <1>5, <1>7, <2>2 DEF SettlesFirst
    <3>2. status' = "paid" /\ (kind # "renewal" => config')
      BY <2>2 DEF SettlesFirst, Settled
    <3> QED
      BY <1>3, <3>1, <3>2
  <2>3. CASE SettlesAgain(w)
    <3>1. Completers' \subseteq Completers \ {w} /\ w \in Completers
      <4>1. Total' # Total
        BY <1>2, <2>3 DEF SettlesAgain
      <4>2. Completers' \subseteq Completers
        BY <1>1, <1>9, <4>1, CompletesOn DEF Total
      <4> QED
        BY <2>3, <4>2 DEF SettlesAgain
    <3>2. Cardinality(Completers \ {w}) = c - 1 /\ IsFiniteSet(Completers \ {w})
      BY <3>1, CompletersFinite, FS_RemoveElement DEF c
    <3>3. d <= c - 1
      BY <3>1, <3>2, FS_Subset DEF d
    <3> QED
      BY <1>2, <1>3, <1>7, <2>3, <3>3 DEF SettlesAgain, Settled
  <2> QED
    BY <1>9, <2>1, <2>2, <2>3, WorkerCarries
<1> QED
  BY <1>8, <1>9 DEF Next, Works

\* An order that is no renewal is settled at most once for each worker, by
\* whichever way: a request that would settle it again was at work before it was
\* settled first, since none is begun after that.
THEOREM CarriedOutBoundedHolds == Spec => []CarriedOutBounded
<1>1. Init => CarriedInv
  BY RowsInit DEF Init, CarriedInv, Roles, Carried, Total, Idle
<1>2. CarriedInv => CarriedOutBounded
  <2>1. SUFFICES ASSUME CarriedInv, kind # "renewal" PROVE Total <= Cardinality(Workers)
    BY DEF CarriedOutBounded, Total
  <2>2. Total \in Nat
    BY <2>1 DEF CarriedInv, Rows, Shape, TypeOK, Total
  <2> QED
    BY <2>1, <2>2, CompletersFinite DEF CarriedInv, Carried
<1> QED
  BY <1>1, <1>2, CarriedNext, PTL DEF Spec

-----------------------------------------------------------------------------
(* How many invoices the shop pays.                                        *)

\* The shop's requests that are past paying and have still to settle the order.
HavePaid == {w \in Workers : ByShop(w) /\ req[w].pc \in {"poll", "enforce", "commit"}}

\* Until the order is paid, each invoice the shop paid belongs to a request at
\* work on it or to one that failed; after that no request is begun that pays.
Owed ==
    /\ status # "paid" => Cardinality(byShop) <= faults + Cardinality(HavePaid)
    /\ status = "paid" =>
          Cardinality(byShop) + Cardinality(ToPay) <= faults + Cardinality(Workers)

\* Only what was placed is approved.
Approvable == \A w \in Workers : req[w].op = "approve" => status # "none"

OwedInv == Rows /\ Approvable /\ Owed

LEMMA PayingFinite ==
    /\ IsFiniteSet(Workers) /\ Cardinality(Workers) \in Nat
    /\ IsFiniteSet(ToPay) /\ Cardinality(ToPay) \in Nat
    /\ IsFiniteSet(ToPay') /\ Cardinality(ToPay') \in Nat
    /\ IsFiniteSet(HavePaid) /\ Cardinality(HavePaid) \in Nat
    /\ IsFiniteSet(HavePaid') /\ Cardinality(HavePaid') \in Nat
    /\ Cardinality(ToPay) + Cardinality(HavePaid) <= Cardinality(Workers)
    /\ Cardinality(ToPay') + Cardinality(HavePaid') <= Cardinality(Workers)
<1>1. /\ ToPay \in SUBSET Workers /\ ToPay' \in SUBSET Workers
      /\ HavePaid \in SUBSET Workers /\ HavePaid' \in SUBSET Workers
      /\ ToPay \cap HavePaid = {} /\ ToPay' \cap HavePaid' = {}
  BY DEF ToPay, HavePaid
<1>2. IsFiniteSet(Workers)
  BY WorkerAssumption
<1>3. ASSUME NEW S, NEW T, S \subseteq Workers, T \subseteq Workers, S \cap T = {}
      PROVE  /\ IsFiniteSet(S) /\ IsFiniteSet(T)
             /\ Cardinality(S) \in Nat /\ Cardinality(T) \in Nat
             /\ Cardinality(S) + Cardinality(T) <= Cardinality(Workers)
  <2>1. IsFiniteSet(S) /\ IsFiniteSet(T)
    BY <1>2, <1>3, FS_Subset
  <2>2. Cardinality(S \cup T) = Cardinality(S) + Cardinality(T) - Cardinality(S \cap T)
    BY <2>1, FS_Union
  <2>3. Cardinality(S \cap T) = 0
    BY <1>3, FS_EmptySet
  <2>4. Cardinality(S) \in Nat /\ Cardinality(T) \in Nat
    BY <2>1, FS_CardinalityType
  <2>5. S \cup T \subseteq Workers
    BY <1>3
  <2>6. Cardinality(S \cup T) <= Cardinality(Workers)
    BY <1>2, <2>5, FS_Subset
  <2> QED
    BY <2>1, <2>2, <2>3, <2>4, <2>6
<1>4. /\ IsFiniteSet(ToPay) /\ IsFiniteSet(HavePaid)
      /\ Cardinality(ToPay) \in Nat /\ Cardinality(HavePaid) \in Nat
      /\ Cardinality(ToPay) + Cardinality(HavePaid) <= Cardinality(Workers)
  BY <1>1, <1>3
<1>5. /\ IsFiniteSet(ToPay') /\ IsFiniteSet(HavePaid')
      /\ Cardinality(ToPay') \in Nat /\ Cardinality(HavePaid') \in Nat
      /\ Cardinality(ToPay') + Cardinality(HavePaid') <= Cardinality(Workers)
  BY <1>1, <1>3
<1> QED
  BY <1>2, <1>4, <1>5, FS_CardinalityType

LEMMA PaidFinite ==
    ASSUME NEW S, S \subseteq Invoices
    PROVE  IsFiniteSet(S) /\ Cardinality(S) \in Nat
<1>1. IsFiniteSet(Invoices)
  BY BoundAssumption, FS_Interval DEF Invoices
<1> QED
  BY <1>1, FS_Subset, FS_CardinalityType

\* What a step may do: pay no invoice, where a request that paid one gives up on
\* the order only by failing; pay one; settle the order.
PaysNone ==
    /\ byShop' = byShop /\ faults' \in {faults, faults + 1}
    /\ status' = "paid" <=> status = "paid"
    /\ IF status = "paid" THEN ToPay' \subseteq ToPay
       ELSE \/ HavePaid \subseteq HavePaid'
            \/ \E w \in HavePaid : HavePaid' = HavePaid \ {w} /\ faults' = faults + 1
PaysOne(w) ==
    /\ w \in ToPay /\ ToPay' = ToPay \ {w}
    /\ w \notin HavePaid /\ HavePaid' = HavePaid \cup {w}
    /\ byShop' = byShop \/ \E i \in Invoices : byShop' = byShop \cup {i}
    /\ UNCHANGED <<status, faults>>
SettlesIt ==
    /\ status' = "paid" /\ ToPay' \subseteq ToPay
    /\ UNCHANGED <<byShop, faults>>

LEMMA OwedStep ==
    ASSUME Shape, Shape', Owed, PaysNone \/ SettlesIt \/ \E w \in Workers : PaysOne(w)
    PROVE  Owed'
<1> DEFINE n == Cardinality(Workers)
           a == Cardinality(ToPay)
           b == Cardinality(ToPay')
           c == Cardinality(HavePaid)
           d == Cardinality(HavePaid')
           k == Cardinality(byShop)
           l == Cardinality(byShop')
           f == faults
           g == faults'
<1>1. /\ n \in Nat /\ a \in Nat /\ b \in Nat /\ c \in Nat /\ d \in Nat /\ k \in Nat /\ l \in Nat
      /\ a + c <= n /\ b + d <= n
      /\ IsFiniteSet(byShop)
  <2>1. byShop \subseteq Invoices /\ byShop' \subseteq Invoices
    BY DEF Shape, TypeOK
  <2>2. IsFiniteSet(byShop) /\ k \in Nat /\ l \in Nat
    BY <2>1, PaidFinite
  <2>3. /\ n \in Nat /\ a \in Nat /\ b \in Nat /\ c \in Nat /\ d \in Nat
        /\ a + c <= n /\ b + d <= n
    BY PayingFinite
  <2> QED
    BY <2>2, <2>3
<1>2. f \in Nat /\ g \in Nat
  BY BoundAssumption DEF Shape, TypeOK
<1>3. SUFFICES /\ status' # "paid" => l <= g + d
               /\ status' = "paid" => l + b <= g + n
  BY DEF Owed
<1>4. /\ status # "paid" => k <= f + c
      /\ status = "paid" => k + a <= f + n
  BY DEF Owed
<1>5. /\ byShop' = byShop => l <= k
      /\ ToPay' \subseteq ToPay => b <= a
      /\ HavePaid \subseteq HavePaid' => c <= d
      /\ \A w \in HavePaid : HavePaid' = HavePaid \ {w} => d = c - 1
  <2>1. byShop' = byShop => l <= k
    BY <1>1
  <2>2. ToPay' \subseteq ToPay => b <= a
    BY PayingFinite, FS_Subset
  <2>3. HavePaid \subseteq HavePaid' => c <= d
    BY PayingFinite, FS_Subset
  <2>4. \A w \in HavePaid : HavePaid' = HavePaid \ {w} => d = c - 1
    BY PayingFinite, FS_RemoveElement
  <2> QED
    BY <2>1, <2>2, <2>3, <2>4
<1> HIDE DEF n, a, b, c, d, k, l, f, g
<1>6. CASE PaysNone
  <2>0. l <= k /\ f <= g /\ (status' = "paid" <=> status = "paid")
    BY <1>2, <1>5, <1>6 DEF PaysNone, f, g
  <2>1. CASE status = "paid"
    <3>1. b <= a
      BY <1>5, <1>6, <2>1 DEF PaysNone
    <3>2. k + a <= f + n
      BY <1>4, <2>1
    <3>3. l + b <= g + n
      BY <1>1, <1>2, <2>0, <3>1, <3>2
    <3> QED
      BY <2>0, <2>1, <3>3
  <2>2. CASE status # "paid" /\ HavePaid \subseteq HavePaid'
    <3>1. c <= d
      BY <1>5, <2>2
    <3>2. k <= f + c
      BY <1>4, <2>2
    <3>3. l <= g + d
      BY <1>1, <1>2, <2>0, <3>1, <3>2
    <3> QED
      BY <2>0, <2>2, <3>3
  <2>3. ASSUME status # "paid", NEW w \in HavePaid, HavePaid' = HavePaid \ {w}, faults' = faults + 1
        PROVE  l <= g + d
    <3>1. d = c - 1 /\ g = f + 1
      BY <1>5, <2>3 DEF f, g
    <3> QED
      BY <1>1, <1>2, <1>4, <2>0, <2>3, <3>1
  <2> QED
    BY <1>6, <2>0, <2>1, <2>2, <2>3 DEF PaysNone
<1>7. CASE SettlesIt
  <2>1. l <= k /\ b <= a /\ g = f /\ status' = "paid"
    BY <1>5, <1>7 DEF SettlesIt, f, g
  <2> QED
    BY <1>1, <1>2, <1>4, <2>1
<1>8. ASSUME NEW w \in Workers, PaysOne(w)
      PROVE  /\ status' # "paid" => l <= g + d
             /\ status' = "paid" => l + b <= g + n
  <2>1. b = a - 1
    BY <1>8, PayingFinite, FS_RemoveElement DEF PaysOne, a, b
  <2>2. d = c + 1
    BY <1>8, PayingFinite, FS_AddElement DEF PaysOne, c, d
  <2>3. l <= k + 1
    <3>1. CASE byShop' = byShop
      BY <1>1, <1>5, <3>1
    <3>2. ASSUME NEW i, byShop' = byShop \cup {i} PROVE l <= k + 1
      <4>1. l = k \/ l = k + 1
        BY <1>1, <3>2, FS_AddElement DEF k, l
      <4> QED
        BY <1>1, <4>1
    <3> QED
      BY <1>1, <1>8, <3>1, <3>2 DEF PaysOne
  <2>4. status' = status /\ g = f
    BY <1>8 DEF PaysOne, f, g
  <2> QED
    BY <1>1, <1>2, <1>4, <2>1, <2>2, <2>3, <2>4
<1> QED
  BY <1>6, <1>7, <1>8

\* The shop's requests take no part in an order that is settled, but those that
\* do so already; and one that paid an invoice goes on to the settlement.
LEMMA ShopRequests ==
    ASSUME Rows, NEW w \in Workers, Serve(w) \/ Fails(w) \/ Crash(w)
    PROVE  /\ \A v \in Workers \ {w} : req'[v] = req[v]
           /\ status = "paid" \/ ~LockRow(w) => ToPay' \subseteq ToPay
           /\ ~PayByShop(w) /\ (RenewUninvoiced(w) => Throw(w)) => HavePaid' \subseteq HavePaid
           /\ w \notin HavePaid => HavePaid \subseteq HavePaid'
           /\ w \in HavePaid => HavePaid \ {w} \subseteq HavePaid'
<1> USE DEF Rows, Shape
<1>1. \A v \in Workers \ {w} : req'[v] = req[v]
  BY WorkerNext DEF Works, Advances
<1>2. Onward(w)
  BY ServeOnward, TroubleOnward
<1>3. ASSUME status = "paid" \/ ~LockRow(w), w \in ToPay' PROVE w \in ToPay
  <2>1. CASE LockRow(w)
    <3>1. req'[w].pc = "respond"
      BY <1>3, <2>1, After DEF LockRow, At, Steps
    <3> QED
      BY <1>3, <3>1 DEF ToPay
  <2>2. CASE req[w].pc = "lockRow" /\ ~LockRow(w)
    <3>1. req'[w] = Idle \/ req'[w].pc = "reread"
      <4>1. Throw(w) \/ Finish(w)
        BY <2>2 DEF Serve, Lock, LockRow, TakeProvisionLock, ProvisionLockBusy, TakeEnsureLock,
           EnsureLockBusy, HaveInvoice, Refuse, KeepInvoice, DropInvoice, WantInvoice,
           ClearInvoice, CreateInvoice, RenewUninvoiced, SaveInvoice, Reread, PutContext, Pay,
           PayByShop,
           PayByGateway, Poll, GiveUp, EnforceRenewal, Settle, CommitFulfilment, CommitApproval,
           Persist, ForgetContext, Respond, Fails, Crash, At
      <4> QED
        BY <2>2, <4>1, Throws, After DEF Steps
    <3> QED
      BY <1>3, <3>1 DEF ToPay, Idle
  <2>3. CASE req[w].pc # "lockRow"
    BY <1>2, <1>3, <2>3 DEF Onward, Follows, ToPay, ByShop, InPage, Ensures, Idle
  <2> QED
    BY <2>1, <2>2, <2>3
<1>4. ASSUME ~PayByShop(w), RenewUninvoiced(w) => Throw(w), w \in HavePaid'
      PROVE  w \in HavePaid
  <2>1. CASE req[w].pc = "pay"
    <3>1. req'[w] = Idle \/ req'[w].pc = "reread" \/ ByGateway(w)
      <4>1. Throw(w) \/ Finish(w) \/ PayByGateway(w)
        BY <1>4, <2>1 DEF Serve, Lock, LockRow, TakeProvisionLock, ProvisionLockBusy,
           TakeEnsureLock, EnsureLockBusy, HaveInvoice, Refuse, KeepInvoice, DropInvoice,
           WantInvoice, ClearInvoice, CreateInvoice, RenewUninvoiced, SaveInvoice, Reread,
           PutContext, Pay,
           Poll, GiveUp, EnforceRenewal, Settle, CommitFulfilment, CommitApproval,
           Persist, ForgetContext, Respond, Fails, Crash, At
      <4> QED
        BY <2>1, <4>1, Throws, After DEF Steps, Provisioning, PayByGateway
    <3> QED
      BY <1>2, <1>4, <2>1, <3>1
      DEF Onward, HavePaid, Idle, ByShop, ByGateway, InPage, Ensures
  <2>2. CASE req[w].pc = "create"
    <3>1. req'[w] = Idle \/ req'[w].pc \in {"reread", "save"}
      <4>1. Throw(w) \/ Finish(w) \/ CreateInvoice(w)
        BY <1>4, <2>2 DEF Serve, Lock, LockRow, TakeProvisionLock, ProvisionLockBusy,
           TakeEnsureLock, EnsureLockBusy, HaveInvoice, Refuse, KeepInvoice, DropInvoice,
           WantInvoice, ClearInvoice, SaveInvoice, Reread, PutContext, Pay, PayByShop,
           PayByGateway, Poll, GiveUp, EnforceRenewal, Settle, CommitFulfilment,
           CommitApproval, Persist, ForgetContext, Respond, Fails, Crash, At
      <4> QED
        BY <2>2, <4>1, Throws, After DEF Steps, Provisioning, CreateInvoice
    <3> QED
      BY <1>4, <3>1 DEF HavePaid, Idle
  <2>3. CASE ~(req[w].pc \in {"pay", "create"})
    BY <1>2, <1>4, <2>3 DEF Onward, Follows, HavePaid, ByShop, InPage, Ensures, Idle
  <2> QED
    BY <2>1, <2>2, <2>3
<1>5. /\ \A v \in Workers \ {w} : v \in ToPay' <=> v \in ToPay
      /\ \A v \in Workers \ {w} : v \in HavePaid' <=> v \in HavePaid
      /\ ToPay' \subseteq Workers /\ HavePaid' \subseteq Workers /\ HavePaid \subseteq Workers
  BY <1>1 DEF ToPay, HavePaid, ByShop
<1> QED
  BY <1>1, <1>3, <1>4, <1>5

LEMMA ArriveOwes ==
    ASSUME Rows, NEW w \in Workers, Arrive(w)
    PROVE  PaysNone
<1> USE DEF Rows, Shape
<1>1. PICK op \in Operations, step \in {"lock", "lockRow", "pay", "poll"},
           i \in Invoices \cup {0} :
         /\ Accept(w, op, step, i)
         /\ status' = status \/ (status = "none" /\ status' = "pending")
         /\ status = "paid" => op \in {"gateway", "check"} \/ step = "lockRow"
         /\ op \in {"plisio", "approve"} => step \in {"lock", "lockRow"}
  BY DEF Arrive, PlaceOrder, OpenPage, AdminApproves, ChooseGateway, CheckPayment,
         DeliverPlisio, Operations, order, TypeOK
<1>2. /\ byShop' = byShop /\ faults' = faults
      /\ \A v \in Workers \ {w} : req'[v] = req[v]
      /\ req'[w].op = op /\ req'[w].pc = step /\ req[w] = Idle
  BY <1>1 DEF Accept, Idle, TypeOK, panel
<1>3. HavePaid \subseteq HavePaid'
  BY <1>2 DEF HavePaid, ByShop, Idle
<1>4. status = "paid" => ToPay' \subseteq ToPay
  BY <1>1, <1>2 DEF ToPay, ByShop
<1> QED
  BY <1>1, <1>2, <1>3, <1>4 DEF PaysNone

LEMMA PaymentOwes ==
    ASSUME Rows, NEW w \in Workers, PayByShop(w)
    PROVE  PaysNone \/ PaysOne(w)
<1> USE DEF Rows, Shape
<1>0. /\ w \in ToPay /\ w \notin HavePaid
      /\ UNCHANGED <<status, faults>>
  BY DEF PayByShop, At, ToPay, HavePaid, order, budget
<1>1. CASE ~autoPay
  <2>1. byShop' = byShop
    BY <1>1 DEF PayByShop
  <2>2. ToPay' \subseteq ToPay /\ HavePaid \subseteq HavePaid'
    BY <1>0, ShopRequests DEF Serve, Pay, PayByShop, LockRow, At
  <2> QED
    BY <1>0, <2>1, <2>2 DEF PaysNone
<1>2. CASE autoPay
  <2>1. \A v \in Workers : /\ req'[v].op = req[v].op
                           /\ req'[v].pc = IF v = w THEN "poll" ELSE req[v].pc
    BY <1>2, After DEF PayByShop, At, Steps, Provisioning
  <2>2. ToPay' = ToPay \ {w} /\ HavePaid' = HavePaid \cup {w}
    BY <1>0, <2>1 DEF ToPay, HavePaid, ByShop
  <2>3. Hand(w) \in Invoices
    BY AtStep DEF PayByShop, At, Handed, Hand, Requests, Steps, Provisioning
  <2>4. byShop' = byShop \/ byShop' = byShop \cup {Hand(w)}
    BY <1>2 DEF PayByShop
  <2> QED
    BY <1>0, <2>2, <2>3, <2>4 DEF PaysOne
<1> QED
  BY <1>1, <1>2

LEMMA ServeOwes ==
    ASSUME Rows, Approvable, NEW w \in Workers, Serve(w), ~PayByShop(w)
    PROVE  PaysNone \/ SettlesIt
<1> USE DEF Rows, Shape
<1>1. byShop' = byShop /\ faults' \in {faults, faults + 1}
  BY DEF Serve, Lock, LockRow, TakeProvisionLock, ProvisionLockBusy, TakeEnsureLock,
         EnsureLockBusy, HaveInvoice, Refuse, KeepInvoice, DropInvoice, WantInvoice,
         ClearInvoice, CreateInvoice, RenewUninvoiced, SaveInvoice, Reread, PutContext, Pay,
         PayByGateway, Poll,
         GiveUp, EnforceRenewal, Settle, CommitFulfilment, CommitApproval, Persist,
         ForgetContext, Respond, Fault, panel, budget
<1>2. CASE CommitFulfilment(w) \/ Persist(w) \/ (CommitApproval(w) /\ status = "pending")
  <2>1. status' = "paid" /\ faults' = faults /\ ~LockRow(w)
    BY <1>2 DEF CommitFulfilment, Persist, CommitApproval, Settled, budget, LockRow, At
  <2> QED
    BY <1>1, <2>1, ShopRequests DEF SettlesIt
<1>3. CASE CommitApproval(w) /\ status # "pending"
  <2>1. status = "paid" /\ status' = status
    BY <1>3 DEF CommitApproval, Approvable, TypeOK
  <2> QED
    BY <1>1, <2>1, ShopRequests DEF PaysNone
<1>4. CASE ~CommitFulfilment(w) /\ ~Persist(w) /\ ~CommitApproval(w)
  <2>1. status' = status
    BY <1>4 DEF Serve, Lock, LockRow, TakeProvisionLock, ProvisionLockBusy, TakeEnsureLock,
         EnsureLockBusy, HaveInvoice, Refuse, KeepInvoice, DropInvoice, WantInvoice,
         ClearInvoice, CreateInvoice, RenewUninvoiced, SaveInvoice, Write, Reread, PutContext,
         Pay, PayByGateway,
         Poll, GiveUp, EnforceRenewal, Settle, ForgetContext, Respond, order
  <2>2. HavePaid \subseteq HavePaid'
    <3>1. CASE w \in HavePaid
      <4>1. Poll(w) \/ EnforceRenewal(w)
        BY <1>4, <3>1 DEF HavePaid, ByShop, ByGateway, Serve, Lock, LockRow, TakeProvisionLock,
         ProvisionLockBusy, TakeEnsureLock, EnsureLockBusy, HaveInvoice, Refuse, KeepInvoice,
         DropInvoice, WantInvoice, ClearInvoice, CreateInvoice, RenewUninvoiced, SaveInvoice,
         Reread, PutContext,
         Pay, PayByGateway, GiveUp, Settle, ForgetContext, Respond, At
      <4>2. req'[w].op = req[w].op /\ req'[w].pc \in {"enforce", "commit"}
        BY <3>1, <4>1, After
        DEF Poll, EnforceRenewal, At, Steps, Provisioning, HavePaid, ByShop, ByGateway
      <4>3. w \in HavePaid'
        BY <3>1, <4>2 DEF HavePaid, ByShop
      <4> QED
        BY <3>1, <4>3, ShopRequests
    <3> QED
      BY <3>1, ShopRequests
  <2> QED
    BY <1>1, <2>1, <2>2, ShopRequests DEF PaysNone
<1> QED
  BY <1>2, <1>3, <1>4

LEMMA TroubleOwes ==
    ASSUME Rows, NEW w \in Workers, Fails(w) \/ Crash(w)
    PROVE  PaysNone
<1>1. UNCHANGED <<byShop, status>> /\ faults' = faults + 1
  BY DEF Fails, Crash, Fault, order, panel
<1>2. faults' # faults
  BY <1>1, BoundAssumption DEF Rows, Shape, TypeOK
<1>3. ~LockRow(w) /\ ~PayByShop(w) /\ (RenewUninvoiced(w) => Throw(w))
  BY <1>2 DEF LockRow, PayByShop, RenewUninvoiced, budget
<1>4. /\ ToPay' \subseteq ToPay /\ HavePaid' \subseteq HavePaid
      /\ HavePaid \ {w} \subseteq HavePaid'
  BY <1>3, ShopRequests
<1>5. HavePaid' = HavePaid \/ (w \in HavePaid /\ HavePaid' = HavePaid \ {w})
  BY <1>4
<1> QED
  BY <1>1, <1>4, <1>5 DEF PaysNone

LEMMA ElsewhereOwes ==
    ASSUME Rows, Environment \/ UNCHANGED vars
    PROVE  PaysNone
<1>1. /\ \A w \in Workers : req'[w].op = req[w].op /\ req'[w].pc = req[w].pc
      /\ status' = status
  BY ElsewhereCarries, ElsewhereWaits DEF Rows
<1>2. byShop' = byShop /\ faults' \in {faults, faults + 1}
  BY DEF Environment, CustomerPaysPlisio, CustomerPaysOffsite, PanelServes, LockExpires, Fault,
         vars, panel, budget
<1>3. ToPay' = ToPay /\ HavePaid' = HavePaid
  BY <1>1 DEF ToPay, HavePaid, ByShop
<1> QED
  BY <1>1, <1>2, <1>3 DEF PaysNone

LEMMA ApprovableNext ==
    ASSUME Rows, Approvable, [Next]_vars
    PROVE  Approvable'
<1> USE DEF Rows
<1>1. CASE Environment \/ UNCHANGED vars
  BY <1>1, ElsewhereCarries, ElsewhereWaits DEF Approvable
<1>2. ASSUME NEW w \in Workers, Works(w) PROVE Approvable'
  <2>1. /\ \A v \in Workers \ {w} : req'[v] = req[v]
        /\ status # "none" => status' # "none"
    BY <1>2, WorkerNext, WorkerSettles
    DEF Advances, Settles, Placed, CarriedOut, Approved, Acknowledged, Unsettled
  <2>2. req'[w].op = "approve" => status' # "none"
    <3>1. CASE Arrive(w)
      BY <3>1 DEF Arrive, PlaceOrder, OpenPage, AdminApproves, ChooseGateway, CheckPayment,
                  DeliverPlisio, Accept, Idle, order, Shape, TypeOK
    <3>2. CASE Onward(w)
      BY <2>1, <3>2 DEF Onward, Approvable, Idle
    <3> QED
      BY <1>2, <3>1, <3>2, ServeOnward, TroubleOnward DEF Works, Shape
  <2> QED
    BY <2>1, <2>2 DEF Approvable
<1> QED
  BY <1>1, <1>2 DEF Next, Works

LEMMA OwedNext == OwedInv /\ [Next]_vars => OwedInv'
<1> SUFFICES ASSUME OwedInv, [Next]_vars PROVE OwedInv'
  OBVIOUS
<1> USE DEF OwedInv
<1>1. Rows' /\ Approvable' /\ Shape /\ Shape'
  BY RowsNext, ApprovableNext DEF Rows
<1>2. PaysNone \/ SettlesIt \/ \E w \in Workers : PaysOne(w)
  BY ArriveOwes, PaymentOwes, ServeOwes, TroubleOwes, ElsewhereOwes DEF Next
<1> QED
  BY <1>1, <1>2, OwedStep

\* The invoices of an order that the shop paid and those it may yet pay are at most
\* one for each worker and one for each request that failed, however callbacks and
\* approvals overlap and whichever locks run out under them.
THEOREM ShopPaymentsBoundedHolds == Spec => []ShopPaymentsBounded
<1>1. Init => OwedInv
  <2>1. SUFFICES ASSUME Init PROVE Approvable /\ Owed
    BY RowsInit DEF OwedInv
  <2>2. HavePaid = {} /\ byShop = {} /\ faults = 0 /\ status = "none"
    BY <2>1 DEF Init, HavePaid, ByShop, Idle
  <2>3. Owed
    BY <2>2, FS_EmptySet DEF Owed
  <2> QED
    BY <2>1, <2>3 DEF Init, Approvable, Idle
<1>2. OwedInv => ShopPaymentsBounded
  <2>1. SUFFICES ASSUME OwedInv PROVE ShopPaymentsBounded
    OBVIOUS
  <2>2. faults \in Nat /\ Cardinality(byShop) \in Nat
    BY <2>1, BoundAssumption, PaidFinite DEF OwedInv, Rows, Shape, TypeOK
  <2> QED
    BY <2>1, <2>2, PayingFinite DEF OwedInv, Owed, ShopPaymentsBounded
<1> QED
  BY <1>1, <1>2, OwedNext, PTL DEF Spec
=============================================================================
