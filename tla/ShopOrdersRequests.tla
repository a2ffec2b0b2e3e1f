-------------------------- MODULE ShopOrdersRequests --------------------------
(***************************************************************************)
(* How a request of ShopOrders goes through its statements, and how often  *)
(* approvals that overlap are carried out, for any number of workers.      *)
(***************************************************************************)
EXTENDS ShopOrdersSafety, FiniteSetTheorems

-----------------------------------------------------------------------------
(* A request moves forward.                                                *)

\* The request of worker w is over, or stays the same one with fewer statements
\* before it; nobody else's changes.
Forward(w) ==
    /\ \A v \in Workers \ {w} : req'[v] = req[v]
    /\ req'[w] = Idle \/ (req'[w].op = req[w].op /\ req'[w].ord = req[w].ord)
    /\ StepsLeft(req'[w]) < StepsLeft(req[w])

\* How many statements are left depends on the operation and the statement.
LEMMA StepsLeftIs ==
    ASSUME NEW r, NEW step, r.pc = step
    PROVE  /\ step = "idle" => StepsLeft(r) = 0
           /\ step \in {"respond", "refund", "write", "delete"} => StepsLeft(r) = 1
           /\ step \in {"commit", "markFailed"} => StepsLeft(r) = 2
           /\ step = "lockUser" =>
                StepsLeft(r) = IF InBot(r.op) \/ r.op = "webWallet" THEN 5 ELSE 3
           /\ step = "lockOrder" =>
                StepsLeft(r) = IF r.op = "webWallet" THEN 3 ELSE IF InBot(r.op) THEN 4 ELSE 5
           /\ step = "panel" =>
                StepsLeft(r) = IF InBot(r.op) THEN 3 ELSE IF r.op = "approve" THEN 6 ELSE 4
  BY DEF StepsLeft

LEMMA Served ==
    ASSUME Shape, NEW w \in Workers, req[w].pc # "idle"
    PROVE  /\ req \in [Workers -> Requests \cup {Idle}]
           /\ req[w] \in Requests /\ Fits(req[w])
           /\ StepsLeft(req[w]) \in 1..6
  <1>1. req \in [Workers -> Requests \cup {Idle}] /\ req[w] \in Requests /\ Fits(req[w])
    BY InRequest DEF Shape, TypeOK
  <1> QED
    BY <1>1, StepsLeftIs DEF Requests, Steps

LEMMA ForwardFinish ==
    ASSUME Shape, NEW w \in Workers, req[w].pc # "idle", Finish(w)
    PROVE  Forward(w)
  <1>1. /\ \A v \in Workers \ {w} : req'[v] = req[v]
        /\ req'[w] = Idle
    BY Served DEF Finish
  <1>2. StepsLeft(req'[w]) = 0
    BY <1>1, StepsLeftIs DEF Idle
  <1> QED
    BY <1>1, <1>2, Served DEF Forward

\* The request becomes what it was, at another statement.
LEMMA ForwardTo ==
    ASSUME Shape, NEW w \in Workers, req[w].pc # "idle", NEW step, NEW ok,
           req' = [req EXCEPT ![w] = [op |-> req[w].op, ord |-> req[w].ord,
                                      pc |-> step, ok |-> ok]],
           \A r : r.op = req[w].op /\ r.pc = step => StepsLeft(r) < StepsLeft(req[w])
    PROVE  Forward(w)
  <1>1. /\ \A v \in Workers \ {w} : req'[v] = req[v]
        /\ req'[w].op = req[w].op /\ req'[w].ord = req[w].ord /\ req'[w].pc = step
    BY Served
  <1> QED
    BY <1>1 DEF Forward

LEMMA ForwardGoTo ==
    ASSUME Shape, NEW w \in Workers, req[w].pc # "idle", NEW step, GoTo(w, step),
           \A r : r.op = req[w].op /\ r.pc = step => StepsLeft(r) < StepsLeft(req[w])
    PROVE  Forward(w)
  <1>1. req' = [req EXCEPT ![w] = [op |-> req[w].op, ord |-> req[w].ord,
                                   pc |-> step, ok |-> req[w].ok]]
    BY AdvanceIs, Served DEF GoTo
  <1> QED
    BY <1>1, ForwardTo

LEMMA ForwardAdvance ==
    ASSUME Shape, NEW w \in Workers, req[w].pc \in {"lockOrder", "panel", "lockUser"}, NEW ok,
           req' = [req EXCEPT ![w] = [op |-> req[w].op, ord |-> req[w].ord,
                                      pc |-> StepAfter(req[w]), ok |-> ok]]
    PROVE  Forward(w)
  <1>1. Fits(req[w]) /\ req[w] \in Requests
    BY Served
  <1>2. /\ req[w].op \in {"plisio", "approve", "webWallet", "botWallet", "botRenew"}
        /\ StepAfter(req[w]) \in {"panel", "lockOrder", "lockUser", "commit"}
    BY <1>1 DEF Fits, Requests, Operations, StepAfter, InBot
  <1>3. \A r : r.op = req[w].op /\ r.pc = StepAfter(req[w]) => StepsLeft(r) < StepsLeft(req[w])
    <2>1. SUFFICES ASSUME NEW r, r.op = req[w].op, r.pc = StepAfter(req[w])
                   PROVE  StepsLeft(r) < StepsLeft(req[w])
      OBVIOUS
    <2>2. CASE req[w].pc = "lockOrder"
      BY <1>2, <2>1, <2>2, StepsLeftIs DEF StepAfter, InBot
    <2>3. CASE req[w].pc = "panel"
      BY <1>2, <2>1, <2>3, StepsLeftIs DEF StepAfter, InBot
    <2>4. CASE req[w].pc = "lockUser"
      BY <1>2, <2>1, <2>4, StepsLeftIs DEF StepAfter, InBot
    <2> QED
      BY <2>2, <2>3, <2>4
  <1> QED
    BY <1>3, ForwardTo

LEMMA ForwardThrow ==
    ASSUME Shape, NEW w \in Workers, req[w].pc \in {"lockOrder", "panel", "lockUser"}, Throw(w)
    PROVE  Forward(w)
  <1>1. ASSUME NEW step \in {"markFailed", "refund"}, GoTo(w, step), InBot(req[w].op)
        PROVE  Forward(w)
    <2>1. \A r : r.op = req[w].op /\ r.pc = step => StepsLeft(r) < StepsLeft(req[w])
      BY <1>1, StepsLeftIs DEF InBot
    <2> QED
      BY <1>1, <2>1, ForwardGoTo
  <1> QED
    BY <1>1, ForwardFinish DEF Throw, InBot

LEMMA ServeForward ==
    ASSUME Shape, NEW w \in Workers, Serve(w)
    PROVE  Forward(w)
  <1>1. req[w].pc # "idle"
    BY DEF Serve, Locking, FindSettled, LockOrder, LockMissing, LockUser, LockWaitFails,
           Provisioning, PanelAnswers, PanelFails, Writing, CommitFulfilment, Respond,
           CommitApproval, CommitWalletPayment, WriteNowPayments, DeleteOrder, MarkFailed,
           Refund, Committing, At
  <1>2. ASSUME Advance(w), req[w].pc \in {"lockOrder", "panel", "lockUser"} PROVE Forward(w)
    BY <1>2, AdvanceRecord, ForwardAdvance
  <1>3. ASSUME NEW step \in {"respond", "refund"}, GoTo(w, step), StepsLeft(req[w]) > 1
        PROVE  Forward(w)
    BY <1>1, <1>3, StepsLeftIs, ForwardGoTo
  <1>4. CASE Locking(w)
    <2>1. CASE FindSettled(w)
      <3>1. StepsLeft(req[w]) > 1
        BY <2>1, StepsLeftIs DEF FindSettled, At
      <3> QED
        BY <1>3, <2>1, <3>1 DEF FindSettled
    <2>2. CASE LockWaitFails(w)
      BY <1>1, <2>2, ForwardThrow, ForwardFinish DEF LockWaitFails
    <2> QED
      BY <1>2, <1>4, <2>1, <2>2, ForwardThrow DEF Locking, LockOrder, LockMissing, LockUser, At
  <1>5. CASE Provisioning(w)
    <2>1. req[w].pc = "panel"
      BY <1>5 DEF Provisioning, PanelAnswers, PanelFails, At
    <2>2. CASE req' = [req EXCEPT ![w] =
                  [op |-> @.op, ord |-> @.ord, pc |-> StepAfter(@), ok |-> FALSE]]
      <3>1. req' = [req EXCEPT ![w] = [op |-> req[w].op, ord |-> req[w].ord,
                                       pc |-> StepAfter(req[w]), ok |-> FALSE]]
        BY <1>1, <2>2, Served
      <3> QED
        BY <2>1, <3>1, ForwardAdvance
    <2> QED
      BY <1>1, <1>2, <1>5, <2>1, <2>2, ForwardThrow, ForwardFinish
      DEF Provisioning, PanelAnswers, PanelFails
  <1>6. CASE Writing(w)
    <2>1. CASE CommitFulfilment(w)
      <3>1. StepsLeft(req[w]) > 1
        BY <2>1, StepsLeftIs DEF CommitFulfilment, Committing, At
      <3> QED
        BY <1>3, <2>1, <3>1 DEF CommitFulfilment
    <2>2. CASE MarkFailed(w)
      <3>1. StepsLeft(req[w]) > 1
        BY <2>2, StepsLeftIs DEF MarkFailed, At
      <3> QED
        BY <1>3, <2>2, <3>1 DEF MarkFailed
    <2> QED
      BY <1>1, <1>6, <2>1, <2>2, ForwardFinish
      DEF Writing, Respond, CommitApproval, CommitWalletPayment, WriteNowPayments,
          DeleteOrder, Refund
  <1> QED
    BY <1>4, <1>5, <1>6 DEF Serve

LEMMA CrashForward ==
    ASSUME Shape, NEW w \in Workers, Crash(w)
    PROVE  Forward(w)
  <1>1. req[w].pc # "idle"
    BY DEF Crash, Shape, TypeOK, Requests, Steps
  <1> QED
    BY <1>1, ForwardFinish DEF Crash

\* A worker takes on a request only when it has none.
LEMMA Received ==
    ASSUME Shape, NEW w \in Workers, Receive(w)
    PROVE  \E op \in Operations, o \in Orders :
              /\ req[w] = Idle
              /\ req' = [req EXCEPT ![w] = [op |-> op, ord |-> o, pc |-> FirstStep(op, o),
                                           ok |-> TRUE]]
              /\ op = "approve" => status[o] = "pending"
              /\ UNCHANGED <<status, counts>>
  BY DEF Receive, DeliverPlisio, DeliverNowPayments, AdminApproves, AdminCancels,
     PayFromWalletOnSite, PayFromWalletInBot, RenewFromWalletInBot, Requested, Accept,
     Operations, Orders

LEMMA Waits ==
    ASSUME \/ \E o \in Orders : PlaceOrder(o) \/ CustomerPaysPlisio(o) \/ AdminReopens(o)
           \/ UNCHANGED vars
    PROVE  req' = req
  BY DEF PlaceOrder, CustomerPaysPlisio, AdminReopens, vars

\* Whatever a request waits for and however the wait or the panel call ends, it
\* never comes back to a statement: it has ever fewer before it, six at most, so
\* a request whose steps are taken ends.
THEOREM RequestsAdvanceHolds == Spec => RequestsAdvance
  <1>1. Shape /\ [Next]_vars =>
          \A w \in Workers :
             req[w] # Idle /\ req'[w] # req[w] => StepsLeft(req'[w]) < StepsLeft(req[w])
    <2>1. SUFFICES ASSUME Shape, [Next]_vars, NEW w \in Workers, req[w] # Idle, req'[w] # req[w]
                   PROVE  StepsLeft(req'[w]) < StepsLeft(req[w])
      OBVIOUS
    <2>2. PICK v \in Workers : Receive(v) \/ Serve(v) \/ Crash(v)
      BY <2>1, Waits DEF Next, Customers
    <2>3. CASE Serve(v) \/ Crash(v)
      BY <2>1, <2>2, <2>3, ServeForward, CrashForward DEF Forward
    <2>4. CASE Receive(v)
      <3>1. req[v] = Idle /\ \A u \in Workers \ {v} : req'[u] = req[u]
        BY <2>1, <2>2, <2>4, Received DEF Shape, TypeOK
      <3> QED
        BY <2>1, <2>2, <3>1
    <2> QED
      BY <2>2, <2>3, <2>4
  <1>2. Init => Shape
    BY ShapeInit
  <1>3. Shape /\ [Next]_vars => Shape'
    BY ShapeNext
  <1>4. ([Next]_vars /\ (\A w \in Workers :
             req[w] # Idle /\ req'[w] # req[w] => StepsLeft(req'[w]) < StepsLeft(req[w])))
        => [\A w \in Workers : req[w] # Idle /\ req'[w] # req[w] =>
               StepsLeft(req'[w]) < StepsLeft(req[w])]_vars
    OBVIOUS
  <1> QED
    BY <1>1, <1>2, <1>3, <1>4, PTL DEF Spec, RequestsAdvance

\* No step a worker takes for its request leaves it where it was, and at most six
\* are ever before it: with the fairness of Serve nothing else is needed for a
\* request to end than that one of its steps can always be taken.
THEOREM ServedInSixSteps ==
    Spec => [][\A w \in Workers : Serve(w) =>
                  /\ StepsLeft(req[w]) \in 1..6
                  /\ StepsLeft(req'[w]) < StepsLeft(req[w])]_vars
  <1> DEFINE Counts == \A w \in Workers : Serve(w) =>
                           /\ StepsLeft(req[w]) \in 1..6
                           /\ StepsLeft(req'[w]) < StepsLeft(req[w])
  <1>1. Shape => Counts
    <2>1. SUFFICES ASSUME Shape, NEW w \in Workers, Serve(w)
                   PROVE  StepsLeft(req[w]) \in 1..6 /\ StepsLeft(req'[w]) < StepsLeft(req[w])
      OBVIOUS
    <2>2. req[w].pc # "idle"
      BY <2>1 DEF Serve, Locking, FindSettled, LockOrder, LockMissing, LockUser, LockWaitFails,
             Provisioning, PanelAnswers, PanelFails, Writing, CommitFulfilment, Respond,
             CommitApproval, CommitWalletPayment, WriteNowPayments, DeleteOrder, MarkFailed,
             Refund, Committing, At
    <2> QED
      BY <2>1, <2>2, Served, ServeForward DEF Forward
  <1>2. Init => Shape
    BY ShapeInit
  <1>3. Shape /\ [Next]_vars => Shape'
    BY ShapeNext
  <1>4. Counts => [Counts]_vars
    OBVIOUS
  <1> HIDE DEF Counts
  <1>5. Spec => [][Counts]_vars
    BY <1>1, <1>2, <1>3, <1>4, PTL DEF Spec
  <1> QED
    BY <1>5 DEF Counts

-----------------------------------------------------------------------------
(* How many approvals of one order are carried out.                        *)

Approving(o) == {w \in Workers : req[w].op = "approve" /\ req[w].ord = o}

\* One approval for each worker, k times over.
Share(k) == Cardinality(Workers) * k

\* Before an order is paid, none of the approvals at work has counted yet; after
\* that no approval is taken on until the order is reopened.
Within(o) ==
    /\ approved[o] + Cardinality(Approving(o)) <= Share(1 + reverted[o])
    /\ status[o] \in {"none", "pending"} => approved[o] <= Share(reverted[o])

ApprovalsInv == Locks /\ \A o \in Orders : Within(o)

LEMMA ApprovingFinite ==
    ASSUME NEW o
    PROVE  /\ IsFiniteSet(Approving(o)) /\ Cardinality(Approving(o)) \in Nat
           /\ IsFiniteSet(Approving(o)') /\ Cardinality(Approving(o)') \in Nat
           /\ Cardinality(Workers) \in Nat
           /\ Cardinality(Approving(o)) <= Cardinality(Workers)
           /\ Cardinality(Approving(o)') <= Cardinality(Workers)
  <1>1. Approving(o) \in SUBSET Workers /\ Approving(o)' \in SUBSET Workers
    BY DEF Approving
  <1> QED
    BY <1>1, SettingAssumption, FS_Subset, FS_CardinalityType

LEMMA ShareStep ==
    ASSUME NEW k \in Nat
    PROVE  Share(k) \in Nat /\ Share(1 + k) = Share(k) + Cardinality(Workers)
  <1>1. Cardinality(Workers) \in Nat
    BY SettingAssumption, FS_CardinalityType
  <1> QED
    BY <1>1 DEF Share

\* An approval is taken on while the order waits for one.
Joins(o) ==
    /\ status[o] = "pending"
    /\ UNCHANGED <<status, approved, reverted>>

\* Approvals go on or are given up; the order becomes pending from nothing, or by
\* being left unpaid.
Leaves(o) ==
    /\ Approving(o)' \subseteq Approving(o) /\ approved'[o] = approved[o]
    /\ \/ /\ reverted'[o] = reverted[o]
          /\ status'[o] \in {"none", "pending"} => status[o] \in {"none", "pending"}
       \/ reverted'[o] = reverted[o] + 1

\* An approval is carried out.
Counts(o) ==
    /\ \E w \in Approving(o) : Approving(o)' = Approving(o) \ {w}
    /\ approved'[o] = approved[o] + 1 /\ reverted'[o] = reverted[o]
    /\ status'[o] = "paid"

LEMMA WithinStep ==
    ASSUME Locks, Locks', NEW o \in Orders, Within(o), Joins(o) \/ Leaves(o) \/ Counts(o)
    PROVE  Within(o)'
  <1>1. /\ approved[o] \in Nat /\ approved'[o] \in Nat
        /\ reverted[o] \in Nat /\ reverted'[o] \in Nat
    BY DEF Locks, Shape, TypeOK
  <1> DEFINE n == Cardinality(Workers)
             a == Cardinality(Approving(o))
             b == Cardinality(Approving(o)')
  <1>2. a \in Nat /\ b \in Nat /\ n \in Nat /\ a <= n /\ b <= n
    BY ApprovingFinite
  <1>3. /\ Share(reverted[o]) \in Nat /\ Share(1 + reverted[o]) = Share(reverted[o]) + n
        /\ Share(1 + (1 + reverted[o])) = Share(1 + reverted[o]) + n
    <2>1. 1 + reverted[o] \in Nat
      BY <1>1
    <2> QED
      BY <1>1, <2>1, ShareStep
  <1>4. Share(reverted[o])' = Share(reverted'[o]) /\ Share(1 + reverted[o])' = Share(1 + reverted'[o])
    BY DEF Share
  <1>5. SUFFICES /\ approved'[o] + b <= Share(1 + reverted'[o])
                 /\ status'[o] \in {"none", "pending"} => approved'[o] <= Share(reverted'[o])
    BY <1>4 DEF Within
  <1>6. /\ approved[o] + a <= Share(1 + reverted[o])
        /\ status[o] \in {"none", "pending"} => approved[o] <= Share(reverted[o])
    BY DEF Within
  <1> HIDE DEF a, b, n
  <1>7. CASE Joins(o)
    BY <1>1, <1>2, <1>3, <1>6, <1>7 DEF Joins
  <1>8. CASE Leaves(o)
    <2>1. b <= a
      BY <1>8, ApprovingFinite, FS_Subset DEF Leaves, a, b
    <2>2. CASE reverted'[o] = reverted[o]
      BY <1>1, <1>2, <1>3, <1>6, <1>8, <2>1, <2>2 DEF Leaves
    <2>3. CASE reverted'[o] = reverted[o] + 1
      <3>1. reverted'[o] = 1 + reverted[o]
        BY <1>1, <2>3
      <3> QED
        BY <1>1, <1>2, <1>3, <1>6, <1>8, <2>1, <3>1 DEF Leaves
    <2> QED
      BY <1>8, <2>2, <2>3 DEF Leaves
  <1>9. CASE Counts(o)
    <2>1. b = a - 1
      BY <1>9, ApprovingFinite, FS_RemoveElement DEF Counts, a, b
    <2> QED
      BY <1>1, <1>2, <1>3, <1>6, <1>9, <2>1 DEF Counts
  <1> QED
    BY <1>7, <1>8, <1>9

\* A worker's step takes approvals out of the set, if it takes any.
LEMMA ForwardApproving ==
    ASSUME Shape, Shape', NEW w \in Workers, Forward(w), NEW o \in Orders
    PROVE  /\ Approving(o)' \subseteq Approving(o)
           /\ req'[w] = Idle /\ w \in Approving(o) => Approving(o)' = Approving(o) \ {w}
  BY DEF Forward, Approving, Idle

LEMMA WritingApproves ==
    ASSUME Locks, Locks', NEW w \in Workers, Writing(w), NEW o \in Orders
    PROVE  Leaves(o) \/ Counts(o)
  <1>1. Forward(w)
    BY ServeForward DEF Serve, Locks
  <1>2. Approving(o)' \subseteq Approving(o)
    BY <1>1, ForwardApproving DEF Locks
  <1>3. req[w].pc # "idle"
    BY DEF Writing, CommitFulfilment, Respond, CommitApproval, CommitWalletPayment,
           WriteNowPayments, DeleteOrder, MarkFailed, Refund, Committing, At
  <1>4. /\ req[w].ord \in Orders /\ Row(w) \in Orders
        /\ status \in [Orders -> Statuses] /\ approved \in [Orders -> Nat]
        /\ reverted \in [Orders -> Nat] /\ req \in [Workers -> Requests \cup {Idle}]
    BY <1>3, InRequest DEF Locks, Shape, TypeOK
  <1>5. CASE CommitApproval(w)
    <2>1. CASE req[w].ord = o
      <3>1. req'[w] = Idle /\ w \in Approving(o)
        BY <1>4, <1>5, <2>1 DEF CommitApproval, Committing, Finish, Approving
      <3>2. Approving(o)' = Approving(o) \ {w}
        BY <1>1, <3>1, ForwardApproving DEF Locks
      <3> QED
        BY <1>4, <1>5, <2>1, <3>1, <3>2 DEF CommitApproval, Settle, Counts
    <2>2. CASE req[w].ord # o
      BY <1>2, <1>4, <1>5, <2>2 DEF CommitApproval, Settle, Leaves
    <2> QED
      BY <2>1, <2>2
  <1>6. CASE CommitFulfilment(w)
    BY <1>2, <1>4, <1>6 DEF CommitFulfilment, Settle, Leaves
  <1>7. CASE CommitWalletPayment(w)
    BY <1>2, <1>4, <1>7 DEF CommitWalletPayment, Leaves, counts
  <1>8. CASE WriteNowPayments(w) \/ DeleteOrder(w)
    BY <1>2, <1>4, <1>8 DEF WriteNowPayments, DeleteOrder, Leaves, counts
  <1>9. CASE MarkFailed(w)
    BY <1>2, <1>4, <1>9 DEF MarkFailed, Leaves
  <1>10. CASE Respond(w) \/ Refund(w)
    BY <1>2, <1>4, <1>10 DEF Respond, Refund, Leaves, counts
  <1> QED
    BY <1>5, <1>6, <1>7, <1>8, <1>9, <1>10 DEF Writing

LEMMA ReceivingApproves ==
    ASSUME Locks, Locks', NEW w \in Workers, Receive(w), NEW o \in Orders
    PROVE  Joins(o) \/ Leaves(o)
  <1>1. PICK op \in Operations, p \in Orders :
              /\ req[w] = Idle
              /\ req' = [req EXCEPT ![w] = [op |-> op, ord |-> p, pc |-> FirstStep(op, p),
                                           ok |-> TRUE]]
              /\ op = "approve" => status[p] = "pending"
              /\ UNCHANGED <<status, counts>>
    BY Received DEF Locks
  <1>2. UNCHANGED <<status, approved, reverted>>
    BY <1>1 DEF counts
  <1>3. CASE op = "approve" /\ p = o
    BY <1>1, <1>2, <1>3 DEF Joins
  <1>4. CASE ~(op = "approve" /\ p = o)
    <2>1. req \in [Workers -> Requests \cup {Idle}]
      BY DEF Locks, Shape, TypeOK
    <2>2. /\ \A v \in Workers \ {w} : req'[v] = req[v]
          /\ req'[w].op = op /\ req'[w].ord = p
      BY <1>1, <2>1
    <2>3. Approving(o)' \subseteq Approving(o)
      BY <1>4, <2>2 DEF Approving
    <2> QED
      BY <1>2, <2>3 DEF Leaves
  <1> QED
    BY <1>3, <1>4

LEMMA StepApproves ==
    ASSUME Locks, Locks', [Next]_vars, NEW o \in Orders
    PROVE  Joins(o) \/ Leaves(o) \/ Counts(o)
  <1>1. ASSUME NEW w \in Workers, Locking(w) \/ Provisioning(w) \/ Crash(w)
        PROVE  Leaves(o)
    <2>1. UNCHANGED <<status, approved, reverted>>
      BY <1>1 DEF Locking, FindSettled, LockOrder, LockMissing, LockUser, LockWaitFails,
         Provisioning, PanelAnswers, PanelFails, Crash, counts
    <2>2. Approving(o)' \subseteq Approving(o)
      BY <1>1, ServeForward, CrashForward, ForwardApproving DEF Serve, Locks
    <2> QED
      BY <2>1, <2>2 DEF Leaves
  <1>2. ASSUME NEW p \in Orders, PlaceOrder(p) \/ CustomerPaysPlisio(p) \/ AdminReopens(p)
        PROVE  Leaves(o)
    BY <1>2 DEF PlaceOrder, CustomerPaysPlisio, AdminReopens, Leaves, Approving, counts,
                Locks, Shape, TypeOK
  <1>3. UNCHANGED vars => Leaves(o)
    BY DEF vars, counts, Leaves, Approving
  <1> QED
    BY <1>1, <1>2, <1>3, WritingApproves, ReceivingApproves DEF Next, Customers, Serve

LEMMA ApprovalsNext == ApprovalsInv /\ [Next]_vars => ApprovalsInv'
  <1>1. SUFFICES ASSUME ApprovalsInv, [Next]_vars PROVE ApprovalsInv'
    OBVIOUS
  <1>2. Locks /\ Locks'
    BY <1>1, LocksNext DEF ApprovalsInv
  <1>3. \A o \in Orders : Within(o)'
    BY <1>1, <1>2, StepApproves, WithinStep DEF ApprovalsInv
  <1> QED
    BY <1>2, <1>3 DEF ApprovalsInv

\* ApprovePendingOrderAction carries out an approval whose order was settled in
\* the meantime; still, an order is approved at most once for each worker, and
\* again as many times for each time it was left unpaid.
THEOREM ApprovalsBoundedHolds == Spec => []ApprovalsBounded
  <1>1. Init => ApprovalsInv
    <2>1. SUFFICES ASSUME Init PROVE ApprovalsInv
      OBVIOUS
    <2>2. ASSUME NEW o \in Orders PROVE Within(o)
      <3>1. Approving(o) = {}
        BY <2>1 DEF Init, Approving, Idle
      <3>2. Cardinality(Approving(o)) = 0
        BY <3>1, FS_EmptySet
      <3>3. approved[o] = 0 /\ reverted[o] = 0
        BY <2>1 DEF Init
      <3>4. Share(0) \in Nat /\ Share(1 + 0) \in Nat
        BY ShareStep, 1 + 0 \in Nat
      <3> QED
        BY <3>2, <3>3, <3>4 DEF Within
    <2> QED
      BY <2>1, <2>2, LocksInit DEF ApprovalsInv
  <1>2. ApprovalsInv => ApprovalsBounded
    <2>1. SUFFICES ASSUME ApprovalsInv, NEW o \in Orders
                   PROVE  approved[o] <= Cardinality(Workers) * (1 + reverted[o])
      BY DEF ApprovalsBounded
    <2>2. approved[o] + Cardinality(Approving(o)) <= Share(1 + reverted[o])
      BY <2>1 DEF ApprovalsInv, Within
    <2>3. /\ approved[o] \in Nat /\ reverted[o] \in Nat
          /\ Cardinality(Approving(o)) \in Nat /\ 1 + reverted[o] \in Nat
      BY <2>1, ApprovingFinite DEF ApprovalsInv, Locks, Shape, TypeOK
    <2>4. Share(1 + reverted[o]) \in Nat
      BY <2>3, ShareStep
    <2>5. approved[o] <= Share(1 + reverted[o])
      BY <2>2, <2>3, <2>4
    <2> QED
      BY <2>5 DEF Share
  <1> QED
    BY <1>1, <1>2, ApprovalsNext, PTL DEF Spec
=============================================================================
