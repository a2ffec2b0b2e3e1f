----------------------- MODULE SettlementEffectsProofs -----------------------
(***************************************************************************)
(* Proofs about SettlementEffects, for any numbers of workers, orders,     *)
(* requests and crashes, and any limits of the code.                       *)
(***************************************************************************)
EXTENDS SettlementEffects, FiniteSetTheorems, TLAPS

-----------------------------------------------------------------------------
(* Requests.                                                               *)

\* Only the request of w changes.
Others(w) ==
    /\ req' \in [Workers -> Requests \cup {Idle}]
    /\ \A v \in Workers \ {w} : req'[v] = req[v]

\* The request of w goes on, and knows about its order what it knew.
Same(w) ==
    /\ req'[w].op = req[w].op /\ req'[w].ord = req[w].ord
    /\ req'[w].paid = req[w].paid /\ req'[w].coded = req[w].coded
    /\ req'[w].sees = req[w].sees /\ req'[w].counted = req[w].counted

Ends(w) == Others(w) /\ req'[w] = Idle
GoesTo(w, step) == Others(w) /\ req'[w].pc = step /\ Same(w)

LEMMA AtStep ==
    ASSUME TypeOK, NEW w \in Workers
    PROVE  /\ req[w].pc \in Steps => req[w] \in Requests /\ Order(w) \in Orders
           /\ req[w].op \in Operations => req[w] \in Requests /\ Order(w) \in Orders
           /\ ~At(w, "idle") => req[w] \in Requests /\ Order(w) \in Orders
  BY DEF TypeOK, Idle, Requests, Steps, Operations, Settling, OnSite, Order, At

LEMMA Moves ==
    ASSUME TypeOK, NEW w \in Workers
    PROVE  /\ Finish(w) => Ends(w)
           /\ \A step \in Steps : req[w] \in Requests /\ GoTo(w, step) => GoesTo(w, step)
           /\ req[w] \in Requests /\ Forget(w) => GoesTo(w, "save")
  <1>1. DOMAIN req = Workers /\ req \in [Workers -> Requests \cup {Idle}]
    BY DEF TypeOK
  <1>2. Finish(w) => Ends(w)
    BY <1>1 DEF Finish, Ends, Others
  <1>3. ASSUME NEW step \in Steps, req[w] \in Requests, GoTo(w, step) PROVE GoesTo(w, step)
    <2>1. [req[w] EXCEPT !.pc = step] \in Requests
      BY <1>3 DEF Requests
    <2>2. req' = [req EXCEPT ![w] = [req[w] EXCEPT !.pc = step]]
      BY <1>1, <1>3 DEF GoTo
    <2>3. Others(w) /\ req'[w] = [req[w] EXCEPT !.pc = step]
      BY <1>1, <2>1, <2>2 DEF Others
    <2> QED
      BY <1>3, <2>3 DEF GoesTo, Same, Requests
  <1>4. ASSUME req[w] \in Requests, Forget(w) PROVE GoesTo(w, "save")
    <2>1. [req[w] EXCEPT !.pc = "save", !.session = NoOrder] \in Requests
      BY <1>4 DEF Requests, Steps
    <2>2. req' = [req EXCEPT ![w] = [req[w] EXCEPT !.pc = "save", !.session = NoOrder]]
      BY <1>1, <1>4 DEF Forget
    <2>3. Others(w) /\ req'[w] = [req[w] EXCEPT !.pc = "save", !.session = NoOrder]
      BY <1>1, <2>1, <2>2 DEF Others
    <2> QED
      BY <1>4, <2>3 DEF GoesTo, Same, Requests
  <1> QED
    BY <1>2, <1>3, <1>4

\* A request that arrives.
Fresh(w, op, o, step) ==
    /\ Others(w)
    /\ req'[w].op = op /\ req'[w].ord = o /\ req'[w].pc = step
    /\ req'[w].paid = (status[o] = "paid") /\ req'[w].sees = {}

LEMMA Arrives ==
    ASSUME TypeOK, NEW w \in Workers, NEW op \in Operations, NEW o \in Orders,
           NEW step \in Steps, Receive(w, op, o, step)
    PROVE  /\ Fresh(w, op, o, step) /\ At(w, "idle")
           /\ requests' \in Nat
           /\ UNCHANGED <<status, discount, referral, crashes>>
  <1> DEFINE r == [op |-> op, ord |-> o, pc |-> step, paid |-> status[o] = "paid",
                   coded |-> code[o], session |-> IF op \in OnSite THEN session ELSE NoOrder,
                   sees |-> {}, counted |-> FALSE]
  <1>1. r \in Requests
    BY DEF Requests, TypeOK
  <1>2. req' = [req EXCEPT ![w] = r]
    BY DEF Receive
  <1>3. Others(w) /\ req'[w] = r
    BY <1>1, <1>2 DEF TypeOK, Others
  <1> QED
    BY <1>3 DEF Receive, Fresh, TypeOK

\* Every request that arrives is one of these, and the check it passed.
Passed(op, o) ==
    /\ op = "approve" => status[o] = "pending"
    /\ op \in {"applyOnSite", "applyInBot"} => used < Limit

LEMMA Arrivals ==
    ASSUME TypeOK, NEW w \in Workers, Arrive(w)
    PROVE  \E op \in Operations, o \in Orders, step \in {"lock", "read", "write", "exists"} :
              /\ Receive(w, op, o, step) /\ Passed(op, o)
              /\ op = "approve" <=> step = "read"
  BY DEF Arrive, Fulfil, Approve, PayOnSite, PayInBot, RenewInBot, NowPayments, Cancel,
         ApplyOnSite, ApplyInBot, RemoveInBot, SubmitReceipt, Available, Passed, Operations,
         Settling, OnSite

\* Fulfilment reads its order again under the lock.
LEMMA Locks ==
    ASSUME TypeOK, NEW w \in Workers, LockOrder(w)
    PROVE  /\ Others(w) /\ req'[w].pc = "read" /\ ~req'[w].paid
           /\ req'[w].op = "fulfil" /\ req'[w].ord = Order(w) /\ req'[w].sees = req[w].sees
           /\ Order(w) \in Orders
  <1>1. req[w] \in Requests /\ Order(w) \in Orders
    BY AtStep DEF LockOrder, At, Steps
  <1> DEFINE r == [req[w] EXCEPT !.pc = "read", !.paid = FALSE, !.coded = code[Order(w)]]
  <1>2. r \in Requests
    BY <1>1 DEF Requests, Steps, TypeOK
  <1>3. req' = [req EXCEPT ![w] = r]
    BY DEF LockOrder, TypeOK
  <1>4. Others(w) /\ req'[w] = r
    BY <1>2, <1>3 DEF TypeOK, Others
  <1>5. /\ r.pc = "read" /\ r.paid = FALSE /\ r.op = req[w].op /\ r.ord = req[w].ord
        /\ r.sees = req[w].sees
    BY <1>1 DEF Requests
  <1>6. req[w].op = "fulfil"
    BY DEF LockOrder, Doing
  <1> HIDE DEF r
  <1> QED
    BY <1>1, <1>4, <1>5, <1>6 DEF Order

\* A transaction takes its snapshot.
LEMMA Reads ==
    ASSUME TypeOK, NEW w \in Workers, Read(w)
    PROVE  /\ Others(w) /\ req'[w].pc = "commit" /\ req'[w].sees = Paid
           /\ req'[w].op = req[w].op /\ req'[w].ord = Order(w) /\ req'[w].paid = req[w].paid
           /\ Order(w) \in Orders
  <1>1. req[w] \in Requests /\ Order(w) \in Orders
    BY AtStep DEF Read, At, Steps
  <1> DEFINE r == [req[w] EXCEPT !.pc = "commit", !.sees = Paid, !.counted = Order(w) \in usage]
  <1>2. Paid \in SUBSET Orders /\ (Order(w) \in usage) \in BOOLEAN
    BY DEF Paid
  <1>3. r \in Requests
    BY <1>1, <1>2 DEF Requests, Steps
  <1>4. req' = [req EXCEPT ![w] = r]
    BY DEF Read, TypeOK
  <1>5. Others(w) /\ req'[w] = r
    BY <1>3, <1>4 DEF TypeOK, Others
  <1>6. /\ r.pc = "commit" /\ r.sees = Paid /\ r.op = req[w].op /\ r.ord = req[w].ord
        /\ r.paid = req[w].paid
    BY <1>1 DEF Requests
  <1> HIDE DEF r
  <1> QED
    BY <1>1, <1>5, <1>6 DEF Order

\* The code is written; the site's request goes on to save its session.
LEMMA Codes ==
    ASSUME TypeOK, NEW w \in Workers, WriteCode(w)
    PROVE  Others(w) /\ (req'[w] = Idle \/ (req'[w].pc = "save" /\ Same(w)))
  <1>1. req[w] \in Requests /\ Order(w) \in Orders
    BY AtStep DEF WriteCode, At, Steps
  <1> DEFINE r == [req[w] EXCEPT !.pc = "save", !.session = Order(w)]
  <1>2. r \in Requests
    BY <1>1 DEF Requests, Steps
  <1>3. CASE Finish(w)
    <2>1. Ends(w)
      BY <1>3, Moves
    <2> QED
      BY <2>1 DEF Ends
  <1>4. CASE req' = [req EXCEPT ![w].pc = "save", ![w].session = Order(w)]
    <2>1. req' = [req EXCEPT ![w] = r]
      BY <1>4 DEF TypeOK
    <2>2. Others(w) /\ req'[w] = r
      BY <1>2, <2>1 DEF TypeOK, Others
    <2> QED
      BY <1>1, <2>2 DEF Requests, Same
  <1> QED
    BY <1>3, <1>4 DEF WriteCode

\* After every other step the request is over or goes on.
Continues(w) == Ends(w) \/ \E step \in {"read", "commit", "fail", "insert", "count", "save"} :
                               GoesTo(w, step)

LEMMA Continuing ==
    ASSUME TypeOK, NEW w \in Workers,
           \/ NothingToFulfil(w) \/ LockUser(w) \/ Commit(w) \/ RollBack(w) \/ MarkFailed(w)
           \/ WriteNowPayments(w) \/ WriteCancel(w) \/ WriteNoCode(w)
           \/ LookForUse(w) \/ InsertUse(w) \/ CountUse(w) \/ SaveSession(w) \/ Crash(w)
    PROVE  Continues(w)
  <1>1. req[w] \in Requests
    BY AtStep DEF NothingToFulfil, LockUser, Commit, RollBack, MarkFailed, WriteNowPayments,
                  WriteCancel, WriteNoCode, LookForUse, InsertUse, CountUse, SaveSession, Crash,
                  At, Steps
  <1>2. \/ Finish(w) \/ Forget(w)
        \/ \E step \in {"read", "commit", "fail", "insert", "count", "save"} : GoTo(w, step)
    BY DEF NothingToFulfil, LockUser, Commit, RollBack, MarkFailed, WriteNowPayments,
           WriteCancel, WriteNoCode, LookForUse, InsertUse, CountUse, SaveSession, Crash
  <1> QED
    BY <1>1, <1>2, Moves DEF Continues, Steps

-----------------------------------------------------------------------------
(* Type correctness.                                                       *)

LEMMA InitTypeOK ==
    ASSUME Init
    PROVE  TypeOK
  <1>1. req \in [Workers -> Requests \cup {Idle}]
    BY DEF Init
  <1>2. /\ status \in [Orders -> {"none", "pending", "paid", "failed", "deleted"}]
        /\ code \in [Orders -> BOOLEAN]
    BY DEF Init
  <1>3. /\ session \in Orders \cup {NoOrder} /\ usage \subseteq Orders /\ late \subseteq Orders
        /\ first \in Operations \cup {"none"}
    BY DEF Init
  <1>4. /\ used \in Nat /\ gone \in Nat /\ lost \in Nat
        /\ rewards \in Nat /\ undone \in Nat /\ repaid \in Nat
        /\ requests \in Nat /\ crashes \in Nat
    BY DEF Init
  <1> QED
    BY <1>1, <1>2, <1>3, <1>4 DEF TypeOK

LEMMA StepMoves ==
    ASSUME TypeOK, NEW w \in Workers, Serve(w) \/ Crash(w)
    PROVE  Others(w)
  <1>1. CASE Arrive(w)
    BY <1>1, Arrivals, Arrives DEF Fresh, Steps
  <1>2. CASE LockOrder(w) \/ Read(w) \/ WriteCode(w)
    BY <1>2, Locks, Reads, Codes
  <1>3. CASE ~Arrive(w) /\ ~LockOrder(w) /\ ~Read(w) /\ ~WriteCode(w)
    BY <1>3, Continuing DEF Serve, Lock, Write, Continues, Ends, GoesTo
  <1> QED
    BY <1>1, <1>2, <1>3

LEMMA TypeCommit ==
    ASSUME TypeOK, NEW w \in Workers, Commit(w)
    PROVE  TypeOK'
  <1>1. Order(w) \in Orders /\ req[w].op \in Operations
    BY AtStep DEF Commit, At, Steps, Requests
  <1>2. Others(w)
    BY StepMoves DEF Serve
  <1>3. status' \in [Orders -> {"none", "pending", "paid", "failed", "deleted"}]
    BY <1>1 DEF Commit, TypeOK
  <1>4. usage' \subseteq Orders /\ used' \in Nat /\ rewards' \in Nat /\ repaid' \in Nat
    BY <1>1 DEF Commit, TypeOK, Increment
  <1>5. first' \in Operations \cup {"none"}
    BY <1>1 DEF Commit, Settled, TypeOK
  <1> QED
    BY <1>2, <1>3, <1>4, <1>5 DEF Commit, TypeOK, Others, budget

LEMMA TypeWrite ==
    ASSUME TypeOK, NEW w \in Workers, Write(w) \/ MarkFailed(w) \/ Crash(w)
    PROVE  TypeOK'
  <1>1. Order(w) \in Orders /\ Others(w)
    BY AtStep, StepMoves
    DEF Serve, Write, WriteNowPayments, WriteCancel, WriteCode, WriteNoCode, LookForUse,
        InsertUse, CountUse, SaveSession, MarkFailed, Crash, At, Steps
  <1>2. req' \in [Workers -> Requests \cup {Idle}]
    BY <1>1 DEF Others
  <1>3. CASE WriteNowPayments(w)
    BY <1>1, <1>2, <1>3 DEF WriteNowPayments, TypeOK, Settled, discount, budget, Operations
  <1>4. CASE WriteCancel(w)
    BY <1>1, <1>2, <1>4 DEF WriteCancel, TypeOK, budget
  <1>5. CASE MarkFailed(w)
    BY <1>1, <1>2, <1>5 DEF MarkFailed, TypeOK, discount, budget
  <1>6. CASE WriteCode(w)
    <2>1. code' \in [Orders -> BOOLEAN]
      BY <1>1, <1>6 DEF WriteCode, TypeOK
    <2> QED
      BY <1>1, <1>2, <1>6, <2>1 DEF WriteCode, TypeOK, referral, budget
  <1>7. CASE WriteNoCode(w)
    <2>1. code' \in [Orders -> BOOLEAN]
      BY <1>1, <1>7 DEF WriteNoCode, TypeOK
    <2> QED
      BY <1>2, <1>7, <2>1 DEF WriteNoCode, TypeOK, referral, budget
  <1>8. CASE LookForUse(w)
    BY <1>2, <1>8 DEF LookForUse, TypeOK, discount, referral, budget
  <1>9. CASE InsertUse(w)
    BY <1>1, <1>2, <1>9 DEF InsertUse, TypeOK, referral, budget
  <1>10. CASE CountUse(w)
    BY <1>2, <1>10 DEF CountUse, TypeOK, referral, budget
  <1>11. CASE SaveSession(w)
    <2>1. req[w] \in Requests
      BY <1>11, AtStep DEF SaveSession, At, Steps
    <2>2. session' \in Orders \cup {NoOrder}
      BY <1>11, <2>1 DEF SaveSession, Requests
    <2> QED
      BY <1>2, <1>11, <2>2 DEF SaveSession, TypeOK, referral, budget
  <1>12. CASE Crash(w)
    BY <1>2, <1>12 DEF Crash, TypeOK, referral
  <1> QED
    BY <1>3, <1>4, <1>5, <1>6, <1>7, <1>8, <1>9, <1>10, <1>11, <1>12 DEF Write

LEMMA NextTypeOK ==
    ASSUME TypeOK, [Next]_vars
    PROVE  TypeOK'
  <1>1. CASE UNCHANGED vars
    BY <1>1 DEF vars, discount, referral, budget, TypeOK
  <1>2. ASSUME NEW o \in Orders, Reopen(o) PROVE TypeOK'
    BY <1>2 DEF Reopen, TypeOK, discount
  <1>3. ASSUME NEW w \in Workers, Arrive(w) PROVE TypeOK'
    BY <1>3, Arrivals, Arrives DEF Fresh, Steps, Others, TypeOK, discount, referral
  <1>4. ASSUME NEW w \in Workers, Lock(w) \/ RollBack(w) PROVE TypeOK'
    <2>1. Others(w)
      BY <1>4, StepMoves DEF Serve
    <2> QED
      BY <1>4, <2>1 DEF Lock, LockOrder, NothingToFulfil, LockUser, Read, RollBack, TypeOK,
                        Others, discount, referral, budget
  <1> QED
    BY <1>1, <1>2, <1>3, <1>4, TypeCommit, TypeWrite DEF Next, Serve

\* The variables keep their types; in particular the count of a code's uses never
\* falls below zero.
THEOREM TypeCorrect == Spec => []TypeOK
  <1>1. Init => TypeOK
    BY InitTypeOK
  <1>2. TypeOK /\ [Next]_vars => TypeOK'
    BY NextTypeOK
  <1> QED
    BY <1>1, <1>2, PTL DEF Spec

-----------------------------------------------------------------------------
(* The first purchase is rewarded.                                         *)

\* Nothing was paid yet and nobody has seen anything paid.
Unsettled ==
    /\ Paid = {}
    /\ \A w \in Workers : req[w] # Idle => req[w].sees = {} /\ ~req[w].paid

NoneForgotten ==
    /\ first = "none" => Unsettled
    /\ FirstPurchaseRewarded

\* A request that goes on has seen nothing new, one that ends has nothing to say.
LEMMA KeepsUnsettled ==
    ASSUME TypeOK, NEW w \in Workers, Unsettled, Paid' = {}, Continues(w)
    PROVE  Unsettled'
  <1>1. ASSUME NEW v \in Workers, req'[v] # Idle PROVE req'[v].sees = {} /\ ~req'[v].paid
    <2>1. CASE v # w
      BY <1>1, <2>1 DEF Continues, Ends, GoesTo, Others, Unsettled
    <2>2. CASE v = w
      <3>1. Same(w)
        BY <1>1, <2>2 DEF Continues, Ends, GoesTo
      <3>2. CASE req[w] = Idle
        <4>1. req'[w] \in Requests /\ req'[w].op = "none"
          BY <1>1, <2>2, <3>1, <3>2 DEF Continues, Ends, GoesTo, Others, Same, Idle
        <4> QED
          BY <4>1 DEF Requests, Operations, Settling, OnSite
      <3>3. CASE req[w] # Idle
        BY <2>2, <3>1, <3>3 DEF Same, Unsettled
      <3> QED
        BY <3>2, <3>3
    <2> QED
      BY <2>1, <2>2
  <1> QED
    BY <1>1 DEF Unsettled

\* A settlement that nobody came before finds its order the only paid one.
LEMMA FirstReward ==
    ASSUME TypeOK, NEW w \in Workers, Commit(w), Unsettled
    PROVE  Rewards(w) <=> req[w].op \in Dispatching
  <1>1. req[w] \in Requests /\ req[w] # Idle
    BY AtStep DEF Commit, At, Steps, Idle
  <1>2. SeenPaid(w) = {Order(w)}
    BY <1>1 DEF SeenPaid, Unsettled
  <1>3. Cardinality(SeenPaid(w)) = 1
    BY <1>2, FS_Singleton
  <1> QED
    BY <1>3 DEF Rewards

LEMMA ForgottenByCommit ==
    ASSUME TypeOK, NoneForgotten, NEW w \in Workers, Commit(w)
    PROVE  NoneForgotten'
  <1>1. req[w].op \in Operations /\ req[w].op # "none"
    BY AtStep DEF Commit, At, Steps, Requests, Operations, Settling, OnSite
  <1>2. first' = (IF first = "none" THEN req[w].op ELSE first)
    BY DEF Commit, Settled
  <1>3. rewards \in Nat /\ rewards' = rewards + (IF Rewards(w) THEN 1 ELSE 0)
    BY DEF Commit, TypeOK
  <1>4. CASE first = "none"
    <2>1. Rewards(w) <=> req[w].op \in Dispatching
      BY <1>4, FirstReward DEF NoneForgotten
    <2> QED
      BY <1>1, <1>2, <1>3, <1>4, <2>1 DEF NoneForgotten, FirstPurchaseRewarded
  <1>5. CASE first # "none"
    BY <1>2, <1>3, <1>5 DEF NoneForgotten, FirstPurchaseRewarded
  <1> QED
    BY <1>4, <1>5

LEMMA NextNoneForgotten ==
    ASSUME TypeOK, NoneForgotten, [Next]_vars
    PROVE  NoneForgotten'
  <1>1. CASE UNCHANGED vars
    BY <1>1 DEF vars, discount, referral, budget, NoneForgotten, FirstPurchaseRewarded,
                Unsettled, Paid
  <1>2. ASSUME NEW o \in Orders, Reopen(o) PROVE NoneForgotten'
    BY <1>2 DEF Reopen, TypeOK, NoneForgotten, FirstPurchaseRewarded, Unsettled, Paid
  <1>3. ASSUME NEW w \in Workers, Arrive(w) PROVE NoneForgotten'
    <2>1. PICK op \in Operations, o \in Orders, step \in {"lock", "read", "write", "exists"} :
             Receive(w, op, o, step)
      BY <1>3, Arrivals
    <2>2. Fresh(w, op, o, step) /\ UNCHANGED <<status, discount, referral, crashes>>
      BY <2>1, Arrives DEF Steps
    <2>3. Paid' = Paid /\ first' = first /\ rewards' = rewards
      BY <2>2 DEF Paid, referral
    <2>4. Unsettled => Unsettled'
      BY <2>2, <2>3 DEF Unsettled, Fresh, Others, Paid
    <2> QED
      BY <2>3, <2>4 DEF NoneForgotten, FirstPurchaseRewarded
  <1>4. ASSUME NEW w \in Workers, LockOrder(w) \/ Read(w) PROVE NoneForgotten'
    <2>1. Paid' = Paid /\ first' = first /\ rewards' = rewards
      BY <1>4 DEF LockOrder, Read, Paid, referral
    <2>2. req[w] # Idle
      BY <1>4 DEF LockOrder, Read, At, Idle
    <2>3. ASSUME Unsettled PROVE req'[w].sees = {} /\ ~req'[w].paid
      BY <1>4, <2>2, <2>3, Locks, Reads DEF Unsettled
    <2>4. Others(w)
      BY <1>4, Locks, Reads
    <2> QED
      BY <2>1, <2>3, <2>4 DEF NoneForgotten, FirstPurchaseRewarded, Unsettled, Others
  <1>5. ASSUME NEW w \in Workers, WriteCode(w) PROVE NoneForgotten'
    <2>1. Continues(w)
      BY <1>5, Codes DEF Continues, Ends, GoesTo
    <2>2. Paid' = Paid /\ first' = first /\ rewards' = rewards
      BY <1>5 DEF WriteCode, Paid, referral
    <2>3. Unsettled => Unsettled'
      BY <2>1, <2>2, KeepsUnsettled DEF Unsettled
    <2> QED
      BY <2>2, <2>3 DEF NoneForgotten, FirstPurchaseRewarded
  <1>6. ASSUME NEW w \in Workers,
               \/ NothingToFulfil(w) \/ LockUser(w) \/ RollBack(w) \/ MarkFailed(w)
               \/ WriteNowPayments(w) \/ WriteCancel(w) \/ WriteNoCode(w)
               \/ LookForUse(w) \/ InsertUse(w) \/ CountUse(w) \/ SaveSession(w) \/ Crash(w)
        PROVE  NoneForgotten'
    <2>1. Continues(w)
      BY <1>6, Continuing
    <2>2. rewards' = rewards
      BY <1>6 DEF NothingToFulfil, LockUser, RollBack, MarkFailed, WriteNowPayments,
                  WriteCancel, WriteNoCode, LookForUse, InsertUse, CountUse, SaveSession, Crash,
                  referral
    <2>3. \/ first' = first /\ (first = "none" /\ Paid = {} => Paid' = {})
          \/ first = "none" /\ first' = "nowpayments"
      <3>1. CASE WriteNowPayments(w)
        BY <3>1 DEF WriteNowPayments, Settled, Paid
      <3>2. CASE MarkFailed(w) \/ WriteCancel(w)
        BY <3>2 DEF MarkFailed, WriteCancel, TypeOK, Paid
      <3>3. CASE ~WriteNowPayments(w) /\ ~MarkFailed(w) /\ ~WriteCancel(w)
        BY <1>6, <3>3 DEF NothingToFulfil, LockUser, RollBack, WriteNoCode, LookForUse,
                          InsertUse, CountUse, SaveSession, Crash, referral, Paid
      <3> QED
        BY <3>1, <3>2, <3>3
    <2>4. CASE first = "none" /\ first' = "nowpayments"
      BY <2>4 DEF NoneForgotten, FirstPurchaseRewarded, Dispatching
    <2>5. CASE first' = first /\ (first = "none" /\ Paid = {} => Paid' = {})
      <3>1. first = "none" /\ Unsettled => Unsettled'
        BY <2>1, <2>5, KeepsUnsettled DEF Unsettled
      <3> QED
        BY <2>2, <2>5, <3>1 DEF NoneForgotten, FirstPurchaseRewarded
    <2> QED
      BY <2>3, <2>4, <2>5
  <1> QED
    BY <1>1, <1>2, <1>3, <1>4, <1>5, <1>6, ForgottenByCommit DEF Next, Serve, Lock, Write

\* The referrer is never forgotten: when Plisio, the admin or the site's wallet
\* settled the customer's first order, the reward was paid, however many
\* settlements overlapped it.
THEOREM FirstPurchaseRewardedHolds == Spec => []FirstPurchaseRewarded
  <1>1. Init => NoneForgotten
    BY DEF Init, NoneForgotten, FirstPurchaseRewarded, Unsettled, Paid, Dispatching
  <1>2. TypeOK /\ NoneForgotten /\ [Next]_vars => NoneForgotten'
    BY NextNoneForgotten
  <1>3. NoneForgotten => FirstPurchaseRewarded
    BY DEF NoneForgotten
  <1> QED
    BY <1>1, <1>2, <1>3, TypeCorrect, PTL DEF Spec

-----------------------------------------------------------------------------
(* A code that is used up stops.                                           *)

\* The requests that found the code available and have not written it yet.
Applying == {w \in Workers : req[w].op \in {"applyOnSite", "applyInBot"} /\ At(w, "write")}

\* Once the code is used up, an order can get it only from such a request, and the
\* worker that counted the last use has none.
Stopping == IF used < Limit THEN late = {}
                            ELSE Cardinality(late) + Cardinality(Applying) < Cardinality(Workers)

\* What the counting needs: subsets of finite sets, and one element more or less.
LEMMA Sizes ==
    ASSUME TypeOK
    PROVE  /\ Cardinality(Workers) \in Nat /\ Cardinality(Workers) > 0
           /\ \A S \in SUBSET Workers : /\ IsFiniteSet(S) /\ Cardinality(S) \in Nat
                                        /\ Cardinality(S) <= Cardinality(Workers)
           /\ \A S, T \in SUBSET Workers : S \subseteq T => Cardinality(S) <= Cardinality(T)
           /\ \A S \in SUBSET Workers, w \in Workers :
                 /\ w \in S => Cardinality(S \ {w}) = Cardinality(S) - 1
                 /\ w \notin S => /\ Cardinality(S \cup {w}) = Cardinality(S) + 1
                                  /\ Cardinality(S) < Cardinality(Workers)
           /\ \A S \in SUBSET Orders : IsFiniteSet(S) /\ Cardinality(S) \in Nat
           /\ \A S \in SUBSET Orders, o \in Orders :
                 /\ o \in S => Cardinality(S \ {o}) = Cardinality(S) - 1
                 /\ o \notin S => Cardinality(S \cup {o}) = Cardinality(S) + 1
                 /\ Cardinality(S \cup {o}) <= Cardinality(S) + 1
  <1>1. IsFiniteSet(Workers) /\ IsFiniteSet(Orders)
    BY SettingAssumption
  <1>2. ASSUME NEW S \in SUBSET Workers
        PROVE  /\ IsFiniteSet(S) /\ Cardinality(S) \in Nat
               /\ Cardinality(S) <= Cardinality(Workers)
    BY <1>1, FS_Subset, FS_CardinalityType
  <1>3. ASSUME NEW S \in SUBSET Workers, NEW T \in SUBSET Workers, S \subseteq T
        PROVE  Cardinality(S) <= Cardinality(T)
    BY <1>2, <1>3, FS_Subset
  <1>4. ASSUME NEW S \in SUBSET Workers, NEW w \in Workers
        PROVE  /\ w \in S => Cardinality(S \ {w}) = Cardinality(S) - 1
               /\ w \notin S => /\ Cardinality(S \cup {w}) = Cardinality(S) + 1
                                /\ Cardinality(S) < Cardinality(Workers)
    <2>1. IsFiniteSet(S) /\ S \cup {w} \in SUBSET Workers /\ Cardinality(S) \in Nat
      BY <1>2
    <2>2. /\ w \in S => Cardinality(S \ {w}) = Cardinality(S) - 1
          /\ w \notin S => Cardinality(S \cup {w}) = Cardinality(S) + 1
      BY <2>1, FS_AddElement, FS_RemoveElement
    <2>3. Cardinality(S \cup {w}) <= Cardinality(Workers) /\ Cardinality(Workers) \in Nat
      BY <1>2, <2>1
    <2> QED
      BY <2>1, <2>2, <2>3
  <1>5. ASSUME NEW S \in SUBSET Orders
        PROVE  IsFiniteSet(S) /\ Cardinality(S) \in Nat
    BY <1>1, FS_Subset, FS_CardinalityType
  <1>6. ASSUME NEW S \in SUBSET Orders, NEW o \in Orders
        PROVE  /\ o \in S => Cardinality(S \ {o}) = Cardinality(S) - 1
               /\ o \notin S => Cardinality(S \cup {o}) = Cardinality(S) + 1
               /\ Cardinality(S \cup {o}) <= Cardinality(S) + 1
    <2>1. IsFiniteSet(S) /\ Cardinality(S) \in Nat
      BY <1>5
    <2>2. /\ o \in S => Cardinality(S \ {o}) = Cardinality(S) - 1
          /\ o \notin S => Cardinality(S \cup {o}) = Cardinality(S) + 1
      BY <2>1, FS_AddElement, FS_RemoveElement
    <2>3. o \in S => S \cup {o} = S
      OBVIOUS
    <2> QED
      BY <2>1, <2>2, <2>3
  <1>7. Cardinality(Workers) > 0
    <2>1. PICK w \in Workers : TRUE
      BY SettingAssumption
    <2>2. Cardinality({}) = 0
      BY FS_EmptySet
    <2>3. {} \in SUBSET Workers /\ w \notin {}
      OBVIOUS
    <2> QED
      BY <2>2, <2>3, <1>4
  <1> QED
    BY <1>2, <1>3, <1>4, <1>5, <1>6, <1>7

\* Whoever takes a step that is not an arrival is not about to write a code.
LEMMA NoLongerApplying ==
    ASSUME TypeOK, NEW w \in Workers,
           \/ Lock(w) \/ Commit(w) \/ RollBack(w) \/ MarkFailed(w) \/ Write(w) \/ Crash(w)
    PROVE  Applying' \subseteq Applying \ {w}
  <1>1. Others(w)
    BY StepMoves DEF Serve
  <1>2. req'[w].pc # "write"
    <2>1. CASE LockOrder(w) \/ Read(w)
      BY <2>1, Locks, Reads
    <2>2. CASE WriteCode(w)
      BY <2>2, Codes DEF Idle
    <2>3. CASE ~LockOrder(w) /\ ~Read(w) /\ ~WriteCode(w)
      <3>1. Continues(w)
        BY <2>3, Continuing DEF Lock, Write
      <3> QED
        BY <3>1 DEF Continues, Ends, GoesTo, Idle
    <2> QED
      BY <2>1, <2>2, <2>3
  <1> QED
    BY <1>1, <1>2 DEF Applying, At, Others

LEMMA StoppingByWrite ==
    ASSUME TypeOK, TypeOK', Stopping, NEW w \in Workers, WriteCode(w)
    PROVE  Stopping'
  <1>1. w \in Applying /\ Applying' \subseteq Applying \ {w} /\ used' = used
    BY NoLongerApplying DEF WriteCode, Applying, Write
  <1>2. Order(w) \in Orders
    BY AtStep DEF WriteCode, At, Steps
  <1>3. CASE used < Limit
    BY <1>1, <1>2, <1>3, BoundAssumption DEF WriteCode, Stopping, TypeOK
  <1>4. CASE ~(used < Limit)
    <2>1. late' = late \cup {Order(w)}
      BY <1>4, BoundAssumption DEF WriteCode, TypeOK
    <2>2. Cardinality(late') <= Cardinality(late) + 1 /\ Cardinality(late) \in Nat
          /\ Cardinality(late') \in Nat
      BY <1>2, <2>1, Sizes DEF TypeOK
    <2>3. Applying \in SUBSET Workers /\ Applying' \in SUBSET Workers
      BY DEF Applying
    <2>4. /\ Cardinality(Applying') <= Cardinality(Applying \ {w})
          /\ Cardinality(Applying \ {w}) = Cardinality(Applying) - 1
          /\ Cardinality(Applying) \in Nat /\ Cardinality(Applying') \in Nat
          /\ Cardinality(Applying \ {w}) \in Nat
      BY <1>1, <2>3, Sizes
    <2>5. Cardinality(late) + Cardinality(Applying) < Cardinality(Workers)
          /\ Cardinality(Workers) \in Nat
      BY <1>4, Sizes DEF Stopping
    <2>6. Cardinality(late') + Cardinality(Applying') < Cardinality(Workers)
      BY <2>2, <2>4, <2>5
    <2> QED
      BY <1>1, <1>4, <2>6 DEF Stopping
  <1> QED
    BY <1>3, <1>4

\* Any other step of a worker, which may count a use.
LEMMA StoppingByOthers ==
    ASSUME TypeOK, TypeOK', Stopping, NEW w \in Workers,
           Applying' \subseteq Applying \ {w}, late' = late, used' >= used
    PROVE  Stopping'
  <1>1. Applying \in SUBSET Workers /\ Applying' \in SUBSET Workers /\ w \notin Applying'
    BY DEF Applying
  <1>2. /\ Cardinality(Applying') < Cardinality(Workers)
        /\ Cardinality(Applying') <= Cardinality(Applying)
        /\ Cardinality(Applying') \in Nat /\ Cardinality(Applying) \in Nat
        /\ Cardinality(Workers) \in Nat /\ Cardinality(late) \in Nat
    BY <1>1, Sizes DEF TypeOK
  <1>3. used \in Nat /\ used' \in Nat /\ Limit \in Nat
    BY BoundAssumption DEF TypeOK
  <1>4. CASE used < Limit
    <2>1. late' = {} /\ Cardinality(late') = 0
      BY <1>4, FS_EmptySet DEF Stopping
    <2> QED
      BY <1>2, <2>1 DEF Stopping
  <1>5. CASE ~(used < Limit)
    BY <1>2, <1>3, <1>5 DEF Stopping
  <1> QED
    BY <1>4, <1>5

LEMMA NextStopping ==
    ASSUME TypeOK, TypeOK', Stopping, [Next]_vars
    PROVE  Stopping'
  <1>1. CASE UNCHANGED vars
    BY <1>1 DEF vars, discount, Stopping, Applying, At
  <1>2. ASSUME NEW o \in Orders, Reopen(o) PROVE Stopping'
    BY <1>2 DEF Reopen, discount, Stopping, Applying, At
  <1>3. ASSUME NEW w \in Workers, Arrive(w) PROVE Stopping'
    <2>1. PICK op \in Operations, o \in Orders, step \in {"lock", "read", "write", "exists"} :
             Receive(w, op, o, step) /\ Passed(op, o)
      BY <1>3, Arrivals
    <2>2. Fresh(w, op, o, step) /\ At(w, "idle") /\ used' = used /\ late' = late
      BY <2>1, Arrives DEF Steps, discount
    <2>3. CASE used < Limit
      BY <2>2, <2>3 DEF Stopping
    <2>4. CASE ~(used < Limit)
      <3>1. Applying' = Applying
        BY <2>1, <2>2, <2>4 DEF Passed, Fresh, Others, Applying, At
      <3> QED
        BY <2>2, <3>1 DEF Stopping
    <2> QED
      BY <2>3, <2>4
  <1>4. ASSUME NEW w \in Workers,
               \/ Lock(w) \/ Commit(w) \/ RollBack(w) \/ MarkFailed(w)
               \/ (Write(w) /\ ~WriteCode(w)) \/ Crash(w)
        PROVE  Stopping'
    <2>1. Applying' \subseteq Applying \ {w}
      BY <1>4, NoLongerApplying
    <2>2. late' = late
      BY <1>4 DEF Lock, LockOrder, NothingToFulfil, LockUser, Read, Commit, RollBack, MarkFailed,
                  Write, WriteNowPayments, WriteCancel, WriteNoCode, LookForUse, InsertUse,
                  CountUse, SaveSession, Crash, discount
    <2>3. used' = used \/ used' = used + 1
      BY <1>4 DEF Lock, LockOrder, NothingToFulfil, LockUser, Read, Commit, RollBack, MarkFailed,
                  Write, WriteNowPayments, WriteCancel, WriteNoCode, LookForUse, InsertUse,
                  CountUse, SaveSession, Crash, discount, Increment, TypeOK
    <2> QED
      BY <2>1, <2>2, <2>3, StoppingByOthers DEF TypeOK
  <1> QED
    BY <1>1, <1>2, <1>3, <1>4, StoppingByWrite DEF Next, Serve

\* A code that is used up reaches no further orders, except those of requests that
\* had asked before and write later, at most one for each other worker.
THEOREM ExhaustedCodeStopsHolds == Spec => []ExhaustedCodeStops
  <1>1. Init => Stopping
    BY BoundAssumption DEF Init, Stopping
  <1>2. TypeOK /\ TypeOK' /\ Stopping /\ [Next]_vars => Stopping'
    BY NextStopping
  <1>3. TypeOK /\ Stopping => ExhaustedCodeStops
    <2> SUFFICES ASSUME TypeOK, Stopping PROVE ExhaustedCodeStops
      OBVIOUS
    <2>1. Applying \in SUBSET Workers
      BY DEF Applying
    <2>2. /\ Cardinality(Applying) \in Nat /\ Cardinality(late) \in Nat
          /\ Cardinality(Workers) \in Nat /\ Cardinality(Workers) > 0 /\ Cardinality({}) = 0
      BY <2>1, Sizes, FS_EmptySet DEF TypeOK
    <2> QED
      BY <2>2 DEF Stopping, ExhaustedCodeStops
  <1> QED
    BY <1>1, <1>2, <1>3, TypeCorrect, PTL DEF Spec

-----------------------------------------------------------------------------
(* The count of uses.                                                      *)

LEMMA Counters ==
    ASSUME TypeOK
    PROVE  /\ Uncounted \in SUBSET Workers /\ Cardinality(Uncounted) \in Nat
           /\ Cardinality(usage) \in Nat /\ used \in Nat /\ lost \in Nat /\ gone \in Nat
  <1>1. Uncounted \in SUBSET Workers
    BY DEF Uncounted
  <1> QED
    BY <1>1, Sizes DEF TypeOK

\* What a worker's step does to the set of rows that wait.
LEMMA Waiting ==
    ASSUME NEW w \in Workers, Others(w)
    PROVE  Uncounted' = IF req'[w].pc = "count" THEN Uncounted \cup {w} ELSE Uncounted \ {w}
  BY DEF Others, Uncounted, At

\* The step of a worker whose row does not wait before or after it.
LEMMA WaitingStays ==
    ASSUME NEW w \in Workers, Others(w), ~At(w, "count"), req'[w].pc # "count"
    PROVE  Uncounted' = Uncounted
  BY Waiting DEF Uncounted

LEMMA ExplainedByCommit ==
    ASSUME TypeOK, UsedExplained, NEW w \in Workers, Commit(w)
    PROVE  UsedExplained'
  <1>1. Order(w) \in Orders /\ req[w] \in Requests /\ Others(w)
    BY AtStep, StepMoves DEF Commit, At, Steps, Serve
  <1>2. req'[w].pc # "count"
    BY <1>1, Moves DEF Commit, Ends, GoesTo, Idle
  <1>3. Uncounted' = Uncounted
    BY <1>1, <1>2, WaitingStays DEF Commit, At
  <1>4. lost' = lost /\ gone' = gone
    BY DEF Commit
  <1>5. CASE Counts(w)
    <2>1. used' = used + 1 /\ usage' = usage \cup {Order(w)} /\ Order(w) \notin usage
      BY <1>5 DEF Commit, Increment
    <2>2. Cardinality(usage') = Cardinality(usage) + 1
      BY <1>1, <2>1, Sizes DEF TypeOK
    <2> QED
      BY <1>3, <1>4, <2>1, <2>2, Counters DEF UsedExplained
  <1>6. CASE ~Counts(w)
    <2>1. used' = used /\ usage' = usage
      BY <1>6 DEF Commit, Increment, TypeOK
    <2> QED
      BY <1>3, <1>4, <2>1 DEF UsedExplained
  <1> QED
    BY <1>5, <1>6

LEMMA ExplainedByCancel ==
    ASSUME TypeOK, UsedExplained, NEW w \in Workers, WriteCancel(w)
    PROVE  UsedExplained'
  <1>1. Order(w) \in Orders /\ Others(w) /\ req'[w] = Idle
    BY AtStep, StepMoves, Moves DEF WriteCancel, At, Steps, Serve, Write, Ends
  <1>2. Uncounted' = Uncounted
    BY <1>1, WaitingStays DEF WriteCancel, At, Idle
  <1>3. used' = used /\ lost' = lost /\ usage' = usage \ {Order(w)}
        /\ gone' = gone + (IF Order(w) \in usage THEN 1 ELSE 0)
    BY DEF WriteCancel
  <1>4. CASE Order(w) \in usage
    <2>1. Cardinality(usage') = Cardinality(usage) - 1 /\ gone' = gone + 1
      BY <1>1, <1>3, <1>4, Sizes DEF TypeOK
    <2> QED
      BY <1>2, <1>3, <2>1, Counters DEF UsedExplained
  <1>5. CASE Order(w) \notin usage
    <2>1. usage' = usage /\ gone' = gone
      BY <1>3, <1>5 DEF TypeOK
    <2> QED
      BY <1>2, <1>3, <2>1 DEF UsedExplained
  <1> QED
    BY <1>4, <1>5

LEMMA ExplainedByReceipt ==
    ASSUME TypeOK, UsedExplained, NEW w \in Workers, InsertUse(w) \/ CountUse(w)
    PROVE  UsedExplained'
  <1>1. Order(w) \in Orders /\ req[w] \in Requests /\ Others(w)
    BY AtStep, StepMoves DEF InsertUse, CountUse, At, Steps, Serve, Write
  <1>2. lost' = lost /\ gone' = gone
    BY DEF InsertUse, CountUse
  <1>3. CASE CountUse(w)
    <2>1. used' = used + 1 /\ usage' = usage /\ w \in Uncounted /\ req'[w].pc = "save"
      BY <1>1, <1>3, Moves DEF CountUse, Uncounted, GoesTo
    <2>2. Uncounted' = Uncounted \ {w}
      BY <1>1, <2>1, Waiting
    <2>3. Cardinality(Uncounted') = Cardinality(Uncounted) - 1
      BY <2>1, <2>2, Sizes, Counters
    <2> QED
      BY <1>2, <2>1, <2>3, Counters DEF UsedExplained
  <1>4. CASE InsertUse(w) /\ Exists(Order(w)) /\ Order(w) \notin usage
    <2>1. usage' = usage \cup {Order(w)} /\ used' = used /\ GoTo(w, "count")
      BY <1>4 DEF InsertUse
    <2>2. req'[w].pc = "count" /\ w \notin Uncounted
      BY <1>1, <1>4, <2>1, Moves DEF InsertUse, GoesTo, Steps, Uncounted, At
    <2>3. Uncounted' = Uncounted \cup {w}
      BY <1>1, <2>2, Waiting
    <2>4. Cardinality(usage') = Cardinality(usage) + 1
      BY <1>1, <1>4, <2>1, Sizes DEF TypeOK
    <2>5. Cardinality(Uncounted') = Cardinality(Uncounted) + 1
      BY <2>2, <2>3, Sizes, Counters
    <2> QED
      BY <1>2, <2>1, <2>4, <2>5, Counters DEF UsedExplained
  <1>5. CASE InsertUse(w) /\ ~(Exists(Order(w)) /\ Order(w) \notin usage)
    <2>1. usage' = usage /\ used' = used /\ GoTo(w, "save")
      BY <1>5 DEF InsertUse
    <2>2. req'[w].pc = "save"
      BY <1>1, <2>1, Moves DEF GoesTo, Steps
    <2>3. Uncounted' = Uncounted
      BY <1>1, <1>5, <2>2, WaitingStays DEF InsertUse, At
    <2> QED
      BY <1>2, <2>1, <2>3 DEF UsedExplained
  <1> QED
    BY <1>3, <1>4, <1>5

LEMMA ExplainedByCrash ==
    ASSUME TypeOK, UsedExplained, NEW w \in Workers, Crash(w)
    PROVE  UsedExplained'
  <1>1. Others(w) /\ req'[w].pc # "count"
    BY Moves DEF Crash, Ends, Idle
  <1>2. used' = used /\ usage' = usage /\ gone' = gone
        /\ lost' = lost + (IF At(w, "count") THEN 1 ELSE 0)
    BY DEF Crash
  <1>3. CASE At(w, "count")
    <2>1. Uncounted' = Uncounted \ {w} /\ w \in Uncounted
      BY <1>1, <1>3, Waiting DEF Uncounted
    <2>2. Cardinality(Uncounted') = Cardinality(Uncounted) - 1
      BY <2>1, Sizes, Counters
    <2> QED
      BY <1>2, <1>3, <2>2, Counters DEF UsedExplained
  <1>4. CASE ~At(w, "count")
    <2>1. Uncounted' = Uncounted /\ lost' = lost
      BY <1>1, <1>2, <1>4, WaitingStays DEF TypeOK
    <2> QED
      BY <1>2, <2>1 DEF UsedExplained
  <1> QED
    BY <1>3, <1>4

\* No other step touches a row or the count.
LEMMA ExplainedByOthers ==
    ASSUME TypeOK, UsedExplained, NEW w \in Workers,
           \/ Arrive(w) \/ Lock(w) \/ RollBack(w) \/ MarkFailed(w) \/ WriteNowPayments(w)
           \/ WriteCode(w) \/ WriteNoCode(w) \/ LookForUse(w) \/ SaveSession(w)
    PROVE  UsedExplained'
  <1>1. Others(w)
    BY StepMoves DEF Serve, Write
  <1>2. ~At(w, "count") /\ req'[w].pc # "count"
    <2>1. CASE Arrive(w)
      BY <2>1, Arrivals, Arrives DEF Fresh, At, Steps
    <2>2. CASE LockOrder(w) \/ Read(w)
      BY <2>2, Locks, Reads DEF LockOrder, Read, At
    <2>3. CASE WriteCode(w)
      <3>1. ~At(w, "count")
        BY <2>3 DEF WriteCode, At
      <3>2. req'[w] = Idle \/ req'[w].pc = "save"
        BY <2>3, Codes
      <3> QED
        BY <3>1, <3>2 DEF Idle
    <2>4. CASE \/ NothingToFulfil(w) \/ LockUser(w) \/ RollBack(w) \/ MarkFailed(w)
               \/ WriteNowPayments(w) \/ WriteNoCode(w) \/ LookForUse(w) \/ SaveSession(w)
      <3>1. req[w] \in Requests /\ ~At(w, "count")
        BY <2>4, AtStep
        DEF NothingToFulfil, LockUser, RollBack, MarkFailed, WriteNowPayments, WriteNoCode,
            LookForUse, SaveSession, At, Steps
      <3>2. \/ Finish(w) \/ Forget(w)
            \/ \E step \in {"read", "commit", "fail", "insert", "save"} : GoTo(w, step)
        BY <2>4 DEF NothingToFulfil, LockUser, RollBack, MarkFailed, WriteNowPayments,
                    WriteNoCode, LookForUse, SaveSession
      <3> QED
        BY <3>1, <3>2, Moves DEF Ends, GoesTo, Idle, Steps
    <2> QED
      BY <2>1, <2>2, <2>3, <2>4 DEF Lock
  <1>3. Uncounted' = Uncounted
    BY <1>1, <1>2, WaitingStays
  <1>4. used' = used /\ usage' = usage /\ lost' = lost /\ gone' = gone
    <2>1. CASE Arrive(w)
      BY <2>1, Arrivals, Arrives DEF Steps, discount
    <2>2. CASE ~Arrive(w)
      BY <2>2 DEF Lock, LockOrder, NothingToFulfil, LockUser, Read, RollBack, MarkFailed,
                  WriteNowPayments, WriteCode, WriteNoCode, LookForUse, SaveSession, discount
    <2> QED
      BY <2>1, <2>2
  <1> QED
    BY <1>3, <1>4 DEF UsedExplained

LEMMA NextExplained ==
    ASSUME TypeOK, TypeOK', UsedExplained, [Next]_vars
    PROVE  UsedExplained'
  <1>1. CASE UNCHANGED vars
    BY <1>1 DEF vars, discount, UsedExplained, Uncounted, At
  <1>2. ASSUME NEW o \in Orders, Reopen(o) PROVE UsedExplained'
    BY <1>2 DEF Reopen, discount, UsedExplained, Uncounted, At
  <1> QED
    BY <1>1, <1>2, ExplainedByCommit, ExplainedByCancel, ExplainedByReceipt, ExplainedByCrash,
       ExplainedByOthers DEF Next, Serve, Write

\* used_count is the number of orders whose use was recorded, each once, but for
\* rows that went with their order and rows whose worker has not counted them.
THEOREM UsedExplainedHolds == Spec => []UsedExplained
  <1>1. Init => UsedExplained
    <2> SUFFICES ASSUME Init PROVE UsedExplained
      OBVIOUS
    <2>1. Uncounted = {}
      BY DEF Init, Uncounted, At, Idle
    <2> QED
      BY <2>1, FS_EmptySet DEF Init, UsedExplained
  <1>2. TypeOK /\ TypeOK' /\ UsedExplained /\ [Next]_vars => UsedExplained'
    BY NextExplained
  <1> QED
    BY <1>1, <1>2, TypeCorrect, PTL DEF Spec

-----------------------------------------------------------------------------
(* Rewards are bounded.                                                    *)

\* Under fulfilment's lock the order stays there and unpaid, and neither fulfilment
\* past its lock nor an approval believes its order paid.
Locked ==
    /\ \A w \in Workers, o \in Orders : HoldsOrder(w, o) => Exists(o) /\ status[o] # "paid"
    /\ \A w \in Workers :
          \/ Doing(w, "approve")
          \/ Doing(w, "fulfil") /\ req[w].pc \in {"read", "commit"}
          => ~req[w].paid

\* The workers whose transaction will reward the referrer if nothing else is paid
\* before it reads, other than by paying again an order that is paid.
Rewarding ==
    {w \in Workers :
        /\ req[w].op \in Dispatching
        /\ \/ req[w].pc \in {"lock", "read"} /\ Paid \subseteq {Order(w)}
           \/ At(w, "commit") /\ Cardinality(SeenPaid(w)) = 1
        /\ ~Doing(w, "approve") => Order(w) \notin Paid
        /\ Doing(w, "webWallet") => ~req[w].paid}

\* The rewards of all rounds that are over; a round lasts while an order is paid.
Past == Cardinality(Workers) * undone + repaid

Granted ==
    IF Paid = {} THEN rewards <= Past
                 ELSE rewards + Cardinality(Rewarding) <= Past + Cardinality(Workers)

\* A worker's step away from the lock leaves the others' locks alone.
LEMMA KeepsLocked ==
    ASSUME TypeOK, Locked, NEW w \in Workers, Others(w),
           \A o \in Orders : status'[o] = status[o] \/ OrderFree(w, o),
           \A o \in Orders : (HoldsOrder(w, o))' => Exists(o)' /\ status'[o] # "paid",
           \/ Doing(w, "approve")'
           \/ Doing(w, "fulfil")' /\ req'[w].pc \in {"read", "commit"}
           => ~req'[w].paid
    PROVE  Locked'
  <1>1. ASSUME NEW v \in Workers, NEW o \in Orders, (HoldsOrder(v, o))'
        PROVE  (Exists(o) /\ status[o] # "paid")'
    <2>1. CASE v = w
      BY <1>1, <2>1
    <2>2. CASE v # w
      <3>1. HoldsOrder(v, o)
        BY <1>1, <2>2 DEF HoldsOrder, Others, Doing, Order
      <3>2. status'[o] = status[o]
        BY <2>2, <3>1 DEF OrderFree
      <3> QED
        BY <3>1, <3>2 DEF Locked, Exists
    <2> QED
      BY <2>1, <2>2
  <1>2. ASSUME NEW v \in Workers,
               \/ Doing(v, "approve")'
               \/ Doing(v, "fulfil")' /\ req'[v].pc \in {"read", "commit"}
        PROVE  ~req'[v].paid
    <2>1. CASE v # w
      BY <1>2, <2>1 DEF Others, Locked, Doing
    <2> QED
      BY <1>2, <2>1
  <1> QED
    BY <1>1, <1>2 DEF Locked

\* Which orders a step other than the admin's may pay, fail or delete, and only
\* while nobody else holds the order.
LEMMA StatusMoves ==
    ASSUME TypeOK, NEW w \in Workers, Serve(w) \/ Crash(w)
    PROVE  /\ \A o \in Orders : status'[o] = status[o] \/ OrderFree(w, o)
           /\ Paid' \in SUBSET Orders
  <1>1. CASE Arrive(w)
    BY <1>1, Arrivals, Arrives DEF Steps, Paid
  <1>2. CASE Commit(w) \/ MarkFailed(w) \/ WriteNowPayments(w) \/ WriteCancel(w)
    BY <1>2 DEF Commit, MarkFailed, WriteNowPayments, WriteCancel, TypeOK, Paid
  <1>3. CASE \/ Lock(w) \/ RollBack(w) \/ WriteCode(w) \/ WriteNoCode(w)
             \/ LookForUse(w) \/ InsertUse(w) \/ CountUse(w) \/ SaveSession(w) \/ Crash(w)
    BY <1>3 DEF Lock, LockOrder, NothingToFulfil, LockUser, Read, RollBack, WriteCode,
                WriteNoCode, LookForUse, InsertUse, CountUse, SaveSession, Crash, Paid
  <1> QED
    BY <1>1, <1>2, <1>3 DEF Serve, Write

LEMMA NextLocked ==
    ASSUME TypeOK, Locked, [Next]_vars
    PROVE  Locked'
  <1>1. CASE UNCHANGED vars
    BY <1>1 DEF vars, Locked, HoldsOrder, Doing, Order, Exists
  <1>2. ASSUME NEW o \in Orders, Reopen(o) PROVE Locked'
    BY <1>2 DEF Reopen, TypeOK, Locked, HoldsOrder, Doing, Order, Exists
  <1>3. ASSUME NEW w \in Workers, Serve(w) \/ Crash(w) PROVE Locked'
    <2>1. Others(w) /\ \A o \in Orders : status'[o] = status[o] \/ OrderFree(w, o)
      BY <1>3, StepMoves, StatusMoves
    <2>2. \* what is asked of the worker that moves
          /\ \A o \in Orders : (HoldsOrder(w, o))' => Exists(o)' /\ status'[o] # "paid"
          /\ \/ Doing(w, "approve")'
             \/ Doing(w, "fulfil")' /\ req'[w].pc \in {"read", "commit"}
             => ~req'[w].paid
      <3>1. CASE Arrive(w)
        <4>1. PICK op \in Operations, o \in Orders,
                   step \in {"lock", "read", "write", "exists"} :
                 /\ Receive(w, op, o, step) /\ Passed(op, o)
                 /\ op = "approve" <=> step = "read"
          BY <3>1, Arrivals
        <4>2. Fresh(w, op, o, step)
          BY <4>1, Arrives DEF Steps
        <4> QED
          BY <4>1, <4>2 DEF Fresh, Passed, HoldsOrder, Doing
      <3>2. CASE LockOrder(w)
        <4>1. Exists(Order(w)) /\ status[Order(w)] # "paid" /\ status' = status
          BY <3>2 DEF LockOrder
        <4>2. req'[w].ord = Order(w) /\ ~req'[w].paid
          BY <3>2, Locks
        <4> QED
          BY <4>1, <4>2 DEF HoldsOrder, Order, Exists
      <3>3. CASE Read(w)
        <4>1. req'[w].op = req[w].op /\ req'[w].ord = Order(w) /\ req'[w].paid = req[w].paid
          BY <3>3, Reads
        <4>2. At(w, "read") /\ status' = status
          BY <3>3 DEF Read
        <4> QED
          BY <4>1, <4>2 DEF HoldsOrder, Doing, Order, At, Locked, Exists
      <3>4. CASE WriteCode(w)
        <4>1. req'[w] = Idle \/ (req'[w].pc = "save" /\ Same(w))
          BY <3>4, Codes
        <4> QED
          BY <4>1 DEF HoldsOrder, Doing, Idle, Same, Locked
      <3>5. CASE ~Arrive(w) /\ ~LockOrder(w) /\ ~Read(w) /\ ~WriteCode(w)
        <4>1. Continues(w)
          BY <1>3, <3>5, Continuing DEF Serve, Lock, Write
        <4>2. req'[w] = Idle \/ Same(w)
          BY <4>1 DEF Continues, Ends, GoesTo
        <4>3. Doing(w, "fulfil") => req'[w].pc \notin {"read", "commit"}
          <5>1. CASE LockUser(w)
            BY <5>1 DEF LockUser
          <5>2. CASE ~LockUser(w)
            <6>1. req[w] \in Requests
              BY <1>3, <3>5, <5>2, AtStep
              DEF Serve, Lock, Write, NothingToFulfil, Commit, RollBack, MarkFailed,
                  WriteNowPayments, WriteCancel, WriteNoCode, LookForUse, InsertUse, CountUse,
                  SaveSession, Crash, At, Steps
            <6>2. \/ Finish(w) \/ Forget(w)
                  \/ \E step \in {"fail", "insert", "count", "save"} : GoTo(w, step)
              BY <1>3, <3>5, <5>2
              DEF Serve, Lock, Write, NothingToFulfil, Commit, RollBack, MarkFailed,
                  WriteNowPayments, WriteCancel, WriteNoCode, LookForUse, InsertUse, CountUse,
                  SaveSession, Crash
            <6> QED
              BY <6>1, <6>2, Moves DEF Ends, GoesTo, Idle, Steps
          <5> QED
            BY <5>1, <5>2
        <4>4. CASE req'[w] = Idle
          BY <4>4 DEF HoldsOrder, Doing, Idle
        <4>5. CASE Same(w)
          <5>1. ~(Doing(w, "fulfil")' /\ req'[w].pc \in {"read", "commit"})
            BY <4>3, <4>5 DEF Same, Doing
          <5>2. Doing(w, "approve")' => ~req'[w].paid
            BY <4>5 DEF Same, Doing, Locked
          <5> QED
            BY <5>1, <5>2 DEF HoldsOrder
        <4> QED
          BY <4>2, <4>4, <4>5
      <3> QED
        BY <3>1, <3>2, <3>3, <3>4, <3>5
    <2> QED
      BY <2>1, <2>2, KeepsLocked
  <1> QED
    BY <1>1, <1>2, <1>3 DEF Next

\* An approval begins with its read.
ReadsFirst == \A w \in Workers : Doing(w, "approve") => ~At(w, "lock")

LEMMA NextReadsFirst ==
    ASSUME TypeOK, ReadsFirst, [Next]_vars
    PROVE  ReadsFirst'
  <1>1. CASE UNCHANGED vars
    BY <1>1 DEF vars, ReadsFirst, Doing, At
  <1>2. ASSUME NEW o \in Orders, Reopen(o) PROVE ReadsFirst'
    BY <1>2 DEF Reopen, ReadsFirst, Doing, At
  <1>3. ASSUME NEW w \in Workers, Serve(w) \/ Crash(w) PROVE ReadsFirst'
    <2>1. Others(w)
      BY <1>3, StepMoves
    <2>2. req'[w].op = "approve" => req'[w].pc # "lock"
      <3>1. CASE Arrive(w)
        <4>1. PICK op \in Operations, o \in Orders,
                   step \in {"lock", "read", "write", "exists"} :
                 Receive(w, op, o, step) /\ (op = "approve" <=> step = "read")
          BY <3>1, Arrivals
        <4> QED
          BY <4>1, Arrives DEF Fresh, Steps
      <3>2. CASE LockOrder(w) \/ Read(w)
        BY <3>2, Locks, Reads
      <3>3. CASE WriteCode(w)
        BY <3>3, Codes DEF Idle
      <3>4. CASE ~Arrive(w) /\ ~LockOrder(w) /\ ~Read(w) /\ ~WriteCode(w)
        <4>1. Continues(w)
          BY <1>3, <3>4, Continuing DEF Serve, Lock, Write
        <4> QED
          BY <4>1 DEF Continues, Ends, GoesTo, Idle
      <3> QED
        BY <3>1, <3>2, <3>3, <3>4
    <2> QED
      BY <2>1, <2>2 DEF Others, ReadsFirst, Doing, At
  <1> QED
    BY <1>1, <1>2, <1>3 DEF Next

\* The number of rewards that rounds allow, and what a new round adds.
LEMMA Rounds ==
    ASSUME TypeOK, TypeOK'
    PROVE  /\ Past \in Nat /\ rewards \in Nat
           /\ Rewarding \in SUBSET Workers /\ Cardinality(Rewarding) \in Nat
           /\ Cardinality(Rewarding) <= Cardinality(Workers) /\ Cardinality(Workers) \in Nat
           /\ (undone' = undone + 1 /\ repaid' = repaid) => Past' = Past + Cardinality(Workers)
           /\ undone' = undone => Past' = Past + repaid' - repaid
  <1>1. Rewarding \in SUBSET Workers
    BY DEF Rewarding
  <1>2. /\ Cardinality(Rewarding) \in Nat /\ Cardinality(Rewarding) <= Cardinality(Workers)
        /\ Cardinality(Workers) \in Nat
    BY <1>1, Sizes
  <1>3. undone \in Nat /\ repaid \in Nat /\ repaid' \in Nat /\ rewards \in Nat
    BY DEF TypeOK
  <1>4. Cardinality(Workers) * undone \in Nat
    BY <1>2, <1>3
  <1>5. Cardinality(Workers) * (undone + 1) = Cardinality(Workers) * undone + Cardinality(Workers)
    BY <1>2, <1>3
  <1> QED
    BY <1>1, <1>2, <1>3, <1>4, <1>5 DEF Past

\* The others reward if they would have before more was paid.
LEMMA OthersRewarding ==
    ASSUME TypeOK, NEW w \in Workers, Others(w), Paid \subseteq Paid',
           w \in Rewarding' => w \in Rewarding
    PROVE  Rewarding' \subseteq Rewarding
  <1> SUFFICES ASSUME NEW v \in Rewarding', v # w PROVE v \in Rewarding
    OBVIOUS
  <1>1. v \in Workers /\ req'[v] = req[v]
    BY DEF Rewarding, Others
  <1>2. SeenPaid(v)' = SeenPaid(v)
    BY <1>1 DEF SeenPaid, Order
  <1> QED
    BY <1>1, <1>2 DEF Rewarding, Doing, At, Order

\* Steps that reward nobody and leave no paid order unpaid.
LEMMA GrantedGrows ==
    ASSUME TypeOK, TypeOK', Granted, Paid \subseteq Paid',
           rewards' = rewards, undone' = undone, repaid' = repaid,
           Paid # {} => Rewarding' \subseteq Rewarding
    PROVE  Granted'
  <1>1. /\ Past' = Past /\ Past \in Nat /\ rewards \in Nat
        /\ Rewarding \in SUBSET Workers /\ Cardinality(Rewarding) \in Nat
        /\ Cardinality(Workers) \in Nat
    BY Rounds DEF TypeOK
  <1>2. /\ Rewarding' \in SUBSET Workers /\ Cardinality(Rewarding') \in Nat
        /\ Cardinality(Rewarding') <= Cardinality(Workers)
    <2>1. Rewarding' \in SUBSET Workers
      BY DEF Rewarding
    <2> QED
      BY <2>1, Sizes
  <1>3. CASE Paid = {}
    BY <1>1, <1>2, <1>3 DEF Granted
  <1>4. CASE Paid # {}
    <2>1. Cardinality(Rewarding') <= Cardinality(Rewarding) /\ Paid' # {}
      BY <1>1, <1>2, <1>4, Sizes
    <2> QED
      BY <1>1, <1>2, <1>4, <2>1 DEF Granted
  <1> QED
    BY <1>3, <1>4

\* A paid order ceases to be paid: another round may begin.
LEMMA GrantedUndone ==
    ASSUME TypeOK, TypeOK', Granted, Paid # {},
           rewards' = rewards, undone' = undone + 1, repaid' = repaid
    PROVE  Granted'
  <1>1. /\ Past' = Past + Cardinality(Workers) /\ Past \in Nat /\ rewards \in Nat
        /\ Cardinality(Rewarding) \in Nat /\ Cardinality(Workers) \in Nat
    BY Rounds
  <1>2. Cardinality(Rewarding') \in Nat /\ Cardinality(Rewarding') <= Cardinality(Workers)
    <2>1. Rewarding' \in SUBSET Workers
      BY DEF Rewarding
    <2> QED
      BY <2>1, Sizes
  <1> QED
    BY <1>1, <1>2 DEF Granted

\* A settlement that rewards either had its reward reserved or pays a paid order.
LEMMA Reserved ==
    ASSUME TypeOK, Locked, NEW w \in Workers, Commit(w), Rewards(w), repaid' = repaid
    PROVE  w \in Rewarding /\ ~req[w].paid
  <1>1. /\ req[w].op \in Dispatching /\ At(w, "commit") /\ Order(w) \in Orders
        /\ Cardinality(SeenPaid(w)) = 1
    BY AtStep DEF Commit, Rewards, At, Steps
  <1>2. ~(Doing(w, "webWallet") /\ (req[w].paid \/ Order(w) \in Paid))
    BY DEF Commit, TypeOK
  <1>3. Doing(w, "fulfil") => Order(w) \notin Paid
    BY <1>1 DEF Locked, HoldsOrder, At, Paid
  <1>4. Doing(w, "approve") \/ Doing(w, "fulfil") => ~req[w].paid
    BY <1>1 DEF Locked, At
  <1> QED
    BY <1>1, <1>2, <1>3, <1>4 DEF Rewarding, Dispatching, Doing

LEMMA GrantedByCommit ==
    ASSUME TypeOK, TypeOK', Locked, Granted, NEW w \in Workers, Commit(w)
    PROVE  Granted'
  <1>1. Others(w) /\ req[w] \in Requests /\ Order(w) \in Orders
    BY AtStep, StepMoves DEF Commit, At, Steps, Serve
  <1>2. w \notin Rewarding'
    <2>1. req'[w].pc \in {"idle", "save"}
      BY <1>1, Moves DEF Commit, Ends, GoesTo, Idle
    <2> QED
      BY <2>1 DEF Rewarding, At
  <1>3. Paid \subseteq Paid'
    BY <1>1 DEF Commit, TypeOK, Paid
  <1>4. Rewarding' \subseteq Rewarding \ {w}
    BY <1>1, <1>2, <1>3, OthersRewarding
  <1>5. /\ rewards' = rewards + (IF Rewards(w) THEN 1 ELSE 0) /\ undone' = undone
        /\ repaid' = repaid \/ repaid' = repaid + 1
    BY DEF Commit, TypeOK
  <1>6. repaid \in Nat
    BY DEF TypeOK
  <1>7. /\ Past' = Past + repaid' - repaid /\ Past \in Nat /\ rewards \in Nat
        /\ Rewarding \in SUBSET Workers /\ Cardinality(Rewarding) \in Nat
        /\ Cardinality(Workers) \in Nat
    BY <1>5, Rounds
  <1>8. Rewarding' \in SUBSET Workers
    BY <1>4, <1>7
  <1>9. /\ Cardinality(Rewarding') \in Nat /\ Cardinality(Rewarding') <= Cardinality(Rewarding)
        /\ Cardinality(Rewarding') + 1 <= Cardinality(Workers)
        /\ w \in Rewarding => Cardinality(Rewarding') + 1 <= Cardinality(Rewarding)
    <2>1. Cardinality(Rewarding') \in Nat /\ Cardinality(Rewarding') <= Cardinality(Rewarding)
      BY <1>4, <1>7, <1>8, Sizes
    <2>2. Cardinality(Rewarding') < Cardinality(Workers)
      BY <1>2, <1>8, Sizes
    <2>3. ASSUME w \in Rewarding PROVE Cardinality(Rewarding') <= Cardinality(Rewarding) - 1
      <3>1. Rewarding \ {w} \in SUBSET Workers
        BY <1>7
      <3>2. Cardinality(Rewarding') <= Cardinality(Rewarding \ {w})
        BY <1>4, <1>8, <3>1, Sizes
      <3> QED
        BY <1>7, <2>3, <3>2, Sizes
    <2> QED
      BY <1>7, <2>1, <2>2, <2>3
  <1>10. Rewards(w) /\ repaid' = repaid => w \in Rewarding /\ ~req[w].paid
    BY Reserved
  <1>11. ~req[w].paid => Paid' # {}
    BY <1>1 DEF Commit, TypeOK, Paid
  <1>12. CASE Paid' = {}
    BY <1>3, <1>5, <1>6, <1>7, <1>10, <1>11, <1>12 DEF Granted
  <1>13. CASE Paid' # {} /\ Paid = {}
    BY <1>5, <1>6, <1>7, <1>9, <1>13 DEF Granted
  <1>14. CASE Paid # {}
    BY <1>3, <1>5, <1>6, <1>7, <1>9, <1>10, <1>14 DEF Granted
  <1> QED
    BY <1>12, <1>13, <1>14

\* A snapshot that will show one paid order shows no other.
LEMMA SnapshotOfOne ==
    ASSUME TypeOK, NEW o \in Orders, Cardinality(Paid \cup {o}) = 1
    PROVE  Paid \subseteq {o}
  <1>1. Paid \cup {o} \in SUBSET Orders
    BY DEF Paid
  <1>2. IsFiniteSet(Paid \cup {o})
    BY <1>1, Sizes
  <1>3. \E x : Paid \cup {o} = {x}
    BY <1>2, FS_Singleton
  <1> QED
    BY <1>3

\* While an order is paid, a step towards a settlement reserves no further reward.
LEMMA LocksReserveNothing ==
    ASSUME TypeOK, Locked, ReadsFirst, NEW w \in Workers, Lock(w)
    PROVE  w \in Rewarding' => w \in Rewarding
  <1> SUFFICES ASSUME w \in Rewarding' PROVE w \in Rewarding
    OBVIOUS
  <1>1. Paid' = Paid
    BY DEF Lock, LockOrder, NothingToFulfil, LockUser, Read, Paid
  <1>2. CASE LockOrder(w)
    <2>1. /\ req'[w].pc = "read" /\ req'[w].op = "fulfil" /\ req'[w].ord = Order(w)
          /\ req[w].op = "fulfil" /\ req[w].pc = "lock"
      BY <1>2, Locks DEF LockOrder, Doing, At
    <2> QED
      BY <1>1, <2>1 DEF Rewarding, Dispatching, Doing, At, Order
  <1>3. CASE Read(w)
    <2>1. /\ req'[w].pc = "commit" /\ req'[w].op = req[w].op /\ req'[w].ord = Order(w)
          /\ req'[w].paid = req[w].paid /\ req'[w].sees = Paid
          /\ req[w].pc = "read" /\ Order(w) \in Orders
      BY <1>3, Reads DEF Read, At
    <2>2. /\ req[w].op \in Dispatching /\ ~req[w].paid
      BY <2>1 DEF Rewarding, Locked, Doing, Dispatching
    <2>3. SeenPaid(w)' = Paid \cup {Order(w)}
      BY <2>1, <2>2 DEF SeenPaid, Order
    <2>4. Cardinality(Paid \cup {Order(w)}) = 1
      BY <2>1, <2>3 DEF Rewarding, At
    <2>5. Paid \subseteq {Order(w)}
      BY <2>1, <2>4, SnapshotOfOne
    <2> QED
      BY <1>1, <2>1, <2>2, <2>5 DEF Rewarding, Doing, At, Order
  <1>4. CASE NothingToFulfil(w)
    <2>1. req'[w] = Idle
      BY <1>4, Moves DEF NothingToFulfil, Ends
    <2> QED
      BY <2>1 DEF Rewarding, Idle, At
  <1>5. CASE LockUser(w)
    <2>1. req[w] \in Requests /\ req[w].pc = "lock" /\ ~Doing(w, "fulfil")
      BY <1>5, AtStep DEF LockUser, At, Steps
    <2>2. /\ Same(w)
          /\ req'[w].pc = IF Doing(w, "webWallet") THEN "read" ELSE "commit"
      BY <1>5, <2>1, Moves DEF LockUser, GoesTo, Steps
    <2>3. Doing(w, "webWallet")
      BY <2>1, <2>2 DEF Rewarding, Dispatching, Same, Doing, ReadsFirst, At
    <2> QED
      BY <1>1, <2>1, <2>2, <2>3 DEF Rewarding, Dispatching, Same, Doing, At, Order
  <1> QED
    BY <1>2, <1>3, <1>4, <1>5 DEF Lock

\* A request that arrives while an order is paid reserves nothing: it is an approval
\* of another one, or would pay again an order that is paid.
LEMMA ArrivalsReserveNothing ==
    ASSUME TypeOK, NEW w \in Workers, Arrive(w), Paid # {}
    PROVE  w \notin Rewarding'
  <1>1. PICK op \in Operations, o \in Orders, step \in {"lock", "read", "write", "exists"} :
           Receive(w, op, o, step) /\ Passed(op, o)
    BY Arrivals
  <1>2. Fresh(w, op, o, step) /\ status' = status
    BY <1>1, Arrives DEF Steps
  <1>3. Paid' = Paid /\ Order(w)' = o /\ req'[w].op = op /\ req'[w].pc # "commit"
    BY <1>2 DEF Paid, Fresh, Order
  <1>4. op = "approve" => o \notin Paid
    BY <1>1 DEF Passed, Paid
  <1> QED
    BY <1>3, <1>4 DEF Rewarding, Doing, At

\* The steps after a transaction, and those outside any, hold no reservation.
LEMMA OthersReserveNothing ==
    ASSUME TypeOK, NEW w \in Workers, RollBack(w) \/ MarkFailed(w) \/ Write(w) \/ Crash(w)
    PROVE  w \notin Rewarding'
  <1>1. req'[w].pc \notin {"lock", "read", "commit"}
    <2>1. CASE WriteCode(w)
      BY <2>1, Codes DEF Idle
    <2>2. CASE ~WriteCode(w)
      <3>1. req[w] \in Requests
        BY <2>2, AtStep
        DEF RollBack, MarkFailed, Write, WriteNowPayments, WriteCancel, WriteNoCode, LookForUse,
            InsertUse, CountUse, SaveSession, Crash, At, Steps
      <3>2. \/ Finish(w) \/ Forget(w)
            \/ \E step \in {"fail", "insert", "count", "save"} : GoTo(w, step)
        BY <2>2
        DEF RollBack, MarkFailed, Write, WriteNowPayments, WriteCancel, WriteNoCode, LookForUse,
            InsertUse, CountUse, SaveSession, Crash
      <3> QED
        BY <3>1, <3>2, Moves DEF Ends, GoesTo, Idle, Steps
    <2> QED
      BY <2>1, <2>2
  <1> QED
    BY <1>1 DEF Rewarding, At

LEMMA NextGranted ==
    ASSUME TypeOK, TypeOK', Locked, ReadsFirst, Granted, [Next]_vars
    PROVE  Granted'
  <1>1. CASE UNCHANGED vars
    <2>1. Paid' = Paid /\ Past' = Past /\ rewards' = rewards /\ req' = req
      BY <1>1 DEF vars, referral, Paid, Past
    <2>2. Rewarding' = Rewarding
      BY <2>1 DEF Rewarding, SeenPaid, Order, Doing, At
    <2> QED
      BY <2>1, <2>2 DEF Granted
  <1>2. ASSUME NEW o \in Orders, Reopen(o) PROVE Granted'
    BY <1>2, GrantedUndone DEF Reopen, Paid
  <1>3. ASSUME NEW w \in Workers, Arrive(w) \/ Lock(w) PROVE Granted'
    <2>1. Others(w)
      BY <1>3, StepMoves DEF Serve
    <2>2. status' = status /\ UNCHANGED referral
      <3>1. CASE Arrive(w)
        BY <3>1, Arrivals, Arrives DEF Steps
      <3>2. CASE Lock(w)
        BY <3>2 DEF Lock, LockOrder, NothingToFulfil, LockUser, Read
      <3> QED
        BY <1>3, <3>1, <3>2
    <2>3. Paid' = Paid
      BY <2>2 DEF Paid
    <2>4. ASSUME Paid # {} PROVE Rewarding' \subseteq Rewarding
      <3>1. w \in Rewarding' => w \in Rewarding
        BY <1>3, <2>4, LocksReserveNothing, ArrivalsReserveNothing
      <3> QED
        BY <2>1, <2>3, <3>1, OthersRewarding
    <2> QED
      BY <2>2, <2>3, <2>4, GrantedGrows DEF referral
  <1>4. ASSUME NEW w \in Workers, RollBack(w) \/ MarkFailed(w) \/ Write(w) \/ Crash(w)
        PROVE  Granted'
    <2>1. Others(w) /\ w \notin Rewarding'
      BY <1>4, StepMoves, OthersReserveNothing DEF Serve
    <2>2. CASE (MarkFailed(w) \/ WriteCancel(w)) /\ Order(w) \in Paid
      <3>1. undone' = undone + 1 /\ rewards' = rewards /\ repaid' = repaid /\ Paid # {}
        BY <2>2 DEF MarkFailed, WriteCancel
      <3> QED
        BY <3>1, GrantedUndone
    <2>3. CASE ~((MarkFailed(w) \/ WriteCancel(w)) /\ Order(w) \in Paid)
      <3>1. Paid \subseteq Paid' /\ rewards' = rewards /\ repaid' = repaid /\ undone' = undone
        <4>1. CASE MarkFailed(w) \/ WriteCancel(w)
          BY <2>3, <4>1 DEF MarkFailed, WriteCancel, TypeOK, Paid
        <4>2. CASE WriteNowPayments(w)
          BY <4>2 DEF WriteNowPayments, TypeOK, Paid
        <4>3. CASE ~MarkFailed(w) /\ ~WriteCancel(w) /\ ~WriteNowPayments(w)
          BY <1>4, <4>3 DEF RollBack, Write, WriteCode, WriteNoCode, LookForUse, InsertUse,
                            CountUse, SaveSession, Crash, referral, Paid
        <4> QED
          BY <4>1, <4>2, <4>3
      <3>2. Rewarding' \subseteq Rewarding
        BY <2>1, <3>1, OthersRewarding
      <3> QED
        BY <3>1, <3>2, GrantedGrows
    <2> QED
      BY <2>2, <2>3
  <1> QED
    BY <1>1, <1>2, <1>3, <1>4, GrantedByCommit DEF Next, Serve

\* Each transaction counts the paid orders in its own snapshot, so overlapping
\* settlements all find theirs the first: one reward for each worker in each round,
\* and one for each wallet payment of a paid order.
THEOREM RewardsBoundedHolds == Spec => []RewardsBounded
  <1>1. Init => Locked /\ ReadsFirst /\ Granted
    <2> SUFFICES ASSUME Init PROVE Locked /\ ReadsFirst /\ Granted
      OBVIOUS
    <2>1. Locked /\ ReadsFirst
      BY DEF Init, Locked, ReadsFirst, HoldsOrder, Doing, At, Idle
    <2>2. Cardinality(Workers) \in Nat
      BY InitTypeOK, Sizes
    <2>3. Paid = {} /\ rewards = 0 /\ Past = 0
      BY <2>2 DEF Init, Paid, Past
    <2> QED
      BY <2>1, <2>3 DEF Granted
  <1>2. /\ TypeOK /\ TypeOK' /\ Locked /\ ReadsFirst /\ Granted /\ [Next]_vars
        => Locked' /\ ReadsFirst' /\ Granted'
    BY NextLocked, NextReadsFirst, NextGranted
  <1>3. TypeOK /\ Granted => RewardsBounded
    <2> SUFFICES ASSUME TypeOK, Granted PROVE RewardsBounded
      OBVIOUS
    <2>1. Rewarding \in SUBSET Workers
      BY DEF Rewarding
    <2>2. /\ Cardinality(Rewarding) \in Nat /\ Cardinality(Workers) \in Nat
          /\ undone \in Nat /\ repaid \in Nat /\ rewards \in Nat
      BY <2>1, Sizes DEF TypeOK
    <2>3. Past \in Nat /\ Cardinality(Workers) * (1 + undone) + repaid = Past + Cardinality(Workers)
      BY <2>2 DEF Past
    <2>4. rewards <= Past + Cardinality(Workers)
      BY <2>2, <2>3 DEF Granted
    <2> QED
      BY <2>3, <2>4 DEF RewardsBounded
  <1> QED
    BY <1>1, <1>2, <1>3, TypeCorrect, PTL DEF Spec
=============================================================================
