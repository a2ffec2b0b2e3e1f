-------------------------- MODULE ShopOrdersOverdraft --------------------------
(***************************************************************************)
(* How far concurrent wallet payments can overdraw a wallet, for every     *)
(* number of workers.  The invariant ties a wallet's balance to the number *)
(* of payments from it that are past their check and not yet committed.    *)
(***************************************************************************)
EXTENDS ShopOrdersProofs, FiniteSetTheorems

\* A wallet payment past its check of the balance, before its commit.
Paying(r) ==
    /\ r.op \in {"webWallet", "botWallet", "botRenew"}
    /\ r.pc \in {"lockOrder", "lockUser", "panel", "commit"}

InFlight(u) == {w \in Workers : Paying(req[w]) /\ User(w) = u}

\* What the workers other than k of them may still have taken.
Margin(k) == (Cardinality(Workers) - k) * MaxAmount

\* With no payment in flight the wallet is within the bound.  With k of them,
\* one is covered by what is left once the others had at most their share.
Bound(u) ==
    /\ InFlight(u) = {} => balance[u] >= -Margin(1)
    /\ InFlight(u) # {} =>
          \E w \in InFlight(u) :
             balance[u] - Amount[req[w].ord] >= -Margin(Cardinality(InFlight(u)))

OverdraftInv ==
    /\ Shape
    /\ \A w \in Workers : Paying(req[w]) => req[w].ord \in Plans \cup Renewals
    /\ \A u \in Users : Bound(u)

-----------------------------------------------------------------------------
(* Arithmetic of margins and sets in flight.                               *)

LEMMA MarginStep ==
    ASSUME NEW k \in Int
    PROVE  Margin(k) \in Int /\ Margin(k) = Margin(k + 1) + MaxAmount
<1>1. Cardinality(Workers) \in Nat /\ MaxAmount \in Nat
  BY FS_CardinalityType, SettingAssumption, AmountAssumption
<1> DEFINE n == Cardinality(Workers)
<1> HIDE DEF n
<1>2. n \in Nat
  BY <1>1 DEF n
<1>3. (n - k) * MaxAmount \in Int
  BY <1>1, <1>2
<1>4. (n - k) * MaxAmount = (n - (k + 1)) * MaxAmount + MaxAmount
  BY <1>1, <1>2
<1> QED
  BY <1>3, <1>4 DEF Margin, n

\* No payment in flight is beyond the number of workers.
LEMMA MarginNat ==
    ASSUME NEW S \in SUBSET Workers
    PROVE  /\ IsFiniteSet(S) /\ Cardinality(S) \in Nat
           /\ Margin(Cardinality(S)) \in Nat
           /\ S # {} => Margin(Cardinality(S)) <= Margin(1)
<1>1. /\ IsFiniteSet(S) /\ Cardinality(S) <= Cardinality(Workers)
      /\ Cardinality(S) \in Nat /\ Cardinality(Workers) \in Nat
      /\ S # {} => Cardinality(S) >= 1
  BY FS_Subset, FS_CardinalityType, FS_EmptySet, SettingAssumption
<1> DEFINE n == Cardinality(Workers)
           k == Cardinality(S)
<1>2. n \in Nat /\ k \in Nat /\ k <= n /\ MaxAmount \in Nat /\ (S # {} => k >= 1)
  BY <1>1, AmountAssumption
<1> HIDE DEF n, k
<1>3. (n - k) * MaxAmount \in Nat
  BY <1>2
<1>4. (n - 1) * MaxAmount = (n - k) * MaxAmount + (k - 1) * MaxAmount
  BY <1>2
<1>5. k >= 1 => (k - 1) * MaxAmount \in Nat
  BY <1>2
<1>6. S # {} => (n - k) * MaxAmount <= (n - 1) * MaxAmount
  <2> DEFINE x == (n - k) * MaxAmount
             y == (n - 1) * MaxAmount
             z == (k - 1) * MaxAmount
  <2>1. S # {} => x \in Nat /\ z \in Nat /\ y = x + z
    BY <1>2, <1>3, <1>4, <1>5
  <2> HIDE DEF x, y, z
  <2>2. S # {} => x <= y
    BY <2>1
  <2> QED
    BY <2>2 DEF x, y
<1> QED
  BY <1>1, <1>3, <1>6 DEF Margin, n, k

\* The bound on a wallet follows.
LEMMA BoundHolds ==
    ASSUME OverdraftInv, NEW u \in Users
    PROVE  balance[u] >= -Margin(1)
<1>1. InFlight(u) \in SUBSET Workers /\ balance[u] \in Int /\ Margin(1) \in Int
  BY MarginStep DEF InFlight, OverdraftInv, Shape, TypeOK
<1>2. CASE InFlight(u) # {}
  <2>1. PICK w \in InFlight(u) :
           balance[u] - Amount[req[w].ord] >= -Margin(Cardinality(InFlight(u)))
    BY <1>2 DEF OverdraftInv, Bound
  <2>2. Amount[req[w].ord] \in Nat
    BY InRequest DEF InFlight, Paying, OverdraftInv
  <2> QED
    BY <1>1, <1>2, <2>1, <2>2, MarginNat
<1> QED
  BY <1>1, <1>2 DEF OverdraftInv, Bound

-----------------------------------------------------------------------------
(* What a step of worker w may do to the wallets.                          *)

\* Nothing is taken; a payment in flight stays the same one or is given up.
Harmless(w) ==
    /\ \A u \in Users : balance'[u] >= balance[u]
    /\ Paying(req'[w]) => Paying(req[w]) /\ req'[w].ord = req[w].ord

\* A payment has found enough in the wallet.
Checked(w) ==
    /\ balance' = balance /\ ~Paying(req[w])
    /\ Paying(req'[w]) => /\ req'[w].ord \in Plans \cup Renewals
                          /\ balance[Owner[req'[w].ord]] >= Amount[req'[w].ord]

\* A payment takes its amount and is over.
Taken(w) ==
    /\ Paying(req[w]) /\ ~Paying(req'[w])
    /\ balance' = [balance EXCEPT ![User(w)] = @ - Amount[req[w].ord]]

WalletStep(w) ==
    /\ \A v \in Workers \ {w} : req'[v] = req[v]
    /\ Harmless(w) \/ Checked(w) \/ Taken(w)

\* A payment of worker w leaves the set in flight, with or without its amount.
LEMMA LeavesFlight ==
    ASSUME OverdraftInv, Shape', NEW w \in Workers, NEW u \in Users,
           \A v \in Workers \ {w} : req'[v] = req[v],
           w \in InFlight(u), ~Paying(req'[w]),
           balance'[u] >= balance[u] - Amount[req[w].ord]
    PROVE  Bound(u)'
<1>1. /\ InFlight(u) \in SUBSET Workers
      /\ InFlight(u)' = InFlight(u) \ {w}
  BY DEF InFlight, User
<1> DEFINE k == Cardinality(InFlight(u))
           m == Margin(k)
<1>2. /\ IsFiniteSet(InFlight(u)) /\ k \in Nat /\ m \in Nat
      /\ Cardinality(InFlight(u)') = k - 1
      /\ k = 1 <=> InFlight(u)' = {}
      /\ k >= 1
  <2>1. IsFiniteSet(InFlight(u)) /\ k \in Nat /\ m \in Nat
    BY <1>1, MarginNat
  <2>2. IsFiniteSet(InFlight(u)') /\ Cardinality(InFlight(u)') = k - 1
    BY <1>1, <2>1, FS_RemoveElement
  <2>3. Cardinality(InFlight(u)') \in Nat /\ (Cardinality(InFlight(u)') = 0 <=> InFlight(u)' = {})
    BY <2>2, FS_CardinalityType, FS_EmptySet
  <2> QED
    BY <2>1, <2>2, <2>3
<1>3. m + MaxAmount = Margin(k - 1) /\ Margin(k - 1) \in Int
  <2>1. k - 1 \in Int /\ (k - 1) + 1 = k
    BY <1>2
  <2> QED
    BY <2>1, MarginStep
<1>4. \A v \in InFlight(u) : Amount[req[v].ord] \in Nat /\ Amount[req[v].ord] <= MaxAmount
  BY InRequest, AmountAssumption DEF InFlight, Paying, OverdraftInv
<1>5. balance[u] \in Int /\ balance'[u] \in Int /\ MaxAmount \in Nat
  BY AmountAssumption DEF OverdraftInv, Shape, TypeOK
<1>6. PICK x \in InFlight(u) : balance[u] - Amount[req[x].ord] >= -m
  BY DEF OverdraftInv, Bound
<1>7. CASE k = 1
  <2>1. InFlight(u) = {w} /\ x = w
    BY <1>1, <1>2, <1>7
  <2>2. balance'[u] >= -Margin(1)
    BY <1>4, <1>5, <1>6, <1>7, <2>1, <1>2
  <2> QED
    BY <1>2, <1>7, <2>2 DEF Bound, Margin
<1>8. CASE k # 1
  <2>1. PICK y \in InFlight(u)' : x # w => y = x
    BY <1>1, <1>2, <1>6, <1>8
  <2>2. y \in InFlight(u) /\ req'[y] = req[y] /\ y # w
    BY <1>1, <2>1 DEF InFlight
  <2>3. balance'[u] - Amount[req[y].ord] >= -Margin(k - 1)
    BY <1>2, <1>3, <1>4, <1>5, <1>6, <2>1, <2>2
  <2>4. Margin(Cardinality(InFlight(u)))' = Margin(k - 1)
    BY <1>2 DEF Margin
  <2>5. (\E v \in InFlight(u) :
           balance[u] - Amount[req[v].ord] >= -Margin(Cardinality(InFlight(u))))'
    BY <2>1, <2>2, <2>3, <2>4
  <2> QED
    BY <1>2, <1>8, <2>5 DEF Bound
<1> QED
  BY <1>7, <1>8

\* The payments in flight from a wallet stay the same, and it loses nothing.
LEMMA FlightKept ==
    ASSUME OverdraftInv, Shape', NEW u \in Users,
           InFlight(u)' = InFlight(u),
           \A v \in InFlight(u) : req'[v].ord = req[v].ord,
           balance'[u] >= balance[u]
    PROVE  Bound(u)'
<1>1. balance[u] \in Int /\ balance'[u] \in Int
  BY DEF OverdraftInv, Shape, TypeOK
<1>2. Margin(1) \in Int /\ Margin(Cardinality(InFlight(u))) \in Int
  <2>1. InFlight(u) \in SUBSET Workers
    BY DEF InFlight
  <2> QED
    BY <2>1, MarginNat, MarginStep
<1>3. Margin(1)' = Margin(1)
      /\ Margin(Cardinality(InFlight(u)))' = Margin(Cardinality(InFlight(u)))
  BY DEF Margin
<1>4. \A v \in InFlight(u) : Amount[req[v].ord] \in Nat
  BY InRequest DEF InFlight, Paying, OverdraftInv
<1>5. CASE InFlight(u) = {}
  BY <1>1, <1>2, <1>3, <1>5 DEF OverdraftInv, Bound
<1>6. CASE InFlight(u) # {}
  <2>1. PICK w \in InFlight(u) :
           balance[u] - Amount[req[w].ord] >= -Margin(Cardinality(InFlight(u)))
    BY <1>6 DEF OverdraftInv, Bound
  <2>2. balance'[u] - Amount[req'[w].ord] >= -Margin(Cardinality(InFlight(u)))
    BY <1>1, <1>2, <1>4, <2>1
  <2> QED
    BY <1>3, <1>6, <2>2 DEF Bound
<1> QED
  BY <1>5, <1>6

\* A payment that found enough joins the others in flight.
LEMMA JoinsFlight ==
    ASSUME OverdraftInv, Shape', NEW w \in Workers, NEW u \in Users,
           \A v \in Workers \ {w} : req'[v] = req[v],
           ~Paying(req[w]), Paying(req'[w]), Owner[req'[w].ord] = u,
           balance'[u] = balance[u], balance[u] >= Amount[req'[w].ord]
    PROVE  Bound(u)'
<1>1. InFlight(u)' \in SUBSET Workers /\ w \in InFlight(u)'
  BY DEF InFlight, User
<1>2. Margin(Cardinality(InFlight(u)')) \in Nat
  BY <1>1, MarginNat
<1>3. balance'[u] \in Int /\ Amount[req'[w].ord] \in Nat
  <2>1. req'[w] \in Requests
    BY DEF Shape, TypeOK, Paying, Idle
  <2> QED
    BY <2>1, AmountAssumption DEF Shape, TypeOK, Requests
<1>4. balance'[u] - Amount[req'[w].ord] >= -Margin(Cardinality(InFlight(u)'))
  BY <1>2, <1>3
<1> QED
  BY <1>1, <1>4 DEF Bound, Margin

LEMMA BoundStep ==
    ASSUME OverdraftInv, Shape', NEW w \in Workers, WalletStep(w), NEW u \in Users
    PROVE  Bound(u)'
<1>0. /\ \A v \in Workers \ {w} : req'[v] = req[v]
      /\ Owner \in [Orders -> Users]
      /\ balance \in [Users -> Int] /\ balance'[u] \in Int
      /\ Paying(req[w]) => Amount[req[w].ord] \in Nat
  BY OrderAssumption, InRequest DEF WalletStep, OverdraftInv, Shape, TypeOK, Paying
<1>1. CASE Harmless(w)
  <2>1. balance'[u] >= balance[u]
    BY <1>1 DEF Harmless
  <2>2. CASE w \in InFlight(u) /\ ~Paying(req'[w])
    <3>1. balance'[u] >= balance[u] - Amount[req[w].ord]
      BY <1>0, <2>1, <2>2 DEF InFlight
    <3> QED
      BY <1>0, <2>2, <3>1, LeavesFlight
  <2>3. CASE w \notin InFlight(u) \/ Paying(req'[w])
    <3>1. /\ InFlight(u)' = InFlight(u)
          /\ \A v \in InFlight(u) : req'[v].ord = req[v].ord
      BY <1>0, <1>1, <2>3 DEF Harmless, InFlight, User
    <3> QED
      BY <2>1, <3>1, FlightKept
  <2> QED
    BY <2>2, <2>3
<1>2. CASE Checked(w)
  <2>1. CASE Paying(req'[w]) /\ Owner[req'[w].ord] = u
    BY <1>0, <1>2, <2>1, JoinsFlight DEF Checked
  <2>2. CASE ~(Paying(req'[w]) /\ Owner[req'[w].ord] = u)
    <3>1. /\ InFlight(u)' = InFlight(u)
          /\ \A v \in InFlight(u) : req'[v].ord = req[v].ord
      BY <1>0, <1>2, <2>2 DEF Checked, InFlight, User
    <3> QED
      BY <1>0, <1>2, <3>1, FlightKept DEF Checked
  <2> QED
    BY <2>1, <2>2
<1>3. CASE Taken(w)
  <2>1. CASE User(w) = u
    <3>1. w \in InFlight(u) /\ balance'[u] >= balance[u] - Amount[req[w].ord]
      BY <1>0, <1>3, <2>1 DEF Taken, InFlight
    <3> QED
      BY <1>0, <1>3, <3>1, LeavesFlight DEF Taken
  <2>2. CASE User(w) # u
    <3>1. /\ InFlight(u)' = InFlight(u)
          /\ \A v \in InFlight(u) : req'[v].ord = req[v].ord
          /\ balance'[u] = balance[u]
      BY <1>0, <1>3, <2>2 DEF Taken, InFlight, User
    <3> QED
      BY <1>0, <3>1, FlightKept
  <2> QED
    BY <2>1, <2>2
<1> QED
  BY <1>1, <1>2, <1>3 DEF WalletStep

-----------------------------------------------------------------------------
(* Every step of a worker is such a step.                                  *)

LEMMA AcceptStep ==
    ASSUME OverdraftInv, NEW w \in Workers, Receive(w)
    PROVE  WalletStep(w)
<1>1. req \in [Workers -> Requests \cup {Idle}] /\ Orders = TopUps \cup Plans \cup Renewals
  BY DEF OverdraftInv, Shape, TypeOK, Orders
<1>2. PICK op \in Operations, o \in Orders :
        /\ Accept(w, op, o)
        /\ op \in {"webWallet", "botWallet", "botRenew"} =>
              o \in Plans \cup Renewals /\ balance[Owner[o]] >= Amount[o]
  BY <1>1 DEF Receive, DeliverPlisio, DeliverNowPayments, AdminApproves, AdminCancels,
     PayFromWalletOnSite, PayFromWalletInBot, RenewFromWalletInBot, Requested, Operations
<1> DEFINE r == [op |-> op, ord |-> o, pc |-> FirstStep(op, o), ok |-> TRUE]
<1>3. r.op = op /\ r.ord = o
  OBVIOUS
<1>4. /\ req' = [req EXCEPT ![w] = r]
      /\ req[w] = Idle /\ UNCHANGED money
  BY <1>2 DEF Accept
<1> HIDE DEF r
<1>5. req'[w] = r /\ \A v \in Workers \ {w} : req'[v] = req[v]
  BY <1>1, <1>4
<1>6. Checked(w)
  BY <1>2, <1>3, <1>4, <1>5 DEF Checked, Paying, Idle, money
<1> QED
  BY <1>5, <1>6 DEF WalletStep

\* Ending, going on to the catch blocks or to the answer pays nothing.
LEMMA QuietStep ==
    ASSUME OverdraftInv, NEW w \in Workers, req[w].pc # "idle",
           \A u \in Users : balance'[u] >= balance[u],
           \/ Finish(w) \/ GoTo(w, "respond") \/ GoTo(w, "refund") \/ GoTo(w, "markFailed")
    PROVE  WalletStep(w)
<1>1. req \in [Workers -> Requests \cup {Idle}] /\ Shape
  BY DEF OverdraftInv, Shape, TypeOK
<1>2. \A v \in Workers \ {w} : req'[v] = req[v]
  BY <1>1 DEF Finish, GoTo
<1>3. ~Paying(req'[w])
  <2>1. CASE Finish(w)
    BY <1>1, <2>1 DEF Finish, Paying, Idle
  <2>2. ASSUME NEW step \in {"respond", "refund", "markFailed"}, GoTo(w, step)
        PROVE  ~Paying(req'[w])
    <3>1. req'[w].pc = step
      BY <1>1, <2>2, AdvanceIs DEF GoTo
    <3> QED
      BY <3>1 DEF Paying
  <2> QED
    BY <2>1, <2>2
<1> QED
  BY <1>2, <1>3 DEF WalletStep, Harmless

LEMMA AdvanceStep ==
    ASSUME OverdraftInv, NEW w \in Workers, req[w].pc \in {"lockOrder", "panel", "lockUser"},
           balance' = balance, NEW ok \in BOOLEAN,
           req' = [req EXCEPT ![w] = [op |-> req[w].op, ord |-> req[w].ord,
                                      pc |-> StepAfter(req[w]), ok |-> ok]]
    PROVE  WalletStep(w)
<1>1. /\ req \in [Workers -> Requests \cup {Idle}]
      /\ balance \in [Users -> Int]
  BY DEF OverdraftInv, Shape, TypeOK
<1>2. /\ req'[w].op = req[w].op /\ req'[w].ord = req[w].ord
      /\ \A v \in Workers \ {w} : req'[v] = req[v]
  BY <1>1
<1>3. Paying(req'[w]) => Paying(req[w])
  BY <1>2 DEF Paying
<1>4. \A u \in Users : balance'[u] >= balance[u]
  BY <1>1
<1> QED
  BY <1>2, <1>3, <1>4 DEF WalletStep, Harmless

LEMMA ServeStep ==
    ASSUME OverdraftInv, NEW w \in Workers, Serve(w) \/ Crash(w)
    PROVE  WalletStep(w)
<1>0. /\ Shape /\ balance \in [Users -> Int] /\ req \in [Workers -> Requests \cup {Idle}]
      /\ Amount \in [Orders -> Nat] /\ Owner \in [Orders -> Users]
  BY OrderAssumption, AmountAssumption DEF OverdraftInv, Shape, TypeOK
<1>1. req[w].pc # "idle"
  BY <1>0 DEF Serve, Locking, FindSettled, LockOrder, LockMissing, LockUser, LockWaitFails,
         Provisioning, PanelAnswers, PanelFails, Writing, CommitFulfilment, Respond,
         CommitApproval, CommitWalletPayment, WriteNowPayments, DeleteOrder, MarkFailed,
         Refund, Committing, At, Crash, Requests, Steps
<1>2. req[w].ord \in Orders /\ User(w) \in Users /\ Amount[req[w].ord] \in Nat
  BY <1>0, <1>1, InRequest
<1>3. UNCHANGED money => \A u \in Users : balance'[u] >= balance[u]
  BY <1>0 DEF money
<1>4. ASSUME Throw(w), UNCHANGED money PROVE WalletStep(w)
  BY <1>1, <1>3, <1>4, QuietStep DEF Throw
<1>5. ASSUME Advance(w), UNCHANGED money, req[w].pc \in {"lockOrder", "panel", "lockUser"}
      PROVE  WalletStep(w)
  BY <1>0, <1>1, <1>5, AdvanceRecord, AdvanceStep DEF money
<1>6. CASE Locking(w)
  <2>1. UNCHANGED money
    BY <1>6 DEF Locking, FindSettled, LockOrder, LockMissing, LockUser, LockWaitFails
  <2> QED
    BY <1>1, <1>3, <1>4, <1>5, <1>6, <2>1, QuietStep
    DEF Locking, FindSettled, LockOrder, LockMissing, LockUser, LockWaitFails, At
<1>7. CASE Provisioning(w)
  <2>1. UNCHANGED money /\ req[w].pc = "panel"
    BY <1>7 DEF Provisioning, PanelAnswers, PanelFails, At
  <2>2. CASE req' = [req EXCEPT ![w] =
                [op |-> @.op, ord |-> @.ord, pc |-> StepAfter(@), ok |-> FALSE]]
    <3>1. req' = [req EXCEPT ![w] = [op |-> req[w].op, ord |-> req[w].ord,
                                    pc |-> StepAfter(req[w]), ok |-> FALSE]]
      BY <1>0, <2>2
    <3> QED
      BY <2>1, <3>1, AdvanceStep DEF money
  <2> QED
    BY <1>1, <1>3, <1>4, <1>5, <1>7, <2>1, <2>2, QuietStep
    DEF Provisioning, PanelAnswers, PanelFails
<1>8. CASE CommitWalletPayment(w)
  <2>1. Taken(w)
    <3>1. req'[w] = Idle
      BY <1>0, <1>8 DEF CommitWalletPayment, Finish
    <3> QED
      BY <1>8, <3>1 DEF CommitWalletPayment, Debit, Taken, Paying, At, Idle
  <2>2. \A v \in Workers \ {w} : req'[v] = req[v]
    BY <1>0, <1>8 DEF CommitWalletPayment, Finish
  <2> QED
    BY <2>1, <2>2 DEF WalletStep
<1>9. CASE CommitFulfilment(w) \/ CommitApproval(w)
  <2>1. \A u \in Users : balance'[u] >= balance[u]
    BY <1>0, <1>2, <1>3, <1>9
    DEF CommitFulfilment, CommitApproval, CreditTopUp, Credit
  <2> QED
    BY <1>1, <1>9, <2>1, QuietStep DEF CommitFulfilment, CommitApproval
<1>10. CASE Refund(w)
  <2>1. \A u \in Users : balance'[u] >= balance[u]
    BY <1>0, <1>2, <1>10 DEF Refund
  <2> QED
    BY <1>1, <1>10, <2>1, QuietStep DEF Refund
<1>11. CASE Respond(w) \/ WriteNowPayments(w) \/ DeleteOrder(w) \/ MarkFailed(w) \/ Crash(w)
  BY <1>1, <1>3, <1>11, QuietStep
  DEF Respond, WriteNowPayments, DeleteOrder, MarkFailed, Crash
<1> QED
  BY <1>6, <1>7, <1>8, <1>9, <1>10, <1>11 DEF Serve, Writing

LEMMA OverdraftNext == OverdraftInv /\ [Next]_vars => OverdraftInv'
<1> SUFFICES ASSUME OverdraftInv, [Next]_vars PROVE OverdraftInv'
  OBVIOUS
<1>1. Shape'
  BY ShapeNext DEF OverdraftInv
<1>2. ASSUME NEW w \in Workers, WalletStep(w) PROVE OverdraftInv'
  <2>1. \A u \in Users : Bound(u)'
    BY <1>1, <1>2, BoundStep
  <2>2. ASSUME NEW v \in Workers, Paying(req'[v]) PROVE req'[v].ord \in Plans \cup Renewals
    BY <1>2, <2>2 DEF OverdraftInv, WalletStep, Harmless, Checked, Taken
  <2> QED
    BY <1>1, <2>1, <2>2 DEF OverdraftInv
<1>3. ASSUME UNCHANGED <<balance, req>> PROVE OverdraftInv'
  BY <1>1, <1>3 DEF OverdraftInv, Bound, InFlight, User, Margin
<1>4. ASSUME NEW o \in Orders, PlaceOrder(o) \/ CustomerPaysPlisio(o) \/ AdminReopens(o)
      PROVE  UNCHANGED <<balance, req>>
  BY <1>4 DEF PlaceOrder, CustomerPaysPlisio, AdminReopens, money
<1>5. UNCHANGED vars => UNCHANGED <<balance, req>>
  BY DEF vars, money
<1> QED
  BY <1>2, <1>3, <1>4, <1>5, AcceptStep, ServeStep DEF Next, Customers

\* Wallet payments check the balance before the transaction that takes it.
\* With any number of workers the wallet ends no lower than one order for each
\* worker beyond the first, because one payment in flight at a time is covered.
THEOREM OverdraftBoundedHolds == Spec => []OverdraftBounded
<1>1. Init => OverdraftInv
  <2> SUFFICES ASSUME Init PROVE OverdraftInv
    OBVIOUS
  <2>1. \A w \in Workers : ~Paying(req[w])
    BY DEF Init, Paying, Idle
  <2>2. ASSUME NEW u \in Users PROVE Bound(u)
    <3>1. InFlight(u) = {}
      BY <2>1 DEF InFlight
    <3>2. \E w : w \in Workers
      BY SettingAssumption
    <3>3. PICK w \in Workers : TRUE
      BY <3>2
    <3>4. Margin(Cardinality({w})) \in Nat /\ Cardinality({w}) = 1
      <4>1. {w} \in SUBSET Workers
        BY <3>3
      <4> QED
        BY <4>1, MarginNat, FS_Singleton
    <3>5. balance[u] \in Nat
      BY AmountAssumption DEF Init
    <3> QED
      BY <3>1, <3>4, <3>5 DEF Bound
  <2> QED
    BY <2>1, <2>2, ShapeInit DEF OverdraftInv
<1>2. OverdraftInv => OverdraftBounded
  <2> SUFFICES ASSUME OverdraftInv, NEW u \in Users
               PROVE  balance[u] >= -(Cardinality(Workers) - 1) * MaxAmount
    BY DEF OverdraftBounded
  <2>1. balance[u] >= -Margin(1)
    BY BoundHolds
  <2>2. Cardinality(Workers) \in Nat /\ MaxAmount \in Nat
    BY FS_CardinalityType, SettingAssumption, AmountAssumption
  <2>3. -Margin(1) = -(Cardinality(Workers) - 1) * MaxAmount
    BY <2>2 DEF Margin
  <2> QED
    BY <2>1, <2>3
<1> QED
  BY <1>1, <1>2, OverdraftNext, PTL DEF Spec
===============================================================================
