-------------------------- MODULE OffsitePollProofs --------------------------
(***************************************************************************)
(* Proofs about OffsitePoll, for any numbers of queue workers and pages,   *)
(* of tries, presses and faults.                                           *)
(***************************************************************************)
EXTENDS OffsitePoll, FiniteSetTheorems, TLAPS

-----------------------------------------------------------------------------
(* Processes.                                                              *)

\* The next state of each process that GoTo and Finish describe.
LEMMA Moves ==
    ASSUME TypeOK, NEW p \in Processes, NEW step \in Steps
    PROVE  /\ GoTo(p, step) =>
                /\ proc' \in [Processes -> Requests]
                /\ \A v \in Processes :
                      /\ proc'[v].n = proc[v].n
                      /\ proc'[v].pc = IF v = p THEN step ELSE proc[v].pc
           /\ Finish(p) =>
                /\ proc' \in [Processes -> Requests]
                /\ \A v \in Processes : proc'[v] = IF v = p THEN Idle ELSE proc[v]
  <1>1. proc \in [Processes -> Requests]
    BY DEF TypeOK
  <1>2. [proc[p] EXCEPT !.pc = step] = [pc |-> step, n |-> proc[p].n]
    BY <1>1 DEF Requests
  <1>3. Idle \in Requests
    BY BoundAssumption DEF Idle, Requests, Steps
  <1> QED
    BY <1>1, <1>2, <1>3 DEF GoTo, Finish, Requests

\* A step between the statements of a check or of the job's conclusion: at most
\* p moves, to a step of ours or back to rest, with its attempt.
Moved(p, step) ==
    /\ proc' \in [Processes -> Requests]
    /\ \A v \in Processes \ {p} : proc'[v] = proc[v]
    /\ \/ proc'[p].pc = step /\ proc'[p].n = proc[p].n
       \/ proc'[p] = Idle /\ (p \in Workers => step = "idle")

LEMMA MovesOne ==
    ASSUME TypeOK, NEW p \in Processes, NEW step \in Steps
    PROVE  /\ GoTo(p, step) => Moved(p, step)
           /\ Finish(p) => Moved(p, "idle")
           /\ Decide(p, step) => Moved(p, step)
  <1>1. proc \in [Processes -> Requests]
    BY DEF TypeOK
  <1>2. GoTo(p, step) => Moved(p, step)
    <2>1. SUFFICES ASSUME GoTo(p, step) PROVE Moved(p, step)
      OBVIOUS
    <2>2. \A v \in Processes \ {p} : proc'[v] = proc[v]
      BY <1>1, <2>1 DEF GoTo
    <2> QED
      BY <2>1, <2>2, Moves DEF Moved
  <1>3. Finish(p) => Moved(p, "idle")
    BY Moves DEF Moved
  <1>4. p \notin Workers /\ Finish(p) => Moved(p, step)
    BY Moves DEF Moved
  <1> QED
    BY <1>2, <1>3, <1>4 DEF Decide

-----------------------------------------------------------------------------
(* Type correctness.                                                       *)

LEMMA InitTypeOK ==
    ASSUME Init
    PROVE  TypeOK
  <1>1. Idle \in Requests /\ {0} \subseteq Attempts
    BY BoundAssumption DEF Requests, Idle, Steps, Attempts
  <1>2. /\ proc \in [Processes -> Requests]
        /\ ready \in [Attempts -> Nat] /\ runs \in [Attempts -> Nat]
    BY <1>1 DEF Init
  <1>3. presses \in 0..MaxPresses /\ faults \in 0..MaxFaults /\ completed \in Nat
    BY BoundAssumption DEF Init
  <1>4. /\ kind \in {"purchase", "renewal"}
        /\ status \in {"pending", "paid", "deleted"}
        /\ ctx \in BOOLEAN /\ paid \in BOOLEAN /\ told \in BOOLEAN
        /\ delayed \subseteq Attempts /\ reserved \subseteq Attempts
    BY <1>1 DEF Init
  <1> QED
    BY <1>2, <1>3, <1>4 DEF TypeOK

\* The environment and the passing of time.
LEMMA TypeOutside ==
    ASSUME TypeOK, Environment \/ Elapse
    PROVE  TypeOK'
  <1>1. CASE Environment
    BY <1>1 DEF Environment, CustomerPays, SettledElsewhere, Cancelled, TypeOK, queue, counts
  <1>2. CASE Elapse
    BY <1>2 DEF Elapse, DelayEnds, ReservationExpires, TypeOK, order, counts
  <1> QED
    BY <1>1, <1>2

\* A worker takes a payload: a payload with Tries attempts is not run again.
LEMMA TypeTake ==
    ASSUME TypeOK, NEW w \in Workers, Take(w)
    PROVE  TypeOK'
  <1>1. CASE PopExhausted(w)
    BY <1>1, BoundAssumption DEF PopExhausted, TypeOK, order, counts, Attempts
  <1>2. ASSUME NEW n \in Attempts, Pop(w, n) PROVE TypeOK'
    <2>1. n + 1 \in 0..Tries /\ "check" \in Steps
      BY <1>2, BoundAssumption DEF Pop, Attempts, Steps
    <2>2. [pc |-> "check", n |-> n + 1] \in Requests
      BY <2>1 DEF Requests
    <2>3. proc' \in [Processes -> Requests]
      BY <1>2, <2>2 DEF Pop, TypeOK
    <2>4. ready' \in [Attempts -> Nat] /\ runs' \in [Attempts -> Nat]
      BY <1>2 DEF Pop, TypeOK
    <2> QED
      BY <1>2, <2>1, <2>3, <2>4 DEF Pop, TypeOK, order, Attempts
  <1> QED
    BY <1>1, <1>2 DEF Take

LEMMA TypeCheck ==
    ASSUME TypeOK, NEW p \in Processes, Check(p)
    PROVE  TypeOK'
  <1>1. \E step \in Steps : Moved(p, step)
    BY MovesOne DEF Check, OrderMissing, NotYet, StartPolling, Persist, PersistMissing,
                    GiveUp, ForgetContext, Steps
  <1>2. proc' \in [Processes -> Requests]
    BY <1>1 DEF Moved
  <1>3. CASE Persist(p)
    BY <1>2, <1>3 DEF Persist, TypeOK, queue
  <1>4. CASE ForgetContext(p)
    BY <1>2, <1>4 DEF ForgetContext, TypeOK, queue, counts
  <1>5. UNCHANGED <<order, queue, counts>> => TypeOK'
    BY <1>2 DEF TypeOK, order, queue, counts
  <1> QED
    BY <1>3, <1>4, <1>5 DEF Check, OrderMissing, NotYet, StartPolling, PersistMissing, GiveUp

\* Deleting and releasing a job.
LEMMA TypeQueue ==
    ASSUME TypeOK, NEW w \in Workers, Release(w) \/ Delete(w)
    PROVE  /\ ready' \in [Attempts -> Nat]
           /\ delayed' \subseteq Attempts /\ reserved' \subseteq Attempts
           /\ proc' \in [Processes -> Requests]
  <1>1. w \in Processes /\ "idle" \in Steps
    BY DEF Processes, Steps
  <1>2. proc' \in [Processes -> Requests]
    BY <1>1, MovesOne DEF Release, Delete, Moved
  <1>3. proc[w].n \in Attempts
    BY <1>1 DEF TypeOK, Requests, Attempts
  <1> QED
    BY <1>2, <1>3 DEF TypeOK, Release, Delete

LEMMA TypeConclude ==
    ASSUME TypeOK, NEW w \in Workers, Conclude(w)
    PROVE  TypeOK'
  BY TypeQueue DEF Conclude, NotifyStillPending, RetryLater, EndJob, TypeOK, order, counts

LEMMA TypeFault ==
    ASSUME TypeOK, NEW p \in Processes,
           PanelFails(p) \/ Crash(p) \/ (p \in Workers /\ Throw(p))
    PROVE  TypeOK'
  <1>1. Fault
    BY DEF PanelFails, Crash, Throw
  <1>2. /\ faults' \in 0..MaxFaults
        /\ presses' = presses /\ runs' = runs /\ told' = told /\ completed' = completed
    BY <1>1, BoundAssumption DEF Fault, TypeOK
  <1>3. CASE PanelFails(p)
    <2>1. proc' \in [Processes -> Requests]
      BY <1>3, MovesOne DEF PanelFails, Moved, Steps
    <2> QED
      BY <1>2, <1>3, <2>1 DEF PanelFails, TypeOK, order, queue
  <1>4. CASE Crash(p)
    <2>1. proc' \in [Processes -> Requests]
      BY <1>4, MovesOne DEF Crash, Moved, Steps
    <2> QED
      BY <1>2, <1>4, <2>1 DEF Crash, TypeOK, order
  <1>5. CASE p \in Workers /\ Throw(p)
    BY <1>2, <1>5, TypeQueue DEF Throw, TypeOK, order
  <1> QED
    BY <1>3, <1>4, <1>5

LEMMA TypePress ==
    ASSUME TypeOK, NEW p \in Processes, Press(p)
    PROVE  TypeOK'
  <1>1. proc' \in [Processes -> Requests]
    BY MovesOne DEF Press, Moved, Steps
  <1>2. presses' \in 0..MaxPresses
    BY BoundAssumption DEF Press, TypeOK
  <1> QED
    BY <1>1, <1>2 DEF Press, TypeOK, order, queue

LEMMA NextTypeOK ==
    ASSUME TypeOK, [Next]_vars
    PROVE  TypeOK'
  <1>1. Workers \subseteq Processes
    BY DEF Processes
  <1>2. CASE UNCHANGED vars
    BY <1>2 DEF vars, order, queue, counts, TypeOK
  <1> QED
    BY <1>1, <1>2, TypeOutside, TypeTake, TypeCheck, TypeConclude, TypeFault, TypePress
    DEF Next

\* The variables keep their types: in particular no payload of the job ever has
\* more attempts than $tries allows.
THEOREM TypeCorrect == Spec => []TypeOK
  <1>1. Init => TypeOK
    BY InitTypeOK
  <1>2. TypeOK /\ [Next]_vars => TypeOK'
    BY NextTypeOK
  <1> QED
    BY <1>1, <1>2, PTL DEF Spec

-----------------------------------------------------------------------------
(* How often the order is settled.                                         *)

\* The processes that may still settle the order, and those that did and have
\* not forgotten the context yet.
Polling == {p \in Processes : At(p, "poll")}
Forgetting == {p \in Processes : At(p, "forget")}

\* While the context is there, every settlement has a process that is going to
\* forget it, or that died before; then no process joins those that poll.
Accounted ==
    IF ctx THEN completed <= Cardinality(Forgetting) + faults
           ELSE completed + Cardinality(Polling) <= Cardinality(Processes) + faults

LEMMA DisjointCounts ==
    ASSUME NEW P \in SUBSET Processes, NEW Q \in SUBSET Processes, P \cap Q = {}
    PROVE  /\ IsFiniteSet(Processes) /\ IsFiniteSet(P) /\ IsFiniteSet(Q)
           /\ Cardinality(Processes) \in Nat /\ Cardinality(P) \in Nat
           /\ Cardinality(Q) \in Nat
           /\ Cardinality(P) + Cardinality(Q) <= Cardinality(Processes)
  <1>1. IsFiniteSet(Processes)
    BY ProcessAssumption, FS_Union DEF Processes
  <1>2. IsFiniteSet(P) /\ IsFiniteSet(Q)
    BY <1>1, FS_Subset
  <1>3. Cardinality(Processes) \in Nat /\ Cardinality(P) \in Nat /\ Cardinality(Q) \in Nat
    BY <1>1, <1>2, FS_CardinalityType
  <1>4. Cardinality(P \cap Q) = 0
    BY FS_EmptySet
  <1>5. Cardinality(P \cup Q) = Cardinality(P) + Cardinality(Q) - Cardinality(P \cap Q)
    BY <1>2, FS_Union
  <1>6. P \cup Q \in SUBSET Processes
    OBVIOUS
  <1>7. Cardinality(P \cup Q) <= Cardinality(Processes)
    BY <1>1, <1>6, FS_Subset
  <1> QED
    BY <1>1, <1>2, <1>3, <1>4, <1>5, <1>7

\* The counts of Accounted are natural numbers, and no process is counted twice.
CountsFinite ==
    /\ IsFiniteSet(Processes) /\ IsFiniteSet(Polling) /\ IsFiniteSet(Forgetting)
    /\ Cardinality(Processes) \in Nat /\ Cardinality(Polling) \in Nat
    /\ Cardinality(Forgetting) \in Nat
    /\ Cardinality(Polling) + Cardinality(Forgetting) <= Cardinality(Processes)
    /\ completed \in Nat /\ faults \in Nat

LEMMA FiniteCounts ==
    /\ TypeOK => CountsFinite
    /\ TypeOK' => CountsFinite'
  <1>1. /\ Polling \in SUBSET Processes /\ Forgetting \in SUBSET Processes
        /\ Polling \cap Forgetting = {}
    BY DEF Polling, Forgetting, At
  <1>2. /\ Polling' \in SUBSET Processes /\ Forgetting' \in SUBSET Processes
        /\ Polling' \cap Forgetting' = {}
    BY DEF Polling, Forgetting, At
  <1>3. TypeOK => completed \in Nat /\ faults \in Nat
    BY BoundAssumption DEF TypeOK
  <1>4. TypeOK' => completed' \in Nat /\ faults' \in Nat
    BY BoundAssumption DEF TypeOK
  <1> QED
    BY <1>1, <1>2, <1>3, <1>4, DisjointCounts DEF CountsFinite

\* Nobody starts to poll, nobody settles or forgets.
LEMMA CountsStay ==
    ASSUME TypeOK, TypeOK', Accounted, UNCHANGED <<ctx, completed>>, faults' >= faults,
           Polling' \subseteq Polling, Forgetting' = Forgetting
    PROVE  Accounted'
  <1>1. Cardinality(Polling') <= Cardinality(Polling)
    BY FiniteCounts, FS_Subset DEF CountsFinite
  <1> QED
    BY <1>1, FiniteCounts DEF Accounted, CountsFinite

\* A fault takes one process out of its check.
LEMMA CountsLose ==
    ASSUME TypeOK, TypeOK', Accounted, UNCHANGED <<ctx, completed>>, faults' = faults + 1,
           NEW p \in Processes,
           Polling' \subseteq Polling, Forgetting' = Forgetting \ {p}
    PROVE  Accounted'
  <1>1. Cardinality(Polling') <= Cardinality(Polling)
    BY FiniteCounts, FS_Subset DEF CountsFinite
  <1>2. Cardinality(Forgetting') + 1 >= Cardinality(Forgetting)
    BY FiniteCounts, FS_RemoveElement DEF CountsFinite
  <1> QED
    BY <1>1, <1>2, FiniteCounts DEF Accounted, CountsFinite

\* Who is at work after a step of p.
LEMMA SetsAfter ==
    ASSUME NEW p \in Processes, NEW step, Moved(p, step)
    PROVE  /\ Polling' = IF proc'[p].pc = "poll" THEN Polling \cup {p} ELSE Polling \ {p}
           /\ Forgetting' = IF proc'[p].pc = "forget" THEN Forgetting \cup {p}
                                                     ELSE Forgetting \ {p}
  BY DEF Moved, Polling, Forgetting, At

LEMMA AccountedCheck ==
    ASSUME TypeOK, TypeOK', Accounted, NEW p \in Processes, Check(p)
    PROVE  Accounted'
  <1>1. CASE OrderMissing(p) \/ NotYet(p) \/ PersistMissing(p) \/ GiveUp(p)
    <2>1. PICK step \in {"done", "retry"} : Moved(p, step)
      BY <1>1, MovesOne DEF OrderMissing, NotYet, PersistMissing, GiveUp, Steps
    <2>2. ~(proc'[p].pc \in {"poll", "forget"})
      BY <2>1 DEF Moved, Idle
    <2>3. p \notin Forgetting
      BY <1>1 DEF OrderMissing, NotYet, PersistMissing, GiveUp, Forgetting, At
    <2>4. UNCHANGED <<ctx, completed, faults>>
      BY <1>1 DEF OrderMissing, NotYet, PersistMissing, GiveUp, order, counts
    <2> QED
      BY <2>1, <2>2, <2>3, <2>4, SetsAfter, CountsStay, FiniteCounts DEF CountsFinite
  <1>2. CASE StartPolling(p)
    <2>1. Moved(p, "poll") /\ proc'[p].pc = "poll"
      BY <1>2, MovesOne, Moves DEF StartPolling, Steps
    <2>2. Forgetting' = Forgetting
      BY <1>2, <2>1, SetsAfter DEF StartPolling, Forgetting, At
    <2>3. ctx /\ UNCHANGED <<ctx, completed, faults>>
      BY <1>2 DEF StartPolling, order, counts
    <2> QED
      BY <2>2, <2>3 DEF Accounted
  <1>3. CASE Persist(p)
    <2>1. Moved(p, "forget") /\ proc'[p].pc = "forget"
      BY <1>3, MovesOne, Moves DEF Persist, Steps
    <2>2. /\ p \in Polling /\ p \notin Forgetting
          /\ Polling' = Polling \ {p} /\ Forgetting' = Forgetting \cup {p}
      BY <1>3, <2>1, SetsAfter DEF Persist, Polling, Forgetting, At
    <2>3. /\ Cardinality(Polling') = Cardinality(Polling) - 1
          /\ Cardinality(Forgetting') = Cardinality(Forgetting) + 1
      BY <2>2, FiniteCounts, FS_AddElement, FS_RemoveElement DEF CountsFinite
    <2>4. completed' = completed + 1 /\ UNCHANGED <<ctx, faults>>
      BY <1>3 DEF Persist
    <2> QED
      BY <2>3, <2>4, FiniteCounts DEF Accounted, CountsFinite
  <1>4. CASE ForgetContext(p)
    <2>1. Moved(p, "done")
      BY <1>4, MovesOne DEF ForgetContext, Steps
    <2>2. Polling' \subseteq Polling
      BY <2>1, SetsAfter DEF Moved, Idle
    <2>3. Cardinality(Polling') <= Cardinality(Polling)
      BY <2>2, FiniteCounts, FS_Subset DEF CountsFinite
    <2>4. ctx' = FALSE /\ UNCHANGED <<completed, faults>>
      BY <1>4 DEF ForgetContext, counts
    <2> QED
      BY <2>3, <2>4, FiniteCounts DEF Accounted, CountsFinite
  <1> QED
    BY <1>1, <1>2, <1>3, <1>4 DEF Check

\* Steps that are not part of a check leave the counts alone.
LEMMA AccountedJob ==
    ASSUME TypeOK, TypeOK', Accounted, NEW w \in Workers, Take(w) \/ Conclude(w)
    PROVE  Accounted'
  <1>1. UNCHANGED <<ctx, completed, faults>>
    BY DEF Take, PopExhausted, Pop, Conclude, NotifyStillPending, RetryLater, EndJob,
           order, counts
  <1>2. w \in Processes
    BY DEF Processes
  <1>3. CASE Take(w)
    BY <1>1, <1>2, <1>3, CountsStay, FiniteCounts
    DEF CountsFinite, Take, PopExhausted, Pop, Polling, Forgetting, At, TypeOK
  <1>4. CASE Conclude(w)
    <2>1. Moved(w, "idle")
      BY <1>2, <1>4, MovesOne DEF Conclude, NotifyStillPending, RetryLater, EndJob, Release,
                                  Delete, Steps
    <2>2. proc'[w].pc = "idle" /\ w \notin Forgetting
      BY <1>4, <2>1 DEF Moved, Idle, Conclude, NotifyStillPending, RetryLater, EndJob,
                        Forgetting, At
    <2> QED
      BY <1>1, <1>2, <2>1, <2>2, SetsAfter, CountsStay, FiniteCounts DEF CountsFinite
  <1> QED
    BY <1>3, <1>4

LEMMA AccountedFault ==
    ASSUME TypeOK, TypeOK', Accounted, NEW p \in Processes,
           PanelFails(p) \/ Crash(p) \/ (p \in Workers /\ Throw(p))
    PROVE  Accounted'
  <1>1. faults' = faults + 1 /\ UNCHANGED <<ctx, completed>>
    BY DEF PanelFails, Crash, Throw, Fault, order
  <1>2. PICK step \in {"idle", "done"} : Moved(p, step)
    BY MovesOne DEF PanelFails, Crash, Throw, Release, Delete, Steps
  <1>3. ~(proc'[p].pc \in {"poll", "forget"})
    BY <1>2 DEF Moved, Idle
  <1>4. Polling' \subseteq Polling /\ Forgetting' = Forgetting \ {p}
    BY <1>2, <1>3, SetsAfter
  <1> QED
    BY <1>1, <1>4, CountsLose

LEMMA NextAccounted ==
    ASSUME TypeOK, TypeOK', Accounted, [Next]_vars
    PROVE  Accounted'
  <1>1. Workers \subseteq Processes
    BY DEF Processes
  <1>2. CASE UNCHANGED vars \/ Environment \/ Elapse
    <2>1. UNCHANGED <<ctx, completed, faults, proc>>
      BY <1>2 DEF vars, order, counts, Environment, CustomerPays, SettledElsewhere, Cancelled,
                  Elapse, DelayEnds, ReservationExpires
    <2> QED
      BY <2>1, CountsStay, FiniteCounts DEF CountsFinite, Polling, Forgetting, At
  <1>3. ASSUME NEW p \in Processes, Press(p) PROVE Accounted'
    <2>1. Moved(p, "check") /\ proc'[p].pc = "check"
      BY <1>3, MovesOne, Moves DEF Press, Steps
    <2>2. p \notin Forgetting
      BY <1>3 DEF Press, Forgetting, At
    <2>3. UNCHANGED <<ctx, completed, faults>>
      BY <1>3 DEF Press, order
    <2> QED
      BY <2>1, <2>2, <2>3, SetsAfter, CountsStay, FiniteCounts DEF CountsFinite
  <1> QED
    BY <1>1, <1>2, <1>3, AccountedCheck, AccountedJob, AccountedFault DEF Next

\* However the queue hands the job out again, an order is settled by the checks of
\* its offsite payment at most once for each process, and once more for each
\* fault: whoever settles it makes the context unavailable to later checks.
THEOREM CompletionsBoundedHolds == Spec => []CompletionsBounded
  <1>1. Init => Accounted
    <2>1. SUFFICES ASSUME Init PROVE Accounted
      OBVIOUS
    <2>2. ctx /\ completed = 0 /\ faults = 0
      BY <2>1 DEF Init
    <2> QED
      BY <2>1, <2>2, InitTypeOK, FiniteCounts DEF Accounted, CountsFinite
  <1>2. TypeOK /\ TypeOK' /\ Accounted /\ [Next]_vars => Accounted'
    BY NextAccounted
  <1>3. TypeOK /\ Accounted => CompletionsBounded
    BY FiniteCounts DEF Accounted, CountsFinite, CompletionsBounded
  <1> QED
    BY <1>1, <1>2, <1>3, TypeCorrect, PTL DEF Spec

-----------------------------------------------------------------------------
(* The customer's last word.                                               *)

\* Who settled the order or was told that it is settled or gone may stop.
Excused ==
    \A p \in Processes :
        /\ At(p, "forget") => status # "pending"
        /\ At(p, "done") => status # "pending" \/ faults > 0

\* A payload whose attempts are used up is the last attempt's, which still runs.
LastRuns ==
    /\ Tries \notin delayed
    /\ Tries \in reserved \/ ready[Tries] > 0 =>
          \E w \in Workers : ~At(w, "idle") /\ proc[w].n = Tries

\* As long as the customer has had no word, the job is queued or worked on.
Unheard == status = "pending" /\ ~told /\ faults = 0
InHand == Unheard => LastRuns /\ (Queued \/ Working # {})

Heard == Excused /\ InHand

LEMMA HeardOutside ==
    ASSUME TypeOK, Heard, UNCHANGED vars \/ Environment \/ Elapse
    PROVE  Heard'
  <1>1. CASE UNCHANGED vars
    BY <1>1 DEF Heard, Excused, InHand, Unheard, LastRuns, Queued, Working, At, vars, order,
                queue, counts
  <1>2. CASE Environment
    BY <1>2 DEF Heard, Excused, InHand, Unheard, LastRuns, Queued, Working, At, queue, counts,
                Environment, CustomerPays, SettledElsewhere, Cancelled
  <1>3. ASSUME NEW n \in Attempts, DelayEnds(n) PROVE Heard'
    <2>1. Excused'
      BY <1>3 DEF Heard, Excused, DelayEnds, At, order, counts
    <2>2. ASSUME Unheard' PROVE LastRuns' /\ Queued'
      <3>1. Unheard /\ LastRuns /\ n # Tries /\ n \in delayed
        BY <1>3, <2>2 DEF Heard, InHand, Unheard, DelayEnds, LastRuns, order, counts
      <3>2. ready'[Tries] = ready[Tries] /\ ready'[n] > 0
        BY <1>3, <3>1 DEF DelayEnds, TypeOK
      <3> QED
        BY <1>3, <3>1, <3>2 DEF DelayEnds, LastRuns, Queued, At
    <2> QED
      BY <2>1, <2>2 DEF Heard, InHand
  <1>4. ASSUME NEW n \in Attempts, ReservationExpires(n) PROVE Heard'
    <2>1. Excused'
      BY <1>4 DEF Heard, Excused, ReservationExpires, At, order, counts
    <2>2. ASSUME Unheard' PROVE LastRuns' /\ Queued'
      <3>1. Unheard /\ LastRuns /\ n \in reserved
        BY <1>4, <2>2 DEF Heard, InHand, Unheard, ReservationExpires, order, counts
      <3>2. ready'[n] > 0 /\ (n # Tries => ready'[Tries] = ready[Tries])
        BY <1>4 DEF ReservationExpires, TypeOK
      <3> QED
        BY <1>4, <3>1, <3>2 DEF ReservationExpires, LastRuns, Queued, At
    <2> QED
      BY <2>1, <2>2 DEF Heard, InHand
  <1> QED
    BY <1>1, <1>2, <1>3, <1>4 DEF Elapse

LEMMA HeardTake ==
    ASSUME TypeOK, Heard, NEW w \in Workers, Take(w)
    PROVE  Heard'
  <1>1. w \in Processes /\ At(w, "idle") /\ UNCHANGED <<status, told, faults>>
    BY DEF Processes, Take, PopExhausted, Pop, order, counts
  <1>2. CASE PopExhausted(w)
    <2>1. Excused'
      BY <1>1, <1>2 DEF Heard, Excused, PopExhausted, At
    <2>2. ASSUME Unheard' PROVE LastRuns' /\ Working' # {}
      <3>1. Unheard /\ LastRuns /\ ready[Tries] > 0
        BY <1>1, <1>2, <2>2 DEF Heard, InHand, Unheard, PopExhausted
      <3> QED
        BY <1>2, <3>1 DEF PopExhausted, LastRuns, Working, At
    <2> QED
      BY <2>1, <2>2 DEF Heard, InHand
  <1>3. ASSUME NEW n \in Attempts, Pop(w, n) PROVE Heard'
    <2>1. /\ proc'[w] = [pc |-> "check", n |-> n + 1]
          /\ \A v \in Processes \ {w} : proc'[v] = proc[v]
      BY <1>1, <1>3 DEF Pop, TypeOK
    <2>2. Excused'
      BY <1>1, <2>1 DEF Heard, Excused, At
    <2>3. ASSUME Unheard' PROVE LastRuns' /\ Working' # {}
      <3>1. Unheard /\ LastRuns /\ n # Tries
        BY <1>1, <1>3, <2>3, BoundAssumption DEF Heard, InHand, Unheard, Pop
      <3>2. ready'[Tries] = ready[Tries]
        BY <1>3, <3>1 DEF Pop, TypeOK
      <3>3. ~At(w, "idle")' /\ proc'[w].n = n + 1
        BY <2>1 DEF At
      <3>4. \A v \in Workers : ~At(v, "idle") =>
                ~At(v, "idle")' /\ proc'[v].n = proc[v].n
        BY <1>1, <2>1 DEF At, Processes
      <3>5. LastRuns'
        BY <1>3, <3>1, <3>2, <3>3, <3>4 DEF LastRuns, Pop
      <3> QED
        BY <3>3, <3>5 DEF Working
    <2> QED
      BY <2>2, <2>3 DEF Heard, InHand
  <1> QED
    BY <1>2, <1>3 DEF Take

\* A step of a check or a press changes nothing of the queue; a worker stays at
\* its attempt.
LEMMA HeardStays ==
    ASSUME TypeOK, Heard, NEW p \in Processes, NEW step, Moved(p, step), Excused',
           p \in Workers => step # "idle",
           UNCHANGED <<queue, told, faults>>, status' = status \/ status' # "pending"
    PROVE  Heard'
  <1>1. ASSUME Unheard' PROVE LastRuns' /\ (Queued \/ Working # {})'
    <2>1. Unheard /\ LastRuns /\ (Queued \/ Working # {})
      BY <1>1 DEF Heard, InHand, Unheard
    <2>2. \A v \in Workers : ~At(v, "idle") => ~At(v, "idle")' /\ proc'[v].n = proc[v].n
      BY DEF Moved, At, Processes
    <2> QED
      BY <2>1, <2>2 DEF LastRuns, Queued, Working, queue
  <1> QED
    BY <1>1 DEF Heard, InHand

LEMMA HeardCheck ==
    ASSUME TypeOK, Heard, NEW p \in Processes, Check(p) \/ Press(p)
    PROVE  Heard'
  <1>1. CASE NotYet(p) \/ StartPolling(p) \/ GiveUp(p) \/ Press(p)
    <2>1. PICK step \in {"retry", "poll", "check"} : Moved(p, step)
      BY <1>1, MovesOne DEF NotYet, StartPolling, GiveUp, Press, Steps
    <2>2. UNCHANGED <<queue, status, told, faults>>
      BY <1>1 DEF NotYet, StartPolling, GiveUp, Press, order, counts
    <2>3. Excused'
      BY <2>1, <2>2 DEF Heard, Excused, Moved, At, Idle
    <2> QED
      BY <2>1, <2>2, <2>3, HeardStays
  <1>2. CASE OrderMissing(p) \/ PersistMissing(p)
    <2>1. Moved(p, "done")
      BY <1>2, MovesOne DEF OrderMissing, PersistMissing, Steps
    <2>2. status = "deleted" /\ UNCHANGED <<queue, status, told, faults>>
      BY <1>2 DEF OrderMissing, PersistMissing, order, counts
    <2>3. Excused'
      BY <2>1, <2>2 DEF Heard, Excused, Moved, At, Idle
    <2> QED
      BY <2>1, <2>2, <2>3, HeardStays
  <1>3. CASE Persist(p)
    <2>1. Moved(p, "forget")
      BY <1>3, MovesOne DEF Persist, Steps
    <2>2. status' = "paid" /\ UNCHANGED <<queue, told, faults>>
      BY <1>3 DEF Persist
    <2>3. Excused'
      BY <2>2 DEF Excused
    <2> QED
      BY <2>1, <2>2, <2>3, HeardStays
  <1>4. CASE ForgetContext(p)
    <2>1. Moved(p, "done")
      BY <1>4, MovesOne DEF ForgetContext, Steps
    <2>2. UNCHANGED <<queue, status, told, faults>> /\ status # "pending"
      BY <1>4 DEF ForgetContext, counts, Heard, Excused
    <2>3. Excused'
      BY <2>2 DEF Excused
    <2> QED
      BY <2>1, <2>2, <2>3, HeardStays
  <1> QED
    BY <1>1, <1>2, <1>3, <1>4 DEF Check

LEMMA HeardConclude ==
    ASSUME TypeOK, Heard, NEW w \in Workers, Conclude(w)
    PROVE  Heard'
  <1>1. w \in Processes /\ Moved(w, "idle")
    BY MovesOne DEF Conclude, NotifyStillPending, RetryLater, EndJob, Release, Delete, Steps,
                    Processes
  <1>2. UNCHANGED <<status, faults>>
    BY DEF Conclude, NotifyStillPending, RetryLater, EndJob, order, counts
  <1>3. Excused'
    BY <1>1, <1>2 DEF Heard, Excused, Moved, At, Idle
  <1>4. CASE NotifyStillPending(w)
    BY <1>2, <1>3, <1>4 DEF NotifyStillPending, Heard, InHand, Unheard
  <1>5. CASE EndJob(w)
    BY <1>1, <1>2, <1>3, <1>5 DEF EndJob, Heard, Excused, InHand, Unheard
  <1>6. CASE RetryLater(w)
    <2>1. proc[w].n # Tries /\ proc[w].n \in 0..Tries
      BY <1>1, <1>6, BoundAssumption DEF RetryLater, Spent, TypeOK, Requests
    <2>2. ASSUME Unheard' PROVE LastRuns' /\ Queued'
      <3>1. Unheard /\ LastRuns
        BY <1>2, <1>6, <2>2 DEF Heard, InHand, Unheard, RetryLater, counts
      <3>2. \A v \in Workers : ~At(v, "idle") /\ proc[v].n = Tries =>
                ~At(v, "idle")' /\ proc'[v].n = Tries
        BY <1>1, <2>1 DEF Moved, At, Processes
      <3>3. /\ reserved' = reserved \ {proc[w].n}
            /\ delayed' = delayed \cup {proc[w].n} /\ ready' = ready
        BY <1>6 DEF RetryLater, Release
      <3> QED
        BY <2>1, <3>1, <3>2, <3>3 DEF LastRuns, Queued
    <2> QED
      BY <1>3, <2>2 DEF Heard, InHand
  <1> QED
    BY <1>4, <1>5, <1>6 DEF Conclude

LEMMA HeardFault ==
    ASSUME TypeOK, Heard, NEW p \in Processes,
           PanelFails(p) \/ Crash(p) \/ (p \in Workers /\ Throw(p))
    PROVE  Heard'
  <1>1. faults' > 0 /\ status' = status
    BY BoundAssumption DEF PanelFails, Crash, Throw, Fault, TypeOK, order
  <1>2. PICK step \in {"done", "idle"} : Moved(p, step)
    BY MovesOne DEF PanelFails, Crash, Throw, Release, Delete, Steps
  <1>3. Excused'
    BY <1>1, <1>2 DEF Heard, Excused, Moved, At, Idle
  <1> QED
    BY <1>1, <1>3 DEF Heard, InHand, Unheard

LEMMA NextHeard ==
    ASSUME TypeOK, Heard, [Next]_vars
    PROVE  Heard'
  <1>1. Workers \subseteq Processes
    BY DEF Processes
  <1> QED
    BY <1>1, HeardOutside, HeardTake, HeardCheck, HeardConclude, HeardFault DEF Next

\* When nothing failed and the job is over, the order was settled or cancelled or
\* the customer was told that the payment is still pending: a payload that is
\* failed unrun for its attempts never was the last of the job.
THEOREM WordBeforeEndHolds == Spec => []WordBeforeEnd
  <1>1. Init => Heard
    <2>1. SUFFICES ASSUME Init PROVE Heard
      OBVIOUS
    <2>2. \A p \in Processes : At(p, "idle")
      BY <2>1 DEF Init, At, Idle
    <2>3. /\ delayed = {0} /\ reserved = {} /\ 0 # Tries
          /\ ready[Tries] = 0
      BY <2>1, BoundAssumption DEF Init, Attempts
    <2> QED
      BY <2>2, <2>3 DEF Heard, Excused, InHand, LastRuns, Queued, At
  <1>2. TypeOK /\ Heard /\ [Next]_vars => Heard'
    BY NextHeard
  <1>3. TypeOK /\ Heard => WordBeforeEnd
    BY BoundAssumption DEF Heard, InHand, Unheard, WordBeforeEnd, TypeOK
  <1> QED
    BY <1>1, <1>2, <1>3, TypeCorrect, PTL DEF Spec

-----------------------------------------------------------------------------
(* How often the job is run.                                               *)

\* A set of natural numbers that has 0 and every successor has them all.
LEMMA Induction ==
    ASSUME NEW S \in SUBSET Nat, 0 \in S, \A n \in S : n + 1 \in S
    PROVE  S = Nat
  <1>1. SUFFICES ASSUME S # Nat PROVE FALSE
    OBVIOUS
  <1> DEFINE R == OpToRel(<, Nat)
             T == Nat \ S
  <1>2. IsWellFoundedOn(R, Nat)
    BY NatLessThanWellFounded
  <1>3. T \subseteq Nat /\ T # {}
    BY <1>1
  <1>4. PICK x \in T : \A y \in T : ~ (<<y, x>> \in R)
    <2> HIDE DEF R, T
    <2> QED
      BY <1>2, <1>3, WFMin
  <1>5. x \in Nat /\ x # 0 /\ x - 1 \in Nat
    OBVIOUS
  <1>6. <<x - 1, x>> \in R
    BY <1>5 DEF OpToRel
  <1>7. x - 1 \in T
    BY <1>5
  <1> QED
    BY <1>4, <1>6, <1>7

\* The subsets of 1..n+1 are those of 1..n, without n+1 and with it.
LEMMA PowerOfTwo ==
    ASSUME NEW n \in Nat
    PROVE  2 ^ n \in Nat /\ 2 ^ (n + 1) = 2 * 2 ^ n
  <1> DEFINE A == SUBSET (1..n)
             B == {T \cup {n + 1} : T \in A}
             f == [T \in A |-> T \cup {n + 1}]
  <1>1. /\ IsFiniteSet(1..n) /\ Cardinality(1..n) = n
        /\ IsFiniteSet(1..(n + 1)) /\ Cardinality(1..(n + 1)) = n + 1
    BY FS_Interval
  <1>2. IsFiniteSet(A) /\ Cardinality(A) = 2 ^ n
    BY <1>1, FS_SUBSET
  <1>3. Cardinality(SUBSET (1..(n + 1))) = 2 ^ (n + 1)
    BY <1>1, FS_SUBSET
  <1>4. f \in Bijection(A, B)
    <2>1. f \in [A -> B]
      OBVIOUS
    <2>2. \A a, b \in A : f[a] = f[b] => a = b
      OBVIOUS
    <2>3. \A t \in B : \E s \in A : f[s] = t
      OBVIOUS
    <2> QED
      BY <2>1, <2>2, <2>3 DEF Bijection, Injection, Surjection, IsInjective
  <1>5. IsFiniteSet(B) /\ Cardinality(B) = Cardinality(A)
    <2> HIDE DEF f, A, B
    <2>1. ExistsBijection(A, B)
      BY <1>4 DEF ExistsBijection
    <2> QED
      BY <1>2, <2>1, FS_Bijection
  <1>6. SUBSET (1..(n + 1)) = A \cup B
    <2>1. ASSUME NEW T \in SUBSET (1..(n + 1)), n + 1 \in T PROVE T \in B
      <3>1. T \ {n + 1} \in A
        BY <2>1
      <3>2. T = (T \ {n + 1}) \cup {n + 1}
        BY <2>1
      <3> QED
        BY <3>1, <3>2
    <2>2. ASSUME NEW T \in SUBSET (1..(n + 1)), n + 1 \notin T PROVE T \in A
      BY <2>2
    <2>3. 1..n \subseteq 1..(n + 1) /\ n + 1 \in 1..(n + 1)
      OBVIOUS
    <2>4. A \subseteq SUBSET (1..(n + 1)) /\ B \subseteq SUBSET (1..(n + 1))
      BY <2>3
    <2> QED
      BY <2>1, <2>2, <2>4
  <1>7. Cardinality(A \cap B) = 0
    <2>1. A \cap B = {}
      OBVIOUS
    <2> QED
      BY <2>1, FS_EmptySet
  <1>8. Cardinality(A) \in Nat
    BY <1>2, FS_CardinalityType
  <1> HIDE DEF A, B
  <1>9. Cardinality(A \cup B) = Cardinality(A) + Cardinality(B) - Cardinality(A \cap B)
    BY <1>2, <1>5, FS_Union
  <1>10. Cardinality(A \cup B) = 2 * Cardinality(A)
    BY <1>5, <1>7, <1>8, <1>9
  <1>11. 2 ^ (n + 1) = 2 * Cardinality(A)
    BY <1>3, <1>6, <1>10, Zenon
  <1> QED
    BY <1>2, <1>8, <1>11, Zenon

\* The workers at a run of a payload that has n attempts with it, and how many
\* more runs its copies and they can lead to.
Running(n) == {w \in Workers : ~At(w, "idle") /\ proc[w].n = n}
One(b) == IF b THEN 1 ELSE 0
Handed(n) == ready[n] + One(n \in delayed) + One(n \in reserved) + Cardinality(Running(n))

\* One payload was dispatched; a run leaves at most two payloads: the one that
\* its reservation gives back, and the one it releases itself.
Doubles ==
    /\ runs[0] + Handed(0) <= 1
    /\ \A n \in Attempts : n < Tries => runs[n + 1] + Handed(n + 1) <= 2 * runs[n]

LEMMA RunningFinite ==
    ASSUME NEW n
    PROVE  /\ IsFiniteSet(Running(n)) /\ Cardinality(Running(n)) \in Nat
           /\ IsFiniteSet(Running(n)') /\ Cardinality(Running(n)') \in Nat
  <1>1. Running(n) \in SUBSET Workers /\ Running(n)' \in SUBSET Workers
    BY DEF Running
  <1> QED
    BY <1>1, ProcessAssumption, FS_Subset, FS_CardinalityType

LEMMA HandedTypes ==
    ASSUME NEW n \in Attempts
    PROVE  /\ TypeOK => ready[n] \in Nat /\ Handed(n) \in Nat
           /\ TypeOK' => ready'[n] \in Nat /\ Handed(n)' \in Nat
  BY RunningFinite DEF TypeOK, Handed, One

LEMMA DoublesStay ==
    ASSUME TypeOK, TypeOK', Doubles, runs' = runs,
           \A n \in Attempts : Handed(n)' <= Handed(n)
    PROVE  Doubles'
  <1>1. runs \in [Attempts -> Nat] /\ 0 \in Attempts
    BY BoundAssumption DEF TypeOK, Attempts
  <1>2. \A n \in Attempts : Handed(n) \in Nat /\ Handed(n)' \in Nat
    BY HandedTypes
  <1>3. \A n \in Attempts : n < Tries => n + 1 \in Attempts
    BY BoundAssumption DEF Attempts
  <1>4. runs'[0] + Handed(0)' <= 1
    BY <1>1, <1>2 DEF Doubles
  <1>5. ASSUME NEW n \in Attempts, n < Tries
        PROVE  runs'[n + 1] + Handed(n + 1)' <= 2 * runs'[n]
    <2>1. n + 1 \in Attempts /\ runs[n + 1] + Handed(n + 1) <= 2 * runs[n]
      BY <1>3, <1>5 DEF Doubles
    <2>2. Handed(n + 1)' <= Handed(n + 1)
      BY <2>1
    <2> QED
      BY <1>1, <1>2, <2>1, <2>2
  <1> QED
    BY <1>4, <1>5 DEF Doubles

\* A step that is not a pop: nobody joins those at work.
LEMMA HandedFewer ==
    ASSUME TypeOK, TypeOK', NEW n \in Attempts, Running(n)' \subseteq Running(n),
           ready'[n] + One(n \in delayed') + One(n \in reserved')
               <= ready[n] + One(n \in delayed) + One(n \in reserved)
    PROVE  Handed(n)' <= Handed(n)
  <1>1. Cardinality(Running(n)') <= Cardinality(Running(n))
    BY RunningFinite, FS_Subset
  <1>2. ready[n] \in Nat /\ ready'[n] \in Nat
    BY HandedTypes
  <1> QED
    BY <1>1, <1>2, RunningFinite DEF Handed, One

\* p stops its work, or goes on with the same attempt.
LEMMA RunningShrinks ==
    ASSUME TypeOK, NEW p \in Processes, NEW step, Moved(p, step), NEW n,
           p \in Workers => ~At(p, "idle")
    PROVE  Running(n)' \subseteq Running(n)
  BY DEF Moved, Running, At, Idle, Processes

\* A worker stops, and removes the reservation, or turns it into a delay.
LEMMA HandedConcluded ==
    ASSUME TypeOK, TypeOK', NEW w \in Workers, ~At(w, "idle"), Release(w) \/ Delete(w),
           NEW n \in Attempts
    PROVE  Handed(n)' <= Handed(n)
  <1>1. w \in Processes /\ Moved(w, "idle")
    BY MovesOne DEF Release, Delete, Processes, Steps
  <1>2. Running(n)' \subseteq Running(n)
    BY <1>1, RunningShrinks
  <1>3. ready' = ready /\ reserved' = reserved \ {proc[w].n}
    BY DEF Release, Delete
  <1>4. CASE n \in delayed' => n \in delayed
    <2>1. /\ One(n \in reserved') <= One(n \in reserved)
          /\ One(n \in delayed') <= One(n \in delayed)
          /\ One(n \in reserved') \in 0..1 /\ One(n \in reserved) \in 0..1
          /\ One(n \in delayed') \in 0..1 /\ One(n \in delayed) \in 0..1
      BY <1>3, <1>4 DEF One
    <2> QED
      BY <1>2, <1>3, <2>1, HandedFewer, HandedTypes
  <1>5. CASE n \in delayed' /\ n \notin delayed
    <2>1. n = proc[w].n /\ n \notin reserved'
      BY <1>5 DEF Release, Delete
    <2>2. w \in Running(n) /\ w \notin Running(n)'
      BY <1>1, <2>1 DEF Running, Moved, At, Idle
    <2>3. Running(n)' \subseteq Running(n) \ {w}
      BY <1>2, <2>2
    <2>4. Cardinality(Running(n)') <= Cardinality(Running(n)) - 1
      BY <2>2, <2>3, RunningFinite, FS_RemoveElement, FS_Subset
    <2>5. /\ One(n \in reserved') = 0 /\ One(n \in delayed') = 1
          /\ One(n \in delayed) = 0 /\ One(n \in reserved) \in 0..1
      BY <1>5, <2>1 DEF One
    <2> QED
      BY <1>3, <2>4, <2>5, RunningFinite, HandedTypes DEF Handed
  <1> QED
    BY <1>4, <1>5

\* Time passes: a payload moves to the waiting list.
LEMMA HandedElapse ==
    ASSUME TypeOK, TypeOK', Elapse, NEW n \in Attempts
    PROVE  Handed(n)' <= Handed(n)
  <1>1. proc' = proc
    BY DEF Elapse, DelayEnds, ReservationExpires
  <1>2. Running(n)' = Running(n)
    BY <1>1 DEF Running, At
  <1>3. ASSUME NEW m \in Attempts, DelayEnds(m) \/ ReservationExpires(m)
        PROVE  ready'[n] + One(n \in delayed') + One(n \in reserved')
                   <= ready[n] + One(n \in delayed) + One(n \in reserved)
    BY <1>3, HandedTypes DEF DelayEnds, ReservationExpires, TypeOK, One
  <1> QED
    BY <1>2, <1>3, HandedFewer DEF Elapse

\* A worker pops a payload: the run it begins is worth two payloads with one
\* attempt more, the reservation and its own.
LEMMA DoublesPop ==
    ASSUME TypeOK, TypeOK', Doubles, NEW w \in Workers, NEW m \in Attempts, Pop(w, m)
    PROVE  Doubles'
  <1>1. m + 1 \in Attempts /\ m \in Nat /\ m < Tries
    BY BoundAssumption DEF Pop, Attempts
  <1>2. /\ proc'[w] = [pc |-> "check", n |-> m + 1] /\ At(w, "idle")
        /\ \A v \in Workers \ {w} : proc'[v] = proc[v]
    BY DEF Pop, TypeOK, Processes
  <1>3. /\ \A n \in Attempts : n # m + 1 => Running(n)' = Running(n)
        /\ Running(m + 1)' = Running(m + 1) \cup {w} /\ w \notin Running(m + 1)
    BY <1>2 DEF Running, At
  <1>4. Cardinality(Running(m + 1)') = Cardinality(Running(m + 1)) + 1
    BY <1>3, RunningFinite, FS_AddElement
  <1>5. /\ ready' = [ready EXCEPT ![m] = @ - 1] /\ ready[m] > 0
        /\ runs' = [runs EXCEPT ![m] = @ + 1]
        /\ reserved' = reserved \cup {m + 1} /\ delayed' = delayed
    BY DEF Pop
  <1>6. /\ ready \in [Attempts -> Nat] /\ runs \in [Attempts -> Nat]
    BY DEF TypeOK
  <1>7. Handed(m)' = Handed(m) - 1
    <2>1. m # m + 1 /\ Running(m)' = Running(m)
      BY <1>1, <1>3
    <2>2. ready'[m] = ready[m] - 1 /\ (m \in reserved' <=> m \in reserved)
      BY <1>1, <1>5, <1>6
    <2> QED
      BY <1>5, <1>6, <2>1, <2>2, RunningFinite DEF Handed, One
  <1>8. Handed(m + 1)' <= Handed(m + 1) + 2
    <2>1. ready'[m + 1] = ready[m + 1]
      BY <1>1, <1>5, <1>6
    <2> QED
      BY <1>1, <1>4, <1>5, <1>6, <2>1, RunningFinite DEF Handed, One
  <1>9. \A n \in Attempts : n # m /\ n # m + 1 => Handed(n)' = Handed(n)
    BY <1>1, <1>3, <1>5, <1>6 DEF Handed
  <1>10. \A n \in Attempts : Handed(n) \in Nat /\ Handed(n)' \in Nat
    BY HandedTypes
  <1>11. /\ runs'[m] = runs[m] + 1
         /\ \A n \in Attempts : n # m => runs'[n] = runs[n]
    BY <1>5, <1>6
  <1>12. 0 \in Attempts /\ \A n \in Attempts : n \in Nat /\ (n < Tries => n + 1 \in Attempts)
    BY BoundAssumption DEF Attempts
  <1>13. runs'[0] + Handed(0)' <= 1
    <2>1. runs[0] + Handed(0) <= 1
      BY DEF Doubles
    <2>2. 0 # m + 1
      BY <1>1
    <2> QED
      BY <1>6, <1>7, <1>9, <1>10, <1>11, <1>12, <2>1, <2>2
  <1>14. ASSUME NEW n \in Attempts, n < Tries
         PROVE  runs'[n + 1] + Handed(n + 1)' <= 2 * runs'[n]
    <2>1. n \in Nat /\ n + 1 \in Attempts /\ runs[n + 1] + Handed(n + 1) <= 2 * runs[n]
      BY <1>12, <1>14 DEF Doubles
    <2>2. CASE n = m
      <3>1. runs'[n + 1] = runs[n + 1] /\ runs'[n] = runs[n] + 1
        BY <1>11, <2>1, <2>2
      <3> QED
        BY <1>6, <1>8, <1>10, <2>1, <2>2, <3>1
    <2>3. CASE n + 1 = m
      <3>1. runs'[n + 1] = runs[n + 1] + 1 /\ runs'[n] = runs[n]
        BY <1>11, <2>1, <2>3
      <3>2. Handed(n + 1)' = Handed(n + 1) - 1
        BY <1>7, <2>3
      <3> QED
        BY <1>6, <1>10, <2>1, <3>1, <3>2
    <2>4. CASE n # m /\ n + 1 # m
      <3>1. runs'[n + 1] = runs[n + 1] /\ runs'[n] = runs[n]
        BY <1>11, <2>1, <2>4
      <3>2. Handed(n + 1)' = Handed(n + 1)
        BY <1>1, <1>9, <2>1, <2>4
      <3> QED
        BY <2>1, <3>1, <3>2
    <2> QED
      BY <2>2, <2>3, <2>4
  <1> QED
    BY <1>13, <1>14 DEF Doubles

LEMMA NextDoubles ==
    ASSUME TypeOK, TypeOK', Doubles, [Next]_vars
    PROVE  Doubles'
  <1>1. Workers \subseteq Processes
    BY DEF Processes
  <1>2. CASE UNCHANGED vars \/ Environment
    <2>1. UNCHANGED <<ready, delayed, reserved, proc, runs>>
      BY <1>2 DEF vars, queue, counts, Environment, CustomerPays, SettledElsewhere, Cancelled
    <2> QED
      BY <2>1 DEF Doubles, Handed, Running, At
  <1>3. CASE Elapse
    <2>1. runs' = runs
      BY <1>3 DEF Elapse, DelayEnds, ReservationExpires, counts
    <2> QED
      BY <1>3, <2>1, HandedElapse, DoublesStay
  <1>4. ASSUME NEW w \in Workers, PopExhausted(w) PROVE Doubles'
    <2>1. UNCHANGED <<delayed, reserved, proc, runs>>
      BY <1>4 DEF PopExhausted, counts
    <2>2. Tries \in Attempts
      BY BoundAssumption DEF Attempts
    <2>3. \A n \in Attempts : ready'[n] <= ready[n] /\ ready[n] \in Nat /\ ready'[n] \in Nat
      BY <1>4, <2>2 DEF PopExhausted, TypeOK
    <2>4. \A n \in Attempts : Running(n)' = Running(n)
      BY <2>1 DEF Running, At
    <2>5. \A n \in Attempts : Handed(n)' <= Handed(n)
      BY <2>1, <2>3, <2>4, RunningFinite DEF Handed, One
    <2> QED
      BY <2>1, <2>5, DoublesStay
  <1>5. ASSUME NEW w \in Workers, Conclude(w) \/ Throw(w) PROVE Doubles'
    <2>1. ~At(w, "idle") /\ (Release(w) \/ Delete(w)) /\ runs' = runs
      BY <1>5 DEF Conclude, NotifyStillPending, RetryLater, EndJob, Throw, Fault, At, counts
    <2> QED
      BY <2>1, HandedConcluded, DoublesStay
  <1>6. ASSUME NEW p \in Processes, Press(p) \/ Check(p) \/ PanelFails(p) \/ Crash(p)
        PROVE  Doubles'
    <2>1. \E step \in Steps : Moved(p, step)
      BY <1>6, MovesOne DEF Press, Check, OrderMissing, NotYet, StartPolling, Persist,
         PersistMissing, GiveUp, ForgetContext, PanelFails, Crash, Steps
    <2>2. p \in Workers => ~At(p, "idle")
      BY <1>6, ProcessAssumption DEF Press, Check, OrderMissing, NotYet, StartPolling, Persist,
         PersistMissing, GiveUp, ForgetContext, PanelFails, Crash, At
    <2>3. \A n \in Attempts : Running(n)' \subseteq Running(n)
      BY <2>1, <2>2, RunningShrinks
    <2>4. ready' = ready /\ delayed' = delayed /\ reserved' \subseteq reserved /\ runs' = runs
      BY <1>6 DEF Press, Check, OrderMissing, NotYet, StartPolling, Persist, PersistMissing,
         GiveUp, ForgetContext, PanelFails, Crash, Fault, queue, counts
    <2>5. \A n \in Attempts : Handed(n)' <= Handed(n)
      BY <2>3, <2>4, HandedFewer, HandedTypes DEF One
    <2> QED
      BY <2>4, <2>5, DoublesStay
  <1> QED
    BY <1>1, <1>2, <1>3, <1>4, <1>5, <1>6, DoublesPop DEF Next, Take

\* However often reservations run out under workers that are still busy, a payload
\* that had n attempts is run at most 2^n times, so the job ends with $tries.
THEOREM RunsBoundedHolds == Spec => []RunsBounded
  <1>1. Init => Doubles
    <2>1. SUFFICES ASSUME Init PROVE Doubles
      OBVIOUS
    <2>2. \A n \in Attempts : Running(n) = {}
      BY <2>1 DEF Init, Running, At, Idle, Processes
    <2>3. \A n \in Attempts : Cardinality(Running(n)) = 0
      BY <2>2, FS_EmptySet
    <2>4. \A n \in Attempts : Handed(n) = One(n = 0) /\ runs[n] = 0
      BY <2>1, <2>3 DEF Init, Handed, One
    <2>5. 0 \in Attempts /\ \A n \in Attempts : n < Tries => n + 1 \in Attempts /\ n + 1 # 0
      BY BoundAssumption DEF Attempts
    <2> QED
      BY <2>4, <2>5 DEF Doubles, One
  <1>2. TypeOK /\ TypeOK' /\ Doubles /\ [Next]_vars => Doubles'
    BY NextDoubles
  <1>3. TypeOK /\ Doubles => RunsBounded
    <2>1. SUFFICES ASSUME TypeOK, Doubles PROVE RunsBounded
      OBVIOUS
    <2> DEFINE S == {n \in Nat : n \in Attempts => runs[n] <= 2 ^ n}
    <2>2. runs \in [Attempts -> Nat]
      BY <2>1 DEF TypeOK
    <2>3. 0 \in S
      <3>1. 0 \in Attempts /\ Handed(0) \in Nat /\ runs[0] + Handed(0) <= 1 /\ 2 ^ 0 = 1
        BY <2>1, BoundAssumption, HandedTypes DEF Doubles, Attempts
      <3> QED
        BY <2>2, <3>1
    <2>4. ASSUME NEW n \in S PROVE n + 1 \in S
      <3>1. SUFFICES ASSUME n + 1 \in Attempts PROVE runs[n + 1] <= 2 ^ (n + 1)
        OBVIOUS
      <3>2. n \in Attempts /\ n < Tries
        BY <3>1, BoundAssumption DEF Attempts
      <3>3. runs[n + 1] + Handed(n + 1) <= 2 * runs[n] /\ Handed(n + 1) \in Nat
        BY <2>1, <3>1, <3>2, HandedTypes DEF Doubles
      <3>4. 2 ^ n \in Nat /\ 2 ^ (n + 1) = 2 * 2 ^ n
        BY PowerOfTwo
      <3>5. runs[n] <= 2 ^ n /\ runs[n] \in Nat /\ runs[n + 1] \in Nat
        BY <2>2, <3>1, <3>2
      <3> QED
        BY <3>3, <3>4, <3>5
    <2>5. S = Nat
      <3> HIDE DEF S
      <3>1. S \in SUBSET Nat
        BY DEF S
      <3> QED
        BY <2>3, <2>4, <3>1, Induction
    <2> QED
      BY <2>5, BoundAssumption DEF RunsBounded, Attempts
  <1> QED
    BY <1>1, <1>2, <1>3, TypeCorrect, PTL DEF Spec
=============================================================================
