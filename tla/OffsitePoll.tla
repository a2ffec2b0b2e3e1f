---------------------------- MODULE OffsitePoll ----------------------------
(***************************************************************************)
(* One PollXmplusOffsitePayment job on its way through the redis queue.    *)
(*                                                                         *)
(* The job is dispatched when a customer is sent to an offsite gateway.    *)
(* Each attempt asks the panel about the invoice and settles the order, or *)
(* releases the job for a later attempt.  The queue reserves a job for 90  *)
(* seconds while an attempt may take 300, so a job can be handed out while *)
(* an attempt of it still runs; and releasing or deleting it removes only  *)
(* the reservation the attempt came with.  The customer's button asks the  *)
(* same question from php-fpm at the same time.                            *)
(*                                                                         *)
(* Redis keeps a waiting list and two sets of payloads.  The payloads of   *)
(* one job differ only in their number of attempts, which stands for them. *)
(***************************************************************************)
EXTENDS Integers, FiniteSets

CONSTANTS
    Workers,        \* queue workers
    Pages,          \* php-fpm workers that serve the customer's button
    Tries,          \* PollXmplusOffsitePayment::$tries
    MaxPresses,     \* bound: times the customer presses the button
    MaxFaults       \* bound: workers that die, calls that fail

Processes == Workers \cup Pages
Attempts == 0..Tries

ASSUME ProcessAssumption ==
    /\ IsFiniteSet(Workers) /\ IsFiniteSet(Pages)
    /\ Workers \cap Pages = {}

ASSUME BoundAssumption ==
    /\ Tries \in Nat \ {0}
    /\ MaxPresses \in Nat /\ MaxFaults \in Nat

VARIABLES
    kind,           \* the order buys a service or renews one
    status,         \* orders.status; "deleted" when the row is gone
    ctx,            \* whether the payment's context is cached
    paid,           \* whether the panel reports the invoice as paid
    ready,          \* the waiting list: copies of the job by attempts so far
    delayed,        \* payloads released for later
    reserved,       \* payloads handed to a worker less than retry_after ago
    proc,           \* what each process does, and the attempt it runs
    presses,        \* number of presses so far
    faults,         \* number of faults so far
    runs,           \* history: runs begun, by the payload's attempts so far
    told,           \* history: a "still pending" message was sent
    completed       \* history: commits of persistAfterPoll

order == <<kind, status, ctx, paid>>
queue == <<ready, delayed, reserved>>
counts == <<presses, faults, runs, told, completed>>
vars == <<order, queue, proc, counts>>

Steps == {"idle", "check", "poll", "forget", "retry", "done"}
Idle == [pc |-> "idle", n |-> 0]
At(p, step) == proc[p].pc = step
GoTo(p, step) == proc' = [proc EXCEPT ![p] = [@ EXCEPT !.pc = step]]
Finish(p) == proc' = [proc EXCEPT ![p] = Idle]

\* What comes after the check: the queue's worker decides about the job, the
\* button's answer is a message to the customer.
Decide(p, step) == IF p \in Workers THEN GoTo(p, step) ELSE Finish(p)

\* Dispatched with a delay of 25 seconds, once the gateway's page was made.
Init ==
    /\ kind \in {"purchase", "renewal"}
    /\ status = "pending"
    /\ ctx = TRUE
    /\ paid = FALSE
    /\ ready = [n \in Attempts |-> 0]
    /\ delayed = {0}
    /\ reserved = {}
    /\ proc = [p \in Processes |-> Idle]
    /\ presses = 0
    /\ faults = 0
    /\ runs = [n \in Attempts |-> 0]
    /\ told = FALSE
    /\ completed = 0

-----------------------------------------------------------------------------
(* The queue.                                                              *)

\* A delay is over: the payload is moved to the waiting list.
DelayEnds(n) ==
    /\ n \in delayed
    /\ delayed' = delayed \ {n}
    /\ ready' = [ready EXCEPT ![n] = @ + 1]
    /\ UNCHANGED <<order, reserved, proc, counts>>

\* Variant: retry_after is null, a reservation never runs out.
ReservationStays(n) ==
    /\ n \in reserved
    /\ UNCHANGED vars

\* A reservation is older than retry_after: the payload is waiting again,
\* whether its worker died or is still at it.
ReservationExpires(n) ==
    /\ n \in reserved
    /\ reserved' = reserved \ {n}
    /\ ready' = [ready EXCEPT ![n] = @ + 1]
    /\ UNCHANGED <<order, delayed, proc, counts>>

\* Variant: a payload keeps its number of attempts when it is popped.
PopUncounted(w, n) ==
    /\ At(w, "idle")
    /\ ready[n] > 0 /\ n < Tries
    /\ ready' = [ready EXCEPT ![n] = @ - 1]
    /\ reserved' = reserved \cup {n}
    /\ proc' = [proc EXCEPT ![w] = [pc |-> "check", n |-> n]]
    /\ runs' = [runs EXCEPT ![n] = @ + 1]
    /\ UNCHANGED <<order, delayed, presses, faults, told, completed>>

\* Variant: the number of attempts is not limited when a payload is popped.
PopUnlimited(w, n) ==
    /\ At(w, "idle")
    /\ ready[n] > 0
    /\ ready' = [ready EXCEPT ![n] = @ - 1]
    /\ reserved' = reserved \cup {n + 1}
    /\ proc' = [proc EXCEPT ![w] = [pc |-> "check", n |-> n + 1]]
    /\ runs' = [runs EXCEPT ![n] = @ + 1]
    /\ UNCHANGED <<order, delayed, presses, faults, told, completed>>

\* Pop: one payload leaves the list and is reserved with one attempt more.
Pop(w, n) ==
    /\ At(w, "idle")
    /\ ready[n] > 0 /\ n < Tries
    /\ ready' = [ready EXCEPT ![n] = @ - 1]
    /\ reserved' = reserved \cup {n + 1}
    /\ proc' = [proc EXCEPT ![w] = [pc |-> "check", n |-> n + 1]]
    /\ runs' = [runs EXCEPT ![n] = @ + 1]
    /\ UNCHANGED <<order, delayed, presses, faults, told, completed>>

\* A payload that was tried often enough is failed without being run.
PopExhausted(w) ==
    /\ At(w, "idle")
    /\ ready[Tries] > 0
    /\ ready' = [ready EXCEPT ![Tries] = @ - 1]
    /\ UNCHANGED <<order, delayed, reserved, proc, counts>>

\* release(60): the reservation becomes a delay, whatever became of it.
Release(w) ==
    /\ reserved' = reserved \ {proc[w].n}
    /\ delayed' = delayed \cup {proc[w].n}
    /\ UNCHANGED ready
    /\ Finish(w)

Delete(w) ==
    /\ reserved' = reserved \ {proc[w].n}
    /\ UNCHANGED <<ready, delayed>>
    /\ Finish(w)

-----------------------------------------------------------------------------
(* The check, finalizeTelegramAfterOffsite and finalizeWebAfterOffsite.    *)

\* The customer presses the button, in the bot or on the order's page.
Press(p) ==
    /\ p \in Pages /\ At(p, "idle")
    /\ presses < MaxPresses
    /\ presses' = presses + 1
    /\ GoTo(p, "check")
    /\ UNCHANGED <<order, queue, faults, runs, told, completed>>

\* A renewal's row has no service of its own, so a paid one may proceed.
CanProceed == status = "pending" \/ (status = "paid" /\ kind = "renewal")

\* The order is gone: a message without one of shouldRetry's words.
OrderMissing(p) ==
    /\ At(p, "check")
    /\ status = "deleted"
    /\ Decide(p, "done")
    /\ UNCHANGED <<order, queue, counts>>

\* The session has run out, the order was completed, or the invoice is still
\* pending: each message has one of shouldRetry's words.
NotYet(p) ==
    /\ At(p, "check")
    /\ status # "deleted"
    /\ ~ctx \/ ~CanProceed \/ ~paid
    /\ Decide(p, "retry")
    /\ UNCHANGED <<order, queue, counts>>

\* Poll the panel for the link, for up to 360 seconds.  The bot and the job ask
\* first whether the invoice is still pending, the page polls in any case.  That
\* they poll, too, when the answer fails is left out: such a poll gives up,
\* which leads to the same retry as NotYet, or finds the invoice paid meanwhile.
StartPolling(p) ==
    /\ At(p, "check")
    /\ ctx /\ CanProceed
    /\ paid \/ p \in Pages
    /\ GoTo(p, "poll")
    /\ UNCHANGED <<order, queue, counts>>

\* persistAfterPoll: the link is there, one transaction settles the order read
\* before the poll, whatever it has become since.
Persist(p) ==
    /\ At(p, "poll")
    /\ paid /\ status # "deleted"
    /\ status' = "paid"
    /\ completed' = completed + 1
    /\ GoTo(p, "forget")
    /\ UNCHANGED <<kind, ctx, paid, queue, presses, faults, runs, told>>

\* The row is gone: the transaction fails, with a message that ends the job.
PersistMissing(p) ==
    /\ At(p, "poll")
    /\ status = "deleted"
    /\ Decide(p, "done")
    /\ UNCHANGED <<order, queue, counts>>

\* The poll ends without a link: its messages have one of shouldRetry's words.
GiveUp(p) ==
    /\ At(p, "poll")
    /\ Decide(p, "retry")
    /\ UNCHANGED <<order, queue, counts>>

\* Variant: the context stays.
KeepContext(p) ==
    /\ At(p, "forget")
    /\ Decide(p, "done")
    /\ UNCHANGED <<order, queue, counts>>

\* Cache::forget after the transaction.
ForgetContext(p) ==
    /\ At(p, "forget")
    /\ ctx' = FALSE
    /\ Decide(p, "done")
    /\ UNCHANGED <<kind, status, paid, queue, counts>>

-----------------------------------------------------------------------------
(* The job, PollXmplusOffsitePayment::handle, after its check.             *)

\* Variant: one attempt too many is asked for.
SpentLate(w) == proc[w].n > Tries

\* attempts() >= $tries.
Spent(w) == proc[w].n >= Tries

\* The last attempt tells the customer, unless the order is settled or gone.  The
\* message is handed to Telegram; whether it arrives the job does not look at.
NotifyStillPending(w) ==
    /\ At(w, "retry") /\ Spent(w)
    /\ told' = (told \/ status = "pending")
    /\ Delete(w)
    /\ UNCHANGED <<order, presses, faults, runs, completed>>

RetryLater(w) ==
    /\ At(w, "retry") /\ ~Spent(w)
    /\ Release(w)
    /\ UNCHANGED <<order, counts>>

EndJob(w) ==
    /\ At(w, "done")
    /\ Delete(w)
    /\ UNCHANGED <<order, counts>>

-----------------------------------------------------------------------------
(* Faults.                                                                 *)

Fault ==
    /\ faults < MaxFaults
    /\ faults' = faults + 1
    /\ UNCHANGED <<presses, runs, told, completed>>

\* A process dies.  A queue worker killed by the job's timeout gives the job up
\* if that was its last attempt; the reservation of any other runs out.
Crash(p) ==
    /\ ~At(p, "idle")
    /\ Fault
    /\ reserved' \in {reserved} \cup {reserved \ {n} : n \in {proc[p].n} \cap {Tries}}
    /\ Finish(p)
    /\ UNCHANGED <<order, ready, delayed>>

\* An exception leaves handle: the worker releases the job at once, or gives it
\* up after its last attempt.
Throw(w) ==
    /\ proc[w].pc \in {"check", "poll", "forget"}
    /\ Fault
    /\ IF proc[w].n >= Tries THEN Delete(w) ELSE Release(w)
    /\ UNCHANGED order

\* The panel's client throws: the job ends if the message has none of the words.
PanelFails(p) ==
    /\ At(p, "poll")
    /\ Fault
    /\ Decide(p, "done")
    /\ UNCHANGED <<order, queue>>

-----------------------------------------------------------------------------
(* What happens to the order meanwhile.                                    *)

CustomerPays ==
    /\ ~paid
    /\ paid' = TRUE
    /\ UNCHANGED <<kind, status, ctx, queue, proc, counts>>

\* The admin approves the order, or Plisio's callback settles it.
SettledElsewhere ==
    /\ status = "pending"
    /\ status' = "paid"
    /\ UNCHANGED <<kind, ctx, paid, queue, proc, counts>>

\* The admin cancels the order: its row is deleted.
Cancelled ==
    /\ status = "pending"
    /\ status' = "deleted"
    /\ UNCHANGED <<kind, ctx, paid, queue, proc, counts>>

-----------------------------------------------------------------------------
Environment == CustomerPays \/ SettledElsewhere \/ Cancelled

Elapse == \E n \in Attempts : DelayEnds(n) \/ ReservationExpires(n)

Take(w) == PopExhausted(w) \/ \E n \in Attempts : Pop(w, n)

Check(p) == \/ OrderMissing(p) \/ NotYet(p) \/ StartPolling(p)
            \/ Persist(p) \/ PersistMissing(p) \/ GiveUp(p) \/ ForgetContext(p)

Conclude(w) == NotifyStillPending(w) \/ RetryLater(w) \/ EndJob(w)

Work(w) == Take(w) \/ Check(w) \/ Conclude(w)

Next ==
    \/ Environment \/ Elapse
    \/ \E w \in Workers : Take(w) \/ Conclude(w) \/ Throw(w)
    \/ \E p \in Processes : Press(p) \/ Check(p) \/ PanelFails(p) \/ Crash(p)

Spec == Init /\ [][Next]_vars

\* Supervisor keeps the queue workers running, php-fpm its own; time passes.
Fairness ==
    /\ WF_vars(Elapse)
    /\ \A w \in Workers : WF_vars(Work(w))

FairSpec == Spec /\ Fairness

-----------------------------------------------------------------------------
(* Properties.                                                             *)

Requests == [pc : Steps, n : 0..Tries]

\* The variables keep their types: no payload has more than Tries attempts.
TypeOK ==
    /\ kind \in {"purchase", "renewal"}
    /\ status \in {"pending", "paid", "deleted"}
    /\ ctx \in BOOLEAN /\ paid \in BOOLEAN
    /\ ready \in [Attempts -> Nat]
    /\ delayed \subseteq Attempts /\ reserved \subseteq Attempts
    /\ proc \in [Processes -> Requests]
    /\ presses \in 0..MaxPresses /\ faults \in 0..MaxFaults
    /\ runs \in [Attempts -> Nat] /\ told \in BOOLEAN /\ completed \in Nat

\* Redelivery multiplies attempts but cannot go on for ever: a run that outlives
\* its reservation and is then released leaves two payloads of its number, never
\* more, so a payload that had n attempts is run at most 2^n times
\* (config/queue.php, retry_after; $tries).
RunsBounded == \A n \in Attempts : runs[n] <= 2 ^ n

Working == {w \in Workers : ~At(w, "idle")}
Queued == delayed # {} \/ reserved # {} \/ \E n \in Attempts : ready[n] > 0

\* The customer is not left without a word: when the job is over and nothing
\* failed, the order is no longer pending or the customer was told that it is
\* (handle and notifyStillPending), even when payloads of the job were failed
\* unrun for their number of attempts.
WordBeforeEnd ==
    ~Queued /\ Working = {} /\ status = "pending" => told \/ faults > 0

\* persistAfterPoll does not read the status again, so overlapping checks settle
\* the order once each; but only those that began before the first of them
\* forgot the context: one for every process, and one more for each that died
\* before it could forget.
CompletionsBounded == completed <= Cardinality(Processes) + faults

\* The job comes to an end, also when it is handed out twice and workers die.
JobEnds == <>[](~Queued /\ Working = {})
=============================================================================
