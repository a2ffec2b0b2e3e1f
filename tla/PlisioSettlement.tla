--------------------------- MODULE PlisioSettlement ---------------------------
(***************************************************************************)
(* What the shop promises about a payment made at Plisio, without workers, *)
(* transactions, row locks or a panel: it is carried out in one step, on an*)
(* order that is not paid, and crediting a wallet with exactly the amount  *)
(* of a top-up.  ShopOrders implements it.                                 *)
(***************************************************************************)
EXTENDS Integers

CONSTANTS Orders, TopUps, Users, Owner, Amount

VARIABLES
    status,     \* orders.status
    plisio,     \* "none", "owed" (Plisio has the money), "acked"
    fulfilled,  \* how often the order's payment was carried out
    deposited   \* total of each user's deposit rows

vars == <<status, plisio, fulfilled, deposited>>

Unpaid == {"pending", "failed"}
Present == {"pending", "failed", "paid"}

Init ==
    /\ status = [o \in Orders |-> "none"]
    /\ plisio = [o \in Orders |-> "none"]
    /\ fulfilled = [o \in Orders |-> 0]
    /\ deposited = [u \in Users |-> 0]

Credit(o) ==
    deposited' = IF o \in TopUps
                 THEN [deposited EXCEPT ![Owner[o]] = @ + Amount[o]]
                 ELSE deposited

\* The customer pays at Plisio.
Pay(o) ==
    /\ status[o] = "pending" /\ plisio[o] = "none"
    /\ plisio' = [plisio EXCEPT ![o] = "owed"]
    /\ UNCHANGED <<status, fulfilled, deposited>>

\* The payment is carried out.
CarryOut(o) ==
    /\ plisio[o] # "none" /\ status[o] \in Unpaid
    /\ status' = [status EXCEPT ![o] = "paid"]
    /\ fulfilled' = [fulfilled EXCEPT ![o] = @ + 1]
    /\ Credit(o)
    /\ UNCHANGED plisio

\* Plisio is told so.
Acknowledge(o) ==
    /\ plisio[o] # "none"
    /\ plisio' = [plisio EXCEPT ![o] = "acked"]
    /\ UNCHANGED <<status, fulfilled, deposited>>

\* The order is placed, or another path approves it (and credits a top-up),
\* takes the money from a wallet, marks it failed, reopens or deletes it.
Approve(o) ==
    /\ status[o] \in Present
    /\ status' = [status EXCEPT ![o] = "paid"]
    /\ Credit(o)
    /\ UNCHANGED <<plisio, fulfilled>>

Other(o) ==
    /\ \E s \in Present \cup {"deleted"} :
          /\ status[o] = "none" => s \in {"pending", "paid"}
          /\ status[o] = "deleted" => s = "deleted"
          /\ status' = [status EXCEPT ![o] = s]
    /\ UNCHANGED <<plisio, fulfilled, deposited>>

Next ==
    \E o \in Orders : Pay(o) \/ CarryOut(o) \/ Acknowledge(o) \/ Approve(o) \/ Other(o)

Spec == Init /\ [][Next]_vars
===============================================================================
