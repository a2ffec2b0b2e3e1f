---------------------------- MODULE MCShopOrders ----------------------------
(* Instances of ShopOrders for TLC: one wallet, which opens with the price of *)
(* one plan, and orders of each kind.                                         *)
EXTENDS ShopOrders, TLC

CONSTANTS u1, w1, w2, w3, top, plan, plan2, renewal

MCOwner == [o \in Orders |-> u1]
MCAmount == [o \in Orders |-> IF o = top THEN 2 ELSE 1]
MCOpening == [u \in Users |-> 1]
MCRenews == [n \in Renewals |-> plan]

WorkerSymmetry == Permutations(Workers)
=============================================================================
