------------------------------ MODULE StockLedger ------------------------------
(***************************************************************************)
(* What the order code promises about inventory, with no requests, no      *)
(* transactions and no locks.  Every unit of a SKU is either in stock or   *)
(* held by exactly one order.  The only ways a unit moves are:             *)
(*   - Rebook:  an open order replaces what it holds, and the stock of     *)
(*              every SKU changes by exactly that difference;              *)
(*   - Close:   an order is cancelled or refunded, gives everything back,  *)
(*              and never holds or returns anything again;                 *)
(*   - Recount: staff overwrite the stock of one SKU;                      *)
(*   - Forget:  one SKU is deleted for good, with what orders held of it.  *)
(* Orders implements this specification (Orders!LedgerSpec).               *)
(***************************************************************************)
EXTENDS Integers

CONSTANTS
  Sku,        \* product SKUs
  Order,      \* order identifiers
  Recounted,  \* SKUs whose stock staff may overwrite
  Erased      \* SKUs that may be deleted for good

VARIABLES
  stock,    \* units of each SKU that can still be sold
  held,     \* held[o][s]: units of SKU s that order o holds
  closed    \* cancelled and refunded orders

vars == <<stock, held, closed>>

Nothing == [s \in Sku |-> 0]

Init ==
  /\ stock \in [Sku -> Nat]
  /\ closed \in SUBSET Order
  /\ held \in [Order -> [Sku -> Nat]]
  /\ \A o \in closed : held[o] = Nothing

Rebook(o) ==
  /\ o \notin closed
  /\ held' = [held EXCEPT ![o] = held'[o]]
  /\ held'[o] \in [Sku -> Nat]
  /\ stock' = [s \in Sku |-> stock[s] + held[o][s] - held'[o][s]]
  /\ \A s \in Sku : stock'[s] >= 0
  /\ UNCHANGED closed

Close(o) ==
  /\ o \notin closed
  /\ stock' = [s \in Sku |-> stock[s] + held[o][s]]
  /\ held' = [held EXCEPT ![o] = Nothing]
  /\ closed' = closed \cup {o}

Recount(s) ==
  /\ s \in Recounted
  /\ stock' = [stock EXCEPT ![s] = stock'[s]]
  /\ stock'[s] \in Nat
  /\ UNCHANGED <<held, closed>>

Forget(s) ==
  /\ s \in Erased
  /\ stock' = [stock EXCEPT ![s] = 0]
  /\ held' = [o \in Order |-> [held[o] EXCEPT ![s] = 0]]
  /\ UNCHANGED closed

Next ==
  \/ \E o \in Order : Rebook(o) \/ Close(o)
  \/ \E s \in Sku : Recount(s) \/ Forget(s)

Spec == Init /\ [][Next]_vars
================================================================================
