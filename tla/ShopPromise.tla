----------------------------- MODULE ShopPromise -----------------------------
(***************************************************************************)
(* What the shop promises of its data, whatever it is stored in ("重启不丢", *)
(* api/data_store.py): a restart between two operations shows nothing.  A  *)
(* crash amid an operation may undo it, or a part of it, but a cart is not *)
(* emptied for an order that is gone.  Of a doubtful table nothing is      *)
(* promised until it is written as a whole again.                          *)
(***************************************************************************)
CONSTANT Tables   \* contains "orders" and "carts"

VARIABLES
  shop,     \* [Tables -> contents]: what a reader is shown, now or after the restart
  before,   \* shop before the operation under way
  working,  \* an operation is under way, its answer not yet given
  doubtful  \* tables whose write was refused (which no caller is told), or all of them
            \* since the database could not be read or has no product left

vars == <<shop, before, working, doubtful>>

Init == /\ ~working
        /\ before = shop
        /\ doubtful = {}

Operate ==
  /\ ~working
  /\ working'
  /\ before' = shop
  /\ DOMAIN shop' = Tables
  /\ doubtful' \in {doubtful, Tables}

\* A write is refused, or a whole table is written once more.
Doubt == /\ working
         /\ doubtful' \subseteq Tables
         /\ UNCHANGED <<shop, before, working>>

\* The answer is given.
Finish == /\ working
          /\ ~working'
          /\ before' = shop
          /\ doubtful' \subseteq Tables
          /\ UNCHANGED shop

\* Each table is one of an end or the other of the operation under way; the carts are
\* not ahead of the orders.
Crash ==
  /\ \A t \in Tables \ doubtful : shop'[t] \in {before[t], shop[t]}
  /\ ({"orders", "carts"} \cap doubtful = {} /\ shop'["carts"] # before["carts"])
        => shop'["orders"] = shop["orders"]
  /\ DOMAIN shop' = Tables
  /\ ~working'
  /\ before' = shop'
  /\ UNCHANGED doubtful

Next == Operate \/ Doubt \/ Finish \/ Crash

Spec == Init /\ [][Next]_vars
=============================================================================
