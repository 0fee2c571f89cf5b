------------------------------ MODULE DataStore ------------------------------
(***************************************************************************)
(* The shop's data: dictionaries in memory (api/data_store.py), written    *)
(* through to SQLite (api/store_db.py) table by table, and restored from   *)
(* it when a new process is first asked for anything.  All operations that *)
(* write are coroutines of one event loop without an await inside, so they *)
(* do not interleave; what comes between two of an operation's writes is   *)
(* a crash, or SQLite refusing one of them, which the code swallows.       *)
(* Implements ShopPromise.                                                 *)
(***************************************************************************)
EXTENDS Integers, Sequences, FiniteSets

CONSTANTS
  Users,          \* user ids of the seed
  SeedProducts,   \* product ids of the seed
  FirstProduct,   \* 1000: where ids of products made at run time begin
  FirstOrder,     \* 10000
  MaxProduct,     \* bound on product ids
  MaxOrders,      \* bound on orders
  MaxQuantity,    \* bound on the quantity of an item
  Faults,         \* what may go wrong: a subset of {"crash", "write", "load"}
  MaxFaults       \* bound on how often

ASSUME StoreAssumption ==
  /\ Users # {} /\ Users \subseteq Nat /\ SeedProducts # {}
  /\ SeedProducts \subseteq 1..(FirstProduct - 1)
  /\ FirstProduct \in Nat /\ FirstOrder \in Nat
  /\ MaxProduct \in Nat /\ MaxOrders \in Nat /\ MaxQuantity \in Nat /\ MaxFaults \in Nat
  /\ Faults \subseteq {"crash", "write", "load"}

VARIABLES
  seeded,     \* _seeded: memory is filled
  users,      \* profile per user; 0 is the seed's, 1 an edited one
  products,   \* ids of _products_by_id
  carts,      \* user -> (product id -> quantity)
  orders,     \* in the order they were made
  nextOrder,  \* _next_order_id
  nextProduct,\* _next_product_id
  db,         \* the tables of store.db; meta is the flag "seeded"
  todo,       \* writes the operation under way has left, as it will make them
  before,     \* history: what was shown when that operation began
  doubtful,   \* history: tables that the next process may not bring back as they were
  faults

memory == <<seeded, users, products, carts, orders, nextOrder, nextProduct>>
vars   == <<memory, db, todo, before, doubtful, faults>>

Tables   == {"users", "products", "orders", "carts"}
Empty    == [x \in {} |-> 0]

With(f, k, v) == [x \in DOMAIN f \cup {k} |-> IF x = k THEN v ELSE f[x]]
Without(f, k) == [x \in DOMAIN f \ {k} |-> f[x]]
Quantity(cart, p) == IF p \in DOMAIN cart THEN cart[p] ELSE 0
Larger(a, b)  == IF a >= b THEN a ELSE b
\* max(..., default=0)
Largest(S)    == IF S = {} THEN 0 ELSE CHOOSE x \in S : \A y \in S : x >= y

SeedUsers == [u \in Users |-> 0]
NoCarts   == [u \in Users |-> Empty]
NoTables  == [users |-> Empty, products |-> {}, orders |-> <<>>, carts |-> NoCarts, meta |-> FALSE]

\* A write of a whole table (row All) or of one row, each a transaction.
All         == -1
Whole(t)    == [table |-> t, row |-> All]
Row(t, key) == [table |-> t, row |-> key]
PersistAll  == <<Whole("users"), Whole("products"), Whole("orders"), Whole("carts"), Whole("meta")>>

HasData == db.meta /\ DOMAIN db.users # {} /\ db.products # {}

-----------------------------------------------------------------------------
(* What a reader is shown: memory, or what a new process would restore.     *)

Shown ==
  IF seeded THEN [users |-> users, products |-> products, orders |-> orders, carts |-> carts]
  ELSE IF HasData THEN [users |-> db.users, products |-> db.products,
                        orders |-> db.orders, carts |-> db.carts]
  ELSE [users |-> SeedUsers, products |-> SeedProducts, orders |-> <<>>, carts |-> NoCarts]

-----------------------------------------------------------------------------
Init ==
  /\ seeded = FALSE
  /\ users = Empty /\ products = {}
  /\ carts = NoCarts /\ orders = <<>>
  /\ nextOrder = FirstOrder /\ nextProduct = FirstProduct
  /\ db = NoTables
  /\ todo = <<>>
  /\ before = Shown
  /\ doubtful = {}
  /\ faults = 0

Fault(kind) == kind \in Faults /\ faults < MaxFaults /\ faults' = faults + 1

Everything == Tables \cup {"meta"}

\* The operation's effect in memory is complete and its writes are to come.
BeginWrites(writes) ==
  /\ todo' = writes
  /\ before' = Shown
  /\ UNCHANGED db

Begin(writes) == BeginWrites(writes) /\ UNCHANGED <<doubtful, faults>>

Ready == seeded /\ todo = <<>>

Reseed ==
  /\ users' = SeedUsers
  /\ products' = SeedProducts
  /\ nextOrder' = FirstOrder
  /\ nextProduct' = FirstProduct

\* Mutant: the counters start anew.
LoadWithFirstIds ==
  /\ users' = db.users
  /\ products' = db.products
  /\ carts' = db.carts
  /\ orders' = db.orders
  /\ nextOrder' = FirstOrder
  /\ nextProduct' = FirstProduct

Load ==
  /\ users' = db.users
  /\ products' = db.products
  /\ carts' = db.carts
  /\ orders' = db.orders
  /\ nextOrder' = Larger(FirstOrder, Largest({db.orders[i].id : i \in DOMAIN db.orders}) + 1)
  /\ nextProduct' = Larger(FirstProduct, Largest(db.products) + 1)

\* The first access of a process restores the last session's data ...
Restore ==
  /\ ~seeded
  /\ HasData
  /\ Load
  /\ seeded' = TRUE
  /\ before' = Shown
  /\ UNCHANGED <<db, todo, doubtful, faults>>

\* ... or seeds an empty database.
Seed ==
  /\ ~seeded
  /\ ~HasData
  /\ Reseed
  /\ seeded' = TRUE
  /\ Begin(PersistAll)
  /\ UNCHANGED <<carts, orders>>

\* An exception while restoring counts as an empty database; the carts may have been
\* read by then.
RestoreFails ==
  /\ ~seeded
  /\ HasData
  /\ Fault("load")
  /\ Reseed
  /\ carts' \in {carts, db.carts}
  /\ seeded' = TRUE
  /\ BeginWrites(PersistAll)
  /\ doubtful' = Everything
  /\ UNCHANGED <<orders>>

-----------------------------------------------------------------------------
(* Products and users, from the debug endpoints.                            *)

AddProduct ==
  /\ Ready
  /\ nextProduct <= MaxProduct
  /\ products' = products \cup {nextProduct}
  /\ nextProduct' = nextProduct + 1
  /\ Begin(<<Row("products", nextProduct)>>)
  /\ UNCHANGED <<seeded, users, carts, orders, nextOrder>>

\* Carts keep the item.
DeleteProduct(p) ==
  /\ Ready
  /\ p \in products
  /\ products' = products \ {p}
  /\ Begin(<<Row("products", p)>>)
  /\ UNCHANGED <<seeded, users, carts, orders, nextOrder, nextProduct>>

\* update_user and add_user_preference.
UpdateUser(u) ==
  /\ Ready
  /\ u \in DOMAIN users
  /\ users' = [users EXCEPT ![u] = 1]
  /\ Begin(<<Row("users", u)>>)
  /\ UNCHANGED <<seeded, products, carts, orders, nextOrder, nextProduct>>

-----------------------------------------------------------------------------
(* Carts.                                                                   *)

AddToCart(u, p) ==
  /\ Ready
  /\ p \in products
  /\ Quantity(carts[u], p) < MaxQuantity
  /\ carts' = [carts EXCEPT ![u] = With(@, p, Quantity(@, p) + 1)]
  /\ Begin(<<Whole("carts")>>)
  /\ UNCHANGED <<seeded, users, products, orders, nextOrder, nextProduct>>

RemoveFromCart(u, p) ==
  /\ Ready
  /\ carts' = [carts EXCEPT ![u] = Without(@, p)]
  /\ Begin(<<Whole("carts")>>)
  /\ UNCHANGED <<seeded, users, products, orders, nextOrder, nextProduct>>

ClearCart(u) ==
  /\ Ready
  /\ carts' = [carts EXCEPT ![u] = Empty]
  /\ Begin(<<Whole("carts")>>)
  /\ UNCHANGED <<seeded, users, products, orders, nextOrder, nextProduct>>

-----------------------------------------------------------------------------
(* Orders.                                                                  *)

NewOrder(u, items) ==
  /\ Len(orders) < MaxOrders
  /\ orders' = Append(orders, [id |-> nextOrder, user |-> u, items |-> items, paid |-> FALSE])
  /\ nextOrder' = nextOrder + 1
  /\ UNCHANGED <<seeded, users, products, nextProduct>>

\* Mutant: the cart is written first.
PlaceOrderCartFirst(u, items) ==
  /\ NewOrder(u, items)
  /\ carts' = [carts EXCEPT ![u] = Empty]
  /\ Begin(<<Whole("carts"), Whole("orders")>>)

\* The end that checkout and create_order_from_items share.
PlaceOrder(u, items) ==
  /\ NewOrder(u, items)
  /\ carts' = [carts EXCEPT ![u] = Empty]
  /\ Begin(<<Whole("orders"), Whole("carts")>>)

Checkout(u) ==
  /\ Ready
  /\ carts[u] # Empty
  /\ PlaceOrder(u, carts[u])

\* POST /api/orders with a list of items: unknown products are skipped.
OrderItems(u, wanted) ==
  /\ Ready
  /\ LET known == wanted \cap products IN
     /\ known # {}
     /\ PlaceOrder(u, [p \in known |-> 1])

\* POST /debug/orders: any user and product, the cart stays.
AddOrder(u, p) ==
  /\ Ready
  /\ NewOrder(u, With(Empty, p, 1))
  /\ Begin(<<Whole("orders")>>)
  /\ UNCHANGED carts

PayOrder(i) ==
  /\ Ready
  /\ i \in DOMAIN orders
  /\ orders' = [orders EXCEPT ![i].paid = TRUE]
  /\ Begin(<<Whole("orders")>>)
  /\ UNCHANGED <<seeded, users, products, carts, nextOrder, nextProduct>>

\* The tables are cleared before memory is, which no reader can tell.
ResetAll ==
  /\ Ready
  /\ Reseed
  /\ carts' = NoCarts
  /\ orders' = <<>>
  /\ Begin(<<Whole("clear")>> \o PersistAll)
  /\ UNCHANGED <<seeded>>

-----------------------------------------------------------------------------
(* The writes of the operation under way.                                   *)

\* One row is upserted or deleted, as memory has it or not.
Products(row) ==
  IF row = All THEN products
  ELSE IF row \in products THEN db.products \cup {row} ELSE db.products \ {row}

Profiles(row) == IF row = All THEN users ELSE With(db.users, row, users[row])

Saved(w) ==
  CASE w.table = "clear"    -> NoTables
    [] w.table = "users"    -> [db EXCEPT !.users = Profiles(w.row)]
    [] w.table = "products" -> [db EXCEPT !.products = Products(w.row)]
    [] w.table = "orders"   -> [db EXCEPT !.orders = orders]
    [] w.table = "carts"    -> [db EXCEPT !.carts = carts]
    [] w.table = "meta"     -> [db EXCEPT !.meta = TRUE]

\* A database without products counts as one that was never seeded (HasData): the next
\* process would seed over the orders.
Write ==
  /\ todo # <<>>
  /\ db' = Saved(Head(todo))
  /\ todo' = Tail(todo)
  /\ doubtful' = IF Head(todo).row = All THEN doubtful \ {Head(todo).table}
                 ELSE IF db'.products = {} THEN Everything ELSE doubtful
  /\ before' = IF todo' = <<>> THEN Shown ELSE before
  /\ UNCHANGED <<memory, faults>>

\* A refused write is swallowed; in _persist_all it ends the rest, the flag included.
WriteRefused ==
  /\ todo # <<>>
  /\ Fault("write")
  /\ LET rest == {todo[i].table : i \in DOMAIN todo}
         all  == "meta" \in rest /\ Head(todo).table # "clear"
     IN /\ todo' = IF all THEN <<>> ELSE Tail(todo)
        /\ doubtful' = doubtful \cup (IF "meta" \in rest THEN Everything ELSE {Head(todo).table})
  /\ before' = IF todo' = <<>> THEN Shown ELSE before
  /\ UNCHANGED <<memory, db>>

Crash ==
  /\ seeded
  /\ Fault("crash")
  /\ seeded' = FALSE
  /\ users' = Empty /\ products' = {}
  /\ carts' = NoCarts /\ orders' = <<>>
  /\ nextOrder' = FirstOrder /\ nextProduct' = FirstProduct
  /\ todo' = <<>>
  /\ UNCHANGED <<db, doubtful>>
  /\ before' = Shown'

-----------------------------------------------------------------------------
AnyProduct == SeedProducts \cup FirstProduct..MaxProduct

Next ==
  \/ Restore \/ Seed \/ RestoreFails
  \/ AddProduct
  \/ \E p \in AnyProduct : DeleteProduct(p)
  \/ \E u \in Users : UpdateUser(u)
  \/ \E u \in Users, p \in AnyProduct : AddToCart(u, p) \/ RemoveFromCart(u, p) \/ AddOrder(u, p)
  \/ \E u \in Users : ClearCart(u) \/ Checkout(u)
  \/ \E u \in Users : \E wanted \in SUBSET AnyProduct : OrderItems(u, wanted)
  \/ \E i \in 1..MaxOrders : PayOrder(i)
  \/ ResetAll
  \/ Write \/ WriteRefused
  \/ Crash

Spec == Init /\ [][Next]_vars

-----------------------------------------------------------------------------
IsPartial(f, keys, values) == DOMAIN f \subseteq keys /\ \A k \in DOMAIN f : f[k] \in values

\* The type of every variable.
TypeOK ==
  /\ seeded \in BOOLEAN
  /\ IsPartial(users, Users, 0..1) /\ IsPartial(db.users, Users, 0..1)
  /\ products \cup db.products \subseteq AnyProduct
  /\ \A c \in {carts, db.carts} : DOMAIN c = Users
  /\ \A u \in Users, c \in {carts, db.carts} : IsPartial(c[u], AnyProduct, 1..MaxQuantity)
  /\ \A o \in {orders[i] : i \in DOMAIN orders} :
       /\ o.id \in FirstOrder..(FirstOrder + MaxOrders) /\ o.user \in Users
       /\ IsPartial(o.items, AnyProduct, 1..MaxQuantity) /\ o.items # Empty
       /\ o.paid \in BOOLEAN
  /\ nextOrder \in FirstOrder..(FirstOrder + MaxOrders)
  /\ nextProduct \in FirstProduct..(MaxProduct + 1)
  /\ db.meta \in BOOLEAN
  /\ \A i \in DOMAIN todo : todo[i].table \in Everything \cup {"clear"}
  /\ doubtful \subseteq Everything
  /\ faults \in 0..MaxFaults

\* Orders in memory and in the database have ids of their own, in the order they were
\* made, and the next id is above them: the counter is not stored but computed from
\* what was restored, whatever was lost before.
OrderIdsUnique ==
  /\ \A i, j \in DOMAIN orders : i < j => orders[i].id < orders[j].id
  /\ \A i, j \in DOMAIN db.orders : i < j => db.orders[i].id < db.orders[j].id
  /\ seeded => \A i \in DOMAIN orders : orders[i].id < nextOrder

\* The store keeps the shop's promise: between operations a restart shows nothing, and
\* a crash amid an operation leaves each table at one of its ends, never an emptied
\* cart whose order is gone ("重启不丢", data_store.py).
Promise == INSTANCE ShopPromise WITH
  shop     <- Shown,
  working  <- todo # <<>>,
  doubtful <- IF "meta" \in doubtful THEN Tables ELSE doubtful

KeepsPromise == Promise!Spec

\* "库为空才重新播种": a database that was seeded is restored, never seeded over.
SeedsOnlyEmpty == [][~seeded /\ seeded' /\ db.meta => orders' = db.orders]_vars
=============================================================================
