-------------------------- MODULE DataStoreProofs --------------------------
(***************************************************************************)
(* For any users, products, orders and number of faults: order ids are     *)
(* unique, and the store keeps ShopPromise.                                *)
(***************************************************************************)
EXTENDS DataStore, WellFoundedInduction, TLAPS

\* Contents of a cart or an order; an order; a write.
Carts  == UNION {[D -> Nat] : D \in SUBSET AnyProduct}
Order  == [id : Nat, user : Users, items : Carts, paid : BOOLEAN]
Writes == {w \in [table : Everything, row : Int] : w.table = "users" => w.row \in Users \cup {All}}

\* The writes an operation may have left; only a reset clears, and before all else.
Clearing   == <<Whole("clear")>> \o PersistAll
WriteLists == Seq(Writes) \cup {Clearing}

IsDb == db = [users |-> db.users, products |-> db.products, orders |-> db.orders,
              carts |-> db.carts, meta |-> db.meta]

StoreTypes ==
  /\ IsDb
  /\ seeded \in BOOLEAN /\ db.meta \in BOOLEAN
  /\ products \subseteq AnyProduct /\ db.products \subseteq AnyProduct
  /\ carts \in [Users -> Carts] /\ db.carts \in [Users -> Carts]
  /\ orders \in Seq(Order) /\ db.orders \in Seq(Order)
  /\ nextOrder \in Nat /\ nextProduct \in Nat /\ FirstProduct <= nextProduct
  /\ users = [u \in DOMAIN users |-> users[u]] /\ DOMAIN users \subseteq Users
  /\ db.users = [u \in DOMAIN db.users |-> db.users[u]] /\ DOMAIN db.users \subseteq Users
  /\ todo \in WriteLists
  /\ doubtful \subseteq Everything

\* A process that has not been asked for anything has an empty memory.
Unseeded == ~seeded => todo = <<>> /\ orders = <<>> /\ carts = NoCarts

StoreInv == StoreTypes /\ Unseeded /\ OrderIdsUnique

-----------------------------------------------------------------------------
(* Numbers, carts and orders.                                               *)

\* A set of naturals has a least element ...
LEMMA LeastNat ==
  ASSUME NEW S, S \subseteq Nat, S # {}
  PROVE  \E x \in S : \A y \in S : x <= y
<1>1. \E x \in S : \A y \in S : ~ (<<y, x>> \in OpToRel(<, Nat))
  BY NatLessThanWellFounded, WFMin
<1>2. \A x, y \in Nat : y < x => <<y, x>> \in OpToRel(<, Nat)
  BY DEF OpToRel
<1>3. \E x \in S : \A y \in S : ~ (y < x)
  BY <1>1, <1>2, Zenon
<1> QED
  BY <1>3

\* ... and, if it is bounded, a greatest one, which is what Largest returns.
LEMMA LargestIs ==
  ASSUME NEW S, S \subseteq Nat, S # {}, NEW b \in Nat, \A x \in S : x <= b
  PROVE  Largest(S) \in S /\ \A x \in S : x <= Largest(S)
<1> DEFINE D == {b - x : x \in S}
<1>1. D \subseteq Nat /\ D # {}
  <2>1. \A x \in S : b - x \in Nat
    OBVIOUS
  <2> QED
    BY <2>1
<1>2. PICK d \in D : \A y \in D : d <= y
  BY <1>1, LeastNat
<1>3. PICK m \in S : d = b - m
  BY <1>2
<1>4. \A x \in S : m >= x
  <2> SUFFICES ASSUME NEW x \in S PROVE m >= x
    OBVIOUS
  <2>1. b - m <= b - x
    BY <1>2, <1>3
  <2> QED
    BY <2>1
<1>5. \E x \in S : \A y \in S : x >= y
  BY <1>4
<1>6. Largest(S) = CHOOSE x \in S : \A y \in S : x >= y
  BY DEF Largest
<1>7. Largest(S) \in S /\ \A y \in S : Largest(S) >= y
  BY <1>5, <1>6, Zenon
<1> QED
  BY <1>7

LEMMA LargerIs ==
  \A a, b \in Nat : Larger(a, b) \in Nat /\ a <= Larger(a, b) /\ b <= Larger(a, b)
BY DEF Larger

\* The id after those of some orders is above them all.
LEMMA NextIdAbove ==
  ASSUME NEW s \in Seq(Order), \A i, j \in DOMAIN s : i < j => s[i].id < s[j].id
  PROVE  LET n == Larger(FirstOrder, Largest({s[i].id : i \in DOMAIN s}) + 1)
         IN  n \in Nat /\ \A i \in DOMAIN s : s[i].id < n
<1>1. \A o \in Order : o.id \in Nat
  BY DEF Order
<1>2. /\ \A i \in DOMAIN s : s[i].id \in Nat
      /\ DOMAIN s = 1..Len(s) /\ Len(s) \in Nat
  BY <1>1
<1> DEFINE ids == {s[i].id : i \in DOMAIN s}
<1>3. Largest(ids) \in Nat /\ \A i \in DOMAIN s : s[i].id <= Largest(ids)
  <2>1. CASE DOMAIN s = {}
    BY <2>1 DEF Largest
  <2>2. CASE DOMAIN s # {}
    <3>1. Len(s) \in DOMAIN s /\ \A i \in DOMAIN s : i = Len(s) \/ i < Len(s)
      BY <2>2, <1>2
    <3>2. \A i \in DOMAIN s : s[i].id <= s[Len(s)].id
      BY <3>1, <1>2
    <3>3. ids \subseteq Nat /\ ids # {} /\ \A x \in ids : x <= s[Len(s)].id
      BY <3>1, <3>2, <1>2
    <3>4. Largest(ids) \in ids /\ \A x \in ids : x <= Largest(ids)
      <4> HIDE DEF ids
      <4> QED
        BY <3>1, <3>3, <1>2, LargestIs
    <3> QED
      BY <3>3, <3>4
  <2> QED
    BY <2>1, <2>2
<1> HIDE DEF ids
<1>4. FirstOrder \in Nat /\ Largest(ids) + 1 \in Nat
  BY <1>3, StoreAssumption
<1> DEFINE n == Larger(FirstOrder, Largest(ids) + 1)
<1>5. n \in Nat /\ Largest(ids) + 1 <= n
  BY <1>4, LargerIs
<1> HIDE DEF n
<1>6. n \in Nat /\ \A i \in DOMAIN s : s[i].id < n
  BY <1>2, <1>3, <1>5
<1> QED
  BY <1>6 DEF n, ids

LEMMA FirstIds ==
  FirstOrder \in Nat /\ FirstProduct \in Nat /\ FirstProduct <= FirstProduct /\ <<>> \in Seq(Order)
BY StoreAssumption

LEMMA ProductIds ==
  /\ FirstProduct \in Nat
  /\ AnyProduct \subseteq Nat
  /\ \A p \in AnyProduct : p <= Larger(FirstProduct, MaxProduct)
  /\ Larger(FirstProduct, MaxProduct) \in Nat
  /\ SeedProducts \subseteq AnyProduct
BY StoreAssumption DEF AnyProduct, Larger

LEMMA NextProductIs ==
  ASSUME NEW S \in SUBSET AnyProduct
  PROVE  LET n == Larger(FirstProduct, Largest(S) + 1) IN n \in Nat /\ FirstProduct <= n
<1>1. Largest(S) \in Nat
  <2>1. CASE S = {}
    BY <2>1 DEF Largest
  <2>2. CASE S # {}
    BY <2>2, ProductIds, LargestIs
  <2> QED
    BY <2>1, <2>2
<1>2. Largest(S) + 1 \in Nat
  BY <1>1
<1> QED
  BY <1>2, ProductIds, LargerIs

LEMMA CartTypes ==
  /\ Empty \in Carts
  /\ NoCarts \in [Users -> Carts]
  /\ SeedUsers = [u \in DOMAIN SeedUsers |-> SeedUsers[u]] /\ DOMAIN SeedUsers = Users
  /\ \A c \in Carts, p \in AnyProduct : /\ Quantity(c, p) \in Nat
                                        /\ Without(c, p) \in Carts
                                        /\ \A n \in Nat : With(c, p, n) \in Carts
  /\ \A S \in SUBSET AnyProduct : [p \in S |-> 1] \in Carts
<1>1. \A c : c \in Carts <=> \E D \in SUBSET AnyProduct : c \in [D -> Nat]
  BY DEF Carts
<1>2. Empty \in Carts
  <2>1. Empty \in [{} -> Nat]
    BY DEF Empty
  <2> QED
    BY <2>1, <1>1
<1>3. ASSUME NEW c \in Carts, NEW p \in AnyProduct
      PROVE  /\ Quantity(c, p) \in Nat
             /\ Without(c, p) \in Carts
             /\ \A n \in Nat : With(c, p, n) \in Carts
  <2>1. PICK D \in SUBSET AnyProduct : c \in [D -> Nat]
    BY <1>1
  <2>2. Without(c, p) \in [D \ {p} -> Nat]
    BY <2>1 DEF Without
  <2>3. ASSUME NEW n \in Nat PROVE With(c, p, n) \in [D \cup {p} -> Nat]
    BY <2>1 DEF With
  <2>4. Quantity(c, p) \in Nat
    BY <2>1 DEF Quantity
  <2>5. D \ {p} \in SUBSET AnyProduct /\ D \cup {p} \in SUBSET AnyProduct
    OBVIOUS
  <2> QED
    BY <2>2, <2>3, <2>4, <2>5, <1>1
<1>4. ASSUME NEW S \in SUBSET AnyProduct PROVE [p \in S |-> 1] \in Carts
  <2>1. [p \in S |-> 1] \in [S -> Nat]
    OBVIOUS
  <2> QED
    BY <2>1, <1>1
<1> QED
  BY <1>2, <1>3, <1>4 DEF NoCarts, SeedUsers

-----------------------------------------------------------------------------
(* The writes under way.                                                    *)

\* What _persist_all has left.
Rest1 == PersistAll
Rest2 == <<Whole("products"), Whole("orders"), Whole("carts"), Whole("meta")>>
Rest3 == <<Whole("orders"), Whole("carts"), Whole("meta")>>
Rest4 == <<Whole("carts"), Whole("meta")>>
Rest5 == <<Whole("meta")>>

LEMMA WriteTypes ==
  /\ \A t \in Everything : Whole(t) \in Writes
  /\ \A k \in Nat : Row("products", k) \in Writes
  /\ \A u \in Users : Row("users", u) \in Writes
  /\ \A w, v \in Writes : <<w>> \in Seq(Writes) /\ <<w, v>> \in Seq(Writes)
  /\ {Rest1, Rest2, Rest3, Rest4, Rest5} \subseteq Seq(Writes)
  /\ <<>> \in WriteLists /\ Seq(Writes) \subseteq WriteLists /\ Clearing \in WriteLists
<1>1. \A t \in Everything : Whole(t) \in Writes
  BY DEF Whole, Writes, All
<1>2. /\ \A k \in Nat : Row("products", k) \in Writes
      /\ \A u \in Users : Row("users", u) \in Writes
  BY StoreAssumption DEF Row, Writes, Everything, Tables
<1>3. \A w, v \in Writes : <<w>> \in Seq(Writes) /\ <<w, v>> \in Seq(Writes)
  OBVIOUS
<1>4. {Rest1, Rest2, Rest3, Rest4, Rest5} \subseteq Seq(Writes)
  <2>1. \A t \in {"users", "products", "orders", "carts", "meta"} : Whole(t) \in Writes
    BY <1>1 DEF Everything, Tables
  <2> QED
    BY <2>1 DEF Rest1, Rest2, Rest3, Rest4, Rest5, PersistAll
<1>5. <<>> \in WriteLists /\ Seq(Writes) \subseteq WriteLists /\ Clearing \in WriteLists
  BY DEF WriteLists
<1> QED
  BY <1>1, <1>2, <1>3, <1>4, <1>5

\* The writes of _persist_all one by one.
LEMMA RestSteps ==
  /\ Head(Clearing) = Whole("clear") /\ Tail(Clearing) = Rest1
  /\ Head(Rest1) = Whole("users")    /\ Tail(Rest1) = Rest2
  /\ Head(Rest2) = Whole("products") /\ Tail(Rest2) = Rest3
  /\ Head(Rest3) = Whole("orders")   /\ Tail(Rest3) = Rest4
  /\ Head(Rest4) = Whole("carts")    /\ Tail(Rest4) = Rest5
  /\ Head(Rest5) = Whole("meta")     /\ Tail(Rest5) = <<>>
  /\ {Rest1, Rest2, Rest3, Rest4, Rest5, Clearing} \cap {<<>>} = {}
<1>1. /\ Head(Rest1) = Whole("users")    /\ Tail(Rest1) = Rest2
      /\ Head(Rest2) = Whole("products") /\ Tail(Rest2) = Rest3
      /\ Head(Rest3) = Whole("orders")   /\ Tail(Rest3) = Rest4
      /\ Head(Rest4) = Whole("carts")    /\ Tail(Rest4) = Rest5
      /\ Head(Rest5) = Whole("meta")     /\ Tail(Rest5) = <<>>
      /\ {Rest1, Rest2, Rest3, Rest4, Rest5} \cap {<<>>} = {}
  BY DEF Rest1, Rest2, Rest3, Rest4, Rest5, PersistAll
<1>2. Head(Clearing) = Whole("clear") /\ Tail(Clearing) = Rest1 /\ Clearing # <<>>
  <2> DEFINE Any == Writes \cup {Whole("clear")}
  <2>1. Whole("clear") \in Any /\ PersistAll \in Seq(Writes)
    BY WriteTypes DEF Rest1
  <2>2. PersistAll \in Seq(Any)
    BY <2>1
  <2> HIDE DEF Any
  <2> QED
    BY <2>1, <2>2 DEF Clearing, Rest1
<1> QED
  BY <1>1, <1>2

-----------------------------------------------------------------------------
(* Types and order ids, action by action.                                   *)

LEMMA StoreInitInv == Init => StoreInv
<1> SUFFICES ASSUME Init PROVE StoreInv
  OBVIOUS
<1>1. /\ db = NoTables /\ todo = <<>> /\ doubtful = {} /\ seeded = FALSE
      /\ carts = NoCarts /\ orders = <<>> /\ users = Empty /\ products = {}
      /\ nextOrder = FirstOrder /\ nextProduct = FirstProduct
  BY DEF Init
<1>2. StoreTypes
  <2>1. /\ db = [users |-> Empty, products |-> {}, orders |-> <<>>, carts |-> NoCarts, meta |-> FALSE]
        /\ db.users = Empty /\ db.products = {} /\ db.orders = <<>> /\ db.carts = NoCarts /\ db.meta = FALSE
    BY <1>1 DEF NoTables
  <2>2. Empty = [u \in DOMAIN Empty |-> Empty[u]] /\ DOMAIN Empty = {}
    BY DEF Empty
  <2>3. FirstOrder \in Nat /\ FirstProduct \in Nat /\ FirstProduct <= FirstProduct /\ <<>> \in Seq(Order)
    BY FirstIds
  <2>4. IsDb
    BY <2>1 DEF IsDb
  <2> QED
    BY <1>1, <2>1, <2>2, <2>3, <2>4, CartTypes, WriteTypes DEF StoreTypes
<1>3. Unseeded /\ OrderIdsUnique
  BY <1>1 DEF Unseeded, OrderIdsUnique, NoTables
<1> QED
  BY <1>2, <1>3 DEF StoreInv

\* An order more is the last and has the highest id.
LEMMA NewOrderKeeps ==
  ASSUME StoreInv, seeded, NEW u \in Users, NEW items \in Carts, NewOrder(u, items)
  PROVE  /\ orders' \in Seq(Order) /\ nextOrder' \in Nat
         /\ \A i, j \in DOMAIN orders' : i < j => orders'[i].id < orders'[j].id
         /\ \A i \in DOMAIN orders' : orders'[i].id < nextOrder'
<1> DEFINE o == [id |-> nextOrder, user |-> u, items |-> items, paid |-> FALSE]
<1>1. /\ orders \in Seq(Order) /\ nextOrder \in Nat
      /\ \A i, j \in DOMAIN orders : i < j => orders[i].id < orders[j].id
      /\ \A i \in DOMAIN orders : orders[i].id < nextOrder
  BY DEF StoreInv, StoreTypes, OrderIdsUnique
<1>2. o \in Order /\ o.id = nextOrder
  BY <1>1 DEF Order
<1>3. orders' = Append(orders, o) /\ nextOrder' = nextOrder + 1
  BY DEF NewOrder
<1> HIDE DEF o
<1>4. /\ orders' \in Seq(Order) /\ Len(orders) \in Nat
      /\ DOMAIN orders = 1..Len(orders) /\ DOMAIN orders' = 1..(Len(orders) + 1)
      /\ \A i \in DOMAIN orders : orders'[i] = orders[i]
      /\ orders'[Len(orders) + 1] = o
  BY <1>1, <1>2, <1>3
<1>5. \A i \in DOMAIN orders : orders[i].id \in Nat
  <2>1. \A x \in Order : x.id \in Nat
    BY DEF Order
  <2> QED
    BY <2>1, <1>1
<1>6. \A i \in DOMAIN orders' : i \in DOMAIN orders \/ i = Len(orders) + 1
  BY <1>4
<1>7. \A i \in DOMAIN orders' : orders'[i].id < nextOrder'
  BY <1>1, <1>2, <1>3, <1>4, <1>5, <1>6
<1>8. \A i, j \in DOMAIN orders' : i < j => orders'[i].id < orders'[j].id
  <2> SUFFICES ASSUME NEW i \in DOMAIN orders', NEW j \in DOMAIN orders', i < j
               PROVE  orders'[i].id < orders'[j].id
    OBVIOUS
  <2>1. i \in DOMAIN orders
    BY <1>4
  <2>2. CASE j \in DOMAIN orders
    BY <2>1, <2>2, <1>1, <1>4
  <2>3. CASE j = Len(orders) + 1
    BY <2>1, <2>3, <1>1, <1>2, <1>4
  <2> QED
    BY <2>2, <2>3, <1>6
<1> QED
  BY <1>1, <1>3, <1>4, <1>7, <1>8

\* What an operation that begins leaves as it is.
LEMMA BeginKeeps ==
  ASSUME StoreInv, Ready, seeded' = seeded, NEW writes \in WriteLists, Begin(writes)
  PROVE  /\ db' = db /\ doubtful' = doubtful /\ todo' \in WriteLists
         /\ IsDb' /\ seeded' /\ seeded' \in BOOLEAN /\ Unseeded'
         /\ db'.products \subseteq AnyProduct /\ db'.carts \in [Users -> Carts]
         /\ db'.orders \in Seq(Order) /\ db'.meta \in BOOLEAN
         /\ db'.users = [u \in DOMAIN db'.users |-> db'.users[u]] /\ DOMAIN db'.users \subseteq Users
         /\ doubtful' \subseteq Everything
         /\ \A i, j \in DOMAIN db'.orders : i < j => db'.orders[i].id < db'.orders[j].id
BY DEF StoreInv, StoreTypes, Unseeded, OrderIdsUnique, Ready, Begin, BeginWrites, IsDb

\* An operation that makes no order and keeps the counters.
LEMMA OperationInv ==
  ASSUME StoreInv, Ready, NEW writes \in WriteLists, Begin(writes),
         UNCHANGED <<seeded, orders, nextOrder>>,
         products' \subseteq AnyProduct, nextProduct' \in Nat, FirstProduct <= nextProduct',
         carts' \in [Users -> Carts],
         users' = [u \in DOMAIN users' |-> users'[u]], DOMAIN users' \subseteq Users
  PROVE  StoreInv'
<1>1. orders' \in Seq(Order) /\ nextOrder' \in Nat
  BY DEF StoreInv, StoreTypes
<1>2. StoreTypes'
  BY <1>1, BeginKeeps DEF StoreTypes
<1>3. OrderIdsUnique'
  BY BeginKeeps DEF StoreInv, OrderIdsUnique
<1> QED
  BY <1>2, <1>3, BeginKeeps DEF StoreInv

LEMMA PlaceOrderInv ==
  ASSUME StoreInv, Ready, NEW u \in Users, NEW items \in Carts, PlaceOrder(u, items)
  PROVE  StoreInv'
<1> DEFINE writes == <<Whole("orders"), Whole("carts")>>
<1>1. writes \in WriteLists
  BY WriteTypes DEF Everything, Tables
<1>2. Begin(writes) /\ NewOrder(u, items) /\ seeded /\ UNCHANGED <<seeded, users, products, nextProduct>>
  BY DEF PlaceOrder, NewOrder, Ready
<1> HIDE DEF writes
<1>3. carts' \in [Users -> Carts]
  BY CartTypes DEF PlaceOrder, StoreInv, StoreTypes
<1>4. /\ orders' \in Seq(Order) /\ nextOrder' \in Nat
      /\ \A i, j \in DOMAIN orders' : i < j => orders'[i].id < orders'[j].id
      /\ \A i \in DOMAIN orders' : orders'[i].id < nextOrder'
  BY <1>2, NewOrderKeeps
<1>5. StoreTypes'
  BY <1>1, <1>2, <1>3, <1>4, BeginKeeps DEF StoreTypes, StoreInv
<1>6. OrderIdsUnique' /\ Unseeded'
  BY <1>1, <1>2, <1>4, BeginKeeps DEF OrderIdsUnique
<1> QED
  BY <1>5, <1>6 DEF StoreInv

\* What a process restores.
LEMMA LoadInv ==
  ASSUME StoreInv, Load, seeded' = TRUE, UNCHANGED <<db, todo, doubtful>>
  PROVE  StoreInv'
<1>1. /\ users' = db.users /\ products' = db.products /\ carts' = db.carts /\ orders' = db.orders
      /\ nextOrder' = Larger(FirstOrder, Largest({db.orders[i].id : i \in DOMAIN db.orders}) + 1)
      /\ nextProduct' = Larger(FirstProduct, Largest(db.products) + 1)
  BY DEF Load
<1>2. /\ db.orders \in Seq(Order)
      /\ \A i, j \in DOMAIN db.orders : i < j => db.orders[i].id < db.orders[j].id
  BY DEF StoreInv, StoreTypes, OrderIdsUnique
<1>3. nextOrder' \in Nat /\ \A i \in DOMAIN orders' : orders'[i].id < nextOrder'
  BY <1>1, <1>2, NextIdAbove
<1>4. nextProduct' \in Nat /\ FirstProduct <= nextProduct'
  BY <1>1, NextProductIs DEF StoreInv, StoreTypes
<1>5. StoreTypes'
  BY <1>1, <1>3, <1>4 DEF StoreInv, StoreTypes, IsDb
<1>6. OrderIdsUnique' /\ Unseeded'
  BY <1>1, <1>2, <1>3 DEF OrderIdsUnique, Unseeded
<1> QED
  BY <1>5, <1>6 DEF StoreInv

\* A write brings the database nearer to memory, table by table.
LEMMA WriteInv ==
  ASSUME StoreInv, Write
  PROVE  StoreInv'
<1> DEFINE w == Head(todo)
<1>1. /\ db' = Saved(w) /\ todo' = Tail(todo) /\ todo # <<>> /\ todo \in WriteLists
      /\ UNCHANGED <<seeded, users, products, carts, orders, nextOrder, nextProduct>>
      /\ doubtful' = IF w.row = All THEN doubtful \ {w.table}
                     ELSE IF db'.products = {} THEN Everything ELSE doubtful
  BY DEF Write, memory, StoreInv, StoreTypes
<1>2. w \in Writes \cup {Whole("clear")} /\ todo' \in WriteLists
  <2>1. CASE todo \in Seq(Writes)
    <3>1. w \in Writes /\ Tail(todo) \in Seq(Writes)
      BY <2>1, <1>1
    <3> QED
      BY <3>1, <1>1, WriteTypes
  <2>2. CASE todo = Clearing
    BY <2>2, <1>1, RestSteps, WriteTypes
  <2> QED
    BY <2>1, <2>2, <1>1 DEF WriteLists
<1> HIDE DEF w
<1>3. seeded
  BY <1>1 DEF StoreInv, StoreTypes, Unseeded
<1>t. /\ IsDb /\ db.meta \in BOOLEAN /\ db.products \subseteq AnyProduct /\ db.carts \in [Users -> Carts]
      /\ db.orders \in Seq(Order) /\ DOMAIN db.users \subseteq Users
      /\ db.users = [u \in DOMAIN db.users |-> db.users[u]]
      /\ \A i, j \in DOMAIN db.orders : i < j => db.orders[i].id < db.orders[j].id
      /\ users = [u \in DOMAIN users |-> users[u]] /\ DOMAIN users \subseteq Users
      /\ products \subseteq AnyProduct /\ carts \in [Users -> Carts] /\ orders \in Seq(Order)
      /\ \A i, j \in DOMAIN orders : i < j => orders[i].id < orders[j].id
  BY DEF StoreInv, StoreTypes, OrderIdsUnique
<1> DEFINE DbInv == /\ IsDb' /\ db'.meta \in BOOLEAN /\ db'.products \subseteq AnyProduct
                    /\ db'.carts \in [Users -> Carts]
                    /\ db'.orders \in Seq(Order) /\ DOMAIN db'.users \subseteq Users
                    /\ db'.users = [u \in DOMAIN db'.users |-> db'.users[u]]
                    /\ \A i, j \in DOMAIN db'.orders : i < j => db'.orders[i].id < db'.orders[j].id
<1>4. DbInv
  <2>1. CASE w.table = "clear"
    <3>1. db' = NoTables
      BY <2>1, <1>1 DEF Saved
    <3>2. /\ db' = [users |-> Empty, products |-> {}, orders |-> <<>>, carts |-> NoCarts, meta |-> FALSE]
          /\ db'.users = Empty /\ db'.products = {} /\ db'.orders = <<>>
          /\ db'.carts = NoCarts /\ db'.meta = FALSE
      BY <3>1 DEF NoTables
    <3>3. Empty = [u \in DOMAIN Empty |-> Empty[u]] /\ DOMAIN Empty = {} /\ <<>> \in Seq(Order)
      BY DEF Empty
    <3> QED
      BY <3>2, <3>3, CartTypes DEF IsDb
  <2>2. CASE w.table = "users"
    <3>1. db' = [db EXCEPT !.users = Profiles(w.row)]
      BY <2>2, <1>1 DEF Saved
    <3>2. /\ Profiles(w.row) = [u \in DOMAIN Profiles(w.row) |-> Profiles(w.row)[u]]
          /\ DOMAIN Profiles(w.row) \subseteq Users
      <4>1. CASE w.row = All
        BY <4>1, <1>t DEF Profiles
      <4>2. CASE w.row # All
        <5>1. w.row \in Users
          BY <2>2, <4>2, <1>2 DEF Writes, Whole
        <5>2. Profiles(w.row) = [x \in DOMAIN db.users \cup {w.row} |->
                                    IF x = w.row THEN users[w.row] ELSE db.users[x]]
          BY <4>2 DEF Profiles, With
        <5> QED
          BY <5>1, <5>2, <1>t
      <4> QED
        BY <4>1, <4>2
    <3> QED
      BY <3>1, <3>2, <1>t DEF IsDb
  <2>3. CASE w.table = "products"
    <3>1. db' = [db EXCEPT !.products = Products(w.row)]
      BY <2>3, <1>1 DEF Saved
    <3>2. Products(w.row) \subseteq AnyProduct
      BY <1>t DEF Products
    <3> QED
      BY <3>1, <3>2, <1>t DEF IsDb
  <2>4. CASE w.table = "orders"
    <3>1. db' = [db EXCEPT !.orders = orders]
      BY <2>4, <1>1 DEF Saved
    <3> QED
      BY <3>1, <1>t DEF IsDb
  <2>5. CASE w.table = "carts"
    <3>1. db' = [db EXCEPT !.carts = carts]
      BY <2>5, <1>1 DEF Saved
    <3> QED
      BY <3>1, <1>t DEF IsDb
  <2>6. CASE w.table = "meta"
    <3>1. db' = [db EXCEPT !.meta = TRUE]
      BY <2>6, <1>1 DEF Saved
    <3> QED
      BY <3>1, <1>t DEF IsDb
  <2>7. w.table \in {"clear", "users", "products", "orders", "carts", "meta"}
    BY <1>2 DEF Writes, Everything, Tables, Whole
  <2> QED
    BY <2>1, <2>2, <2>3, <2>4, <2>5, <2>6, <2>7
<1>5. doubtful' \subseteq Everything
  BY <1>1 DEF StoreInv, StoreTypes
<1>6. StoreTypes'
  BY <1>1, <1>2, <1>4, <1>5 DEF StoreInv, StoreTypes
<1>7. OrderIdsUnique' /\ Unseeded'
  BY <1>1, <1>3, <1>4 DEF StoreInv, OrderIdsUnique, Unseeded
<1> QED
  BY <1>6, <1>7 DEF StoreInv

\* A refused write changes no table.
LEMMA WriteRefusedInv ==
  ASSUME StoreInv, WriteRefused
  PROVE  StoreInv'
<1>1. /\ UNCHANGED <<seeded, users, products, carts, orders, nextOrder, nextProduct, db>>
      /\ todo \in WriteLists /\ todo # <<>> /\ doubtful \subseteq Everything
      /\ todo' \in {<<>>, Tail(todo)}
      /\ doubtful' \in {doubtful \cup Everything, doubtful \cup {Head(todo).table}}
      /\ "meta" \in {todo[i].table : i \in DOMAIN todo} => doubtful' = doubtful \cup Everything
  BY DEF WriteRefused, memory, StoreInv, StoreTypes
<1>2. todo' \in WriteLists /\ doubtful' \subseteq Everything
  <2>1. CASE todo \in Seq(Writes)
    <3>1. Head(todo) \in Writes /\ Tail(todo) \in Seq(Writes)
      BY <2>1, <1>1
    <3>2. Head(todo).table \in Everything
      BY <3>1 DEF Writes
    <3> QED
      BY <1>1, <3>1, <3>2, WriteTypes
  <2>2. CASE todo = Clearing
    <3>1. Clearing[6] = Whole("meta") /\ 6 \in DOMAIN Clearing
      BY DEF Clearing, PersistAll
    <3>2. "meta" \in {todo[i].table : i \in DOMAIN todo}
      BY <2>2, <3>1 DEF Whole
    <3> QED
      BY <1>1, <2>2, <3>2, RestSteps, WriteTypes
  <2> QED
    BY <2>1, <2>2, <1>1 DEF WriteLists
<1>3. seeded
  BY <1>1 DEF StoreInv, StoreTypes, Unseeded
<1>4. StoreTypes'
  BY <1>1, <1>2 DEF StoreInv, StoreTypes, IsDb
<1> QED
  BY <1>1, <1>3, <1>4 DEF StoreInv, Unseeded, OrderIdsUnique

\* A crash leaves the database as it is.
LEMMA CrashInv ==
  ASSUME StoreInv, Crash
  PROVE  StoreInv'
<1>1. /\ seeded' = FALSE /\ users' = Empty /\ products' = {} /\ carts' = NoCarts /\ orders' = <<>>
      /\ nextOrder' = FirstOrder /\ nextProduct' = FirstProduct /\ todo' = <<>>
      /\ UNCHANGED <<db, doubtful>>
  BY DEF Crash
<1>2. Empty = [u \in DOMAIN Empty |-> Empty[u]] /\ DOMAIN Empty = {} /\ <<>> \in Seq(Order)
  BY DEF Empty
<1>3. StoreTypes'
  BY <1>1, <1>2, CartTypes, WriteTypes, FirstIds DEF StoreInv, StoreTypes, IsDb
<1> QED
  BY <1>1, <1>3 DEF StoreInv, Unseeded, OrderIdsUnique

\* A process that seeds: the shop is the seed's, orders and carts those of an empty
\* memory, or the carts those of the database.
LEMMA SeedInv ==
  ASSUME StoreInv, ~seeded, Reseed, seeded' = TRUE, carts' \in {carts, db.carts},
         todo' = PersistAll, doubtful' \subseteq Everything, UNCHANGED <<db, orders>>
  PROVE  StoreInv'
<1>1. /\ users' = SeedUsers /\ products' = SeedProducts
      /\ nextOrder' = FirstOrder /\ nextProduct' = FirstProduct
  BY DEF Reseed
<1>2. todo' \in WriteLists
  BY WriteTypes DEF Rest1
<1>3. orders = <<>>
  BY DEF StoreInv, Unseeded
<1>4. StoreTypes'
  BY <1>1, <1>2, CartTypes, ProductIds, FirstIds DEF StoreInv, StoreTypes, IsDb
<1> QED
  BY <1>1, <1>3, <1>4 DEF StoreInv, Unseeded, OrderIdsUnique

\* The operations of the running shop.
LEMMA OperationsInv ==
  ASSUME StoreInv, Ready
  PROVE  /\ AddProduct => StoreInv'
         /\ \A p \in AnyProduct : DeleteProduct(p) => StoreInv'
         /\ \A u \in Users : UpdateUser(u) => StoreInv'
         /\ \A u \in Users, p \in AnyProduct : /\ AddToCart(u, p) => StoreInv'
                                               /\ RemoveFromCart(u, p) => StoreInv'
                                               /\ AddOrder(u, p) => StoreInv'
         /\ \A u \in Users : ClearCart(u) => StoreInv'
         /\ \A u \in Users : Checkout(u) => StoreInv'
         /\ \A u \in Users : \A wanted \in SUBSET AnyProduct : OrderItems(u, wanted) => StoreInv'
         /\ \A i \in 1..MaxOrders : PayOrder(i) => StoreInv'
         /\ ResetAll => StoreInv'
<1>t. /\ products \subseteq AnyProduct /\ carts \in [Users -> Carts] /\ orders \in Seq(Order)
      /\ nextOrder \in Nat /\ nextProduct \in Nat /\ FirstProduct <= nextProduct /\ seeded
      /\ users = [u \in DOMAIN users |-> users[u]] /\ DOMAIN users \subseteq Users
      /\ \A i, j \in DOMAIN orders : i < j => orders[i].id < orders[j].id
      /\ \A i \in DOMAIN orders : orders[i].id < nextOrder
  BY DEF StoreInv, StoreTypes, OrderIdsUnique, Ready
<1>w. /\ \A t \in {"carts", "orders"} : <<Whole(t)>> \in WriteLists
      /\ \A k \in Nat : <<Row("products", k)>> \in WriteLists
      /\ \A u \in Users : <<Row("users", u)>> \in WriteLists
      /\ Clearing \in WriteLists
  BY WriteTypes DEF Everything, Tables
<1>1. ASSUME AddProduct PROVE StoreInv'
  <2>1. /\ products' = products \cup {nextProduct} /\ nextProduct' = nextProduct + 1
        /\ nextProduct <= MaxProduct
        /\ Begin(<<Row("products", nextProduct)>>)
        /\ UNCHANGED <<seeded, users, carts, orders, nextOrder>>
    BY <1>1 DEF AddProduct
  <2>2. nextProduct \in AnyProduct
    BY <2>1, <1>t, StoreAssumption DEF AnyProduct
  <2>3. nextProduct + 1 \in Nat /\ FirstProduct <= nextProduct + 1
    BY <1>t, StoreAssumption
  <2> QED
    BY <2>1, <2>2, <2>3, <1>t, <1>w, OperationInv
<1>2. ASSUME NEW p \in AnyProduct, DeleteProduct(p) PROVE StoreInv'
  <2>1. /\ products' = products \ {p}
        /\ Begin(<<Row("products", p)>>)
        /\ UNCHANGED <<seeded, users, carts, orders, nextOrder, nextProduct>>
    BY <1>2 DEF DeleteProduct
  <2> QED
    BY <2>1, <1>t, <1>w, ProductIds, OperationInv
<1>3. ASSUME NEW u \in Users, UpdateUser(u) PROVE StoreInv'
  <2>1. /\ users' = [users EXCEPT ![u] = 1]
        /\ Begin(<<Row("users", u)>>)
        /\ UNCHANGED <<seeded, products, carts, orders, nextOrder, nextProduct>>
    BY <1>3 DEF UpdateUser
  <2> QED
    BY <2>1, <1>t, <1>w, OperationInv
<1>4. ASSUME NEW u \in Users, NEW p \in AnyProduct,
             AddToCart(u, p) \/ RemoveFromCart(u, p)
      PROVE  StoreInv'
  <2>1. /\ Begin(<<Whole("carts")>>)
        /\ UNCHANGED <<seeded, users, products, orders, nextOrder, nextProduct>>
        /\ carts' \in {[carts EXCEPT ![u] = With(@, p, Quantity(@, p) + 1)],
                       [carts EXCEPT ![u] = Without(@, p)]}
    BY <1>4 DEF AddToCart, RemoveFromCart
  <2>2. carts[u] \in Carts
    BY <1>t
  <2>3. Quantity(carts[u], p) \in Nat /\ Without(carts[u], p) \in Carts
    BY <2>2, CartTypes
  <2>4. Quantity(carts[u], p) + 1 \in Nat
    BY <2>3
  <2>5. With(carts[u], p, Quantity(carts[u], p) + 1) \in Carts
    BY <2>2, <2>4, CartTypes
  <2>6. carts' \in [Users -> Carts]
    BY <2>1, <2>3, <2>5, <1>t
  <2> QED
    BY <2>1, <2>6, <1>t, <1>w, OperationInv
<1>c. ASSUME NEW u \in Users, ClearCart(u) PROVE StoreInv'
  <2>1. /\ Begin(<<Whole("carts")>>)
        /\ UNCHANGED <<seeded, users, products, orders, nextOrder, nextProduct>>
        /\ carts' = [carts EXCEPT ![u] = Empty]
    BY <1>c DEF ClearCart
  <2>2. carts' \in [Users -> Carts]
    BY <2>1, <1>t, CartTypes
  <2> QED
    BY <2>1, <2>2, <1>t, <1>w, OperationInv
<1>5. ASSUME NEW u \in Users, NEW p \in AnyProduct, AddOrder(u, p) PROVE StoreInv'
  <2>1. NewOrder(u, With(Empty, p, 1)) /\ Begin(<<Whole("orders")>>) /\ UNCHANGED carts
    BY <1>5 DEF AddOrder
  <2>2. With(Empty, p, 1) \in Carts
    BY CartTypes
  <2>3. UNCHANGED <<seeded, users, products, nextProduct>>
    BY <2>1 DEF NewOrder
  <2>4. /\ orders' \in Seq(Order) /\ nextOrder' \in Nat
        /\ \A i, j \in DOMAIN orders' : i < j => orders'[i].id < orders'[j].id
        /\ \A i \in DOMAIN orders' : orders'[i].id < nextOrder'
    BY <2>1, <2>2, <1>t, NewOrderKeeps
  <2>5. StoreTypes'
    BY <2>1, <2>3, <2>4, <1>t, <1>w, BeginKeeps DEF StoreTypes
  <2>6. OrderIdsUnique' /\ Unseeded'
    BY <2>1, <2>3, <2>4, <1>w, BeginKeeps DEF OrderIdsUnique
  <2> QED
    BY <2>5, <2>6 DEF StoreInv
<1>6. ASSUME NEW u \in Users, Checkout(u) PROVE StoreInv'
  BY <1>6, <1>t, PlaceOrderInv DEF Checkout
<1>7. ASSUME NEW u \in Users, NEW wanted \in SUBSET AnyProduct, OrderItems(u, wanted) PROVE StoreInv'
  <2>1. PlaceOrder(u, [p \in wanted \cap products |-> 1])
    BY <1>7 DEF OrderItems
  <2>2. [p \in wanted \cap products |-> 1] \in Carts
    BY CartTypes
  <2> QED
    BY <2>1, <2>2, PlaceOrderInv
<1>8. ASSUME NEW i \in 1..MaxOrders, PayOrder(i) PROVE StoreInv'
  <2>1. /\ i \in DOMAIN orders
        /\ orders' = [orders EXCEPT ![i].paid = TRUE]
        /\ Begin(<<Whole("orders")>>)
        /\ UNCHANGED <<seeded, users, products, carts, nextOrder, nextProduct>>
    BY <1>8 DEF PayOrder
  <2>2. [orders[i] EXCEPT !.paid = TRUE] \in Order /\ [orders[i] EXCEPT !.paid = TRUE].id = orders[i].id
    <3>1. \A o \in Order : [o EXCEPT !.paid = TRUE] \in Order /\ [o EXCEPT !.paid = TRUE].id = o.id
      BY DEF Order
    <3> QED
      BY <3>1, <2>1, <1>t
  <2>3. orders' \in Seq(Order) /\ DOMAIN orders' = DOMAIN orders
    BY <2>1, <2>2, <1>t
  <2>4. \A j \in DOMAIN orders : orders'[j].id = orders[j].id
    BY <2>1, <2>2, <1>t
  <2>5. StoreTypes'
    BY <2>1, <2>3, <1>t, <1>w, BeginKeeps DEF StoreTypes
  <2>6. OrderIdsUnique' /\ Unseeded'
    BY <2>1, <2>3, <2>4, <1>t, <1>w, BeginKeeps DEF OrderIdsUnique
  <2> QED
    BY <2>5, <2>6 DEF StoreInv
<1>9. ASSUME ResetAll PROVE StoreInv'
  <2>1. /\ users' = SeedUsers /\ products' = SeedProducts /\ carts' = NoCarts /\ orders' = <<>>
        /\ nextOrder' = FirstOrder /\ nextProduct' = FirstProduct
        /\ Begin(Clearing) /\ UNCHANGED seeded
    BY <1>9 DEF ResetAll, Reseed, Clearing
  <2>k. /\ db' = db /\ doubtful' = doubtful /\ todo' \in WriteLists
        /\ IsDb' /\ seeded' /\ seeded' \in BOOLEAN /\ Unseeded'
        /\ db'.products \subseteq AnyProduct /\ db'.carts \in [Users -> Carts]
        /\ db'.orders \in Seq(Order) /\ db'.meta \in BOOLEAN
        /\ db'.users = [u \in DOMAIN db'.users |-> db'.users[u]] /\ DOMAIN db'.users \subseteq Users
        /\ doubtful' \subseteq Everything
        /\ \A i, j \in DOMAIN db'.orders : i < j => db'.orders[i].id < db'.orders[j].id
    <3>1. Clearing \in WriteLists /\ Begin(Clearing) /\ seeded' = seeded
      BY <2>1, <1>w
    <3> HIDE DEF Clearing
    <3> QED
      BY <3>1, BeginKeeps
  <2>2. StoreTypes'
    BY <2>1, <2>k, FirstIds, CartTypes, ProductIds DEF StoreTypes
  <2>3. OrderIdsUnique' /\ Unseeded'
    BY <2>1, <2>k DEF OrderIdsUnique
  <2> QED
    BY <2>2, <2>3 DEF StoreInv
<1> QED
  BY <1>1, <1>2, <1>3, <1>4, <1>c, <1>5, <1>6, <1>7, <1>8, <1>9, Zenon

\* The dictionaries, the tables and the writes under way are typed, memory is empty before its
\* first use, and no two orders share an id, in memory or on disk (api/data_store.py).
THEOREM StoreInvariant == Spec => []StoreInv
<1>1. StoreInv /\ [Next]_vars => StoreInv'
  <2> SUFFICES ASSUME StoreInv, [Next]_vars PROVE StoreInv'
    OBVIOUS
  <2>1. CASE Restore
    BY <2>1, LoadInv DEF Restore
  <2>2. CASE Seed
    BY <2>2, SeedInv DEF Seed, Begin, BeginWrites, StoreInv, StoreTypes
  <2>3. CASE RestoreFails
    BY <2>3, SeedInv DEF RestoreFails, BeginWrites
  <2>5. CASE \/ AddProduct
             \/ \E p \in AnyProduct : DeleteProduct(p)
             \/ \E u \in Users : UpdateUser(u)
             \/ \E u \in Users, p \in AnyProduct : AddToCart(u, p) \/ RemoveFromCart(u, p) \/ AddOrder(u, p)
             \/ \E u \in Users : ClearCart(u) \/ Checkout(u)
             \/ \E u \in Users : \E wanted \in SUBSET AnyProduct : OrderItems(u, wanted)
             \/ \E i \in 1..MaxOrders : PayOrder(i)
             \/ ResetAll
    <3>1. Ready
      BY <2>5 DEF AddProduct, DeleteProduct, UpdateUser, AddToCart, RemoveFromCart, AddOrder,
                  ClearCart, Checkout, OrderItems, PayOrder, ResetAll
    <3> QED
      BY <3>1, <2>5, OperationsInv, Zenon
  <2>6. CASE Write
    BY <2>6, WriteInv
  <2>7. CASE WriteRefused
    BY <2>7, WriteRefusedInv
  <2>8. CASE Crash
    BY <2>8, CrashInv
  <2>9. CASE UNCHANGED vars
    BY <2>9 DEF vars, memory, StoreInv, StoreTypes, Unseeded, OrderIdsUnique, IsDb
  <2> QED
    BY <2>1, <2>2, <2>3, <2>5, <2>6, <2>7, <2>8, <2>9, Zenon DEF Next
<1> QED
  BY StoreInitInv, <1>1, PTL DEF Spec

\* Order ids: every order of memory and of the database has an id of its own, in the
\* order they were made, below the next one, whatever crashes and refused writes lose.
THEOREM OrderIds == Spec => []OrderIdsUnique
<1>1. StoreInv => OrderIdsUnique
  BY DEF StoreInv
<1> QED
  BY <1>1, StoreInvariant, PTL

-----------------------------------------------------------------------------
(* The promise.  What the writes under way have to do with what was shown   *)
(* before and is shown now.                                                 *)

\* The tables of a list of writes; the tables of memory.
Waiting(s) == {s[i].table : i \in DOMAIN s}
Shop       == [users |-> users, products |-> products, orders |-> orders, carts |-> carts]
SeedShop   == [users |-> SeedUsers, products |-> SeedProducts, orders |-> <<>>, carts |-> NoCarts]

\* The writes of a seed or of a reset, once the tables are cleared; those of every
\* other operation.
PersistLists   == {Rest1, Rest2, Rest3, Rest4, Rest5}
OperationLists ==
  {<<>>, <<Whole("carts")>>, <<Whole("orders")>>, <<Whole("orders"), Whole("carts")>>}
    \cup {<<Row("products", p)>> : p \in Nat} \cup {<<Row("users", u)>> : u \in Users}

Persisting == todo \in PersistLists
Operating  == todo \in OperationLists

\* A table that nobody doubts is memory's once it is written, and until then as it was.
Written   == seeded => \A t \in Tables \ doubtful : t \notin Waiting(todo) => db[t] = Shop[t]
Unwritten == seeded /\ ~Persisting =>
               \A t \in Tables \ doubtful : t \in Waiting(todo) => db[t] = before[t]

\* A row's write is the operation's whole change.
RowOnly ==
  /\ \A p \in Nat : todo = <<Row("products", p)>> => products \ {p} = before.products \ {p}
  /\ \A u \in Users : todo = <<Row("users", u)>> =>
       /\ u \in DOMAIN users /\ DOMAIN before.users = DOMAIN users
       /\ \A v \in DOMAIN users \ {u} : before.users[v] = users[v]
  /\ todo = <<Whole("orders")>> => before.carts = carts

\* Until the flag is written the next process would seed again, and with the same.
SeedUnderWay ==
  /\ Persisting \/ todo = Clearing => users = SeedUsers /\ products = SeedProducts
  /\ Persisting => \A t \in Tables : t \in Waiting(todo) \/ t \notin doubtful
  /\ (Persisting \/ todo = Clearing) /\ "meta" \notin doubtful => orders = <<>> /\ carts = NoCarts
  /\ Persisting /\ "meta" \notin doubtful => ~db.meta

\* A database with the flag is recognised by the next process.
Recognised == "meta" \notin doubtful =>
                (HasData \/ ~db.meta) /\ (seeded /\ ~Persisting => HasData)

PromiseInv ==
  /\ seeded => Operating \/ Persisting \/ todo = Clearing
  /\ todo = <<>> => before = Shown
  /\ Written /\ Unwritten /\ RowOnly /\ SeedUnderWay /\ Recognised

LEMMA ShownIs ==
  /\ seeded => Shown = Shop
  /\ ~seeded /\ HasData /\ IsDb => \A t \in Tables : Shown[t] = db[t]
  /\ ~seeded /\ ~HasData => Shown = SeedShop
  /\ DOMAIN Shown = Tables
BY DEF Shown, Shop, SeedShop, Tables, IsDb

LEMMA ShopIs ==
  /\ Shop["users"] = users /\ Shop["products"] = products
  /\ Shop["orders"] = orders /\ Shop["carts"] = carts
BY DEF Shop

LEMMA WaitingIs ==
  /\ Waiting(<<>>) = {}
  /\ \A w : Waiting(<<w>>) = {w.table}
  /\ \A w, v : Waiting(<<w, v>>) = {w.table, v.table}
  /\ Waiting(Rest1) = Everything
  /\ Waiting(Rest2) = {"products", "orders", "carts", "meta"}
  /\ Waiting(Rest3) = {"orders", "carts", "meta"}
  /\ Waiting(Rest4) = {"carts", "meta"}
  /\ Waiting(Rest5) = {"meta"}
  /\ Waiting(Clearing) = Everything \cup {"clear"}
<1>1. /\ Waiting(<<>>) = {}
      /\ \A w : Waiting(<<w>>) = {w.table}
      /\ \A w, v : Waiting(<<w, v>>) = {w.table, v.table}
  BY DEF Waiting
<1>2. /\ Waiting(Rest1) = Everything
      /\ Waiting(Rest2) = {"products", "orders", "carts", "meta"}
      /\ Waiting(Rest3) = {"orders", "carts", "meta"}
      /\ Waiting(Rest4) = {"carts", "meta"}
      /\ Waiting(Rest5) = {"meta"}
  BY DEF Waiting, Rest1, Rest2, Rest3, Rest4, Rest5, PersistAll, Whole, Everything, Tables
<1>3. Waiting(Clearing) = Everything \cup {"clear"}
  BY DEF Waiting, Clearing, PersistAll, Whole, Everything, Tables
<1> QED
  BY <1>1, <1>2, <1>3

LEMMA Kinds ==
  /\ \A s \in PersistLists : s # <<>> /\ "meta" \in Waiting(s) /\ "clear" \notin Waiting(s)
  /\ \A s \in OperationLists : "meta" \notin Waiting(s) /\ "clear" \notin Waiting(s)
  /\ <<>> \in OperationLists /\ Rest1 \in PersistLists
  /\ Clearing \notin OperationLists \cup PersistLists /\ Clearing # <<>>
<1>1. \A s \in PersistLists : "meta" \in Waiting(s) /\ "clear" \notin Waiting(s)
  BY WaitingIs DEF PersistLists, Everything, Tables
<1>2. \A s \in OperationLists : "meta" \notin Waiting(s) /\ "clear" \notin Waiting(s)
  BY WaitingIs DEF OperationLists, Row, Whole
<1>3. "clear" \in Waiting(Clearing) /\ Waiting(<<>>) = {}
  BY WaitingIs
<1> QED
  BY <1>1, <1>2, <1>3 DEF PersistLists, OperationLists

\* One operation's row is no other's.
LEMMA RowsDiffer ==
  /\ \A p, q : <<Row("products", p)>> = <<Row("products", q)>> => p = q
  /\ \A u, v : <<Row("users", u)>> = <<Row("users", v)>> => u = v
  /\ \A p, u : <<Row("products", p)>> # <<Row("users", u)>>
  /\ \A p : <<Row("products", p)>> # <<Whole("orders")>> /\ <<Row("users", p)>> # <<Whole("orders")>>
  /\ \A p : <<Row("products", p)>> # <<Whole("carts")>> /\ <<Row("users", p)>> # <<Whole("carts")>>
  /\ <<Whole("orders")>> # <<Whole("carts")>>
  /\ \A w, v, x : <<w, v>> # <<x>>
BY DEF Row, Whole

\* What begins an operation, whatever it does to memory: what it does not write is the
\* same, and for the promise it operates.
LEMMA BeginPromise ==
  ASSUME StoreInv, PromiseInv, Ready, NEW writes, Begin(writes), writes # <<>>, seeded' = seeded,
         \A t \in Tables \ Waiting(writes) : Shop'[t] = Shop[t]
  PROVE  /\ before' = Shop /\ todo' = writes /\ seeded' = TRUE /\ todo = <<>>
         /\ db' = db /\ doubtful' = doubtful
         /\ Written' /\ Unwritten' /\ Recognised'
         /\ Promise!Operate
<1>1. /\ seeded = TRUE /\ todo = <<>> /\ todo' = writes /\ before' = Shown /\ db' = db
      /\ doubtful' = doubtful /\ seeded' = TRUE /\ Shown = Shop
  BY ShownIs DEF Ready, Begin, BeginWrites, StoreInv, StoreTypes
<1>2. \A t \in Tables \ doubtful : db[t] = Shop[t]
  BY <1>1, WaitingIs DEF PromiseInv, Written
<1>3. Written' /\ Unwritten'
  BY <1>1, <1>2 DEF Written, Unwritten
<1>4. ~Persisting
  BY <1>1, Kinds DEF Persisting
<1>5. HasData' = HasData /\ db.meta \in BOOLEAN /\ HasData \in BOOLEAN
  BY <1>1 DEF HasData, StoreInv, StoreTypes
<1>6. Recognised'
  BY <1>1, <1>4, <1>5 DEF Recognised, PromiseInv
<1>7. DOMAIN Shown' = Tables
  BY <1>1 DEF Shown, Tables
<1>8. Promise!Operate
  BY <1>1, <1>7 DEF Promise!Operate
<1> QED
  BY <1>1, <1>3, <1>6, <1>8

LEMMA OperationPromise ==
  ASSUME StoreInv, PromiseInv, Ready, NEW writes \in OperationLists, Begin(writes), writes # <<>>,
         seeded' = seeded, \A t \in Tables \ Waiting(writes) : Shop'[t] = Shop[t],
         before' = Shop => RowOnly'
  PROVE  PromiseInv' /\ Promise!Operate
<1>1. /\ before' = Shop /\ todo' = writes /\ seeded' = TRUE /\ Written' /\ Unwritten' /\ Recognised'
      /\ Promise!Operate
  BY BeginPromise
<1>2. Operating' /\ ~Persisting' /\ todo' # Clearing
  BY <1>1, Kinds DEF Operating, Persisting
<1>3. SeedUnderWay'
  BY <1>2 DEF SeedUnderWay
<1> QED
  BY <1>1, <1>2, <1>3 DEF PromiseInv

\* The operations of the running shop keep it.
LEMMA OperationsPromise ==
  ASSUME StoreInv, PromiseInv, Ready
  PROVE  /\ AddProduct => PromiseInv' /\ Promise!Operate
         /\ \A p \in AnyProduct : DeleteProduct(p) => PromiseInv' /\ Promise!Operate
         /\ \A u \in Users : UpdateUser(u) => PromiseInv' /\ Promise!Operate
         /\ \A u \in Users, p \in AnyProduct :
              AddToCart(u, p) \/ RemoveFromCart(u, p) => PromiseInv' /\ Promise!Operate
         /\ \A u \in Users, p \in AnyProduct : AddOrder(u, p) => PromiseInv' /\ Promise!Operate
         /\ \A u \in Users : ClearCart(u) => PromiseInv' /\ Promise!Operate
         /\ \A u \in Users : \A items : PlaceOrder(u, items) => PromiseInv' /\ Promise!Operate
         /\ \A i \in 1..MaxOrders : PayOrder(i) => PromiseInv' /\ Promise!Operate
         /\ ResetAll => PromiseInv' /\ Promise!Operate
<1> DEFINE Kept == PromiseInv' /\ Promise!Operate
<1>w. /\ {<<Whole("carts")>>, <<Whole("orders")>>, <<Whole("orders"), Whole("carts")>>} \subseteq OperationLists
      /\ \A k \in Nat : <<Row("products", k)>> \in OperationLists
      /\ \A u \in Users : <<Row("users", u)>> \in OperationLists
  BY DEF OperationLists
<1>t. /\ Tables = {"users", "products", "orders", "carts"}
      /\ \A k : Waiting(<<Row("products", k)>>) = {"products"} /\ Waiting(<<Row("users", k)>>) = {"users"}
      /\ \A t : Waiting(<<Whole(t)>>) = {t}
      /\ Waiting(<<Whole("orders"), Whole("carts")>>) = {"orders", "carts"}
  BY WaitingIs DEF Tables, Row, Whole
<1>r. ASSUME NEW t \in {"carts", "orders"}, todo' = <<Whole(t)>>, t = "orders" => carts' = carts,
             before' = Shop
      PROVE  RowOnly'
  <2>1. before'.carts = carts
    BY <1>r, ShopIs
  <2> QED
    BY <1>r, <2>1, RowsDiffer DEF RowOnly
<1>1. ASSUME AddProduct PROVE Kept
  <2>1. /\ products' = products \cup {nextProduct} /\ seeded' = seeded
        /\ Begin(<<Row("products", nextProduct)>>) /\ todo' = <<Row("products", nextProduct)>>
        /\ UNCHANGED <<users, carts, orders>> /\ nextProduct \in Nat
    BY <1>1 DEF AddProduct, StoreInv, StoreTypes, Begin, BeginWrites
  <2>2. \A t \in Tables \ Waiting(<<Row("products", nextProduct)>>) : Shop'[t] = Shop[t]
    BY <2>1, <1>t, ShopIs DEF Shop
  <2>3. ASSUME before' = Shop PROVE RowOnly'
    <3>1. before'.products = products
      BY <2>3, ShopIs
    <3> QED
      BY <2>1, <3>1, RowsDiffer DEF RowOnly
  <2> QED
    BY <2>1, <2>2, <2>3, <1>w, OperationPromise
<1>2. ASSUME NEW p \in AnyProduct, DeleteProduct(p) PROVE Kept
  <2>1. /\ products' = products \ {p} /\ seeded' = seeded
        /\ Begin(<<Row("products", p)>>) /\ todo' = <<Row("products", p)>>
        /\ UNCHANGED <<users, carts, orders>> /\ p \in Nat
    BY <1>2, ProductIds DEF DeleteProduct, Begin, BeginWrites
  <2>2. \A t \in Tables \ Waiting(<<Row("products", p)>>) : Shop'[t] = Shop[t]
    BY <2>1, <1>t DEF Shop
  <2>3. ASSUME before' = Shop PROVE RowOnly'
    <3>1. before'.products = products
      BY <2>3, ShopIs
    <3> QED
      BY <2>1, <3>1, RowsDiffer DEF RowOnly
  <2> QED
    BY <2>1, <2>2, <2>3, <1>w, OperationPromise
<1>3. ASSUME NEW u \in Users, UpdateUser(u) PROVE Kept
  <2>1. /\ users' = [users EXCEPT ![u] = 1] /\ u \in DOMAIN users /\ seeded' = seeded
        /\ Begin(<<Row("users", u)>>) /\ todo' = <<Row("users", u)>>
        /\ UNCHANGED <<products, carts, orders>>
        /\ users = [v \in DOMAIN users |-> users[v]]
    BY <1>3 DEF UpdateUser, Begin, BeginWrites, StoreInv, StoreTypes
  <2>2. \A t \in Tables \ Waiting(<<Row("users", u)>>) : Shop'[t] = Shop[t]
    BY <2>1, <1>t DEF Shop
  <2>3. ASSUME before' = Shop PROVE RowOnly'
    <3>1. before'.users = users
      BY <2>3, ShopIs
    <3>2. DOMAIN users' = DOMAIN users /\ \A v \in DOMAIN users \ {u} : users'[v] = users[v]
      BY <2>1
    <3> QED
      BY <2>1, <3>1, <3>2, RowsDiffer DEF RowOnly
  <2> QED
    BY <2>1, <2>2, <2>3, <1>w, OperationPromise
<1>4. ASSUME Begin(<<Whole("carts")>>), UNCHANGED <<seeded, users, products, orders>> PROVE Kept
  <2>1. /\ todo' = <<Whole("carts")>> /\ \A t \in Tables \ Waiting(<<Whole("carts")>>) : Shop'[t] = Shop[t]
    BY <1>4, <1>t DEF Shop, Begin, BeginWrites
  <2>2. before' = Shop => RowOnly'
    BY <2>1, <1>r
  <2> QED
    BY <1>4, <2>1, <2>2, <1>w, OperationPromise
<1>5. ASSUME Begin(<<Whole("orders")>>), UNCHANGED <<seeded, users, products, carts>> PROVE Kept
  <2>1. /\ todo' = <<Whole("orders")>> /\ \A t \in Tables \ Waiting(<<Whole("orders")>>) : Shop'[t] = Shop[t]
    BY <1>5, <1>t DEF Shop, Begin, BeginWrites
  <2>2. before' = Shop => RowOnly'
    BY <2>1, <1>r, <1>5
  <2> QED
    BY <1>5, <2>1, <2>2, <1>w, OperationPromise
<1>6. ASSUME NEW u \in Users, NEW items, PlaceOrder(u, items) PROVE Kept
  <2> DEFINE writes == <<Whole("orders"), Whole("carts")>>
  <2>1. /\ Begin(writes) /\ UNCHANGED <<seeded, users, products>> /\ todo' = writes
    BY <1>6 DEF PlaceOrder, NewOrder, Begin, BeginWrites
  <2>2. \A t \in Tables \ Waiting(writes) : Shop'[t] = Shop[t]
    BY <2>1, <1>t DEF Shop
  <2>3. RowOnly'
    BY <2>1, RowsDiffer DEF RowOnly
  <2> QED
    BY <2>1, <2>2, <2>3, <1>w, OperationPromise
<1>7. ASSUME ResetAll PROVE Kept
  <2>1. /\ users' = SeedUsers /\ products' = SeedProducts /\ carts' = NoCarts /\ orders' = <<>>
        /\ Begin(Clearing) /\ seeded' = seeded
    BY <1>7 DEF ResetAll, Reseed, Clearing
  <2>2. /\ before' = Shop /\ todo' = Clearing /\ seeded' = TRUE /\ Written' /\ Unwritten' /\ Recognised'
        /\ Promise!Operate
    BY <2>1, WaitingIs, Kinds, BeginPromise DEF Everything
  <2>3. ~Operating' /\ ~Persisting' /\ todo' # <<>>
    BY <2>2, Kinds DEF Operating, Persisting
  <2>4. SeedUnderWay'
    BY <2>1, <2>2, <2>3 DEF SeedUnderWay
  <2>5. RowOnly'
    BY <2>2, <2>3, <1>w DEF RowOnly, Operating
  <2> QED
    BY <2>2, <2>3, <2>4, <2>5 DEF PromiseInv
<1> HIDE DEF Kept
<1>8. /\ \A u \in Users, p \in AnyProduct : AddToCart(u, p) \/ RemoveFromCart(u, p) => Kept
      /\ \A u \in Users : ClearCart(u) => Kept
  BY <1>4 DEF AddToCart, RemoveFromCart, ClearCart
<1>9. /\ \A u \in Users, p \in AnyProduct : AddOrder(u, p) => Kept
      /\ \A i \in 1..MaxOrders : PayOrder(i) => Kept
  BY <1>5 DEF AddOrder, NewOrder, PayOrder
<1> QED
  BY <1>1, <1>2, <1>3, <1>6, <1>7, <1>8, <1>9, Zenon DEF Kept

\* Nothing is being written when a process is first asked.
LEMMA UnseededIs ==
  ASSUME StoreInv, PromiseInv, ~seeded
  PROVE  todo = <<>> /\ before = Shown /\ orders = <<>> /\ carts = NoCarts
BY DEF StoreInv, Unseeded, PromiseInv

LEMMA RestorePromise ==
  ASSUME StoreInv, PromiseInv, Restore
  PROVE  PromiseInv' /\ UNCHANGED Promise!vars
<1>1. /\ ~seeded /\ HasData /\ seeded' = TRUE /\ before' = Shown
      /\ users' = db.users /\ products' = db.products /\ carts' = db.carts /\ orders' = db.orders
      /\ UNCHANGED <<db, todo, doubtful>>
      /\ todo = <<>> /\ before = Shown
  BY UnseededIs DEF Restore, Load
<1>2. Shown' = Shown
  BY <1>1 DEF Shown
<1>3. \A t \in Tables : Shop'[t] = db[t]
  BY <1>1 DEF Shop, Tables
<1>4. HasData'
  BY <1>1 DEF HasData
<1>5. Operating' /\ ~Persisting' /\ todo' # Clearing /\ Waiting(todo') = {}
  BY <1>1, Kinds, WaitingIs DEF Operating, Persisting
<1>6. Written' /\ Unwritten'
  BY <1>1, <1>3, <1>5 DEF Written, Unwritten
<1>7. RowOnly'
  BY <1>1 DEF RowOnly
<1>8. SeedUnderWay' /\ Recognised'
  BY <1>4, <1>5 DEF SeedUnderWay, Recognised
<1>9. UNCHANGED Promise!vars
  BY <1>1, <1>2 DEF Promise!vars
<1> QED
  BY <1>1, <1>2, <1>4, <1>5, <1>6, <1>7, <1>8, <1>9 DEF PromiseInv

\* A seed, of an empty database or of one that could not be read.
LEMMA SeedPromise ==
  ASSUME StoreInv, PromiseInv, Seed \/ RestoreFails
  PROVE  PromiseInv' /\ Promise!Operate
<1>1. /\ ~seeded /\ seeded' = TRUE /\ before' = Shown /\ todo' = Rest1 /\ db' = db
      /\ users' = SeedUsers /\ products' = SeedProducts
      /\ orders' = orders /\ orders = <<>> /\ carts = NoCarts
      /\ todo = <<>>
      /\ \/ ~HasData /\ doubtful' = doubtful /\ carts' = carts
         \/ doubtful' = Everything
  BY UnseededIs DEF Seed, RestoreFails, Reseed, Begin, BeginWrites, Rest1
<1>2. Persisting' /\ ~Operating' /\ Waiting(todo') = Everything
  BY <1>1, Kinds, WaitingIs DEF Persisting, Operating
<1>3. "meta" \notin doubtful' => ~HasData /\ doubtful' = doubtful /\ carts' = NoCarts /\ ~db.meta
  BY <1>1 DEF Everything, PromiseInv, Recognised
<1>4. Written' /\ Unwritten'
  BY <1>2 DEF Written, Unwritten, Everything
<1>5. RowOnly'
  <2>1. /\ \A p \in Nat : <<Row("products", p)>> \in OperationLists
        /\ \A u \in Users : <<Row("users", u)>> \in OperationLists
        /\ <<Whole("orders")>> \in OperationLists
    BY DEF OperationLists
  <2> QED
    BY <1>2, <2>1 DEF RowOnly, Operating
<1>6. SeedUnderWay' /\ Recognised'
  BY <1>1, <1>2, <1>3 DEF SeedUnderWay, Recognised, Everything
<1>7. Rest1 # <<>>
  BY Kinds
<1>8. Promise!Operate
  <2>1. DOMAIN Shown' = Tables
    BY <1>1 DEF Shown, Tables
  <2> QED
    BY <1>1, <1>7, <2>1 DEF Promise!Operate, Everything
<1> QED
  BY <1>1, <1>2, <1>4, <1>5, <1>6, <1>7, <1>8 DEF PromiseInv

\* A crash: each table is as before the operation or as after it, and a cart that was
\* emptied has its order.
LEMMA CrashPromise ==
  ASSUME StoreInv, PromiseInv, Crash
  PROVE  PromiseInv' /\ Promise!Crash
<1>1. /\ seeded = TRUE /\ seeded' = FALSE /\ todo' = <<>> /\ db' = db /\ doubtful' = doubtful
      /\ before' = Shown' /\ IsDb
  BY DEF Crash, StoreInv, StoreTypes
<1>2. HasData' = HasData /\ ~Persisting' /\ todo' # Clearing /\ Waiting(todo') = {}
  BY <1>1, Kinds, WaitingIs DEF HasData, Persisting
<1>3. PromiseInv'
  <2>1. Written' /\ Unwritten' /\ SeedUnderWay' /\ Recognised'
    BY <1>1, <1>2 DEF Written, Unwritten, SeedUnderWay, Recognised, PromiseInv
  <2>2. RowOnly'
    BY <1>1 DEF RowOnly
  <2> QED
    BY <1>1, <2>1, <2>2 DEF PromiseInv
<1>4. Shown = Shop
  BY <1>1, ShownIs
<1>5. /\ HasData => \A t \in Tables : Shown'[t] = db[t]
      /\ ~HasData => Shown' = SeedShop
      /\ DOMAIN Shown' = Tables
  BY <1>1, <1>2 DEF Shown, SeedShop, Tables
<1>6. ASSUME "meta" \notin doubtful
      PROVE  /\ \A t \in Tables \ doubtful : Shown'[t] \in {before[t], Shown[t]}
             /\ {"orders", "carts"} \cap doubtful = {} /\ Shown'["carts"] # before["carts"]
                  => Shown'["orders"] = Shown["orders"]
  <2>1. CASE Persisting
    <3>1. Shop = SeedShop /\ ~HasData
      BY <2>1, <1>6 DEF PromiseInv, SeedUnderWay, Shop, SeedShop, HasData
    <3> QED
      BY <3>1, <1>4, <1>5
  <2>2. CASE ~Persisting
    <3>1. /\ HasData
          /\ \A t \in Tables \ doubtful : /\ t \notin Waiting(todo) => db[t] = Shop[t]
                                          /\ t \in Waiting(todo) => db[t] = before[t]
      BY <2>2, <1>1, <1>6 DEF PromiseInv, Written, Unwritten, Recognised
    <3>2. \A t \in Tables \ doubtful : Shown'[t] \in {before[t], Shown[t]}
      BY <3>1, <1>4, <1>5
    <3>3. ASSUME {"orders", "carts"} \cap doubtful = {}, Shown'["carts"] # before["carts"]
          PROVE  Shown'["orders"] = Shown["orders"]
      <4>1. /\ Shown'["carts"] = db["carts"] /\ Shown'["orders"] = db["orders"]
            /\ {"orders", "carts"} \subseteq Tables \ doubtful
        BY <3>1, <3>3, <1>5 DEF Tables
      <4>2. "carts" \notin Waiting(todo) /\ db["carts"] = Shop["carts"]
        BY <3>1, <3>3, <4>1
      <4>3. "orders" \notin Waiting(todo)
        <5>1. todo # Clearing
          BY <4>2, WaitingIs DEF Everything, Tables
        <5>2. todo \in OperationLists
          BY <5>1, <2>2, <1>1 DEF PromiseInv, Operating
        <5>3. todo # <<Whole("orders")>>
          BY <4>1, <4>2, <3>3, ShopIs DEF PromiseInv, RowOnly
        <5> QED
          BY <4>2, <5>2, <5>3, WaitingIs DEF OperationLists, Row, Whole
      <4> QED
        BY <3>1, <4>1, <4>3, <1>4
    <3> QED
      BY <3>2, <3>3
  <2> QED
    BY <2>1, <2>2
<1>7. Promise!Crash
  BY <1>1, <1>5, <1>6 DEF Promise!Crash, Tables
<1> QED
  BY <1>3, <1>7

\* What a write is to the promise, whatever it writes.
LEMMA WritePromise ==
  ASSUME StoreInv, StoreInv', Write \/ WriteRefused
  PROVE  Promise!Doubt \/ Promise!Finish
<1>1. /\ todo # <<>> /\ UNCHANGED <<seeded, users, products, carts, orders>>
      /\ before' = IF todo' = <<>> THEN Shown ELSE before
  BY DEF Write, WriteRefused, memory
<1>2. seeded = TRUE /\ seeded' = TRUE /\ doubtful' \subseteq Everything
  BY <1>1 DEF StoreInv, StoreTypes, Unseeded
<1>3. Shown' = Shown
  BY <1>1, <1>2 DEF Shown
<1>4. (IF "meta" \in doubtful' THEN Tables ELSE doubtful') \subseteq Tables
  BY <1>2 DEF Everything
<1> QED
  BY <1>1, <1>3, <1>4 DEF Promise!Doubt, Promise!Finish

LEMMA SavedIs ==
  ASSUME StoreInv
  PROVE  /\ \A t \in Tables : Saved(Whole(t)) = [db EXCEPT ![t] = Shop[t]]
         /\ Saved(Whole("meta")) = [db EXCEPT !.meta = TRUE]
         /\ Saved(Whole("clear")) = NoTables
         /\ \A p : Saved(Row("products", p)) = [db EXCEPT !.products = Products(p)]
         /\ \A u : Saved(Row("users", u)) = [db EXCEPT !.users = Profiles(u)]
<1>1. /\ \A t, k : Whole(t).table = t /\ Whole(t).row = All
      /\ \A t, k : Row(t, k).table = t /\ Row(t, k).row = k
  BY DEF Whole, Row
<1>2. ASSUME NEW t \in Tables PROVE Saved(Whole(t)) = [db EXCEPT ![t] = Shop[t]]
  <2>1. CASE t = "users"
    BY <2>1, <1>1, ShopIs DEF Saved, Profiles
  <2>2. CASE t = "products"
    BY <2>2, <1>1, ShopIs DEF Saved, Products
  <2>3. CASE t = "orders"
    BY <2>3, <1>1, ShopIs DEF Saved
  <2>4. CASE t = "carts"
    BY <2>4, <1>1, ShopIs DEF Saved
  <2> QED
    BY <2>1, <2>2, <2>3, <2>4 DEF Tables
<1>3. Saved(Whole("meta")) = [db EXCEPT !.meta = TRUE] /\ Saved(Whole("clear")) = NoTables
  BY <1>1 DEF Saved
<1>4. /\ \A p : Saved(Row("products", p)) = [db EXCEPT !.products = Products(p)]
      /\ \A u : Saved(Row("users", u)) = [db EXCEPT !.users = Profiles(u)]
  BY <1>1 DEF Saved
<1> QED
  BY <1>2, <1>3, <1>4

\* A whole table is written, and others still are to be or are as memory has them.
LEMMA WholePromise ==
  ASSUME StoreInv, PromiseInv, seeded, NEW t \in Tables, Write, Head(todo) = Whole(t),
         Waiting(todo') = Waiting(todo) \ {t}, t \in Waiting(todo)
  PROVE  /\ Written'
         /\ db' = [db EXCEPT ![t] = Shop[t]] /\ db'[t] = Shop[t]
         /\ \A r \in (Tables \cup {"meta"}) \ {t} : db'[r] = db[r]
         /\ doubtful' = doubtful \ {t} /\ seeded'
         /\ ~Persisting => \A r \in Tables \ doubtful' : r \in Waiting(todo') => db'[r] = before[r]
<1>1. /\ db' = Saved(Whole(t)) /\ doubtful' = doubtful \ {t}
      /\ UNCHANGED <<seeded, users, products, carts, orders>>
  BY DEF Write, memory, Whole
<1>2. db' = [db EXCEPT ![t] = Shop[t]] /\ Shop' = Shop
  BY <1>1, SavedIs DEF Shop
<1>3. db'[t] = Shop[t] /\ \A r \in (Tables \cup {"meta"}) \ {t} : db'[r] = db[r]
  BY <1>2 DEF StoreInv, StoreTypes, IsDb, Tables
<1>4. \A r \in Tables \ doubtful : /\ r \notin Waiting(todo) => db[r] = Shop[r]
                                   /\ ~Persisting /\ r \in Waiting(todo) => db[r] = before[r]
  BY DEF PromiseInv, Written, Unwritten
<1>5. Written'
  BY <1>1, <1>2, <1>3, <1>4 DEF Written
<1>6. ~Persisting => \A r \in Tables \ doubtful' : r \in Waiting(todo') => db'[r] = before[r]
  BY <1>1, <1>3, <1>4
<1> QED
  BY <1>1, <1>2, <1>3, <1>5, <1>6

\* The write of an operation.
LEMMA OperationWrites ==
  ASSUME StoreInv, PromiseInv, seeded, Operating, Write
  PROVE  PromiseInv'
<1>1. /\ db' = Saved(Head(todo)) /\ todo' = Tail(todo) /\ todo # <<>> /\ IsDb
      /\ doubtful' = IF Head(todo).row = All THEN doubtful \ {Head(todo).table}
                     ELSE IF db'.products = {} THEN Everything ELSE doubtful
      /\ before' = IF todo' = <<>> THEN Shown ELSE before
      /\ UNCHANGED <<seeded, users, products, carts, orders>>
      /\ seeded' = TRUE /\ seeded = TRUE
  BY DEF Write, memory, StoreInv, StoreTypes
<1>2. Shown' = Shown /\ Shop' = Shop
  BY <1>1 DEF Shown, Shop
<1>k. ~Persisting /\ todo # Clearing
  BY Kinds, WaitingIs DEF Operating, Persisting
<1>3. /\ "meta" \notin doubtful => HasData
      /\ \A r \in Tables \ doubtful : /\ r \notin Waiting(todo) => db[r] = Shop[r]
                                      /\ r \in Waiting(todo) => db[r] = before[r]
  BY <1>1, <1>k DEF PromiseInv, Recognised, Written, Unwritten
\* Once all is written.
<1>4. ASSUME todo' = <<>>, "meta" \notin doubtful' => HasData',
             \A t \in Tables \ doubtful' : db'[t] = Shop[t]
      PROVE  PromiseInv'
  <2>1. Operating' /\ ~Persisting' /\ todo' # Clearing /\ Waiting(todo') = {}
    BY <1>4, Kinds, WaitingIs DEF Operating, Persisting
  <2>2. Written' /\ Unwritten' /\ SeedUnderWay' /\ Recognised'
    BY <1>1, <1>2, <1>4, <2>1 DEF Written, Unwritten, SeedUnderWay, Recognised
  <2>3. RowOnly'
    BY <1>4 DEF RowOnly
  <2> QED
    BY <1>1, <1>2, <1>4, <2>1, <2>2, <2>3 DEF PromiseInv
<1>h. ASSUME "meta" \notin doubtful, db'.meta = db.meta, db'.users = db.users, db'.products = db.products
      PROVE  HasData'
  BY <1>h, <1>3 DEF HasData
<1>5. ASSUME NEW t \in {"carts", "orders"}, todo = <<Whole(t)>> PROVE PromiseInv'
  <2>1. /\ Head(todo) = Whole(t) /\ Tail(todo) = <<>> /\ t \in Tables
        /\ Waiting(todo) = {t} /\ Waiting(<<>>) = {}
    BY <1>5, WaitingIs DEF Whole, Tables
  <2>2. /\ Written' /\ \A r \in (Tables \cup {"meta"}) \ {t} : db'[r] = db[r]
        /\ doubtful' = doubtful \ {t}
    BY <2>1, <1>1, WholePromise
  <2>3. "meta" \notin doubtful' => HasData'
    BY <1>h, <2>2, <1>5 DEF Tables
  <2>4. \A r \in Tables \ doubtful' : db'[r] = Shop[r]
    BY <2>1, <2>2, <1>1, <1>2 DEF Written
  <2> QED
    BY <2>1, <2>3, <2>4, <1>1, <1>4
<1>6. ASSUME todo = <<Whole("orders"), Whole("carts")>> PROVE PromiseInv'
  <2>1. /\ Head(todo) = Whole("orders") /\ Tail(todo) = <<Whole("carts")>>
        /\ Waiting(todo) = {"orders", "carts"} /\ Waiting(<<Whole("carts")>>) = {"carts"}
    BY <1>6, WaitingIs DEF Whole
  <2>2. /\ Written' /\ \A r \in (Tables \cup {"meta"}) \ {"orders"} : db'[r] = db[r]
        /\ doubtful' = doubtful \ {"orders"}
        /\ \A r \in Tables \ doubtful' : r \in Waiting(todo') => db'[r] = before[r]
    BY <2>1, <1>1, <1>k, WholePromise DEF Tables
  <2>3. todo' = <<Whole("carts")>> /\ before' = before
    BY <2>1, <1>1
  <2>4. todo' \in OperationLists
    BY <2>3 DEF OperationLists
  <2>5. Operating' /\ ~Persisting' /\ todo' # Clearing
    BY <2>4, Kinds, WaitingIs DEF Operating, Persisting
  <2>6. Unwritten'
    BY <2>2, <2>3 DEF Unwritten
  <2>7. RowOnly'
    BY <2>3, RowsDiffer DEF RowOnly
  <2>8. "meta" \notin doubtful' => HasData'
    BY <1>h, <2>2 DEF Tables
  <2>9. SeedUnderWay' /\ Recognised'
    BY <2>5, <2>8 DEF SeedUnderWay, Recognised
  <2> QED
    BY <2>2, <2>3, <2>5, <2>6, <2>7, <2>9 DEF PromiseInv
<1>7. ASSUME NEW p \in Nat, todo = <<Row("products", p)>> PROVE PromiseInv'
  <2>1. /\ Head(todo) = Row("products", p) /\ Tail(todo) = <<>>
        /\ Head(todo).row # All /\ p # All /\ Waiting(todo) = {"products"}
    BY <1>7, WaitingIs DEF Row, All
  <2>2. db' = [db EXCEPT !.products = Products(p)]
    BY <2>1, <1>1, SavedIs
  <2>3. /\ db'.products = Products(p)
        /\ \A r \in (Tables \cup {"meta"}) \ {"products"} : db'[r] = db[r]
    BY <2>2, <1>1 DEF IsDb, Tables
  <2>4. doubtful' = IF db'.products = {} THEN Everything ELSE doubtful
    BY <2>1, <1>1
  <2>5. CASE db'.products = {}
    BY <2>1, <2>4, <2>5, <1>1, <1>4 DEF Everything
  <2>6. CASE db'.products # {}
    <3>1. "meta" \notin doubtful => HasData'
      <4>1. db'["meta"] = db["meta"] /\ db'["users"] = db["users"]
        BY <2>3 DEF Tables
      <4> QED
        BY <4>1, <2>6, <1>3 DEF HasData
    <3>2. ASSUME "products" \notin doubtful PROVE db'.products = products
      <4>1. db["products"] = before["products"]
        BY <3>2, <2>1, <1>3 DEF Tables
      <4>2. products \ {p} = before.products \ {p}
        BY <1>7 DEF PromiseInv, RowOnly
      <4>3. db'.products = IF p \in products THEN db.products \cup {p} ELSE db.products \ {p}
        BY <2>1, <2>3 DEF Products
      <4> QED
        BY <4>1, <4>2, <4>3
    <3>3. \A r \in Tables \ doubtful : db'[r] = Shop[r]
      BY <2>1, <2>3, <3>2, <1>3, ShopIs
    <3> QED
      BY <2>1, <2>4, <2>6, <3>1, <3>3, <1>1, <1>4
  <2> QED
    BY <2>5, <2>6
<1>8. ASSUME NEW u \in Users, todo = <<Row("users", u)>> PROVE PromiseInv'
  <2>1. /\ Head(todo) = Row("users", u) /\ Tail(todo) = <<>>
        /\ Head(todo).row # All /\ u # All /\ Waiting(todo) = {"users"}
    BY <1>8, WaitingIs, StoreAssumption DEF Row, All
  <2>2. db' = [db EXCEPT !.users = Profiles(u)]
    BY <2>1, <1>1, SavedIs
  <2>3. /\ db'.users = Profiles(u)
        /\ \A r \in (Tables \cup {"meta"}) \ {"users"} : db'[r] = db[r]
    BY <2>2, <1>1 DEF IsDb, Tables
  <2>4. doubtful' = IF db'.products = {} THEN Everything ELSE doubtful
    BY <2>1, <1>1
  <2>5. Profiles(u) = [x \in DOMAIN db.users \cup {u} |-> IF x = u THEN users[u] ELSE db.users[x]]
    BY <2>1 DEF Profiles, With
  <2>6. CASE db'.products = {}
    BY <2>1, <2>4, <2>6, <1>1, <1>4 DEF Everything
  <2>7. CASE db'.products # {}
    <3>1. "meta" \notin doubtful => HasData'
      <4>1. db'["meta"] = db["meta"] /\ u \in DOMAIN db'.users
        BY <2>3, <2>5 DEF Tables
      <4> QED
        BY <4>1, <2>7, <1>3 DEF HasData
    <3>2. ASSUME "users" \notin doubtful PROVE db'.users = users
      <4>1. db["users"] = before["users"]
        BY <3>2, <2>1, <1>3 DEF Tables
      <4>2. /\ u \in DOMAIN users /\ DOMAIN before.users = DOMAIN users
            /\ \A v \in DOMAIN users \ {u} : before.users[v] = users[v]
        BY <1>8 DEF PromiseInv, RowOnly
      <4>3. users = [x \in DOMAIN users |-> users[x]]
        BY DEF StoreInv, StoreTypes
      <4> QED
        BY <4>1, <4>2, <4>3, <2>3, <2>5
    <3>3. \A r \in Tables \ doubtful : db'[r] = Shop[r]
      BY <2>1, <2>3, <3>2, <1>3, ShopIs
    <3> QED
      BY <2>1, <2>4, <2>7, <3>1, <3>3, <1>1, <1>4
  <2> QED
    BY <2>6, <2>7
<1> QED
  BY <1>1, <1>5, <1>6, <1>7, <1>8 DEF Operating, OperationLists

\* No row is among the writes of a seed.
LEMMA NoRowOfSeed ==
  ASSUME todo' \in PersistLists
  PROVE  RowOnly' /\ ~Operating' /\ Persisting' /\ todo' # Clearing /\ todo' # <<>>
<1>1. /\ \A p \in Nat : <<Row("products", p)>> \in OperationLists
      /\ \A u \in Users : <<Row("users", u)>> \in OperationLists
      /\ <<Whole("orders")>> \in OperationLists
  BY DEF OperationLists
<1>2. todo' \notin OperationLists /\ todo' # Clearing /\ todo' # <<>>
  BY Kinds
<1> QED
  BY <1>1, <1>2 DEF RowOnly, Operating, Persisting

\* The write of a seed or of a reset.
LEMMA SeedWrites ==
  ASSUME StoreInv, PromiseInv, seeded, Persisting \/ todo = Clearing, Write
  PROVE  PromiseInv'
<1>1. /\ db' = Saved(Head(todo)) /\ todo' = Tail(todo) /\ todo # <<>> /\ IsDb
      /\ doubtful' = IF Head(todo).row = All THEN doubtful \ {Head(todo).table}
                     ELSE IF db'.products = {} THEN Everything ELSE doubtful
      /\ before' = IF todo' = <<>> THEN Shown ELSE before
      /\ UNCHANGED <<seeded, users, products, carts, orders>>
      /\ seeded' = TRUE /\ seeded = TRUE /\ doubtful \subseteq Everything
  BY DEF Write, memory, StoreInv, StoreTypes
<1>2. Shown' = Shown /\ Shop' = Shop /\ \A t : Whole(t).table = t /\ Whole(t).row = All
  BY <1>1 DEF Shown, Shop, Whole
<1>3. /\ users = SeedUsers /\ products = SeedProducts
      /\ "meta" \notin doubtful => orders = <<>> /\ carts = NoCarts
      /\ Persisting => \A t \in Tables : t \in Waiting(todo) \/ t \notin doubtful
      /\ Persisting /\ "meta" \notin doubtful => ~db.meta
  BY DEF PromiseInv, SeedUnderWay
<1>4. CASE todo = Clearing
  <2>1. todo' = Rest1 /\ db' = NoTables /\ doubtful' = doubtful /\ Waiting(todo') = Everything
    <3>1. Head(todo) = Whole("clear") /\ Tail(todo) = Rest1 /\ Waiting(Rest1) = Everything
      BY <1>4, RestSteps, WaitingIs
    <3>2. Saved(Whole("clear")) = NoTables
      BY SavedIs
    <3>3. doubtful' = doubtful
      BY <3>1, <1>1, <1>2 DEF Everything, Tables
    <3> QED
      BY <3>1, <3>2, <3>3, <1>1
  <2>2. ~db'.meta
    BY <2>1 DEF NoTables
  <2>3. todo' \in PersistLists
    BY <2>1, Kinds
  <2>4. Written' /\ Unwritten'
    BY <2>1, <2>3 DEF Written, Unwritten, Everything, Persisting
  <2>5. SeedUnderWay'
    BY <2>1, <2>2, <1>1, <1>3 DEF SeedUnderWay, Everything
  <2>6. Recognised'
    BY <2>2, <2>3, <1>1 DEF Recognised, Persisting, HasData
  <2> QED
    BY <2>3, <2>4, <2>5, <2>6, NoRowOfSeed DEF PromiseInv
\* The tables, one by one.
<1>5. ASSUME NEW t \in Tables, Persisting, Head(todo) = Whole(t), Tail(todo) \in PersistLists,
             Waiting(Tail(todo)) = Waiting(todo) \ {t}, t \in Waiting(todo)
      PROVE  PromiseInv'
  <2>1. /\ Written' /\ \A r \in (Tables \cup {"meta"}) \ {t} : db'[r] = db[r]
        /\ doubtful' = doubtful \ {t}
    BY <1>1, <1>5, WholePromise
  <2>2. todo' \in PersistLists /\ Persisting' /\ todo' # <<>>
    BY <1>1, <1>5, NoRowOfSeed
  <2>3. db'["meta"] = db["meta"] /\ ("meta" \in doubtful' <=> "meta" \in doubtful)
    BY <2>1 DEF Tables
  <2>4. SeedUnderWay'
    BY <2>1, <2>2, <2>3, <1>1, <1>3, <1>5 DEF SeedUnderWay
  <2>5. Recognised' /\ Unwritten'
    BY <2>2, <2>3, <1>3, <1>5 DEF Recognised, Unwritten
  <2> QED
    BY <2>1, <2>2, <2>4, <2>5, NoRowOfSeed DEF PromiseInv
<1>6. CASE todo \in {Rest1, Rest2, Rest3, Rest4}
  <2>1. {Rest2, Rest3, Rest4, Rest5} \subseteq PersistLists
    BY DEF PersistLists
  <2>2. Persisting
    BY <1>6 DEF PersistLists, Persisting
  <2>3. CASE todo = Rest1
    BY <2>1, <2>2, <2>3, <1>5, RestSteps, WaitingIs DEF Everything, Tables
  <2>4. CASE todo = Rest2
    BY <2>1, <2>2, <2>4, <1>5, RestSteps, WaitingIs DEF Tables
  <2>5. CASE todo = Rest3
    BY <2>1, <2>2, <2>5, <1>5, RestSteps, WaitingIs DEF Tables
  <2>6. CASE todo = Rest4
    BY <2>1, <2>2, <2>6, <1>5, RestSteps, WaitingIs DEF Tables
  <2> QED
    BY <1>6, <2>3, <2>4, <2>5, <2>6
\* The flag: from here on the next process restores.
<1>7. CASE todo = Rest5
  <2>1. /\ todo' = <<>> /\ doubtful' = doubtful \ {"meta"} /\ before' = Shown
        /\ db' = [db EXCEPT !.meta = TRUE] /\ Waiting(todo) = {"meta"} /\ Waiting(todo') = {}
    <3>1. /\ Head(todo) = Whole("meta") /\ Tail(todo) = <<>>
          /\ Waiting(todo) = {"meta"} /\ Waiting(<<>>) = {}
      BY <1>7, RestSteps, WaitingIs
    <3>2. Saved(Whole("meta")) = [db EXCEPT !.meta = TRUE]
      BY SavedIs
    <3> QED
      BY <3>1, <3>2, <1>1, <1>2
  <2>2. db'.meta = TRUE /\ \A r \in Tables : db'[r] = db[r]
    BY <2>1, <1>1 DEF IsDb, Tables
  <2>3. Persisting
    BY <1>7 DEF Persisting, PersistLists
  <2>4. \A t \in Tables : t \notin doubtful /\ db[t] = Shop[t]
    BY <2>1, <2>3, <1>1, <1>3 DEF PromiseInv, Written, Tables
  <2>5. HasData'
    <3>1. db'["users"] = SeedUsers /\ db'["products"] = SeedProducts
      BY <2>2, <2>4, <1>3, ShopIs DEF Tables
    <3> QED
      BY <3>1, <2>2, StoreAssumption DEF HasData, SeedUsers
  <2>6. Operating' /\ ~Persisting' /\ todo' # Clearing
    BY <2>1, Kinds DEF Operating, Persisting
  <2>7. Written' /\ Unwritten' /\ SeedUnderWay' /\ Recognised'
    BY <2>1, <2>2, <2>4, <2>5, <2>6, <1>2 DEF Written, Unwritten, SeedUnderWay, Recognised
  <2>8. RowOnly'
    BY <2>1 DEF RowOnly
  <2> QED
    BY <2>1, <2>6, <2>7, <2>8, <1>2 DEF PromiseInv
<1> QED
  BY <1>4, <1>6, <1>7 DEF Persisting, PersistLists

\* A refused write: its table is in doubt, or all of them are and the rest is not tried.
LEMMA RefusedPromise ==
  ASSUME StoreInv, PromiseInv, seeded, WriteRefused
  PROVE  PromiseInv'
<1>1. /\ todo # <<>> /\ UNCHANGED <<seeded, users, products, carts, orders, db>>
      /\ before' = IF todo' = <<>> THEN Shown ELSE before
      /\ LET all == "meta" \in Waiting(todo) /\ Head(todo).table # "clear"
         IN  /\ todo' = IF all THEN <<>> ELSE Tail(todo)
             /\ doubtful' = doubtful \cup (IF "meta" \in Waiting(todo) THEN Everything
                                           ELSE {Head(todo).table})
      /\ seeded' = TRUE /\ seeded = TRUE
  BY DEF WriteRefused, memory, StoreInv, StoreTypes, Waiting
<1>2. Shown' = Shown /\ Shop' = Shop /\ HasData' = HasData
  BY <1>1 DEF Shown, Shop, HasData
<1>3. CASE Persisting
  <2>1. "meta" \in Waiting(todo) /\ Head(todo).table # "clear"
    <3>1. Head(todo) \in {Whole("users"), Whole("products"), Whole("orders"), Whole("carts"), Whole("meta")}
      BY <1>3, RestSteps DEF Persisting, PersistLists
    <3> QED
      BY <3>1, <1>3, Kinds DEF Persisting, Whole
  <2>2. todo' = <<>> /\ Everything \subseteq doubtful' /\ before' = Shown
    BY <2>1, <1>1
  <2>3. Operating' /\ ~Persisting' /\ todo' # Clearing
    BY <2>2, Kinds DEF Operating, Persisting
  <2>4. Written' /\ Unwritten' /\ SeedUnderWay' /\ Recognised' /\ RowOnly'
    BY <2>2, <2>3 DEF Written, Unwritten, SeedUnderWay, Recognised, RowOnly, Everything
  <2> QED
    BY <2>2, <2>3, <2>4, <1>2 DEF PromiseInv
<1>4. CASE todo = Clearing
  <2>1. todo' = Rest1 /\ Everything \subseteq doubtful' /\ Waiting(todo') = Everything
    <3>1. /\ Head(todo) = Whole("clear") /\ Tail(todo) = Rest1
          /\ Waiting(Rest1) = Everything /\ "meta" \in Waiting(todo)
      BY <1>4, RestSteps, WaitingIs DEF Everything
    <3>2. Head(todo).table = "clear"
      BY <3>1 DEF Whole
    <3> QED
      BY <3>1, <3>2, <1>1
  <2>2. todo' \in PersistLists
    BY <2>1, Kinds
  <2>3. users = SeedUsers /\ products = SeedProducts
    BY <1>4 DEF PromiseInv, SeedUnderWay
  <2>4. Written' /\ Unwritten' /\ SeedUnderWay' /\ Recognised'
    BY <2>1, <2>3, <1>1 DEF Written, Unwritten, SeedUnderWay, Recognised, Everything
  <2> QED
    BY <2>2, <2>4, NoRowOfSeed DEF PromiseInv
<1>5. CASE Operating
  <2>1. "meta" \notin Waiting(todo)
    BY <1>5, Kinds DEF Operating
  <2>2. todo' = Tail(todo) /\ doubtful' = doubtful \cup {Head(todo).table}
    BY <2>1, <1>1
  <2>3. /\ Tail(todo) \in {<<>>, <<Whole("carts")>>} /\ Head(todo).table \in Tables
        /\ Waiting(todo) \subseteq Waiting(Tail(todo)) \cup {Head(todo).table}
        /\ Waiting(Tail(todo)) \subseteq Waiting(todo)
    <3> DEFINE Steps(s) == /\ Tail(s) \in {<<>>, <<Whole("carts")>>} /\ Head(s).table \in Tables
                           /\ Waiting(s) \subseteq Waiting(Tail(s)) \cup {Head(s).table}
                           /\ Waiting(Tail(s)) \subseteq Waiting(s)
    <3>1. ASSUME NEW w, w.table \in Tables PROVE Steps(<<w>>)
      <4>1. Head(<<w>>) = w /\ Tail(<<w>>) = <<>>
        OBVIOUS
      <4> QED
        BY <4>1, <3>1, WaitingIs
    <3>2. Steps(<<Whole("orders"), Whole("carts")>>)
      <4> DEFINE s == <<Whole("orders"), Whole("carts")>>
      <4>1. Head(s) = Whole("orders") /\ Tail(s) = <<Whole("carts")>>
        OBVIOUS
      <4>2. Waiting(s) = {"orders", "carts"} /\ Waiting(<<Whole("carts")>>) = {"carts"}
        BY WaitingIs DEF Whole
      <4>3. Whole("orders").table = "orders" /\ "orders" \in Tables
        BY DEF Whole, Tables
      <4> HIDE DEF s
      <4>4. Steps(s)
        BY <4>1, <4>2, <4>3
      <4> QED
        BY <4>4 DEF s
    <3>3. /\ \A t \in Tables : Whole(t).table \in Tables
          /\ \A k : Row("products", k).table \in Tables /\ Row("users", k).table \in Tables
      BY DEF Whole, Row, Tables
    <3> HIDE DEF Steps
    <3>4. Steps(todo)
      BY <3>1, <3>2, <3>3, <1>1, <1>5 DEF Operating, OperationLists, Tables
    <3> QED
      BY <3>4 DEF Steps
  <2>4. todo' \in OperationLists
    BY <2>2, <2>3 DEF OperationLists
  <2>5. Operating' /\ ~Persisting' /\ todo' # Clearing /\ ~Persisting
    BY <2>4, <2>1, Kinds DEF Operating, Persisting
  <2>6. Written'
    BY <2>2, <2>3, <1>1, <1>2 DEF PromiseInv, Written
  <2>7. Unwritten'
    BY <2>2, <2>3, <2>5, <1>1, WaitingIs DEF PromiseInv, Unwritten
  <2>8. "meta" \in doubtful' <=> "meta" \in doubtful
    BY <2>2, <2>3 DEF Tables
  <2>9. SeedUnderWay' /\ Recognised'
    BY <2>5, <2>8, <1>1, <1>2 DEF PromiseInv, SeedUnderWay, Recognised
  <2>10. RowOnly'
    BY <2>2, <2>3, RowsDiffer DEF RowOnly
  <2> QED
    BY <2>5, <2>6, <2>7, <2>9, <2>10, <1>1, <1>2 DEF PromiseInv
<1> QED
  BY <1>1, <1>3, <1>4, <1>5 DEF PromiseInv

\* Every step keeps the invariant and is one of the promise's, or none.
LEMMA PromiseStep ==
  ASSUME StoreInv, StoreInv', PromiseInv, [Next]_vars
  PROVE  /\ PromiseInv'
         /\ \/ Promise!Operate \/ Promise!Doubt \/ Promise!Finish \/ Promise!Crash
            \/ UNCHANGED Promise!vars
<1>1. CASE Restore
  BY <1>1, RestorePromise
<1>2. CASE Seed \/ RestoreFails
  BY <1>2, SeedPromise
<1>3. CASE \/ AddProduct
           \/ \E p \in AnyProduct : DeleteProduct(p)
           \/ \E u \in Users : UpdateUser(u)
           \/ \E u \in Users, p \in AnyProduct : AddToCart(u, p) \/ RemoveFromCart(u, p) \/ AddOrder(u, p)
           \/ \E u \in Users : ClearCart(u) \/ Checkout(u)
           \/ \E u \in Users : \E wanted \in SUBSET AnyProduct : OrderItems(u, wanted)
           \/ \E i \in 1..MaxOrders : PayOrder(i)
           \/ ResetAll
  <2>1. Ready
    BY <1>3 DEF AddProduct, DeleteProduct, UpdateUser, AddToCart, RemoveFromCart, AddOrder,
                ClearCart, Checkout, OrderItems, PayOrder, ResetAll
  <2>2. /\ \A u \in Users : Checkout(u) => PlaceOrder(u, carts[u])
        /\ \A u \in Users : \A wanted \in SUBSET AnyProduct :
             OrderItems(u, wanted) => PlaceOrder(u, [p \in wanted \cap products |-> 1])
    BY DEF Checkout, OrderItems
  <2>3. PromiseInv' /\ Promise!Operate
    BY <2>1, <2>2, <1>3, OperationsPromise, Zenon
  <2> QED
    BY <2>3
<1>4. CASE Write \/ WriteRefused
  <2>1. seeded
    BY <1>4 DEF Write, WriteRefused, StoreInv, Unseeded
  <2>2. PromiseInv'
    BY <1>4, <2>1, OperationWrites, SeedWrites, RefusedPromise DEF PromiseInv
  <2> QED
    BY <1>4, <2>2, WritePromise
<1>5. CASE Crash
  BY <1>5, CrashPromise
<1>6. CASE UNCHANGED vars
  <2>1. UNCHANGED <<seeded, users, products, carts, orders, db, todo, before, doubtful>>
    BY <1>6 DEF vars, memory
  <2>2. Shown' = Shown /\ Shop' = Shop /\ HasData' = HasData
    BY <2>1 DEF Shown, Shop, HasData
  <2>3. PromiseInv'
    BY <2>1, <2>2 DEF PromiseInv, Operating, Persisting, Written, Unwritten, RowOnly,
                      SeedUnderWay, Recognised
  <2> QED
    BY <2>1, <2>2, <2>3 DEF Promise!vars
<1> QED
  BY <1>1, <1>2, <1>3, <1>4, <1>5, <1>6, Zenon DEF Next

\* What is shown, and what the next process would show, is what was acknowledged up to the
\* tables not yet written, between any two writes (api/data_store.py).
THEOREM PromiseInvariant == Spec => [](StoreInv /\ PromiseInv)
<1>1. Init => PromiseInv
  <2> SUFFICES ASSUME Init PROVE PromiseInv
    OBVIOUS
  <2>1. seeded = FALSE /\ todo = <<>> /\ before = Shown /\ db.meta = FALSE
    BY DEF Init, NoTables
  <2>2. ~Persisting /\ todo # Clearing
    BY <2>1, Kinds DEF Persisting
  <2>3. RowOnly
    BY <2>1 DEF RowOnly
  <2> QED
    BY <2>1, <2>2, <2>3 DEF PromiseInv, Written, Unwritten, SeedUnderWay, Recognised
<1>2. StoreInv /\ StoreInv' /\ PromiseInv /\ [Next]_vars => PromiseInv'
  BY PromiseStep
<1> QED
  BY <1>1, <1>2, StoreInvariant, PTL DEF Spec

\* The shop's promise: what was shown when an operation was answered is shown after any
\* restart, and a crash amid an operation leaves each table at one of its ends, never an
\* emptied cart whose order is gone.
THEOREM StoreKeepsPromise == Spec => KeepsPromise
<1>1. Init => Promise!Init
  BY DEF Init, Promise!Init
<1>2. StoreInv /\ StoreInv' /\ PromiseInv /\ [Next]_vars => [Promise!Next]_(Promise!vars)
  BY PromiseStep DEF Promise!Next
<1> QED
  BY <1>1, <1>2, PromiseInvariant, PTL DEF Spec, KeepsPromise, Promise!Spec
=============================================================================
