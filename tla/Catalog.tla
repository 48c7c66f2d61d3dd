------------------------------ MODULE Catalog ------------------------------
(***************************************************************************)
(* The user, product and order services: four tables and the RPCs that     *)
(* change them.  Each handler makes one SQL statement, which PostgreSQL    *)
(* runs atomically with its constraint checks and cascades, so an RPC is   *)
(* one action; one that is refused changes nothing and is no action.       *)
(*                                                                         *)
(* A table is a set of rows.  Descriptions, prices, password hashes and    *)
(* timestamps decide nothing and are left out.                             *)
(***************************************************************************)
EXTENDS Integers

CONSTANTS
  Users, Products, Orders, Items,  \* the identifiers that may be generated
  Usernames, Emails, Statuses,     \* what clients write
  Quantities, Stocks,              \* int32 values of requests
  NULL

ASSUME CatalogAssumption ==
  /\ Orders \cap Items = {}
  /\ Quantities \subseteq Int /\ Stocks \subseteq Int
  /\ NULL \notin Int

VARIABLES
  users, products, orders, items,  \* the tables
  issued,     \* identifiers used: gen_random_uuid repeats none
  confirmed   \* history: how often a delete was answered with OK

tables == <<users, products, orders, items>>
vars == <<tables, issued, confirmed>>

UserRow == [id : Users, username : Usernames, email : Emails]
ProductRow == [id : Products, stock_quantity : Stocks \cup {NULL}]
OrderRow == [id : Orders, user_id : Users, status : Statuses \cup {"pending"}]
ItemRow == [id : Items, order_id : Orders, product_id : Products,
            quantity : Quantities]

Ids(table) == {row.id : row \in table}
Key(table) == \A a, b \in table : a.id = b.id => a = b

TypeOK ==
  /\ users \in SUBSET UserRow /\ Key(users)
  /\ products \in SUBSET ProductRow /\ Key(products)
  /\ orders \in SUBSET OrderRow /\ Key(orders)
  /\ items \in SUBSET ItemRow /\ Key(items)
  /\ Ids(users) \cup Ids(products) \cup Ids(orders) \cup Ids(items)
       \subseteq issued
  /\ confirmed \in [Orders \cup Items -> Nat]

Init ==
  /\ users = {} /\ products = {} /\ orders = {} /\ items = {}
  /\ issued = {}
  /\ confirmed = [d \in Orders \cup Items |-> 0]

Issue(id) ==
  /\ id \notin issued
  /\ issued' = issued \cup {id}

-----------------------------------------------------------------------------
(* UserService.                                                            *)

(* UNIQUE (username), UNIQUE (email).                                      *)
Unique(id, username, email) ==
  \A u \in users : u.id # id => u.username # username /\ u.email # email

CreateUser(id, username, email) ==
  /\ Issue(id)
  /\ Unique(id, username, email)
  /\ users' = users \cup {[id |-> id, username |-> username, email |-> email]}
  /\ UNCHANGED <<products, orders, items, confirmed>>

UpdateUser(u, username, email) ==
  /\ Unique(u.id, username, email)
  /\ users' = (users \ {u})
       \cup {[id |-> u.id, username |-> username, email |-> email]}
  /\ UNCHANGED <<products, orders, items, issued, confirmed>>

(* ON DELETE CASCADE, twice: the user's orders, and their items.           *)
DeleteUser(u) ==
  /\ users' = users \ {u}
  /\ orders' = {o \in orders : o.user_id # u.id}
  /\ items' = {i \in items : \A o \in orders :
                               i.order_id = o.id => o.user_id # u.id}
  /\ UNCHANGED <<products, issued, confirmed>>

-----------------------------------------------------------------------------
(* ProductService.                                                         *)

CreateProduct(id, stock) ==
  /\ Issue(id)
  /\ products' = products \cup {[id |-> id, stock_quantity |-> stock]}
  /\ UNCHANGED <<users, orders, items, confirmed>>

(* A stock of 0 is "not provided", and not provided is NULL.               *)
UpdateProduct(p, stock) ==
  /\ products' = (products \ {p})
       \cup {[id |-> p.id, stock_quantity |-> IF stock = 0 THEN NULL ELSE stock]}
  /\ UNCHANGED <<users, orders, items, issued, confirmed>>

(* Mutant: order_items.product_id without ON DELETE CASCADE or check.      *)
DeleteProductOnly(p) ==
  /\ products' = products \ {p}
  /\ UNCHANGED <<users, orders, items, issued, confirmed>>

DeleteProduct(p) ==
  /\ products' = products \ {p}
  /\ items' = {i \in items : i.product_id # p.id}
  /\ UNCHANGED <<users, orders, issued, confirmed>>

-----------------------------------------------------------------------------
(* OrderService.                                                           *)

CreateOrder(id, u) ==
  /\ Issue(id)
  /\ orders' = orders \cup {[id |-> id, user_id |-> u.id, status |-> "pending"]}
  /\ UNCHANGED <<users, products, items, confirmed>>

(* Mutant: an INSERT in place of the UPDATE.                               *)
UpdateOrderStatusAsInsert(o, s) ==
  /\ orders' = orders \cup {[o EXCEPT !.status = s]}
  /\ UNCHANGED <<users, products, items, issued, confirmed>>

UpdateOrderStatus(o, s) ==
  /\ orders' = (orders \ {o}) \cup {[o EXCEPT !.status = s]}
  /\ UNCHANGED <<users, products, items, issued, confirmed>>

Confirm(id) == confirmed' = [confirmed EXCEPT ![id] = @ + 1]

(* Mutant: does not look at RowsAffected, as DeleteUser does not.          *)
DeleteOrderUnchecked(id) ==
  /\ orders' = {o \in orders : o.id # id}
  /\ items' = {i \in items : i.order_id # id}
  /\ Confirm(id)
  /\ UNCHANGED <<users, products, issued>>

(* NotFound if no row was affected: refused, nothing changes.              *)
DeleteOrder(id) ==
  /\ id \in Ids(orders)
  /\ orders' = {o \in orders : o.id # id}
  /\ items' = {i \in items : i.order_id # id}
  /\ Confirm(id)
  /\ UNCHANGED <<users, products, issued>>

CreateOrderItem(id, o, p, quantity) ==
  /\ quantity > 0
  /\ Issue(id)
  /\ items' = items \cup {[id |-> id, order_id |-> o.id, product_id |-> p.id,
                           quantity |-> quantity]}
  /\ UNCHANGED <<users, products, orders, confirmed>>

UpdateOrderItemQuantity(i, quantity) ==
  /\ items' = (items \ {i}) \cup {[i EXCEPT !.quantity = quantity]}
  /\ UNCHANGED <<users, products, orders, issued, confirmed>>

DeleteOrderItem(id) ==
  /\ id \in Ids(items)
  /\ items' = {i \in items : i.id # id}
  /\ Confirm(id)
  /\ UNCHANGED <<users, products, orders, issued>>

-----------------------------------------------------------------------------
UserService ==
  \E username \in Usernames, email \in Emails :
    \/ \E id \in Users : CreateUser(id, username, email)
    \/ \E u \in users : UpdateUser(u, username, email) \/ DeleteUser(u)

ProductService ==
  \E stock \in Stocks :
    \/ \E id \in Products : CreateProduct(id, stock)
    \/ \E p \in products : UpdateProduct(p, stock) \/ DeleteProduct(p)

OrderService ==
  \/ \E id \in Orders, u \in users : CreateOrder(id, u)
  \/ \E o \in orders, s \in Statuses : UpdateOrderStatus(o, s)
  \/ \E id \in Orders : DeleteOrder(id)
  \/ \E q \in Quantities :
       \/ \E id \in Items, o \in orders, p \in products :
            CreateOrderItem(id, o, p, q)
       \/ \E i \in items : UpdateOrderItemQuantity(i, q)
  \/ \E id \in Items : DeleteOrderItem(id)

Next == UserService \/ ProductService \/ OrderService

Spec == Init /\ [][Next]_vars

-----------------------------------------------------------------------------
(* However creates and deletes of different clients interleave, an order   *)
(* has its user and an item its order and its product: the three cascades  *)
(* of the migrations together leave no orphan.                             *)
NoOrphans ==
  /\ \A o \in orders : o.user_id \in Ids(users)
  /\ \A i \in items : i.order_id \in Ids(orders) /\ i.product_id \in Ids(products)

(* Of all the clients that delete an order or an item, repeating calls     *)
(* whose answer they lost, at most one is told OK, and none while the row  *)
(* is there (order_handler.go:133, 216).                           *)
ConfirmedOnce ==
  /\ \A d \in Orders \cup Items : confirmed[d] <= 1
  /\ \A d \in Ids(orders) \cup Ids(items) : confirmed[d] = 0

=============================================================================
