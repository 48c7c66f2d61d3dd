--------------------------- MODULE CatalogProofs ---------------------------
(***************************************************************************)
(* Integrity of the catalog's tables, for any identifiers and requests.    *)
(***************************************************************************)
EXTENDS Catalog, TLAPS

-----------------------------------------------------------------------------
(* What the three kinds of statements do to a table.                       *)

(* UPDATE: a row replaced by one with the same identifier.                 *)
LEMMA Replace ==
  ASSUME NEW table, Key(table), NEW row \in table, NEW new, new.id = row.id
  PROVE  /\ Key((table \ {row}) \cup {new})
         /\ Ids((table \ {row}) \cup {new}) = Ids(table)
BY DEF Key, Ids

(* INSERT: a row with an identifier not in use.                            *)
LEMMA Insert ==
  ASSUME NEW table, Key(table), NEW new, new.id \notin Ids(table)
  PROVE  /\ Key(table \cup {new})
         /\ Ids(table \cup {new}) = Ids(table) \cup {new.id}
BY DEF Key, Ids

(* DELETE, and what it cascades to: fewer rows.                            *)
LEMMA Shrink ==
  ASSUME NEW table, Key(table), NEW less \in SUBSET table
  PROVE  Key(less) /\ Ids(less) \subseteq Ids(table)
BY DEF Key, Ids

-----------------------------------------------------------------------------
(* Type correctness.                                                       *)

LEMMA UserType == TypeOK /\ UserService => TypeOK'
<1> SUFFICES ASSUME TypeOK,
                    NEW username \in Usernames, NEW email \in Emails,
                    \/ \E id \in Users : CreateUser(id, username, email)
                    \/ \E u \in users : UpdateUser(u, username, email)
                                          \/ DeleteUser(u)
             PROVE  TypeOK'
  BY DEF UserService
<1>1. ASSUME NEW id \in Users, CreateUser(id, username, email)
      PROVE  TypeOK'
  <2> DEFINE row == [id |-> id, username |-> username, email |-> email]
  <2>1. row \in UserRow /\ row.id = id
    BY DEF UserRow
  <2>2. id \notin Ids(users)
    BY <1>1 DEF CreateUser, Issue, TypeOK
  <2>3. Key(users') /\ Ids(users') = Ids(users) \cup {id}
    BY <1>1, <2>1, <2>2, Insert DEF CreateUser, TypeOK
  <2> QED
    BY <1>1, <2>1, <2>3 DEF CreateUser, Issue, TypeOK
<1>2. ASSUME NEW u \in users, UpdateUser(u, username, email)
      PROVE  TypeOK'
  <2> DEFINE row == [id |-> u.id, username |-> username, email |-> email]
  <2>1. row \in UserRow /\ row.id = u.id
    BY DEF TypeOK, UserRow
  <2>2. Key(users') /\ Ids(users') = Ids(users)
    BY <1>2, <2>1, Replace DEF UpdateUser, TypeOK
  <2> QED
    BY <1>2, <2>1, <2>2 DEF UpdateUser, TypeOK
<1>3. ASSUME NEW u \in users, DeleteUser(u)
      PROVE  TypeOK'
  <2>1. /\ users' \in SUBSET users /\ orders' \in SUBSET orders
        /\ items' \in SUBSET items
    BY <1>3 DEF DeleteUser
  <2>2. /\ Key(users') /\ Ids(users') \subseteq Ids(users)
        /\ Key(orders') /\ Ids(orders') \subseteq Ids(orders)
        /\ Key(items') /\ Ids(items') \subseteq Ids(items)
    BY <2>1, Shrink DEF TypeOK
  <2> QED
    BY <1>3, <2>1, <2>2 DEF DeleteUser, TypeOK
<1> QED
  BY <1>1, <1>2, <1>3

LEMMA ProductType == TypeOK /\ ProductService => TypeOK'
<1> SUFFICES ASSUME TypeOK, NEW stock \in Stocks,
                    \/ \E id \in Products : CreateProduct(id, stock)
                    \/ \E p \in products : UpdateProduct(p, stock)
                                             \/ DeleteProduct(p)
             PROVE  TypeOK'
  BY DEF ProductService
<1>1. ASSUME NEW id \in Products, CreateProduct(id, stock)
      PROVE  TypeOK'
  <2> DEFINE row == [id |-> id, stock_quantity |-> stock]
  <2>1. row \in ProductRow /\ row.id = id
    BY DEF ProductRow
  <2>2. id \notin Ids(products)
    BY <1>1 DEF CreateProduct, Issue, TypeOK
  <2>3. Key(products') /\ Ids(products') = Ids(products) \cup {id}
    BY <1>1, <2>1, <2>2, Insert DEF CreateProduct, TypeOK
  <2> QED
    BY <1>1, <2>1, <2>3 DEF CreateProduct, Issue, TypeOK
<1>2. ASSUME NEW p \in products, UpdateProduct(p, stock)
      PROVE  TypeOK'
  <2> DEFINE row == [id |-> p.id,
                     stock_quantity |-> IF stock = 0 THEN NULL ELSE stock]
  <2>1. row \in ProductRow /\ row.id = p.id
    BY DEF TypeOK, ProductRow
  <2>2. Key(products') /\ Ids(products') = Ids(products)
    BY <1>2, <2>1, Replace DEF UpdateProduct, TypeOK
  <2> QED
    BY <1>2, <2>1, <2>2 DEF UpdateProduct, TypeOK
<1>3. ASSUME NEW p \in products, DeleteProduct(p)
      PROVE  TypeOK'
  <2>1. products' \in SUBSET products /\ items' \in SUBSET items
    BY <1>3 DEF DeleteProduct
  <2>2. /\ Key(products') /\ Ids(products') \subseteq Ids(products)
        /\ Key(items') /\ Ids(items') \subseteq Ids(items)
    BY <2>1, Shrink DEF TypeOK
  <2> QED
    BY <1>3, <2>1, <2>2 DEF DeleteProduct, TypeOK
<1> QED
  BY <1>1, <1>2, <1>3

LEMMA ConfirmType ==
  ASSUME TypeOK, NEW id \in Orders \cup Items, Confirm(id)
  PROVE  confirmed' \in [Orders \cup Items -> Nat]
BY DEF Confirm, TypeOK

LEMMA OrderType == TypeOK /\ OrderService => TypeOK'
<1> SUFFICES ASSUME TypeOK, OrderService PROVE TypeOK'
  OBVIOUS
<1>1. ASSUME NEW id \in Orders, NEW u \in users, CreateOrder(id, u)
      PROVE  TypeOK'
  <2> DEFINE row == [id |-> id, user_id |-> u.id, status |-> "pending"]
  <2>1. row \in OrderRow /\ row.id = id
    BY DEF OrderRow, UserRow, TypeOK
  <2>2. id \notin Ids(orders)
    BY <1>1 DEF CreateOrder, Issue, TypeOK
  <2>3. Key(orders') /\ Ids(orders') = Ids(orders) \cup {id}
    BY <1>1, <2>1, <2>2, Insert DEF CreateOrder, TypeOK
  <2> QED
    BY <1>1, <2>1, <2>3 DEF CreateOrder, Issue, TypeOK
<1>2. ASSUME NEW o \in orders, NEW s \in Statuses, UpdateOrderStatus(o, s)
      PROVE  TypeOK'
  <2> DEFINE row == [o EXCEPT !.status = s]
  <2>1. row \in OrderRow /\ row.id = o.id
    BY DEF TypeOK, OrderRow
  <2>2. Key(orders') /\ Ids(orders') = Ids(orders)
    BY <1>2, <2>1, Replace DEF UpdateOrderStatus, TypeOK
  <2> QED
    BY <1>2, <2>1, <2>2 DEF UpdateOrderStatus, TypeOK
<1>3. ASSUME NEW id \in Orders, DeleteOrder(id)
      PROVE  TypeOK'
  <2>1. orders' \in SUBSET orders /\ items' \in SUBSET items
    BY <1>3 DEF DeleteOrder
  <2>2. /\ Key(orders') /\ Ids(orders') \subseteq Ids(orders)
        /\ Key(items') /\ Ids(items') \subseteq Ids(items)
    BY <2>1, Shrink DEF TypeOK
  <2>3. confirmed' \in [Orders \cup Items -> Nat]
    BY <1>3, ConfirmType DEF DeleteOrder
  <2> QED
    BY <1>3, <2>1, <2>2, <2>3 DEF DeleteOrder, TypeOK
<1>4. ASSUME NEW q \in Quantities, NEW id \in Items, NEW o \in orders,
             NEW p \in products, CreateOrderItem(id, o, p, q)
      PROVE  TypeOK'
  <2> DEFINE row == [id |-> id, order_id |-> o.id, product_id |-> p.id,
                     quantity |-> q]
  <2>1. row \in ItemRow /\ row.id = id
    BY DEF ItemRow, OrderRow, ProductRow, TypeOK
  <2>2. id \notin Ids(items)
    BY <1>4 DEF CreateOrderItem, Issue, TypeOK
  <2>3. Key(items') /\ Ids(items') = Ids(items) \cup {id}
    BY <1>4, <2>1, <2>2, Insert DEF CreateOrderItem, TypeOK
  <2> QED
    BY <1>4, <2>1, <2>3 DEF CreateOrderItem, Issue, TypeOK
<1>5. ASSUME NEW q \in Quantities, NEW i \in items,
             UpdateOrderItemQuantity(i, q)
      PROVE  TypeOK'
  <2> DEFINE row == [i EXCEPT !.quantity = q]
  <2>1. row \in ItemRow /\ row.id = i.id
    BY DEF TypeOK, ItemRow
  <2>2. Key(items') /\ Ids(items') = Ids(items)
    BY <1>5, <2>1, Replace DEF UpdateOrderItemQuantity, TypeOK
  <2> QED
    BY <1>5, <2>1, <2>2 DEF UpdateOrderItemQuantity, TypeOK
<1>6. ASSUME NEW id \in Items, DeleteOrderItem(id)
      PROVE  TypeOK'
  <2>1. items' \in SUBSET items
    BY <1>6 DEF DeleteOrderItem
  <2>2. Key(items') /\ Ids(items') \subseteq Ids(items)
    BY <2>1, Shrink DEF TypeOK
  <2>3. confirmed' \in [Orders \cup Items -> Nat]
    BY <1>6, ConfirmType DEF DeleteOrderItem
  <2> QED
    BY <1>6, <2>1, <2>2, <2>3 DEF DeleteOrderItem, TypeOK
<1> QED
  BY <1>1, <1>2, <1>3, <1>4, <1>5, <1>6 DEF OrderService

(* The tables keep their types and their primary keys.                     *)
THEOREM CatalogType == Spec => []TypeOK
<1>1. Init => TypeOK
  BY DEF Init, TypeOK, Key, Ids
<1>2. TypeOK /\ [Next]_vars => TypeOK'
  BY UserType, ProductType, OrderType DEF Next, TypeOK, vars, tables
<1> QED
  BY <1>1, <1>2, PTL DEF Spec

-----------------------------------------------------------------------------
(* Referential integrity.  It is inductive with the types alone.           *)

LEMMA UserKeepsRows == TypeOK /\ NoOrphans /\ UserService => NoOrphans'
<1> SUFFICES ASSUME TypeOK, NoOrphans,
                    NEW username \in Usernames, NEW email \in Emails,
                    \/ \E id \in Users : CreateUser(id, username, email)
                    \/ \E u \in users : UpdateUser(u, username, email)
                                          \/ DeleteUser(u)
             PROVE  NoOrphans'
  BY DEF UserService
<1> USE DEF NoOrphans, Ids
<1>1. ASSUME NEW id \in Users, CreateUser(id, username, email)
      PROVE  NoOrphans'
  BY <1>1 DEF CreateUser
<1>2. ASSUME NEW u \in users, UpdateUser(u, username, email)
      PROVE  NoOrphans'
  <2>1. Ids(users') = Ids(users)
    BY <1>2, Replace DEF UpdateUser, TypeOK
  <2> QED
    BY <1>2, <2>1 DEF UpdateUser
<1>3. ASSUME NEW u \in users, DeleteUser(u)
      PROVE  NoOrphans'
  <2>1. ASSUME NEW o \in orders' PROVE o.user_id \in Ids(users')
    BY <1>3 DEF DeleteUser
  <2>2. ASSUME NEW i \in items'
        PROVE  i.order_id \in Ids(orders') /\ i.product_id \in Ids(products')
    <3>1. PICK o \in orders : o.id = i.order_id
      BY <1>3 DEF DeleteUser
    <3>2. o \in orders'
      BY <1>3, <3>1 DEF DeleteUser
    <3> QED
      BY <1>3, <3>1, <3>2 DEF DeleteUser
  <2> QED
    BY <2>1, <2>2
<1> QED
  BY <1>1, <1>2, <1>3

LEMMA ProductKeepsRows == TypeOK /\ NoOrphans /\ ProductService => NoOrphans'
<1> SUFFICES ASSUME TypeOK, NoOrphans, NEW stock \in Stocks,
                    \/ \E id \in Products : CreateProduct(id, stock)
                    \/ \E p \in products : UpdateProduct(p, stock)
                                             \/ DeleteProduct(p)
             PROVE  NoOrphans'
  BY DEF ProductService
<1> USE DEF NoOrphans, Ids
<1>1. ASSUME NEW id \in Products, CreateProduct(id, stock)
      PROVE  NoOrphans'
  BY <1>1 DEF CreateProduct
<1>2. ASSUME NEW p \in products, UpdateProduct(p, stock)
      PROVE  NoOrphans'
  <2>1. Ids(products') = Ids(products)
    BY <1>2, Replace DEF UpdateProduct, TypeOK
  <2> QED
    BY <1>2, <2>1 DEF UpdateProduct
<1>3. ASSUME NEW p \in products, DeleteProduct(p)
      PROVE  NoOrphans'
  BY <1>3 DEF DeleteProduct
<1> QED
  BY <1>1, <1>2, <1>3

LEMMA OrderKeepsRows == TypeOK /\ NoOrphans /\ OrderService => NoOrphans'
<1> SUFFICES ASSUME TypeOK, NoOrphans, OrderService PROVE NoOrphans'
  OBVIOUS
<1> USE DEF NoOrphans, Ids
<1>1. ASSUME NEW id \in Orders, NEW u \in users, CreateOrder(id, u)
      PROVE  NoOrphans'
  BY <1>1 DEF CreateOrder
<1>2. ASSUME NEW o \in orders, NEW s \in Statuses, UpdateOrderStatus(o, s)
      PROVE  NoOrphans'
  <2> DEFINE row == [o EXCEPT !.status = s]
  <2>1. row.id = o.id /\ row.user_id = o.user_id
    BY DEF TypeOK, OrderRow
  <2>2. Ids(orders') = Ids(orders)
    BY <1>2, <2>1, Replace DEF UpdateOrderStatus, TypeOK
  <2> QED
    BY <1>2, <2>1, <2>2 DEF UpdateOrderStatus
<1>3. ASSUME NEW id \in Orders, DeleteOrder(id)
      PROVE  NoOrphans'
  BY <1>3 DEF DeleteOrder
<1>4. ASSUME NEW q \in Quantities, NEW id \in Items, NEW o \in orders,
             NEW p \in products, CreateOrderItem(id, o, p, q)
      PROVE  NoOrphans'
  BY <1>4 DEF CreateOrderItem
<1>5. ASSUME NEW q \in Quantities, NEW i \in items,
             UpdateOrderItemQuantity(i, q)
      PROVE  NoOrphans'
  <2> DEFINE row == [i EXCEPT !.quantity = q]
  <2>1. row.order_id = i.order_id /\ row.product_id = i.product_id
    BY DEF TypeOK, ItemRow
  <2> QED
    BY <1>5, <2>1 DEF UpdateOrderItemQuantity
<1>6. ASSUME NEW id \in Items, DeleteOrderItem(id)
      PROVE  NoOrphans'
  BY <1>6 DEF DeleteOrderItem
<1> QED
  BY <1>1, <1>2, <1>3, <1>4, <1>5, <1>6 DEF OrderService

(* No interleaving of creates and deletes leaves an orphan.                *)
THEOREM NoRowOrphaned == Spec => []NoOrphans
<1>1. Init => NoOrphans
  BY DEF Init, NoOrphans
<1>2. TypeOK /\ NoOrphans /\ [Next]_vars => NoOrphans'
  BY UserKeepsRows, ProductKeepsRows, OrderKeepsRows
  DEF Next, NoOrphans, Ids, vars, tables
<1> QED
  BY <1>1, <1>2, CatalogType, PTL DEF Spec

-----------------------------------------------------------------------------
(* ConfirmedOnce needs that identifiers not yet issued are unconfirmed, or *)
(* a row could be created with its deletion already confirmed.             *)

ConfirmInv ==
  /\ ConfirmedOnce
  /\ \A d \in (Orders \cup Items) \ issued : confirmed[d] = 0

(* The rows of orders and items have identifiers of their own.             *)
LEMMA IdsTyped ==
  ASSUME TypeOK
  PROVE  Ids(orders) \subseteq Orders /\ Ids(items) \subseteq Items
BY DEF TypeOK, Ids, OrderRow, ItemRow

(* A statement that confirms nothing, and adds only rows it has issued.    *)
LEMMA Unconfirmed ==
  ASSUME TypeOK, TypeOK', ConfirmInv, confirmed' = confirmed,
         issued \subseteq issued',
         Ids(orders)' \cup Ids(items)'
           \subseteq Ids(orders) \cup Ids(items) \cup (issued' \ issued)
  PROVE  ConfirmInv'
<1>1. Ids(orders)' \subseteq Orders /\ Ids(items)' \subseteq Items
  BY DEF TypeOK, Ids, OrderRow, ItemRow
<1>2. \A d \in Ids(orders)' \cup Ids(items)' : confirmed[d] = 0
  BY <1>1 DEF ConfirmInv, ConfirmedOnce
<1> QED
  BY <1>2 DEF ConfirmInv, ConfirmedOnce

(* A row that is deleted, and confirmed as such.                           *)
LEMMA Confirmed ==
  ASSUME TypeOK, ConfirmInv, issued' = issued,
         NEW id \in Ids(orders) \cup Ids(items), Confirm(id),
         Ids(orders)' \cup Ids(items)'
           \subseteq (Ids(orders) \cup Ids(items)) \ {id}
  PROVE  ConfirmInv'
<1>1. id \in Orders \cup Items /\ id \in issued /\ confirmed[id] = 0
  BY IdsTyped DEF TypeOK, ConfirmInv, ConfirmedOnce
<1>2. \A d \in Orders \cup Items :
        confirmed'[d] = IF d = id THEN 1 ELSE confirmed[d]
  BY <1>1 DEF Confirm, TypeOK
<1>3. Ids(orders) \subseteq Orders /\ Ids(items) \subseteq Items
  BY IdsTyped
<1> QED
  BY <1>1, <1>2, <1>3 DEF ConfirmInv, ConfirmedOnce

LEMMA NextConfirmInv ==
  TypeOK /\ TypeOK' /\ ConfirmInv /\ [Next]_vars => ConfirmInv'
<1> SUFFICES ASSUME TypeOK, TypeOK', ConfirmInv, [Next]_vars PROVE ConfirmInv'
  OBVIOUS
<1>1. CASE UserService
  <2>1. /\ confirmed' = confirmed /\ issued \subseteq issued'
        /\ Ids(orders)' \cup Ids(items)' \subseteq Ids(orders) \cup Ids(items)
    BY <1>1 DEF UserService, CreateUser, UpdateUser, DeleteUser, Issue, Ids
  <2> QED
    BY <2>1, Unconfirmed
<1>2. CASE ProductService
  <2>1. /\ confirmed' = confirmed /\ issued \subseteq issued'
        /\ Ids(orders)' \cup Ids(items)' \subseteq Ids(orders) \cup Ids(items)
    BY <1>2 DEF ProductService, CreateProduct, UpdateProduct, DeleteProduct,
                Issue, Ids
  <2> QED
    BY <2>1, Unconfirmed
<1>3. CASE OrderService
  <2>1. ASSUME NEW id \in Orders, NEW u \in users, CreateOrder(id, u)
        PROVE  ConfirmInv'
    <3>1. /\ confirmed' = confirmed /\ issued \subseteq issued'
          /\ Ids(orders)' \cup Ids(items)'
               \subseteq Ids(orders) \cup Ids(items) \cup (issued' \ issued)
      BY <2>1 DEF CreateOrder, Issue, Ids
    <3> QED
      BY <3>1, Unconfirmed
  <2>2. ASSUME NEW o \in orders, NEW s \in Statuses, UpdateOrderStatus(o, s)
        PROVE  ConfirmInv'
    <3> DEFINE row == [o EXCEPT !.status = s]
    <3>1. row.id = o.id
      BY DEF TypeOK, OrderRow
    <3>2. Ids(orders') = Ids(orders)
      BY <2>2, <3>1, Replace DEF UpdateOrderStatus, TypeOK
    <3> QED
      BY <2>2, <3>2, Unconfirmed DEF UpdateOrderStatus, Ids
  <2>3. ASSUME NEW id \in Orders, DeleteOrder(id)
        PROVE  ConfirmInv'
    <3>1. Ids(items) \subseteq Items /\ id \notin Items
      BY IdsTyped, CatalogAssumption
    <3>2. Ids(orders)' \subseteq Ids(orders) \ {id}
      BY <2>3 DEF DeleteOrder, Ids
    <3>3. Ids(items)' \subseteq Ids(items)
      BY <2>3 DEF DeleteOrder, Ids
    <3> QED
      BY <2>3, <3>1, <3>2, <3>3, Confirmed DEF DeleteOrder
  <2>4. ASSUME NEW q \in Quantities, NEW id \in Items, NEW o \in orders,
               NEW p \in products, CreateOrderItem(id, o, p, q)
        PROVE  ConfirmInv'
    <3>1. /\ confirmed' = confirmed /\ issued \subseteq issued'
          /\ Ids(orders)' \cup Ids(items)'
               \subseteq Ids(orders) \cup Ids(items) \cup (issued' \ issued)
      BY <2>4 DEF CreateOrderItem, Issue, Ids
    <3> QED
      BY <3>1, Unconfirmed
  <2>5. ASSUME NEW q \in Quantities, NEW i \in items,
               UpdateOrderItemQuantity(i, q)
        PROVE  ConfirmInv'
    <3> DEFINE row == [i EXCEPT !.quantity = q]
    <3>1. row.id = i.id
      BY DEF TypeOK, ItemRow
    <3>2. Ids(items') = Ids(items)
      BY <2>5, <3>1, Replace DEF UpdateOrderItemQuantity, TypeOK
    <3> QED
      BY <2>5, <3>2, Unconfirmed DEF UpdateOrderItemQuantity, Ids
  <2>6. ASSUME NEW id \in Items, DeleteOrderItem(id)
        PROVE  ConfirmInv'
    <3>1. Ids(orders) \subseteq Orders /\ id \notin Orders
      BY IdsTyped, CatalogAssumption
    <3>2. Ids(items)' \subseteq Ids(items) \ {id}
      BY <2>6 DEF DeleteOrderItem, Ids
    <3>3. Ids(orders)' = Ids(orders)
      BY <2>6 DEF DeleteOrderItem, Ids
    <3> QED
      BY <2>6, <3>1, <3>2, <3>3, Confirmed DEF DeleteOrderItem
  <2> QED
    BY <1>3, <2>1, <2>2, <2>3, <2>4, <2>5, <2>6 DEF OrderService
<1>4. CASE UNCHANGED vars
  BY <1>4 DEF vars, tables, ConfirmInv, ConfirmedOnce, Ids
<1> QED
  BY <1>1, <1>2, <1>3, <1>4 DEF Next

(* No deletion of an order or item is confirmed twice, nor before it.      *)
THEOREM DeleteConfirmedOnce == Spec => []ConfirmedOnce
<1>1. Init => ConfirmInv
  BY DEF Init, ConfirmInv, ConfirmedOnce, Ids
<1>2. TypeOK /\ TypeOK' /\ ConfirmInv /\ [Next]_vars => ConfirmInv'
  BY NextConfirmInv
<1>3. ConfirmInv => ConfirmedOnce
  BY DEF ConfirmInv
<1> QED
  BY <1>1, <1>2, <1>3, CatalogType, PTL DEF Spec

=============================================================================
