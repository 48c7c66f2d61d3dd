------------------------------ MODULE Services ------------------------------
(***************************************************************************)
(* The four gRPC services as a client meets them: what each RPC answers in *)
(* the present state of the tables (status code and rows), and what it     *)
(* does to them.  The dispatch is that of the generated service            *)
(* descriptors, the answers are those of internal/handler, and the effects *)
(* are the steps of Catalog and of AtLeastOnce.                            *)
(*                                                                         *)
(* A handler makes one SQL statement, so an answer and its effect belong   *)
(* to the same state.  A statement that fails for reasons of its own (no   *)
(* connection, a deadline) is answered Internal as well; callers of this   *)
(* module decide when that happens.                                        *)
(***************************************************************************)
EXTENDS Messages, FiniteSets

CONSTANTS
  ClientStatuses,  \* statuses clients may write over an event's
  NULL

VARIABLES
  users, products, orders, items,  \* the tables of the catalog
  issued, confirmed,               \* bookkeeping of Catalog
  row, topics                      \* the outbox and what is published of it

tables == <<users, products, orders, items, issued, confirmed>>
outbox == <<row, topics>>

Tables == INSTANCE Catalog
Outbox == INSTANCE AtLeastOnce

-----------------------------------------------------------------------------
(* Answers.                                                                *)

OK(body) == [code |-> "OK", body |-> body]
Refused(code) == [code |-> code, body |-> {}]

RowOf(table, id) == {r \in table : r.id = id}

(* gen_random_uuid.                                                        *)
Fresh(ids) == CHOOSE id \in ids : id \notin issued
FreshEvent(type) == CHOOSE e \in Event : row[e] = "absent" /\ TypeOf[e] = type
CanIssue(req) ==
  /\ req.method = "CreateUser" => Users \ issued # {}
  /\ req.method = "CreateProduct" => Products \ issued # {}
  /\ req.method = "CreateOrder" => Orders \ issued # {}
  /\ req.method = "CreateOrderItem" => Items \ issued # {}
  /\ req.method = "CreateEvent" /\ req.event_type # "" =>
       \E e \in Event : row[e] = "absent" /\ TypeOf[e] = req.event_type

(* A read by key: the row, converted, or NotFound.                         *)
ReadOne(rows, ToProto(_)) ==
  IF rows = {} THEN Refused("NotFound") ELSE OK({ToProto(r) : r \in rows})

(* Mutant: the two identifiers in each other's place.                      *)
orderToProtoSwapped(o) == [id |-> o.user_id, user_id |-> o.id, status |-> o.status]

(* The converters: a NULL stock reads as 0.                                *)
userToProto(u) == [id |-> u.id, username |-> u.username, email |-> u.email]
productToProto(p) ==
  [id |-> p.id,
   stock_quantity |-> IF p.stock_quantity = NULL THEN 0 ELSE p.stock_quantity]
orderToProto(o) == [id |-> o.id, user_id |-> o.user_id, status |-> o.status]
orderItemToProto(i) ==
  [id |-> i.id, order_id |-> i.order_id, product_id |-> i.product_id,
   quantity |-> i.quantity]

eventStatusToProto(s) ==
  CASE s = "pending"    -> "EVENT_STATUS_PENDING"
    [] s = "processing" -> "EVENT_STATUS_PROCESSING"
    [] s = "completed"  -> "EVENT_STATUS_COMPLETED"
    [] s = "failed"     -> "EVENT_STATUS_FAILED"
    [] OTHER            -> "EVENT_STATUS_UNSPECIFIED"

(* Its inverse; what no status maps to is "".                              *)
eventStatusFromProto(v2) ==
  IF \E s \in EventStatus : eventStatusToProto(s) = v2
  THEN CHOOSE s \in EventStatus : eventStatusToProto(s) = v2
  ELSE ""

eventToProto(e) ==
  [id |-> e, event_type |-> TypeOf[e], status_v2 |-> eventStatusToProto(row[e])]

-----------------------------------------------------------------------------
(* UserHandler.                                                            *)

CreateUserAnswer(req) ==
  IF "" \in {req.username, req.email} \/ req.texts = "missing"
    THEN Refused("InvalidArgument")
  ELSE IF req.texts = "unusable" \/ ~Tables!Unique(NULL, req.username, req.email)
    THEN Refused("Internal")
  ELSE OK({[id |-> Fresh(Users), username |-> req.username, email |-> req.email]})

GetUserAnswer(req) ==
  IF req.id = Malformed THEN Refused("InvalidArgument")
  ELSE ReadOne(RowOf(users, req.id), userToProto)

GetUserByEmailAnswer(req) ==
  IF req.email = "" THEN Refused("InvalidArgument")
  ELSE ReadOne({u \in users : u.email = req.email}, userToProto)

ListUsersAnswer == OK({userToProto(u) : u \in users})

(* No row is an error of the statement's like any other.                   *)
UpdateUserAnswer(req) ==
  IF req.id = Malformed \/ "" \in {req.username, req.email}
    THEN Refused("InvalidArgument")
  ELSE IF RowOf(users, req.id) = {}
          \/ ~Tables!Unique(req.id, req.username, req.email)
    THEN Refused("Internal")
  ELSE OK({[id |-> req.id, username |-> req.username, email |-> req.email]})

(* Deleting a user who is not there succeeds.                              *)
DeleteUserAnswer(req) ==
  IF req.id = Malformed THEN Refused("InvalidArgument") ELSE OK({})

-----------------------------------------------------------------------------
(* ProductHandler.                                                         *)

CreateProductAnswer(req) ==
  IF req.texts = "missing" THEN Refused("InvalidArgument")
  ELSE IF req.texts = "unusable" THEN Refused("Internal")
  ELSE OK({[id |-> Fresh(Products), stock_quantity |-> req.stock_quantity]})

GetProductAnswer(req) ==
  IF req.id = Malformed THEN Refused("InvalidArgument")
  ELSE ReadOne(RowOf(products, req.id), productToProto)

ListProductsAnswer == OK({productToProto(p) : p \in products})

UpdateProductAnswer(req) ==
  IF req.id = Malformed \/ req.texts = "missing" THEN Refused("InvalidArgument")
  ELSE IF req.texts = "unusable" \/ RowOf(products, req.id) = {} THEN Refused("Internal")
  ELSE OK({[id |-> req.id, stock_quantity |-> req.stock_quantity]})

DeleteProductAnswer(req) ==
  IF req.id = Malformed THEN Refused("InvalidArgument") ELSE OK({})

-----------------------------------------------------------------------------
(* OrderHandler.  A missing parent violates the foreign key: Internal.     *)

CreateOrderAnswer(req) ==
  IF req.user_id = Malformed \/ req.texts = "missing" THEN Refused("InvalidArgument")
  ELSE IF req.texts = "unusable" \/ RowOf(users, req.user_id) = {} THEN Refused("Internal")
  ELSE OK({[id |-> Fresh(Orders), user_id |-> req.user_id, status |-> "pending"]})

GetOrderAnswer(req) ==
  IF req.id = Malformed THEN Refused("InvalidArgument")
  ELSE ReadOne(RowOf(orders, req.id), orderToProto)

ListOrdersByUserAnswer(req) ==
  IF req.user_id = Malformed THEN Refused("InvalidArgument")
  ELSE OK({orderToProto(o) : o \in {p \in orders : p.user_id = req.user_id}})

UpdateOrderStatusAnswer(req) ==
  IF req.id = Malformed \/ req.status = "" THEN Refused("InvalidArgument")
  ELSE IF RowOf(orders, req.id) = {} THEN Refused("Internal")
  ELSE OK({[orderToProto(o) EXCEPT !.status = req.status] :
             o \in RowOf(orders, req.id)})

DeleteOrderAnswer(req) ==
  IF req.id = Malformed THEN Refused("InvalidArgument")
  ELSE IF RowOf(orders, req.id) = {} THEN Refused("NotFound")
  ELSE OK({})

CreateOrderItemAnswer(req) ==
  IF \/ Malformed \in {req.order_id, req.product_id}
     \/ req.texts = "missing" \/ req.quantity <= 0
    THEN Refused("InvalidArgument")
  ELSE IF \/ req.texts = "unusable"
          \/ RowOf(orders, req.order_id) = {} \/ RowOf(products, req.product_id) = {}
    THEN Refused("Internal")
  ELSE OK({[id |-> Fresh(Items), order_id |-> req.order_id,
            product_id |-> req.product_id, quantity |-> req.quantity]})

GetOrderItemsAnswer(req) ==
  IF req.order_id = Malformed THEN Refused("InvalidArgument")
  ELSE OK({orderItemToProto(i) : i \in {j \in items : j.order_id = req.order_id}})

UpdateOrderItemQuantityAnswer(req) ==
  IF req.id = Malformed THEN Refused("InvalidArgument")
  ELSE IF RowOf(items, req.id) = {} THEN Refused("Internal")
  ELSE OK({[orderItemToProto(i) EXCEPT !.quantity = req.quantity] :
             i \in RowOf(items, req.id)})

DeleteOrderItemAnswer(req) ==
  IF req.id = Malformed THEN Refused("InvalidArgument")
  ELSE IF RowOf(items, req.id) = {} THEN Refused("NotFound")
  ELSE OK({})

-----------------------------------------------------------------------------
(* EventHandler.                                                           *)

Committed == {e \in Event : row[e] # "absent"}

(* No payload passes the handler and violates NOT NULL in the table.       *)
CreateEventAnswer(req) ==
  IF req.event_type = "" THEN Refused("InvalidArgument")
  ELSE IF ~req.payload THEN Refused("Internal")
  ELSE OK({[id |-> FreshEvent(req.event_type), event_type |-> req.event_type,
            status_v2 |-> "EVENT_STATUS_PENDING"]})

GetEventAnswer(req) ==
  IF req.id = Malformed THEN Refused("InvalidArgument")
  ELSE ReadOne({e \in Committed : e = req.id}, eventToProto)

(* At most limit of the rows; which ones is a matter of created_at and of  *)
(* row locks, for which see EventTable and EventPaging.                    *)
Some(events, limit) ==
  {eventToProto(e) : e \in
     CHOOSE page \in SUBSET events :
       Cardinality(page) = IF limit < Cardinality(events) THEN limit
                                                          ELSE Cardinality(events)}

PollPendingEventsAnswer(req) ==
  LET limit == IF req.limit <= 0 THEN 10 ELSE req.limit
  IN  OK(Some({e \in Committed : row[e] = "pending"}, limit))

UpdateEventStatusAnswer(req) ==
  LET s == eventStatusFromProto(req.status_v2) IN
  IF req.id = Malformed \/ s = "" THEN Refused("InvalidArgument")
  ELSE IF req.id \notin Committed THEN Refused("NotFound")
  ELSE OK({[eventToProto(req.id) EXCEPT !.status_v2 = eventStatusToProto(s)]})

(* PostgreSQL refuses a negative OFFSET.                                   *)
ListEventsAnswer(req) ==
  LET limit == IF req.limit <= 0 THEN 20 ELSE req.limit
      left == Cardinality(Committed) - req.offset
  IN IF req.offset < 0 THEN Refused("Internal")
     ELSE OK(Some(Committed, IF left < 0 THEN 0 ELSE IF left < limit THEN left ELSE limit))

-----------------------------------------------------------------------------
(* The service descriptors: from a method to its handler.                  *)

UserServiceAnswer(req) ==
  CASE req.method = "CreateUser"     -> CreateUserAnswer(req)
    [] req.method = "GetUser"        -> GetUserAnswer(req)
    [] req.method = "GetUserByEmail" -> GetUserByEmailAnswer(req)
    [] req.method = "ListUsers"      -> ListUsersAnswer
    [] req.method = "UpdateUser"     -> UpdateUserAnswer(req)
    [] req.method = "DeleteUser"     -> DeleteUserAnswer(req)

ProductServiceAnswer(req) ==
  CASE req.method = "CreateProduct" -> CreateProductAnswer(req)
    [] req.method = "GetProduct"    -> GetProductAnswer(req)
    [] req.method = "ListProducts"  -> ListProductsAnswer
    [] req.method = "UpdateProduct" -> UpdateProductAnswer(req)
    [] req.method = "DeleteProduct" -> DeleteProductAnswer(req)

OrderServiceAnswer(req) ==
  CASE req.method = "CreateOrder"       -> CreateOrderAnswer(req)
    [] req.method = "GetOrder"          -> GetOrderAnswer(req)
    [] req.method = "ListOrdersByUser"  -> ListOrdersByUserAnswer(req)
    [] req.method = "UpdateOrderStatus" -> UpdateOrderStatusAnswer(req)
    [] req.method = "DeleteOrder"       -> DeleteOrderAnswer(req)
    [] req.method = "CreateOrderItem"   -> CreateOrderItemAnswer(req)
    [] req.method = "GetOrderItems"     -> GetOrderItemsAnswer(req)
    [] req.method = "UpdateOrderItemQuantity" -> UpdateOrderItemQuantityAnswer(req)
    [] req.method = "DeleteOrderItem"   -> DeleteOrderItemAnswer(req)

EventServiceAnswer(req) ==
  CASE req.method = "CreateEvent"       -> CreateEventAnswer(req)
    [] req.method = "GetEvent"          -> GetEventAnswer(req)
    [] req.method = "PollPendingEvents" -> PollPendingEventsAnswer(req)
    [] req.method = "UpdateEventStatus" -> UpdateEventStatusAnswer(req)
    [] req.method = "ListEvents"        -> ListEventsAnswer(req)

Answer(req) ==
  CASE req \in UserServiceRequest    -> UserServiceAnswer(req)
    [] req \in ProductServiceRequest -> ProductServiceAnswer(req)
    [] req \in OrderServiceRequest   -> OrderServiceAnswer(req)
    [] req \in EventServiceRequest   -> EventServiceAnswer(req)

-----------------------------------------------------------------------------
(* What an accepted request does: the steps of Catalog and AtLeastOnce.    *)

UserServiceEffect(req) ==
  \/ /\ req.method = "CreateUser"
     /\ Tables!CreateUser(Fresh(Users), req.username, req.email)
  \/ /\ req.method = "UpdateUser"
     /\ \E u \in RowOf(users, req.id) : Tables!UpdateUser(u, req.username, req.email)
  \/ /\ req.method = "DeleteUser"
     /\ \/ \E u \in RowOf(users, req.id) : Tables!DeleteUser(u)
        \/ RowOf(users, req.id) = {} /\ UNCHANGED tables

ProductServiceEffect(req) ==
  \/ /\ req.method = "CreateProduct"
     /\ Tables!CreateProduct(Fresh(Products), req.stock_quantity)
  \/ /\ req.method = "UpdateProduct"
     /\ \E p \in RowOf(products, req.id) : Tables!UpdateProduct(p, req.stock_quantity)
  \/ /\ req.method = "DeleteProduct"
     /\ \/ \E p \in RowOf(products, req.id) : Tables!DeleteProduct(p)
        \/ RowOf(products, req.id) = {} /\ UNCHANGED tables

OrderServiceEffect(req) ==
  \/ /\ req.method = "CreateOrder"
     /\ \E u \in RowOf(users, req.user_id) : Tables!CreateOrder(Fresh(Orders), u)
  \/ /\ req.method = "UpdateOrderStatus"
     /\ \E o \in RowOf(orders, req.id) : Tables!UpdateOrderStatus(o, req.status)
  \/ req.method = "DeleteOrder" /\ Tables!DeleteOrder(req.id)
  \/ /\ req.method = "CreateOrderItem"
     /\ \E o \in RowOf(orders, req.order_id), p \in RowOf(products, req.product_id) :
          Tables!CreateOrderItem(Fresh(Items), o, p, req.quantity)
  \/ /\ req.method = "UpdateOrderItemQuantity"
     /\ \E i \in RowOf(items, req.id) : Tables!UpdateOrderItemQuantity(i, req.quantity)
  \/ req.method = "DeleteOrderItem" /\ Tables!DeleteOrderItem(req.id)

EventServiceEffect(req) ==
  \/ req.method = "CreateEvent" /\ Outbox!Submit(FreshEvent(req.event_type))
  \/ /\ req.method = "UpdateEventStatus"
     /\ Outbox!Relabel(req.id, eventStatusFromProto(req.status_v2))

Writes ==
  {"CreateUser", "UpdateUser", "DeleteUser",
   "CreateProduct", "UpdateProduct", "DeleteProduct",
   "CreateOrder", "UpdateOrderStatus", "DeleteOrder",
   "CreateOrderItem", "UpdateOrderItemQuantity", "DeleteOrderItem",
   "CreateEvent", "UpdateEventStatus"}

(* The server handles req.  What it answers in this state is Answer(req).  *)
Execute(req) ==
  /\ CanIssue(req)  \* bound
  /\ IF Answer(req).code = "OK" /\ req.method \in Writes
     THEN \/ /\ \/ UserServiceEffect(req)
                \/ ProductServiceEffect(req)
                \/ OrderServiceEffect(req)
             /\ UNCHANGED outbox
          \/ EventServiceEffect(req) /\ UNCHANGED tables
     ELSE UNCHANGED <<tables, outbox>>

=============================================================================
