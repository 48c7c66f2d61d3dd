------------------------------ MODULE Messages ------------------------------
(***************************************************************************)
(* The messages of the four gRPC services, as gen/ defines them: one set   *)
(* of records per request and per row a response carries.  A request is    *)
(* tagged with the method it is for.                                       *)
(*                                                                         *)
(* An identifier travels as a string: one of a row, or one uuid.Parse      *)
(* refuses (Malformed).  Any text may be empty.  The texts that decide     *)
(* nothing but whether a request is accepted (password, name, price,       *)
(* total_amount, unit_price) are one field: they may all be good, one may  *)
(* be missing, or unusable further on (a price that is no number, a        *)
(* password bcrypt refuses).  Descriptions and timestamps are left out.    *)
(***************************************************************************)
EXTENDS Events, Integers

CONSTANTS
  Users, Products, Orders, Items,  \* identifiers of rows
  Usernames, Emails, Statuses,     \* texts clients write, none of them empty
  Quantities, Stocks, Limits,      \* int32 values of requests
  Malformed                        \* a string that is no UUID

ASSUME MessagesAssumption ==
  /\ Malformed \notin Users \cup Products \cup Orders \cup Items \cup Event
  /\ "" \notin Usernames \cup Emails \cup Statuses
  /\ Quantities \cup Stocks \cup Limits \subseteq Int

Id(ids) == ids \cup {Malformed}
Text(values) == values \cup {""}
Texts == {"good", "missing", "unusable"}

EventStatusV2 ==
  {"EVENT_STATUS_UNSPECIFIED", "EVENT_STATUS_PENDING", "EVENT_STATUS_PROCESSING",
   "EVENT_STATUS_COMPLETED", "EVENT_STATUS_FAILED"}

-----------------------------------------------------------------------------
(* What responses carry.                                                   *)

User == [id : Users, username : Usernames, email : Emails]
Product == [id : Products, stock_quantity : Stocks \cup {0}]
Order == [id : Orders, user_id : Users,
          status : Text(Statuses) \cup {"pending"}]
OrderItem == [id : Items, order_id : Orders, product_id : Products,
              quantity : Quantities]
EventMessage == [id : Event, event_type : EventType, status_v2 : EventStatusV2]

-----------------------------------------------------------------------------
(* UserService.                                                            *)

CreateUserRequest ==
  [method : {"CreateUser"}, username : Text(Usernames), email : Text(Emails),
   texts : Texts]
GetUserRequest == [method : {"GetUser"}, id : Id(Users)]
GetUserByEmailRequest == [method : {"GetUserByEmail"}, email : Text(Emails)]
ListUsersRequest == [method : {"ListUsers"}]
UpdateUserRequest ==
  [method : {"UpdateUser"}, id : Id(Users), username : Text(Usernames),
   email : Text(Emails)]
DeleteUserRequest == [method : {"DeleteUser"}, id : Id(Users)]

UserServiceRequest ==
  CreateUserRequest \cup GetUserRequest \cup GetUserByEmailRequest
    \cup ListUsersRequest \cup UpdateUserRequest \cup DeleteUserRequest

-----------------------------------------------------------------------------
(* ProductService.                                                         *)

CreateProductRequest ==
  [method : {"CreateProduct"}, stock_quantity : Stocks, texts : Texts]
GetProductRequest == [method : {"GetProduct"}, id : Id(Products)]
ListProductsRequest == [method : {"ListProducts"}]
UpdateProductRequest ==
  [method : {"UpdateProduct"}, id : Id(Products), stock_quantity : Stocks,
   texts : Texts]
DeleteProductRequest == [method : {"DeleteProduct"}, id : Id(Products)]

ProductServiceRequest ==
  CreateProductRequest \cup GetProductRequest \cup ListProductsRequest
    \cup UpdateProductRequest \cup DeleteProductRequest

-----------------------------------------------------------------------------
(* OrderService.                                                           *)

CreateOrderRequest ==
  [method : {"CreateOrder"}, user_id : Id(Users), texts : Texts]
GetOrderRequest == [method : {"GetOrder"}, id : Id(Orders)]
ListOrdersByUserRequest == [method : {"ListOrdersByUser"}, user_id : Id(Users)]
UpdateOrderStatusRequest ==
  [method : {"UpdateOrderStatus"}, id : Id(Orders), status : Text(Statuses)]
DeleteOrderRequest == [method : {"DeleteOrder"}, id : Id(Orders)]
CreateOrderItemRequest ==
  [method : {"CreateOrderItem"}, order_id : Id(Orders), product_id : Id(Products),
   quantity : Quantities, texts : Texts]
GetOrderItemsRequest == [method : {"GetOrderItems"}, order_id : Id(Orders)]
UpdateOrderItemQuantityRequest ==
  [method : {"UpdateOrderItemQuantity"}, id : Id(Items), quantity : Quantities]
DeleteOrderItemRequest == [method : {"DeleteOrderItem"}, id : Id(Items)]

OrderServiceRequest ==
  CreateOrderRequest \cup GetOrderRequest \cup ListOrdersByUserRequest
    \cup UpdateOrderStatusRequest \cup DeleteOrderRequest
    \cup CreateOrderItemRequest \cup GetOrderItemsRequest
    \cup UpdateOrderItemQuantityRequest \cup DeleteOrderItemRequest

-----------------------------------------------------------------------------
(* EventService.                                                           *)

CreateEventRequest ==
  [method : {"CreateEvent"}, event_type : Text(EventType), payload : BOOLEAN]
GetEventRequest == [method : {"GetEvent"}, id : Id(Event)]
PollPendingEventsRequest == [method : {"PollPendingEvents"}, limit : Limits]
UpdateEventStatusRequest ==
  [method : {"UpdateEventStatus"}, id : Id(Event), status_v2 : EventStatusV2]
ListEventsRequest == [method : {"ListEvents"}, limit : Limits, offset : Limits]

EventServiceRequest ==
  CreateEventRequest \cup GetEventRequest \cup PollPendingEventsRequest
    \cup UpdateEventStatusRequest \cup ListEventsRequest

Request ==
  UserServiceRequest \cup ProductServiceRequest \cup OrderServiceRequest
    \cup EventServiceRequest

=============================================================================
