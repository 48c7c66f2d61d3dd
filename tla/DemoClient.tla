----------------------------- MODULE DemoClient -----------------------------
(***************************************************************************)
(* cmd/client: a program that creates a user, a product, an order and an   *)
(* item, reads them back, changes them, deletes them in dependency order,  *)
(* and then creates an event and polls until the outbox has published it.  *)
(*                                                                         *)
(* Any number of them run against the same server, next to clients that    *)
(* send what OthersAsk lists.  All calls but the polling share one context *)
(* of 30 s; a call that fails is logged and the program goes on.  A call   *)
(* can fail at the client and still be executed: before the error, or at   *)
(* any time after it, when the client has gone on.                         *)
(***************************************************************************)
EXTENDS Services, SequencesExt

CONSTANTS
  Client,     \* running copies of the program
  OthersAsk,  \* requests of other clients
  MaxLost     \* bound: calls that fail in transit before the deadline

ASSUME DemoAssumption ==
  /\ {"testuser", "updateduser"} \subseteq Usernames
  /\ {"testuser@example.com", "updated@example.com"} \subseteq Emails
  /\ {100, 200} \subseteq Stocks /\ 2 \in Quantities /\ "completed" \in Statuses
  /\ "user.signup" \in EventType
  /\ OthersAsk \subseteq Request
  /\ Orders \cap Items = {}
  /\ NULL \notin Int /\ NULL \notin Users \cup Products \cup Orders \cup Items \cup Event
  /\ MaxLost \in Nat

VARIABLES
  step,     \* per client: its position in the plan
  known,    \* per client: the identifiers it has learnt, NULL if not
  expired,  \* clients whose 30 s context is done
  pollOver, \* clients whose polling context is done
  late,     \* requests the client has given up on and the server may execute
  failed,   \* history: per client, the calls that were not answered OK
  made,     \* history: per client, the identifiers issued to its requests
  lost      \* calls that failed in transit so far

clientVars == <<step, known, expired, pollOver, failed, lost>>
vars == <<tables, outbox, clientVars, late, made>>

Kind == {"user", "product", "order", "item", "event"}

UserSection == <<"CreateUser", "ListUsers", "GetUser", "GetUserByEmail", "UpdateUser">>
ProductSection == <<"CreateProduct", "ListProducts", "GetProduct", "UpdateProduct">>
OrderSection ==
  <<"CreateOrder", "CreateOrderItem", "GetOrder", "GetOrderItems",
    "ListOrdersByUser", "UpdateOrderStatus">>
Cleanup == <<"FindItem", "DeleteOrderItem", "DeleteOrder", "DeleteProduct", "DeleteUser">>

Script == UserSection \o ProductSection \o OrderSection \o Cleanup \o <<"CreateEvent">>

(* What follows the script: the polling loop, the look at its context, and *)
(* the exits.                                                              *)
Plan == Script \o <<"poll", "check", "exit0", "exit1">>
Exited == {"exit0", "exit1"}
Position(label) == CHOOSE i \in DOMAIN Plan : Plan[i] = label
Label(c) == Plan[step[c]]
Scripted(c) == step[c] \in DOMAIN Script

TypeOK ==
  /\ Tables!TypeOK /\ Outbox!TypeOK
  /\ step \in [Client -> DOMAIN Plan]
  /\ \A c \in Client :
       /\ known[c].user \in Users \cup {NULL}
       /\ known[c].product \in Products \cup {NULL}
       /\ known[c].order \in Orders \cup {NULL}
       /\ known[c].item \in Items \cup {NULL}
       /\ known[c].event \in Event \cup {NULL}
       /\ Label(c) \in {"poll", "check", "exit0"} => known[c].event # NULL
  /\ expired \subseteq Client /\ pollOver \subseteq Client
  /\ \A l \in late : l.client \in Client /\ l.request \in Request
  /\ \A c \in Client : made[c] \subseteq issued

Init ==
  /\ Tables!Init /\ Outbox!Init
  /\ step = [c \in Client |-> 1]
  /\ known = [c \in Client |-> [k \in Kind |-> NULL]]
  /\ expired = {} /\ pollOver = {} /\ late = {} /\ lost = 0
  /\ failed = [c \in Client |-> {}]
  /\ made = [c \in Client |-> {}]

-----------------------------------------------------------------------------
(* The calls of the script, section by section, and what each needs to     *)
(* know: a call whose identifiers are missing is skipped.                  *)

UserCall(label, id) ==
  CASE label = "CreateUser" ->
         [method |-> label, username |-> "testuser",
          email |-> "testuser@example.com", texts |-> "good"]
    [] label = "ListUsers" -> [method |-> label]
    [] label = "GetUser" -> [method |-> label, id |-> id.user]
    [] label = "GetUserByEmail" -> [method |-> label, email |-> "testuser@example.com"]
    [] label = "UpdateUser" ->
         [method |-> label, id |-> id.user, username |-> "updateduser",
          email |-> "updated@example.com"]

ProductCall(label, id) ==
  CASE label = "CreateProduct" ->
         [method |-> label, stock_quantity |-> 100, texts |-> "good"]
    [] label = "ListProducts" -> [method |-> label]
    [] label = "GetProduct" -> [method |-> label, id |-> id.product]
    [] label = "UpdateProduct" ->
         [method |-> label, id |-> id.product, stock_quantity |-> 200, texts |-> "good"]

OrderCall(label, id) ==
  CASE label = "CreateOrder" ->
         [method |-> label, user_id |-> id.user, texts |-> "good"]
    [] label = "CreateOrderItem" ->
         [method |-> label, order_id |-> id.order, product_id |-> id.product,
          quantity |-> 2, texts |-> "good"]
    [] label = "GetOrder" -> [method |-> label, id |-> id.order]
    [] label = "GetOrderItems" -> [method |-> label, order_id |-> id.order]
    [] label = "ListOrdersByUser" -> [method |-> label, user_id |-> id.user]
    [] label = "UpdateOrderStatus" ->
         [method |-> label, id |-> id.order, status |-> "completed"]

CleanupCall(label, id) ==
  CASE label = "FindItem" -> [method |-> "GetOrderItems", order_id |-> id.order]
    [] label = "DeleteOrderItem" -> [method |-> label, id |-> id.item]
    [] label = "DeleteOrder" -> [method |-> label, id |-> id.order]
    [] label = "DeleteProduct" -> [method |-> label, id |-> id.product]
    [] label = "DeleteUser" -> [method |-> label, id |-> id.user]

EventCall == [method |-> "CreateEvent", event_type |-> "user.signup", payload |-> TRUE]

Call(label, id) ==
  CASE label \in ToSet(UserSection)    -> UserCall(label, id)
    [] label \in ToSet(ProductSection) -> ProductCall(label, id)
    [] label \in ToSet(OrderSection)   -> OrderCall(label, id)
    [] label \in ToSet(Cleanup)        -> CleanupCall(label, id)
    [] OTHER                           -> EventCall

(* Mutant: the product is deleted only if there is an order.               *)
NeedsOrderThroughout(label) ==
  CASE label \in {"GetUser", "UpdateUser", "CreateOrder", "ListOrdersByUser",
                  "DeleteUser"} -> {"user"}
    [] label \in {"GetProduct", "UpdateProduct"} -> {"product"}
    [] label \in {"CreateOrderItem", "DeleteProduct"} -> {"order", "product"}
    [] label \in {"GetOrder", "GetOrderItems", "UpdateOrderStatus", "FindItem",
                  "DeleteOrder"} -> {"order"}
    [] label = "DeleteOrderItem" -> {"item"}
    [] OTHER -> {}

Needs(label) ==
  CASE label \in {"GetUser", "UpdateUser", "CreateOrder", "ListOrdersByUser",
                  "DeleteUser"} -> {"user"}
    [] label \in {"GetProduct", "UpdateProduct", "DeleteProduct"} -> {"product"}
    [] label = "CreateOrderItem" -> {"order", "product"}
    [] label \in {"GetOrder", "GetOrderItems", "UpdateOrderStatus", "FindItem",
                  "DeleteOrder"} -> {"order"}
    [] label = "DeleteOrderItem" -> {"item"}
    [] OTHER -> {}

Applies(c) == Scripted(c) /\ \A k \in Needs(Label(c)) : known[c][k] # NULL
Req(c) == Call(Label(c), known[c])

(* What the client remembers of an answer.                                 *)
Learn(c, label, body) ==
  LET kind == CASE label = "CreateUser"    -> "user"
                [] label = "CreateProduct" -> "product"
                [] label = "CreateOrder"   -> "order"
                [] label = "FindItem"      -> "item"
                [] label = "CreateEvent"   -> "event"
                [] OTHER                   -> "nothing"
  IN IF kind = "nothing" \/ body = {} THEN UNCHANGED known
     ELSE \E m \in body : known' = [known EXCEPT ![c][kind] = m.id]

(* Mutant: polls for an event that was never created.                      *)
AdvanceRegardless(c, ok) == step' = [step EXCEPT ![c] = @ + 1]

(* On to the next call; without an event to poll for, main exits with 1.   *)
Advance(c, ok) ==
  step' = [step EXCEPT ![c] =
             IF Label(c) = "CreateEvent" /\ ~ok THEN Position("exit1") ELSE @ + 1]

Note(c, ok) ==
  failed' = IF ok THEN failed ELSE [failed EXCEPT ![c] = @ \cup {Label(c)}]

ExecuteFor(c, req) ==
  /\ Execute(req)
  /\ made' = [made EXCEPT ![c] = @ \cup (issued' \ issued)]

-----------------------------------------------------------------------------
(* The script.                                                             *)

Skip(c) ==
  /\ Scripted(c) /\ ~Applies(c)
  /\ Advance(c, FALSE)
  /\ UNCHANGED <<tables, outbox, known, expired, pollOver, late, failed, made, lost>>

(* The call is executed and its answer arrives: OK or a status error.      *)
Answered(c) ==
  /\ Applies(c) /\ c \notin expired
  /\ ExecuteFor(c, Req(c))
  /\ LET answer == Answer(Req(c)) IN
       /\ Learn(c, Label(c), answer.body)
       /\ Advance(c, answer.code = "OK")
       /\ Note(c, answer.code = "OK")
  /\ UNCHANGED <<expired, pollOver, late, lost>>

GiveUp(c) ==
  /\ Advance(c, FALSE)
  /\ Note(c, FALSE)
  /\ UNCHANGED <<tables, outbox, known, pollOver, made>>

(* The call fails in transit.  Whether the server has the request is open. *)
Lost(c) ==
  /\ Applies(c) /\ c \notin expired /\ lost < MaxLost
  /\ lost' = lost + 1
  /\ late' \in {late, late \cup {[client |-> c, request |-> Req(c)]}}
  /\ GiveUp(c)
  /\ UNCHANGED expired

(* The 30 s are over: the call under way fails,                            *)
Expire(c) ==
  /\ Applies(c) /\ c \notin expired
  /\ expired' = expired \cup {c}
  /\ late' \in {late, late \cup {[client |-> c, request |-> Req(c)]}}
  /\ GiveUp(c)
  /\ UNCHANGED lost

(* and so do all that follow, unsent.                                      *)
FailsUnsent(c) ==
  /\ Applies(c) /\ c \in expired
  /\ GiveUp(c)
  /\ UNCHANGED <<expired, late, lost>>

ExecuteLate(l) ==
  /\ l \in late
  /\ late' = late \ {l}
  /\ ExecuteFor(l.client, l.request)
  /\ UNCHANGED clientVars

-----------------------------------------------------------------------------
(* The polling loop, under a context of its own.                           *)

Goto(c, label) ==
  /\ step' = [step EXCEPT ![c] = Position(label)]
  /\ UNCHANGED <<tables, outbox, known, expired, pollOver, late, failed, made, lost>>

(* Mutant: leaves the loop for any status that is not PENDING.             *)
PollStopsEarly(c) ==
  /\ Label(c) = "poll" /\ c \notin pollOver
  /\ \E m \in Answer([method |-> "GetEvent", id |-> known[c].event]).body :
       Goto(c, IF m.status_v2 = "EVENT_STATUS_FAILED" THEN "exit1"
               ELSE IF m.status_v2 = "EVENT_STATUS_PENDING" THEN "poll" ELSE "check")

(* GetEvent answers; one that fails or says anything else is repeated.     *)
Polled(c) ==
  /\ Label(c) = "poll" /\ c \notin pollOver
  /\ \E m \in Answer([method |-> "GetEvent", id |-> known[c].event]).body :
       \/ m.status_v2 = "EVENT_STATUS_COMPLETED" /\ Goto(c, "check")
       \/ m.status_v2 = "EVENT_STATUS_FAILED" /\ Goto(c, "exit1")

PollOver(c) ==
  /\ Label(c) \in {"poll", "check"} /\ c \notin pollOver
  /\ pollOver' = pollOver \cup {c}
  /\ UNCHANGED <<tables, outbox, step, known, expired, late, failed, made, lost>>

(* Mutant: the loop does not look at its context.                          *)
PollEndsUnchecked(c) == Label(c) = "check" /\ Goto(c, "exit0")

(* The context is looked at once more after the loop: an event seen        *)
(* COMPLETED too late counts as a timeout.                                 *)
PollEnds(c) ==
  \/ Label(c) \in {"poll", "check"} /\ c \in pollOver /\ Goto(c, "exit1")
  \/ Label(c) = "check" /\ c \notin pollOver /\ Goto(c, "exit0")

-----------------------------------------------------------------------------
(* The pipeline, and the other clients.                                    *)

Pipeline(e) ==
  /\ Outbox!Publish(e) \/ Outbox!Complete(e) \/ Outbox!Fail(e)
  /\ Len(topics'[TypeOf[e]]) <= Cardinality(Client)  \* bound
  /\ UNCHANGED <<tables, clientVars, late, made>>

Others(req) ==
  /\ Execute(req)
  /\ UNCHANGED <<clientVars, late, made>>

Next ==
  \/ \E c \in Client :
       \/ Skip(c) \/ Answered(c) \/ Lost(c) \/ Expire(c) \/ FailsUnsent(c)
       \/ Polled(c) \/ PollOver(c) \/ PollEnds(c)
  \/ \E l \in late : ExecuteLate(l)
  \/ \E e \in Event : Pipeline(e)
  \/ \E req \in OthersAsk : Others(req)

Spec == Init /\ [][Next]_vars

(* Time passes, and what needs no answer is done.  No call need ever be    *)
(* answered, and no event ever be published.                               *)
Fairness ==
  \A c \in Client :
    WF_vars(Skip(c) \/ Expire(c) \/ FailsUnsent(c) \/ PollOver(c) \/ PollEnds(c))

FairSpec == Spec /\ Fairness

-----------------------------------------------------------------------------
(* Properties.                                                             *)

Done(c) == ~Scripted(c)

(* The deletes cover for each other: a row a client created is still there *)
(* when it is done only if every call that would have removed it failed,   *)
(* its own delete and each delete whose cascade reaches it, or if the      *)
(* client never learnt that its create was executed.  An item's own delete *)
(* does not count: the client deletes the item GetOrderItems gives it, so  *)
(* without that answer there is no such call, and the three cascades       *)
(* remove the item anyway.  All this holds whatever other clients do and   *)
(* however late an abandoned call is executed.                             *)
NothingLeftBehind ==
  \A c \in Client : Done(c) =>
    /\ \A u \in users : u.id \in made[c] =>
         failed[c] \cap {"CreateUser", "DeleteUser"} # {}
    /\ \A p \in products : p.id \in made[c] =>
         failed[c] \cap {"CreateProduct", "DeleteProduct"} # {}
    /\ \A o \in orders : o.id \in made[c] =>
         /\ "DeleteUser" \in failed[c]
         /\ failed[c] \cap {"CreateOrder", "DeleteOrder"} # {}
    /\ \A i \in items : i.id \in made[c] =>
         {"DeleteOrder", "DeleteProduct", "DeleteUser"} \subseteq failed[c]

(* What a client wrote it reads: when it is about to read, the answer it   *)
(* would get is the row as it left it, if its writes were answered.  An    *)
(* abandoned call of its own that is executed later changes none of it.    *)
ReadsOwnWrites ==
  \A c \in Client : Applies(c) /\ c \notin expired =>
    LET answer == Answer(Req(c)) IN
    /\ Label(c) = "GetUser" =>
         answer = OK({[id |-> known[c].user, username |-> "testuser",
                       email |-> "testuser@example.com"]})
    /\ Label(c) = "GetProduct" =>
         answer = OK({[id |-> known[c].product, stock_quantity |-> 100]})
    /\ Label(c) = "GetOrder" =>
         answer = OK({[id |-> known[c].order, user_id |-> known[c].user,
                       status |-> "pending"]})
    /\ Label(c) = "FindItem" /\ "CreateOrderItem" \notin failed[c]
         /\ known[c].product # NULL => Cardinality(answer.body) = 1

(* It holds where no other client changes or deletes rows, or adds to an   *)
(* order, that are not its own.                                            *)
NobodyElseChanges ==
  \A req \in OthersAsk : req.method \notin
    {"UpdateUser", "DeleteUser", "UpdateProduct", "DeleteProduct",
     "UpdateOrderStatus", "DeleteOrder", "CreateOrderItem", "DeleteOrderItem"}

(* main returns 0 only if the event it created has a record in its topic.  *)
ExitZeroPublished ==
  \A c \in Client : Label(c) = "exit0" => Outbox!Delivered(known[c].event)

(* Its strengthening, where no other client writes COMPLETED: what is      *)
(* COMPLETED has a record, and a client past its script has an event, with *)
(* a record if it is past the polling loop.                                *)
NobodyElseCompletes ==
  \A req \in OthersAsk : req.method = "UpdateEventStatus" =>
    req.status_v2 # "EVENT_STATUS_COMPLETED"

ExitInv ==
  /\ Outbox!TopicsTypeOK /\ row = [e \in Event |-> row[e]]
  /\ step \in [Client -> DOMAIN Plan]
  /\ known = [c \in Client |-> [k \in Kind |-> known[c][k]]]
  /\ \A l \in late : l.request.method # "UpdateEventStatus"
  /\ \A e \in Event : row[e] = "completed" => Outbox!Delivered(e)
  /\ \A c \in Client :
       /\ Label(c) \in {"poll", "check", "exit0"} => known[c].event \in Event
       /\ Label(c) \in {"check", "exit0"} => Outbox!Delivered(known[c].event)

(* Whatever hangs, the two deadlines end the program.                      *)
ClientEnds == \A c \in Client : <>(Label(c) \in Exited)

=============================================================================
