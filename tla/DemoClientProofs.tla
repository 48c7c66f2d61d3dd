-------------------------- MODULE DemoClientProofs --------------------------
(***************************************************************************)
(* Theorems about the demo client, for any clients, identifiers, requests  *)
(* of other clients and calls lost.                                        *)
(***************************************************************************)
EXTENDS DemoClient, SequenceTheorems, FiniteSetTheorems, TLAPS

-----------------------------------------------------------------------------
(* The plan: what follows the script, and where its calls lead.            *)

CallLabel ==
  {"CreateUser", "ListUsers", "GetUser", "GetUserByEmail", "UpdateUser",
   "CreateProduct", "ListProducts", "GetProduct", "UpdateProduct",
   "CreateOrder", "CreateOrderItem", "GetOrder", "GetOrderItems",
   "ListOrdersByUser", "UpdateOrderStatus",
   "FindItem", "DeleteOrderItem", "DeleteOrder", "DeleteProduct", "DeleteUser",
   "CreateEvent"}
Ending == {"poll", "check", "exit0", "exit1"}

BeforeEvent == UserSection \o ProductSection \o OrderSection \o Cleanup

LEMMA BeforeEventCalls == BeforeEvent \in Seq(CallLabel)
<1>1. UserSection \in Seq(CallLabel)
  BY DEF CallLabel, UserSection
<1>2. ProductSection \in Seq(CallLabel)
  BY DEF CallLabel, ProductSection
<1>3. OrderSection \in Seq(CallLabel)
  BY DEF CallLabel, OrderSection
<1>4. Cleanup \in Seq(CallLabel)
  BY DEF CallLabel, Cleanup
<1>5. UserSection \o ProductSection \in Seq(CallLabel)
  BY <1>1, <1>2, ConcatProperties
<1>6. UserSection \o ProductSection \o OrderSection \in Seq(CallLabel)
  BY <1>3, <1>5, ConcatProperties
<1> QED BY <1>4, <1>6, ConcatProperties DEF BeforeEvent

LEMMA ScriptCalls ==
  /\ Script \in Seq(CallLabel)
  /\ Len(Script) \in Nat /\ DOMAIN Script = 1..Len(Script)
  /\ Len(Script) = Len(BeforeEvent) + 1 /\ Script[Len(Script)] = "CreateEvent"
<1>1. <<"CreateEvent">> \in Seq(CallLabel) /\ Len(<<"CreateEvent">>) = 1
  BY DEF CallLabel
<1>2. Script = BeforeEvent \o <<"CreateEvent">>
  BY DEF Script, BeforeEvent
<1>3. Script \in Seq(CallLabel) /\ Len(Script) = Len(BeforeEvent) + 1
  BY <1>1, <1>2, BeforeEventCalls, ConcatProperties
<1>4. Len(BeforeEvent) \in Nat /\ Len(Script) \in Nat /\ DOMAIN Script = 1..Len(Script)
  BY <1>3, BeforeEventCalls, LenProperties
<1>5. Script[Len(BeforeEvent) + 1] = <<"CreateEvent">>[1]
  BY <1>1, <1>2, <1>4, BeforeEventCalls, ConcatProperties
<1> QED BY <1>3, <1>4, <1>5

LEMMA PlanLayout ==
  /\ Len(Script) \in Nat /\ DOMAIN Script = 1..Len(Script)
  /\ DOMAIN Plan = 1..(Len(Script) + 4)
  /\ \A i \in DOMAIN Script : Plan[i] = Script[i] /\ Plan[i] \in CallLabel
  /\ Plan[Len(Script) + 1] = "poll" /\ Plan[Len(Script) + 2] = "check"
  /\ Plan[Len(Script) + 3] = "exit0" /\ Plan[Len(Script) + 4] = "exit1"
<1> DEFINE Rest == <<"poll", "check", "exit0", "exit1">>
           All == CallLabel \cup Ending
<1>1. Rest \in Seq(All) /\ Len(Rest) = 4
  <2>1. "poll" \in All /\ "check" \in All /\ "exit0" \in All /\ "exit1" \in All
    BY DEF Ending
  <2> HIDE DEF All
  <2> QED BY <2>1
<1>2. Script \in Seq(All) /\ Plan = Script \o Rest
  BY ScriptCalls DEF Plan
<1> HIDE DEF Rest, All
<1>3. /\ Plan \in Seq(All) /\ Len(Plan) = Len(Script) + 4
      /\ \A i \in 1..(Len(Script) + 4) :
           Plan[i] = IF i <= Len(Script) THEN Script[i] ELSE Rest[i - Len(Script)]
  <2>1. /\ Script \o Rest \in Seq(All)
        /\ Len(Script \o Rest) = Len(Script) + Len(Rest)
        /\ \A i \in 1..(Len(Script) + Len(Rest)) :
             (Script \o Rest)[i] =
               IF i <= Len(Script) THEN Script[i] ELSE Rest[i - Len(Script)]
    BY <1>1, <1>2, ConcatProperties
  <2> QED BY <1>1, <1>2, <2>1
<1>4. DOMAIN Plan = 1..(Len(Script) + 4)
  BY <1>3, LenProperties
<1>5. \A i \in DOMAIN Script : Plan[i] = Script[i] /\ Plan[i] \in CallLabel
  BY <1>3, ScriptCalls
<1>6. \A j \in 1..4 : Plan[Len(Script) + j] = Rest[j]
  BY <1>3, ScriptCalls
<1>7. /\ Plan[Len(Script) + 1] = "poll" /\ Plan[Len(Script) + 2] = "check"
      /\ Plan[Len(Script) + 3] = "exit0" /\ Plan[Len(Script) + 4] = "exit1"
  BY <1>6 DEF Rest
<1> QED BY <1>4, <1>5, <1>7, ScriptCalls

LEMMA PositionOfLabel ==
  ASSUME NEW label \in Ending
  PROVE  Position(label) \in DOMAIN Plan /\ Plan[Position(label)] = label
<1>1. \E i \in DOMAIN Plan : Plan[i] = label
  BY PlanLayout DEF Ending
<1> QED BY <1>1 DEF Position

(* After a call comes another call or the polling, and the polling only    *)
(* after the CreateEvent at the end.                                       *)
LEMMA AfterCall ==
  ASSUME NEW i \in DOMAIN Script
  PROVE  /\ i + 1 \in DOMAIN Plan
         /\ Plan[i + 1] \notin {"check", "exit0"}
         /\ Plan[i + 1] = "poll" => Plan[i] = "CreateEvent"
<1>1. i \in 1..Len(Script) /\ Len(Script) \in Nat
  BY PlanLayout
<1>2. CASE i = Len(Script)
  BY <1>1, <1>2, PlanLayout, ScriptCalls
<1>3. CASE i # Len(Script)
  <2>1. i + 1 \in DOMAIN Script
    BY <1>1, <1>3, PlanLayout
  <2> QED BY <1>1, <2>1, PlanLayout DEF CallLabel
<1> QED BY <1>2, <1>3

-----------------------------------------------------------------------------
(* The services, as far as the outbox is concerned.                        *)

(* A request of the EventService is answered by it.                        *)
LEMMA EventServiceAnswers ==
  ASSUME NEW req \in EventServiceRequest
  PROVE  Answer(req) = EventServiceAnswer(req)
<1>1. req.method \in {"CreateEvent", "GetEvent", "PollPendingEvents",
                      "UpdateEventStatus", "ListEvents"}
  BY DEF EventServiceRequest, CreateEventRequest, GetEventRequest,
         PollPendingEventsRequest, UpdateEventStatusRequest, ListEventsRequest
<1>2. req \notin UserServiceRequest
  BY <1>1 DEF UserServiceRequest, CreateUserRequest, GetUserRequest,
       GetUserByEmailRequest, ListUsersRequest, UpdateUserRequest, DeleteUserRequest
<1>3. req \notin ProductServiceRequest
  BY <1>1 DEF ProductServiceRequest, CreateProductRequest, GetProductRequest,
       ListProductsRequest, UpdateProductRequest, DeleteProductRequest
<1>4. req \notin OrderServiceRequest
  BY <1>1 DEF OrderServiceRequest, CreateOrderRequest, GetOrderRequest,
       ListOrdersByUserRequest, UpdateOrderStatusRequest, DeleteOrderRequest,
       CreateOrderItemRequest, GetOrderItemsRequest,
       UpdateOrderItemQuantityRequest, DeleteOrderItemRequest
<1> QED BY <1>2, <1>3, <1>4 DEF Answer

(* GetEvent says COMPLETED of a completed event only.                      *)
LEMMA GetEventIsTruthful ==
  ASSUME NEW e \in Event,
         NEW m \in Answer([method |-> "GetEvent", id |-> e]).body,
         m.status_v2 = "EVENT_STATUS_COMPLETED"
  PROVE  row[e] = "completed"
<1> DEFINE req == [method |-> "GetEvent", id |-> e]
<1>1. req \in EventServiceRequest /\ req.id = e /\ req.method = "GetEvent"
  BY DEF EventServiceRequest, GetEventRequest, Id
<1>2. Answer(req) = GetEventAnswer(req)
  BY <1>1, EventServiceAnswers DEF EventServiceAnswer
<1>3. e # Malformed
  BY MessagesAssumption
<1>4. GetEventAnswer(req).body \subseteq {eventToProto(e)}
  BY <1>1, <1>3 DEF GetEventAnswer, ReadOne, OK, Refused
<1>5. eventStatusToProto(row[e]) = "EVENT_STATUS_COMPLETED"
  BY <1>2, <1>4 DEF eventToProto
<1> QED BY <1>5 DEF eventStatusToProto

(* The client's CreateEvent is answered with an event.                     *)
LEMMA CreateEventNamesOne ==
  ASSUME CanIssue(EventCall)
  PROVE  /\ Answer(EventCall).body # {}
         /\ \A m \in Answer(EventCall).body : m.id \in Event
<1>1. /\ EventCall.method = "CreateEvent" /\ EventCall.event_type = "user.signup"
      /\ "user.signup" # ""
  BY DEF EventCall
<1>2. EventCall \in CreateEventRequest
  <2>1. "user.signup" \in Text(EventType)
    BY DemoAssumption DEF Text
  <2>2. TRUE \in BOOLEAN
    BY Zenon
  <2> QED BY <2>1, <2>2 DEF EventCall, CreateEventRequest
<1>3. EventCall \in EventServiceRequest
  BY <1>2 DEF EventServiceRequest
<1>4. Answer(EventCall) = CreateEventAnswer(EventCall)
  BY <1>1, <1>3, EventServiceAnswers DEF EventServiceAnswer
<1>5. \E e \in Event : row[e] = "absent" /\ TypeOf[e] = "user.signup"
  BY <1>1 DEF CanIssue
<1>6. FreshEvent("user.signup") \in Event
  BY <1>5 DEF FreshEvent
<1>7. EventCall.payload
  BY DEF EventCall
<1>8. CreateEventAnswer(EventCall) =
        OK({[id |-> FreshEvent("user.signup"), event_type |-> "user.signup",
             status_v2 |-> "EVENT_STATUS_PENDING"]})
  BY <1>1, <1>7 DEF CreateEventAnswer
<1>9. Answer(EventCall).body =
        {[id |-> FreshEvent("user.signup"), event_type |-> "user.signup",
          status_v2 |-> "EVENT_STATUS_PENDING"]}
  BY <1>4, <1>8 DEF OK
<1> QED BY <1>6, <1>9

(* What a request does to the outbox.                                      *)
LEMMA ExecuteOutbox ==
  ASSUME NEW req, Execute(req)
  PROVE  \/ UNCHANGED outbox
         \/ Outbox!Submit(FreshEvent(req.event_type))
         \/ /\ req.method = "UpdateEventStatus"
            /\ Outbox!Relabel(req.id, eventStatusFromProto(req.status_v2))
BY DEF Execute, EventServiceEffect

LEMMA OnlyCompletedIsCompleted ==
  ASSUME NEW v2, v2 # "EVENT_STATUS_COMPLETED"
  PROVE  eventStatusFromProto(v2) # "completed"
BY DEF eventStatusFromProto, eventStatusToProto, EventStatus

(* The sections of the script have no call in common.                      *)
LEMMA SectionCalls ==
  /\ ToSet(UserSection) \subseteq
      {"CreateUser", "ListUsers", "GetUser", "GetUserByEmail",
       "UpdateUser"}
  /\ ToSet(ProductSection) \subseteq
      {"CreateProduct", "ListProducts", "GetProduct",
       "UpdateProduct"}
  /\ ToSet(OrderSection) \subseteq
      {"CreateOrder", "CreateOrderItem", "GetOrder",
       "GetOrderItems", "ListOrdersByUser",
       "UpdateOrderStatus"}
  /\ ToSet(Cleanup) \subseteq
      {"FindItem", "DeleteOrderItem", "DeleteOrder",
       "DeleteProduct", "DeleteUser"}
<1>1. ToSet(UserSection) \subseteq
      {"CreateUser", "ListUsers", "GetUser", "GetUserByEmail",
       "UpdateUser"}
  BY DEF ToSet, UserSection
<1>2. ToSet(ProductSection) \subseteq
      {"CreateProduct", "ListProducts", "GetProduct",
       "UpdateProduct"}
  BY DEF ToSet, ProductSection
<1>3. ToSet(OrderSection) \subseteq
      {"CreateOrder", "CreateOrderItem", "GetOrder",
       "GetOrderItems", "ListOrdersByUser",
       "UpdateOrderStatus"}
  BY DEF ToSet, OrderSection
<1>4. ToSet(Cleanup) \subseteq
      {"FindItem", "DeleteOrderItem", "DeleteOrder",
       "DeleteProduct", "DeleteUser"}
  BY DEF ToSet, Cleanup
<1> QED BY <1>1, <1>2, <1>3, <1>4

(* The script never labels an event.                                       *)
LEMMA ScriptLabelsNoEvent ==
  ASSUME NEW label, NEW id
  PROVE  Call(label, id).method # "UpdateEventStatus"
<1>1. CASE label \in ToSet(UserSection)
  <2>1. Call(label, id) = UserCall(label, id)
    BY <1>1, SectionCalls DEF Call
  <2> QED BY <1>1, <2>1, SectionCalls DEF UserCall
<1>2. CASE label \in ToSet(ProductSection)
  <2>1. Call(label, id) = ProductCall(label, id)
    BY <1>2, SectionCalls DEF Call
  <2> QED BY <1>2, <2>1, SectionCalls DEF ProductCall
<1>3. CASE label \in ToSet(OrderSection)
  <2>1. Call(label, id) = OrderCall(label, id)
    BY <1>3, SectionCalls DEF Call
  <2> QED BY <1>3, <2>1, SectionCalls DEF OrderCall
<1>4. CASE label \in ToSet(Cleanup)
  <2>1. Call(label, id) = CleanupCall(label, id)
    BY <1>4, SectionCalls DEF Call
  <2> QED BY <1>4, <2>1, SectionCalls DEF CleanupCall
<1>5. CASE /\ label \notin ToSet(UserSection) /\ label \notin ToSet(ProductSection)
           /\ label \notin ToSet(OrderSection) /\ label \notin ToSet(Cleanup)
  BY <1>5 DEF Call, EventCall
<1> QED BY <1>1, <1>2, <1>3, <1>4, <1>5

-----------------------------------------------------------------------------
(* The invariant, in two halves: the outbox, and the clients.              *)

OutboxPart ==
  /\ Outbox!TopicsTypeOK /\ row = [e \in Event |-> row[e]]
  /\ \A e \in Event : row[e] = "completed" => Outbox!Delivered(e)

ClientPart(c) ==
  /\ Label(c) \in {"poll", "check", "exit0"} => known[c].event \in Event
  /\ Label(c) \in {"check", "exit0"} => Outbox!Delivered(known[c].event)

Kept(e) == Outbox!Delivered(e) => Outbox!Delivered(e)'

LEMMA ProduceKeeps ==
  ASSUME Outbox!TopicsTypeOK, NEW e \in Event, Outbox!Produce(e)
  PROVE  Outbox!TopicsTypeOK' /\ \A f \in Event : Kept(f)
<1>1. /\ topics \in [EventType -> Seq(Event)]
      /\ \A f \in Event : TypeOf[f] \in EventType
  BY EventsAssumption DEF Outbox!TopicsTypeOK
<1>2. topics' = [topics EXCEPT ![TypeOf[e]] = Append(@, e)]
  BY DEF Outbox!Produce, Outbox!TopicForEventType
<1>3. Outbox!TopicsTypeOK'
  BY <1>1, <1>2, AppendProperties DEF Outbox!TopicsTypeOK
<1>4. ASSUME NEW f \in Event
      PROVE  ToSet(topics[TypeOf[f]]) \subseteq ToSet(topics'[TypeOf[f]])
  <2>1. CASE TypeOf[f] = TypeOf[e]
    <3>1. topics'[TypeOf[f]] = Append(topics[TypeOf[f]], e)
      BY <1>1, <1>2, <2>1
    <3> QED BY <1>1, <3>1, AppendProperties DEF ToSet
  <2>2. CASE TypeOf[f] # TypeOf[e]
    BY <1>1, <1>2, <2>2
  <2> QED BY <2>1, <2>2
<1>5. \A f \in Event : Kept(f)
  <2> SUFFICES ASSUME NEW f \in Event, Outbox!Delivered(f)
               PROVE  Outbox!Delivered(f)'
    BY DEF Kept
  <2>1. f \in ToSet(topics[TypeOf[f]])
    BY DEF Outbox!Delivered, Outbox!TopicForEventType, Outbox!ToSet, ToSet
  <2>2. f \in ToSet(topics'[TypeOf[f]])
    BY <1>4, <2>1
  <2> QED BY <2>2 DEF Outbox!Delivered, Outbox!TopicForEventType, Outbox!ToSet, ToSet
<1> QED BY <1>3, <1>5

(* Every step of the outbox that is no label COMPLETED of a client's.      *)
LEMMA OutboxStep ==
  ASSUME OutboxPart,
         \/ UNCHANGED outbox
         \/ \E e : Outbox!Submit(e)
         \/ \E e, s : s # "completed" /\ Outbox!Relabel(e, s)
         \/ \E e \in Event : Outbox!Publish(e) \/ Outbox!Complete(e) \/ Outbox!Fail(e)
  PROVE  OutboxPart' /\ \A e \in Event : Kept(e)
<1>1. ASSUME UNCHANGED topics, NEW e, NEW s, row' = [row EXCEPT ![e] = s],
             s = "completed" => Outbox!Delivered(e)
      PROVE  OutboxPart' /\ \A f \in Event : Kept(f)
  <2>1. \A f : Outbox!Delivered(f)' <=> Outbox!Delivered(f)
    BY <1>1 DEF Outbox!Delivered, Outbox!TopicForEventType
  <2>2. /\ row' = [f \in Event |-> row'[f]]
        /\ \A f \in Event : row'[f] = IF f = e THEN s ELSE row[f]
    BY <1>1 DEF OutboxPart
  <2>3. \A f \in Event : row'[f] = "completed" => Outbox!Delivered(f)'
    BY <1>1, <2>1, <2>2 DEF OutboxPart
  <2>4. Outbox!TopicsTypeOK'
    BY <1>1 DEF OutboxPart, Outbox!TopicsTypeOK
  <2> QED BY <2>1, <2>2, <2>3, <2>4 DEF OutboxPart, Kept
<1>2. CASE UNCHANGED outbox
  BY <1>2 DEF outbox, OutboxPart, Kept, Outbox!TopicsTypeOK, Outbox!Delivered,
       Outbox!TopicForEventType
<1>3. ASSUME NEW e, Outbox!Submit(e) PROVE OutboxPart' /\ \A f \in Event : Kept(f)
  BY <1>1, <1>3 DEF Outbox!Submit
<1>4. ASSUME NEW e, NEW s, s # "completed", Outbox!Relabel(e, s)
      PROVE  OutboxPart' /\ \A f \in Event : Kept(f)
  BY <1>1, <1>4 DEF Outbox!Relabel
<1>5. ASSUME NEW e \in Event, Outbox!Complete(e) \/ Outbox!Fail(e)
      PROVE  OutboxPart' /\ \A f \in Event : Kept(f)
  BY <1>1, <1>5 DEF Outbox!Complete, Outbox!Fail
<1>6. ASSUME NEW e \in Event, Outbox!Publish(e)
      PROVE  OutboxPart' /\ \A f \in Event : Kept(f)
  <2>1. Outbox!Produce(e) /\ row' = row
    BY <1>6 DEF Outbox!Publish
  <2> QED BY <2>1, ProduceKeeps DEF OutboxPart, Kept
<1> QED BY <1>2, <1>3, <1>4, <1>5, <1>6

LEMMA ExecuteStep ==
  ASSUME OutboxPart, NEW req, Execute(req),
         req.method = "UpdateEventStatus" => req.status_v2 # "EVENT_STATUS_COMPLETED"
  PROVE  OutboxPart' /\ \A e \in Event : Kept(e)
BY ExecuteOutbox, OutboxStep, OnlyCompletedIsCompleted

(* A client whose label and event stay, or whose label is not one the      *)
(* invariant speaks of, keeps its part.                                    *)
LEMMA ClientKept ==
  ASSUME ExitInv, \A e \in Event : Kept(e), NEW c \in Client,
         step'[c] = step[c], known'[c] = known[c]
  PROVE  ClientPart(c)'
BY DEF ExitInv, ClientPart, Label, Kept

(* On to the next call.                                                    *)
LEMMA AdvanceStep ==
  ASSUME ExitInv, NEW c \in Client, Scripted(c), NEW ok, Advance(c, ok)
  PROVE  /\ step' \in [Client -> DOMAIN Plan]
         /\ \A d \in Client : d # c => step'[d] = step[d]
         /\ Label(c)' \notin {"check", "exit0"}
         /\ Label(c)' = "poll" => Label(c) = "CreateEvent" /\ ok
<1>1. step \in [Client -> DOMAIN Plan] /\ step[c] \in DOMAIN Script
  BY DEF ExitInv, Scripted
<1>2. CASE Label(c) = "CreateEvent" /\ ~ok
  <2>1. step' = [step EXCEPT ![c] = Position("exit1")]
    BY <1>2 DEF Advance
  <2> QED BY <1>1, <2>1, PositionOfLabel DEF Label, Ending
<1>3. CASE ~(Label(c) = "CreateEvent" /\ ~ok)
  <2>1. step' = [step EXCEPT ![c] = step[c] + 1]
    BY <1>3 DEF Advance
  <2> QED BY <1>1, <1>3, <2>1, AfterCall DEF Label
<1> QED BY <1>2, <1>3

-----------------------------------------------------------------------------
(* The exit code.                                                          *)

LEMMA ExitParts ==
  ExitInv <=> /\ OutboxPart
              /\ step \in [Client -> DOMAIN Plan]
              /\ known = [c \in Client |-> [k \in Kind |-> known[c][k]]]
              /\ \A l \in late : l.request.method # "UpdateEventStatus"
              /\ \A c \in Client : ClientPart(c)
BY DEF ExitInv, OutboxPart, ClientPart

(* A step of one client, c, that leaves its part in place.                 *)
LEMMA ExitClient ==
  ASSUME ExitInv, NEW c \in Client,
         OutboxPart', \A e \in Event : Kept(e),
         step' \in [Client -> DOMAIN Plan],
         \A d \in Client : d # c => step'[d] = step[d] /\ known'[d] = known[d],
         known' = [d \in Client |-> [k \in Kind |-> known'[d][k]]],
         \A l \in late' : l \in late \/ l.request = Req(c),
         ClientPart(c)'
  PROVE  ExitInv'
<1>1. Req(c).method # "UpdateEventStatus"
  BY ScriptLabelsNoEvent DEF Req
<1>2. \A l \in late' : l.request.method # "UpdateEventStatus"
  BY <1>1 DEF ExitInv
<1>3. \A d \in Client : ClientPart(d)'
  BY ClientKept
<1> QED BY <1>2, <1>3 DEF ExitInv, OutboxPart, ClientPart

LEMMA ExitStep == NobodyElseCompletes /\ ExitInv /\ [Next]_vars => ExitInv'
<1> SUFFICES ASSUME NobodyElseCompletes, ExitInv, [Next]_vars PROVE ExitInv'
  OBVIOUS
<1>i. /\ OutboxPart
      /\ step \in [Client -> DOMAIN Plan]
      /\ known = [d \in Client |-> [k \in Kind |-> known[d][k]]]
      /\ \A l \in late : l.request.method # "UpdateEventStatus"
      /\ \A d \in Client : ClientPart(d)
  BY ExitParts
(* The client goes on, with no event and without the outbox.               *)
<1>a. ASSUME NEW c \in Client, Scripted(c), Advance(c, FALSE),
             UNCHANGED <<outbox, known>>,
             \A l \in late' : l \in late \/ l.request = Req(c)
      PROVE  ExitInv'
  <2>1. OutboxPart' /\ \A e \in Event : Kept(e)
    BY <1>a, <1>i, OutboxStep
  <2>2. ClientPart(c)'
    BY <1>a, AdvanceStep DEF ClientPart
  <2> QED BY <1>a, <1>i, <2>1, <2>2, AdvanceStep, ExitClient
<1>1. ASSUME NEW c \in Client, Skip(c) PROVE ExitInv'
  BY <1>a, <1>1 DEF Skip
<1>2. ASSUME NEW c \in Client, Lost(c) \/ Expire(c) \/ FailsUnsent(c) PROVE ExitInv'
  <2>1. Scripted(c) /\ Advance(c, FALSE) /\ UNCHANGED <<outbox, known>>
    BY <1>2 DEF Lost, Expire, FailsUnsent, GiveUp, Applies
  <2>2. \A l \in late' : l \in late \/ l.request = Req(c)
    BY <1>2 DEF Lost, Expire, FailsUnsent
  <2> QED BY <1>a, <2>1, <2>2
<1>3. ASSUME NEW c \in Client, Answered(c) PROVE ExitInv'
  <2> DEFINE answer == Answer(Req(c))
             ok == answer.code = "OK"
  <2>1. /\ Scripted(c) /\ Execute(Req(c)) /\ late' = late
        /\ Learn(c, Label(c), answer.body) /\ Advance(c, ok)
    BY <1>3 DEF Answered, Applies, ExecuteFor
  <2> HIDE DEF ok
  <2>2. OutboxPart' /\ \A e \in Event : Kept(e)
    BY <1>i, <2>1, ExecuteStep, ScriptLabelsNoEvent DEF Req
  <2>3. /\ \A d \in Client : d # c => known'[d] = known[d]
        /\ known' = [d \in Client |-> [k \in Kind |-> known'[d][k]]]
    BY <1>i, <2>1 DEF Learn
  <2>4. ASSUME Label(c)' = "poll" PROVE known'[c].event \in Event
    <3>1. Label(c) = "CreateEvent" /\ ok
      BY <2>1, <2>4, AdvanceStep
    <3>2. Req(c) = EventCall
      BY <3>1, SectionCalls DEF Req, Call
    <3>3. answer.body # {} /\ \A m \in answer.body : m.id \in Event
      BY <2>1, <3>2, CreateEventNamesOne DEF Execute
    <3>4. PICK m \in answer.body : known' = [known EXCEPT ![c]["event"] = m.id]
      BY <2>1, <3>1, <3>3 DEF Learn
    <3> QED BY <1>i, <3>3, <3>4 DEF Kind
  <2>5. ClientPart(c)'
    BY <2>1, <2>4, AdvanceStep DEF ClientPart
  <2> QED BY <1>i, <2>1, <2>2, <2>3, <2>5, AdvanceStep, ExitClient
(* Past the script, nothing but the label changes.                         *)
<1>b. ASSUME NEW c \in Client, NEW label \in Ending, Goto(c, label),
             label \in {"check", "exit0"} =>
               known[c].event \in Event /\ Outbox!Delivered(known[c].event),
             label = "poll" => Label(c) = "poll"
      PROVE  ExitInv'
  <2>1. /\ step' = [step EXCEPT ![c] = Position(label)]
        /\ UNCHANGED <<outbox, known, late>>
    BY <1>b DEF Goto
  <2>2. OutboxPart' /\ \A e \in Event : Kept(e)
    BY <1>i, <2>1, OutboxStep
  <2>3. step' \in [Client -> DOMAIN Plan] /\ Label(c)' = label
    BY <1>i, <2>1, PositionOfLabel DEF Label
  <2>4. ClientPart(c)'
    BY <1>b, <1>i, <2>1, <2>2, <2>3 DEF ClientPart, Kept
  <2> QED BY <1>i, <2>1, <2>2, <2>3, <2>4, ExitClient
<1>4. ASSUME NEW c \in Client, Polled(c) PROVE ExitInv'
  <2>1. known[c].event \in Event
    BY <1>4, <1>i DEF Polled, ClientPart
  <2>2. PICK m \in Answer([method |-> "GetEvent", id |-> known[c].event]).body :
          \/ m.status_v2 = "EVENT_STATUS_COMPLETED" /\ Goto(c, "check")
          \/ m.status_v2 = "EVENT_STATUS_FAILED" /\ Goto(c, "exit1")
    BY <1>4 DEF Polled
  <2>3. CASE m.status_v2 = "EVENT_STATUS_COMPLETED" /\ Goto(c, "check")
    <3>1. row[known[c].event] = "completed"
      BY <2>1, <2>3, GetEventIsTruthful
    <3>2. Outbox!Delivered(known[c].event)
      BY <1>i, <2>1, <3>1 DEF OutboxPart
    <3> QED BY <1>b, <2>1, <2>3, <3>2 DEF Ending
  <2>4. CASE Goto(c, "exit1")
    BY <1>b, <2>4 DEF Ending
  <2> QED BY <2>2, <2>3, <2>4
<1>5. ASSUME NEW c \in Client, PollEnds(c) PROVE ExitInv'
  <2>1. CASE Goto(c, "exit1")
    BY <1>b, <2>1 DEF Ending
  <2>2. CASE Label(c) = "check" /\ Goto(c, "exit0")
    <3>1. known[c].event \in Event /\ Outbox!Delivered(known[c].event)
      BY <1>i, <2>2 DEF ClientPart
    <3> QED BY <1>b, <2>2, <3>1 DEF Ending
  <2> QED BY <1>5, <2>1, <2>2 DEF PollEnds
(* What moves no client.                                                   *)
<1>c. ASSUME UNCHANGED <<step, known>>, late' \subseteq late,
             OutboxPart', \A e \in Event : Kept(e)
      PROVE  ExitInv'
  <2>1. \A c \in Client : ClientPart(c)'
    BY <1>c, ClientKept
  <2> QED BY <1>c, <1>i, <2>1 DEF ExitInv, OutboxPart, ClientPart
<1>6. ASSUME NEW c \in Client, PollOver(c) PROVE ExitInv'
  <2>1. UNCHANGED <<outbox, step, known, late>>
    BY <1>6 DEF PollOver
  <2> QED BY <1>c, <1>i, <2>1, OutboxStep
<1>7. ASSUME NEW l \in late, ExecuteLate(l) PROVE ExitInv'
  <2>1. Execute(l.request) /\ late' \subseteq late /\ UNCHANGED <<step, known>>
    BY <1>7 DEF ExecuteLate, ExecuteFor, clientVars
  <2> QED BY <1>c, <1>i, <2>1, ExecuteStep
<1>8. ASSUME NEW e \in Event, Pipeline(e) PROVE ExitInv'
  <2>1. /\ Outbox!Publish(e) \/ Outbox!Complete(e) \/ Outbox!Fail(e)
        /\ UNCHANGED <<step, known, late>>
    BY <1>8 DEF Pipeline, clientVars
  <2> QED BY <1>c, <1>i, <2>1, OutboxStep
<1>9. ASSUME NEW req \in OthersAsk, Others(req) PROVE ExitInv'
  <2>1. Execute(req) /\ UNCHANGED <<step, known, late>>
    BY <1>9 DEF Others, clientVars
  <2> QED BY <1>c, <1>i, <2>1, ExecuteStep DEF NobodyElseCompletes
<1>10. CASE UNCHANGED vars
  <2>1. UNCHANGED <<outbox, step, known, late>>
    BY <1>10 DEF vars, clientVars
  <2> QED BY <1>c, <1>i, <2>1, OutboxStep
<1> QED
  BY <1>1, <1>2, <1>3, <1>4, <1>5, <1>6, <1>7, <1>8, <1>9, <1>10 DEF Next

(* main returns 0 only when its event has a record in its topic: whatever  *)
(* calls were lost, executed late or cut off by a deadline, and whatever   *)
(* other clients ask for, short of labelling an event COMPLETED.           *)
THEOREM ZeroMeansPublished ==
  ASSUME NobodyElseCompletes
  PROVE  Spec => []ExitZeroPublished
<1>1. Init => ExitInv
  <2> SUFFICES ASSUME Init PROVE ExitInv
    OBVIOUS
  <2>1. Outbox!TopicsTypeOK
    BY EmptySeq DEF Init, Outbox!Init, Outbox!TopicsInit, Outbox!TopicsTypeOK
  <2>2. /\ row = [e \in Event |-> row[e]]
        /\ \A e \in Event : row[e] # "completed"
    BY DEF Init, Outbox!Init
  <2>3. \A c \in Client : step[c] = 1 /\ Label(c) \in CallLabel
    <3>1. 1 \in DOMAIN Script
      BY PlanLayout, ScriptCalls, BeforeEventCalls, LenProperties
    <3> QED BY <3>1, PlanLayout DEF Init, Label
  <2>4. step \in [Client -> DOMAIN Plan]
    BY PlanLayout DEF Init
  <2>5. known = [c \in Client |-> [k \in Kind |-> known[c][k]]] /\ late = {}
    BY DEF Init
  <2> QED BY <2>1, <2>2, <2>3, <2>4, <2>5 DEF ExitInv, CallLabel
<1>2. ExitInv => ExitZeroPublished
  BY DEF ExitInv, ExitZeroPublished
<1>3. ExitInv /\ [Next]_vars => ExitInv'
  BY ExitStep
<1> QED BY <1>1, <1>2, <1>3, PTL DEF Spec

-----------------------------------------------------------------------------
(* The plan, label by label.                                               *)
LEMMA PlanLabels ==
  /\ DOMAIN Script = 1..21 /\ DOMAIN Plan = 1..25
  /\ Plan[1] = "CreateUser" /\ Plan[2] = "ListUsers" /\ Plan[3] = "GetUser"
  /\ Plan[4] = "GetUserByEmail" /\ Plan[5] = "UpdateUser"
  /\ Plan[6] = "CreateProduct" /\ Plan[7] = "ListProducts" /\ Plan[8] = "GetProduct"
  /\ Plan[9] = "UpdateProduct" /\ Plan[10] = "CreateOrder"
  /\ Plan[11] = "CreateOrderItem" /\ Plan[12] = "GetOrder"
  /\ Plan[13] = "GetOrderItems" /\ Plan[14] = "ListOrdersByUser"
  /\ Plan[15] = "UpdateOrderStatus" /\ Plan[16] = "FindItem"
  /\ Plan[17] = "DeleteOrderItem" /\ Plan[18] = "DeleteOrder"
  /\ Plan[19] = "DeleteProduct" /\ Plan[20] = "DeleteUser" /\ Plan[21] = "CreateEvent"
  /\ Plan[22] = "poll" /\ Plan[23] = "check" /\ Plan[24] = "exit0" /\ Plan[25] = "exit1"
BY DEF Plan, Script, UserSection, ProductSection, OrderSection, Cleanup

-----------------------------------------------------------------------------
(* Requests on the tables.  A request is known by its method, and answered *)
(* by the method's handler.                                                *)
UserMethods ==
  {"CreateUser", "GetUser", "GetUserByEmail", "ListUsers", "UpdateUser", "DeleteUser"}
ProductMethods ==
  {"CreateProduct", "GetProduct", "ListProducts", "UpdateProduct", "DeleteProduct"}
OrderMethods ==
  {"CreateOrder", "GetOrder", "ListOrdersByUser", "UpdateOrderStatus", "DeleteOrder",
   "CreateOrderItem", "GetOrderItems", "UpdateOrderItemQuantity", "DeleteOrderItem"}
EventMethods ==
  {"CreateEvent", "GetEvent", "PollPendingEvents", "UpdateEventStatus", "ListEvents"}

LEMMA MethodOfRequest ==
  ASSUME NEW req
  PROVE  /\ req \in UserServiceRequest => req.method \in UserMethods
         /\ req \in ProductServiceRequest => req.method \in ProductMethods
         /\ req \in OrderServiceRequest => req.method \in OrderMethods
         /\ req \in EventServiceRequest => req.method \in EventMethods
<1>1. req \in UserServiceRequest => req.method \in UserMethods
  BY DEF UserMethods, UserServiceRequest, CreateUserRequest, GetUserRequest,
     GetUserByEmailRequest, ListUsersRequest, UpdateUserRequest, DeleteUserRequest
<1>2. req \in ProductServiceRequest => req.method \in ProductMethods
  BY DEF ProductMethods, ProductServiceRequest, CreateProductRequest,
     GetProductRequest, ListProductsRequest, UpdateProductRequest, DeleteProductRequest
<1>3. req \in OrderServiceRequest => req.method \in OrderMethods
  BY DEF OrderMethods, OrderServiceRequest, CreateOrderRequest, GetOrderRequest,
     ListOrdersByUserRequest, UpdateOrderStatusRequest, DeleteOrderRequest,
     CreateOrderItemRequest, GetOrderItemsRequest, UpdateOrderItemQuantityRequest,
     DeleteOrderItemRequest
<1>4. req \in EventServiceRequest => req.method \in EventMethods
  BY DEF EventMethods, EventServiceRequest, CreateEventRequest, GetEventRequest,
     PollPendingEventsRequest, UpdateEventStatusRequest, ListEventsRequest
<1> QED BY <1>1, <1>2, <1>3, <1>4

LEMMA MethodsDiffer ==
  /\ UserMethods \cap ProductMethods = {} /\ UserMethods \cap OrderMethods = {}
  /\ UserMethods \cap EventMethods = {} /\ ProductMethods \cap OrderMethods = {}
  /\ ProductMethods \cap EventMethods = {} /\ OrderMethods \cap EventMethods = {}
BY DEF UserMethods, ProductMethods, OrderMethods, EventMethods

LEMMA ServiceAnswers ==
  ASSUME NEW req \in Request
  PROVE  /\ req.method \in UserMethods =>
              req \in UserServiceRequest /\ Answer(req) = UserServiceAnswer(req)
         /\ req.method \in ProductMethods =>
              req \in ProductServiceRequest /\ Answer(req) = ProductServiceAnswer(req)
         /\ req.method \in OrderMethods =>
              req \in OrderServiceRequest /\ Answer(req) = OrderServiceAnswer(req)
         /\ req.method \in EventMethods =>
              req \in EventServiceRequest /\ Answer(req) = EventServiceAnswer(req)
<1>1. \/ req \in UserServiceRequest \/ req \in ProductServiceRequest
      \/ req \in OrderServiceRequest \/ req \in EventServiceRequest
  BY DEF Request
<1>2. CASE req \in UserServiceRequest
  <2>1. /\ req.method \in UserMethods /\ req.method \notin ProductMethods
        /\ req.method \notin OrderMethods /\ req.method \notin EventMethods
    BY <1>2, MethodOfRequest, MethodsDiffer
  <2>2. Answer(req) = UserServiceAnswer(req)
    BY <1>2, <2>1, MethodOfRequest DEF Answer
  <2> QED BY <1>2, <2>1, <2>2
<1>3. CASE req \in ProductServiceRequest
  <2>1. /\ req.method \in ProductMethods /\ req.method \notin UserMethods
        /\ req.method \notin OrderMethods /\ req.method \notin EventMethods
    BY <1>3, MethodOfRequest, MethodsDiffer
  <2>2. Answer(req) = ProductServiceAnswer(req)
    BY <1>3, <2>1, MethodOfRequest DEF Answer
  <2> QED BY <1>3, <2>1, <2>2
<1>4. CASE req \in OrderServiceRequest
  <2>1. /\ req.method \in OrderMethods /\ req.method \notin UserMethods
        /\ req.method \notin ProductMethods /\ req.method \notin EventMethods
    BY <1>4, MethodOfRequest, MethodsDiffer
  <2>2. Answer(req) = OrderServiceAnswer(req)
    BY <1>4, <2>1, MethodOfRequest DEF Answer
  <2> QED BY <1>4, <2>1, <2>2
<1>5. CASE req \in EventServiceRequest
  <2>1. /\ req.method \in EventMethods /\ req.method \notin UserMethods
        /\ req.method \notin ProductMethods /\ req.method \notin OrderMethods
    BY <1>5, MethodOfRequest, MethodsDiffer
  <2>2. Answer(req) = EventServiceAnswer(req)
    BY <1>5, <2>1, MethodOfRequest DEF Answer
  <2> QED BY <1>5, <2>1, <2>2
<1> QED BY <1>1, <1>2, <1>3, <1>4, <1>5

LEMMA UserRequests ==
  ASSUME NEW req \in Request
  PROVE  /\ req.method = "CreateUser" =>
              req \in CreateUserRequest /\ Answer(req) = CreateUserAnswer(req)
         /\ req.method = "GetUser" =>
              req \in GetUserRequest /\ Answer(req) = GetUserAnswer(req)
         /\ req.method = "UpdateUser" =>
              req \in UpdateUserRequest /\ Answer(req) = UpdateUserAnswer(req)
         /\ req.method = "DeleteUser" =>
              req \in DeleteUserRequest /\ Answer(req) = DeleteUserAnswer(req)
<1>1. req.method \in UserMethods =>
        req \in UserServiceRequest /\ Answer(req) = UserServiceAnswer(req)
  BY ServiceAnswers
<1>2. req \in UserServiceRequest =>
        /\ req.method = "CreateUser" => req \in CreateUserRequest
        /\ req.method = "GetUser" => req \in GetUserRequest
        /\ req.method = "UpdateUser" => req \in UpdateUserRequest
        /\ req.method = "DeleteUser" => req \in DeleteUserRequest
  BY DEF UserServiceRequest, CreateUserRequest, GetUserRequest,
     GetUserByEmailRequest, ListUsersRequest, UpdateUserRequest,
     DeleteUserRequest
<1>3. /\ req.method = "CreateUser" => UserServiceAnswer(req) = CreateUserAnswer(req)
      /\ req.method = "GetUser" => UserServiceAnswer(req) = GetUserAnswer(req)
      /\ req.method = "UpdateUser" => UserServiceAnswer(req) = UpdateUserAnswer(req)
      /\ req.method = "DeleteUser" => UserServiceAnswer(req) = DeleteUserAnswer(req)
  BY DEF UserServiceAnswer
<1> QED BY <1>1, <1>2, <1>3 DEF UserMethods

LEMMA ProductRequests ==
  ASSUME NEW req \in Request
  PROVE  /\ req.method = "CreateProduct" =>
              req \in CreateProductRequest /\ Answer(req) = CreateProductAnswer(req)
         /\ req.method = "GetProduct" =>
              req \in GetProductRequest /\ Answer(req) = GetProductAnswer(req)
         /\ req.method = "UpdateProduct" =>
              req \in UpdateProductRequest /\ Answer(req) = UpdateProductAnswer(req)
         /\ req.method = "DeleteProduct" =>
              req \in DeleteProductRequest /\ Answer(req) = DeleteProductAnswer(req)
<1>1. req.method \in ProductMethods =>
        req \in ProductServiceRequest /\ Answer(req) = ProductServiceAnswer(req)
  BY ServiceAnswers
<1>2. req \in ProductServiceRequest =>
        /\ req.method = "CreateProduct" => req \in CreateProductRequest
        /\ req.method = "GetProduct" => req \in GetProductRequest
        /\ req.method = "UpdateProduct" => req \in UpdateProductRequest
        /\ req.method = "DeleteProduct" => req \in DeleteProductRequest
  BY DEF ProductServiceRequest, CreateProductRequest, GetProductRequest,
     ListProductsRequest, UpdateProductRequest, DeleteProductRequest
<1>3. /\ req.method = "CreateProduct" => ProductServiceAnswer(req) = CreateProductAnswer(req)
      /\ req.method = "GetProduct" => ProductServiceAnswer(req) = GetProductAnswer(req)
      /\ req.method = "UpdateProduct" => ProductServiceAnswer(req) = UpdateProductAnswer(req)
      /\ req.method = "DeleteProduct" => ProductServiceAnswer(req) = DeleteProductAnswer(req)
  BY DEF ProductServiceAnswer
<1> QED BY <1>1, <1>2, <1>3 DEF ProductMethods

LEMMA OrderRequests ==
  ASSUME NEW req \in Request
  PROVE  /\ req.method = "CreateOrder" =>
              req \in CreateOrderRequest /\ Answer(req) = CreateOrderAnswer(req)
         /\ req.method = "GetOrder" =>
              req \in GetOrderRequest /\ Answer(req) = GetOrderAnswer(req)
         /\ req.method = "UpdateOrderStatus" =>
              req \in UpdateOrderStatusRequest /\ Answer(req) = UpdateOrderStatusAnswer(req)
         /\ req.method = "DeleteOrder" =>
              req \in DeleteOrderRequest /\ Answer(req) = DeleteOrderAnswer(req)
         /\ req.method = "CreateOrderItem" =>
              req \in CreateOrderItemRequest /\ Answer(req) = CreateOrderItemAnswer(req)
         /\ req.method = "GetOrderItems" =>
              req \in GetOrderItemsRequest /\ Answer(req) = GetOrderItemsAnswer(req)
         /\ req.method = "UpdateOrderItemQuantity" =>
              req \in UpdateOrderItemQuantityRequest /\ Answer(req) = UpdateOrderItemQuantityAnswer(req)
         /\ req.method = "DeleteOrderItem" =>
              req \in DeleteOrderItemRequest /\ Answer(req) = DeleteOrderItemAnswer(req)
<1>1. req.method \in OrderMethods =>
        req \in OrderServiceRequest /\ Answer(req) = OrderServiceAnswer(req)
  BY ServiceAnswers
<1>2. req \in OrderServiceRequest =>
        /\ req.method = "CreateOrder" => req \in CreateOrderRequest
        /\ req.method = "GetOrder" => req \in GetOrderRequest
        /\ req.method = "UpdateOrderStatus" => req \in UpdateOrderStatusRequest
        /\ req.method = "DeleteOrder" => req \in DeleteOrderRequest
        /\ req.method = "CreateOrderItem" => req \in CreateOrderItemRequest
        /\ req.method = "GetOrderItems" => req \in GetOrderItemsRequest
        /\ req.method = "UpdateOrderItemQuantity" => req \in UpdateOrderItemQuantityRequest
        /\ req.method = "DeleteOrderItem" => req \in DeleteOrderItemRequest
  BY DEF OrderServiceRequest, CreateOrderRequest, GetOrderRequest,
     ListOrdersByUserRequest, UpdateOrderStatusRequest, DeleteOrderRequest,
     CreateOrderItemRequest, GetOrderItemsRequest,
     UpdateOrderItemQuantityRequest, DeleteOrderItemRequest
<1>3. /\ req.method = "CreateOrder" => OrderServiceAnswer(req) = CreateOrderAnswer(req)
      /\ req.method = "GetOrder" => OrderServiceAnswer(req) = GetOrderAnswer(req)
      /\ req.method = "UpdateOrderStatus" =>
           OrderServiceAnswer(req) = UpdateOrderStatusAnswer(req)
      /\ req.method = "DeleteOrder" => OrderServiceAnswer(req) = DeleteOrderAnswer(req)
      /\ req.method = "CreateOrderItem" =>
           OrderServiceAnswer(req) = CreateOrderItemAnswer(req)
      /\ req.method = "GetOrderItems" => OrderServiceAnswer(req) = GetOrderItemsAnswer(req)
      /\ req.method = "UpdateOrderItemQuantity" =>
           OrderServiceAnswer(req) = UpdateOrderItemQuantityAnswer(req)
      /\ req.method = "DeleteOrderItem" =>
           OrderServiceAnswer(req) = DeleteOrderItemAnswer(req)
  BY DEF OrderServiceAnswer
<1> QED BY <1>1, <1>2, <1>3 DEF OrderMethods

(* The identifier a create is given has not been issued before.            *)
LEMMA FreshIds ==
  ASSUME NEW req, CanIssue(req)
  PROVE  /\ req.method = "CreateUser" => Fresh(Users) \in Users \ issued
         /\ req.method = "CreateProduct" => Fresh(Products) \in Products \ issued
         /\ req.method = "CreateOrder" => Fresh(Orders) \in Orders \ issued
         /\ req.method = "CreateOrderItem" => Fresh(Items) \in Items \ issued
BY DEF CanIssue, Fresh

-----------------------------------------------------------------------------
(* What a request does to the tables, without the tables' detail.          *)

TableWrites ==
  {"CreateUser", "UpdateUser", "DeleteUser",
   "CreateProduct", "UpdateProduct", "DeleteProduct",
   "CreateOrder", "UpdateOrderStatus", "DeleteOrder",
   "CreateOrderItem", "UpdateOrderItemQuantity", "DeleteOrderItem"}

Accepted(req) == Answer(req).code = "OK"

LEMMA ExecuteEffect ==
  ASSUME NEW req, Execute(req)
  PROVE  \/ UNCHANGED tables /\ (Accepted(req) => req.method \notin TableWrites)
         \/ /\ Accepted(req)
            /\ UserServiceEffect(req) \/ ProductServiceEffect(req)
                 \/ OrderServiceEffect(req)
<1>1. CASE ~(Answer(req).code = "OK" /\ req.method \in Writes)
  BY <1>1 DEF Execute, Accepted, tables, Writes, TableWrites
<1>2. CASE Answer(req).code = "OK" /\ EventServiceEffect(req) /\ UNCHANGED tables
  BY <1>2 DEF EventServiceEffect, TableWrites
<1> QED BY <1>1, <1>2 DEF Execute, Accepted

(* A row that is there afterwards was there before, with the same parents, *)
(* or has been issued by the create of its table.                          *)
RowsComeFrom(req) ==
  /\ issued \subseteq issued'
  /\ \A u \in users' :
       \/ u.id \in Tables!Ids(users)
       \/ /\ Accepted(req) /\ req.method = "CreateUser"
          /\ u.id = Fresh(Users) /\ u.id \notin issued
  /\ \A p \in products' :
       \/ p.id \in Tables!Ids(products)
       \/ /\ Accepted(req) /\ req.method = "CreateProduct"
          /\ p.id = Fresh(Products) /\ p.id \notin issued
  /\ \A o \in orders' :
       \/ \E old \in orders : old.id = o.id /\ old.user_id = o.user_id
       \/ /\ Accepted(req) /\ req.method = "CreateOrder"
          /\ o.id = Fresh(Orders) /\ o.id \notin issued
          /\ o.user_id = req.user_id
  /\ \A i \in items' :
       \/ \E old \in items : /\ old.id = i.id /\ old.order_id = i.order_id
                             /\ old.product_id = i.product_id
       \/ /\ Accepted(req) /\ req.method = "CreateOrderItem"
          /\ i.id = Fresh(Items) /\ i.id \notin issued
          /\ i.order_id = req.order_id /\ i.product_id = req.product_id

(* A row that was there is still there, unless it or a row it hangs on was *)
(* changed or deleted.                                                     *)
RowsStay(req) ==
  /\ \A u \in users :
       u \in users' \/ (req.method \in {"UpdateUser", "DeleteUser"} /\ req.id = u.id)
  /\ \A p \in products :
       \/ p \in products'
       \/ req.method \in {"UpdateProduct", "DeleteProduct"} /\ req.id = p.id
  /\ \A o \in orders :
       \/ o \in orders'
       \/ req.method \in {"UpdateOrderStatus", "DeleteOrder"} /\ req.id = o.id
       \/ req.method = "DeleteUser" /\ req.id = o.user_id
  /\ \A i \in items :
       \/ \E new \in items' : /\ new.id = i.id /\ new.order_id = i.order_id
                              /\ new.product_id = i.product_id
       \/ req.method = "DeleteOrderItem" /\ req.id = i.id
       \/ req.method = "DeleteOrder" /\ req.id = i.order_id
       \/ req.method = "DeleteProduct" /\ req.id = i.product_id
       \/ /\ req.method = "DeleteUser"
          /\ \E o \in orders : o.id = i.order_id /\ o.user_id = req.id

(* What was accepted is done.                                              *)
RowsDone(req) ==
  Accepted(req) =>
    /\ req.method = "CreateUser" =>
         [id |-> Fresh(Users), username |-> req.username, email |-> req.email] \in users'
    /\ req.method = "CreateProduct" =>
         [id |-> Fresh(Products), stock_quantity |-> req.stock_quantity] \in products'
    /\ req.method = "CreateOrder" =>
         [id |-> Fresh(Orders), user_id |-> req.user_id, status |-> "pending"] \in orders'
    /\ req.method = "CreateOrderItem" =>
         \E i \in items' : /\ i.id = Fresh(Items) /\ i.order_id = req.order_id
                           /\ i.product_id = req.product_id
    /\ req.method = "DeleteUser" => req.id \notin Tables!Ids(users')
    /\ req.method = "DeleteProduct" => req.id \notin Tables!Ids(products')
    /\ req.method = "DeleteOrder" => req.id \notin Tables!Ids(orders')

LEMMA Effects ==
  ASSUME Tables!TypeOK, NEW req \in Request, Execute(req)
  PROVE  RowsComeFrom(req) /\ RowsStay(req) /\ RowsDone(req)
<1> USE DEF RowOf, Tables!Ids
<1>k. /\ \A a, b \in users : a.id = b.id => a = b
      /\ \A a, b \in products : a.id = b.id => a = b
      /\ \A a, b \in orders : a.id = b.id => a = b
      /\ \A a, b \in items : a.id = b.id => a = b
  BY DEF Tables!TypeOK, Tables!Key
<1>1. CASE UNCHANGED tables /\ (Accepted(req) => req.method \notin TableWrites)
  BY <1>1 DEF tables, TableWrites, RowsComeFrom, RowsStay, RowsDone
<1>2. CASE Accepted(req) /\ UserServiceEffect(req)
  <2>1. CASE /\ req.method = "CreateUser"
             /\ Tables!CreateUser(Fresh(Users), req.username, req.email)
    BY <1>2, <2>1 DEF Tables!CreateUser, Tables!Issue, RowsComeFrom, RowsStay, RowsDone
  <2>2. ASSUME req.method = "UpdateUser", NEW u \in RowOf(users, req.id),
               Tables!UpdateUser(u, req.username, req.email)
        PROVE  RowsComeFrom(req) /\ RowsStay(req) /\ RowsDone(req)
    BY <1>2, <1>k, <2>2 DEF Tables!UpdateUser, RowsComeFrom, RowsStay, RowsDone
  <2>3. ASSUME req.method = "DeleteUser", NEW u \in RowOf(users, req.id),
               Tables!DeleteUser(u)
        PROVE  RowsComeFrom(req) /\ RowsStay(req) /\ RowsDone(req)
    BY <1>2, <1>k, <2>3 DEF Tables!DeleteUser, RowsComeFrom, RowsStay, RowsDone
  <2>4. CASE req.method = "DeleteUser" /\ RowOf(users, req.id) = {} /\ UNCHANGED tables
    BY <1>2, <2>4 DEF tables, RowsComeFrom, RowsStay, RowsDone
  <2> QED BY <1>2, <2>1, <2>2, <2>3, <2>4 DEF UserServiceEffect
<1>3. CASE Accepted(req) /\ ProductServiceEffect(req)
  <2>1. CASE /\ req.method = "CreateProduct"
             /\ Tables!CreateProduct(Fresh(Products), req.stock_quantity)
    BY <1>3, <2>1 DEF Tables!CreateProduct, Tables!Issue, RowsComeFrom, RowsStay, RowsDone
  <2>2. ASSUME req.method = "UpdateProduct", NEW p \in RowOf(products, req.id),
               Tables!UpdateProduct(p, req.stock_quantity)
        PROVE  RowsComeFrom(req) /\ RowsStay(req) /\ RowsDone(req)
    BY <1>3, <1>k, <2>2 DEF Tables!UpdateProduct, RowsComeFrom, RowsStay, RowsDone
  <2>3. ASSUME req.method = "DeleteProduct", NEW p \in RowOf(products, req.id),
               Tables!DeleteProduct(p)
        PROVE  RowsComeFrom(req) /\ RowsStay(req) /\ RowsDone(req)
    BY <1>3, <1>k, <2>3 DEF Tables!DeleteProduct, RowsComeFrom, RowsStay, RowsDone
  <2>4. CASE req.method = "DeleteProduct" /\ RowOf(products, req.id) = {} /\ UNCHANGED tables
    BY <1>3, <2>4 DEF tables, RowsComeFrom, RowsStay, RowsDone
  <2> QED BY <1>3, <2>1, <2>2, <2>3, <2>4 DEF ProductServiceEffect
<1>4. CASE Accepted(req) /\ OrderServiceEffect(req)
  <2>1. ASSUME req.method = "CreateOrder", NEW u \in RowOf(users, req.user_id),
               Tables!CreateOrder(Fresh(Orders), u)
        PROVE  RowsComeFrom(req) /\ RowsStay(req) /\ RowsDone(req)
    BY <1>4, <2>1 DEF Tables!CreateOrder, Tables!Issue, RowsComeFrom, RowsStay, RowsDone
  <2>2. ASSUME req.method = "UpdateOrderStatus", NEW o \in RowOf(orders, req.id),
               Tables!UpdateOrderStatus(o, req.status)
        PROVE  RowsComeFrom(req) /\ RowsStay(req) /\ RowsDone(req)
    <3>1. LET new == [o EXCEPT !.status = req.status]
          IN  new.id = o.id /\ new.user_id = o.user_id
      BY DEF Tables!TypeOK, Tables!OrderRow
    <3> QED
      BY <1>4, <1>k, <2>2, <3>1 DEF Tables!UpdateOrderStatus, RowsComeFrom, RowsStay, RowsDone
  <2>3. CASE req.method = "DeleteOrder" /\ Tables!DeleteOrder(req.id)
    BY <1>4, <2>3 DEF Tables!DeleteOrder, RowsComeFrom, RowsStay, RowsDone
  <2>4. ASSUME req.method = "CreateOrderItem", NEW o \in RowOf(orders, req.order_id),
               NEW p \in RowOf(products, req.product_id),
               Tables!CreateOrderItem(Fresh(Items), o, p, req.quantity)
        PROVE  RowsComeFrom(req) /\ RowsStay(req) /\ RowsDone(req)
    <3> DEFINE new == [id |-> Fresh(Items), order_id |-> o.id, product_id |-> p.id,
                       quantity |-> req.quantity]
    <3>1. /\ new.id = Fresh(Items) /\ new.order_id = req.order_id
          /\ new.product_id = req.product_id
      OBVIOUS
    <3>2. /\ items' = items \cup {new} /\ issued \subseteq issued'
          /\ UNCHANGED <<users, products, orders>>
      BY <2>4 DEF Tables!CreateOrderItem, Tables!Issue
    <3>3. Fresh(Items) \notin issued
      BY <2>4 DEF Tables!CreateOrderItem, Tables!Issue
    <3> HIDE DEF new
    <3>4. RowsComeFrom(req)
      BY <1>4, <2>4, <3>1, <3>2, <3>3 DEF RowsComeFrom
    <3>5. RowsStay(req)
      BY <3>2 DEF RowsStay
    <3>6. RowsDone(req)
      BY <2>4, <3>1, <3>2 DEF RowsDone
    <3> QED BY <3>4, <3>5, <3>6
  <2>5. ASSUME req.method = "UpdateOrderItemQuantity", NEW i \in RowOf(items, req.id),
               Tables!UpdateOrderItemQuantity(i, req.quantity)
        PROVE  RowsComeFrom(req) /\ RowsStay(req) /\ RowsDone(req)
    <3>1. LET new == [i EXCEPT !.quantity = req.quantity]
          IN  new.id = i.id /\ new.order_id = i.order_id /\ new.product_id = i.product_id
      BY DEF Tables!TypeOK, Tables!ItemRow
    <3> QED
      BY <1>4, <2>5, <3>1 DEF Tables!UpdateOrderItemQuantity, RowsComeFrom, RowsStay, RowsDone
  <2>6. CASE req.method = "DeleteOrderItem" /\ Tables!DeleteOrderItem(req.id)
    BY <1>4, <2>6 DEF Tables!DeleteOrderItem, RowsComeFrom, RowsStay, RowsDone
  <2> QED BY <1>4, <2>1, <2>2, <2>3, <2>4, <2>5, <2>6 DEF OrderServiceEffect
<1> QED BY <1>1, <1>2, <1>3, <1>4, ExecuteEffect

(* Types and references: what Catalog's theorems say of its own steps.     *)
Cat == INSTANCE CatalogProofs

LEMMA CatalogAgrees ==
  /\ Cat!TypeOK <=> Tables!TypeOK
  /\ Cat!NoOrphans <=> Tables!NoOrphans
  /\ Cat!TypeOK' <=> Tables!TypeOK'
  /\ Cat!NoOrphans' <=> Tables!NoOrphans'
BY DEF Cat!TypeOK, Tables!TypeOK, Cat!NoOrphans, Tables!NoOrphans, Cat!Ids, Tables!Ids,
       Cat!Key, Tables!Key, Cat!UserRow, Tables!UserRow, Cat!ProductRow, Tables!ProductRow,
       Cat!OrderRow, Tables!OrderRow, Cat!ItemRow, Tables!ItemRow


LEMMA CatalogSteps ==
  /\ \A id, n, m : Tables!CreateUser(id, n, m) => Cat!CreateUser(id, n, m)
  /\ \A u, n, m : Tables!UpdateUser(u, n, m) => Cat!UpdateUser(u, n, m)
  /\ \A u : Tables!DeleteUser(u) => Cat!DeleteUser(u)
  /\ \A id, s : Tables!CreateProduct(id, s) => Cat!CreateProduct(id, s)
  /\ \A p, s : Tables!UpdateProduct(p, s) => Cat!UpdateProduct(p, s)
  /\ \A p : Tables!DeleteProduct(p) => Cat!DeleteProduct(p)
  /\ \A id, u : Tables!CreateOrder(id, u) => Cat!CreateOrder(id, u)
  /\ \A o, s : Tables!UpdateOrderStatus(o, s) => Cat!UpdateOrderStatus(o, s)
  /\ \A id : Tables!DeleteOrder(id) => Cat!DeleteOrder(id)
  /\ \A id, o, p, q : Tables!CreateOrderItem(id, o, p, q) => Cat!CreateOrderItem(id, o, p, q)
  /\ \A i, q : Tables!UpdateOrderItemQuantity(i, q) => Cat!UpdateOrderItemQuantity(i, q)
  /\ \A id : Tables!DeleteOrderItem(id) => Cat!DeleteOrderItem(id)
<1> USE DEF Tables!Issue, Cat!Issue, Tables!Unique, Cat!Unique, Tables!Confirm, Cat!Confirm,
            Tables!Ids, Cat!Ids
<1>1. /\ \A id, n, m : Tables!CreateUser(id, n, m) => Cat!CreateUser(id, n, m)
      /\ \A u, n, m : Tables!UpdateUser(u, n, m) => Cat!UpdateUser(u, n, m)
      /\ \A u : Tables!DeleteUser(u) => Cat!DeleteUser(u)
  BY Zenon DEF Tables!CreateUser, Cat!CreateUser, Tables!UpdateUser, Cat!UpdateUser, Tables!DeleteUser,
       Cat!DeleteUser
<1>2. /\ \A id, s : Tables!CreateProduct(id, s) => Cat!CreateProduct(id, s)
      /\ \A p, s : Tables!UpdateProduct(p, s) => Cat!UpdateProduct(p, s)
      /\ \A p : Tables!DeleteProduct(p) => Cat!DeleteProduct(p)
  BY Zenon DEF Tables!CreateProduct, Cat!CreateProduct, Tables!UpdateProduct, Cat!UpdateProduct,
       Tables!DeleteProduct, Cat!DeleteProduct
<1>3. /\ \A id, u : Tables!CreateOrder(id, u) => Cat!CreateOrder(id, u)
      /\ \A o, s : Tables!UpdateOrderStatus(o, s) => Cat!UpdateOrderStatus(o, s)
      /\ \A id : Tables!DeleteOrder(id) => Cat!DeleteOrder(id)
  BY Zenon DEF Tables!CreateOrder, Cat!CreateOrder, Tables!UpdateOrderStatus, Cat!UpdateOrderStatus,
       Tables!DeleteOrder, Cat!DeleteOrder
<1>4. /\ \A id, o, p, q : Tables!CreateOrderItem(id, o, p, q) => Cat!CreateOrderItem(id, o, p, q)
      /\ \A i, q : Tables!UpdateOrderItemQuantity(i, q) => Cat!UpdateOrderItemQuantity(i, q)
      /\ \A id : Tables!DeleteOrderItem(id) => Cat!DeleteOrderItem(id)
  BY Zenon DEF Tables!CreateOrderItem, Cat!CreateOrderItem, Tables!UpdateOrderItemQuantity,
       Cat!UpdateOrderItemQuantity, Tables!DeleteOrderItem, Cat!DeleteOrderItem
<1> QED BY <1>1, <1>2, <1>3, <1>4

(* A request a service accepts has texts and identifiers a row can hold,   *)
(* so that what it does is a step of the catalog's.                        *)
LEMMA AcceptedTexts ==
  ASSUME NEW req \in Request, Accepted(req)
  PROVE  /\ req.method \in {"CreateUser", "UpdateUser"} =>
              req.username \in Usernames /\ req.email \in Emails
         /\ req.method \in {"CreateProduct", "UpdateProduct"} =>
              req.stock_quantity \in Stocks
         /\ req.method = "UpdateOrderStatus" => req.status \in Statuses
         /\ req.method = "DeleteOrder" => req.id \in Orders
         /\ req.method = "DeleteOrderItem" => req.id \in Items
         /\ req.method \in {"CreateOrderItem", "UpdateOrderItemQuantity"} =>
              req.quantity \in Quantities
<1>1. ASSUME NEW code, Refused(code).code = "OK" PROVE code = "OK"
  BY <1>1 DEF Refused
<1>2. req.method = "CreateUser" => req.username \in Usernames /\ req.email \in Emails
  <2> SUFFICES ASSUME req.method = "CreateUser"
               PROVE  req.username \in Usernames /\ req.email \in Emails
    OBVIOUS
  <2>1. req \in CreateUserRequest /\ Answer(req) = CreateUserAnswer(req)
    BY UserRequests
  <2>2. req.username # "" /\ req.email # ""
    BY <1>1, <2>1 DEF Accepted, CreateUserAnswer, Refused
  <2> QED BY <2>1, <2>2 DEF CreateUserRequest, Text
<1>3. req.method = "UpdateUser" => req.username \in Usernames /\ req.email \in Emails
  <2> SUFFICES ASSUME req.method = "UpdateUser"
               PROVE  req.username \in Usernames /\ req.email \in Emails
    OBVIOUS
  <2>1. req \in UpdateUserRequest /\ Answer(req) = UpdateUserAnswer(req)
    BY UserRequests
  <2>2. req.username # "" /\ req.email # ""
    BY <1>1, <2>1 DEF Accepted, UpdateUserAnswer, Refused
  <2> QED BY <2>1, <2>2 DEF UpdateUserRequest, Text
<1>4. req.method \in {"CreateProduct", "UpdateProduct"} => req.stock_quantity \in Stocks
  BY ProductRequests DEF CreateProductRequest, UpdateProductRequest
<1>5. req.method = "UpdateOrderStatus" => req.status \in Statuses
  <2> SUFFICES ASSUME req.method = "UpdateOrderStatus" PROVE req.status \in Statuses
    OBVIOUS
  <2>1. req \in UpdateOrderStatusRequest /\ Answer(req) = UpdateOrderStatusAnswer(req)
    BY OrderRequests
  <2>2. req.status = "" => UpdateOrderStatusAnswer(req) = Refused("InvalidArgument")
    BY Zenon DEF UpdateOrderStatusAnswer
  <2>3. req.status # ""
    <3> SUFFICES ASSUME req.status = "" PROVE FALSE
      OBVIOUS
    <3>1. Answer(req) = Refused("InvalidArgument")
      BY <2>1, <2>2
    <3>2. Refused("InvalidArgument").code # "OK"
      BY DEF Refused
    <3> QED BY <3>1, <3>2 DEF Accepted
  <2> QED BY <2>1, <2>3 DEF UpdateOrderStatusRequest, Text
<1>6. req.method = "DeleteOrder" => req.id \in Orders
  <2> SUFFICES ASSUME req.method = "DeleteOrder" PROVE req.id \in Orders
    OBVIOUS
  <2>1. req \in DeleteOrderRequest /\ Answer(req) = DeleteOrderAnswer(req)
    BY OrderRequests
  <2>2. req.id # Malformed
    BY <2>1 DEF Accepted, DeleteOrderAnswer, Refused
  <2> QED BY <2>1, <2>2 DEF DeleteOrderRequest, Id
<1>7. req.method = "DeleteOrderItem" => req.id \in Items
  <2> SUFFICES ASSUME req.method = "DeleteOrderItem" PROVE req.id \in Items
    OBVIOUS
  <2>1. req \in DeleteOrderItemRequest /\ Answer(req) = DeleteOrderItemAnswer(req)
    BY OrderRequests
  <2>2. req.id # Malformed
    BY <2>1 DEF Accepted, DeleteOrderItemAnswer, Refused
  <2> QED BY <2>1, <2>2 DEF DeleteOrderItemRequest, Id
<1>8. req.method \in {"CreateOrderItem", "UpdateOrderItemQuantity"} =>
        req.quantity \in Quantities
  BY OrderRequests DEF CreateOrderItemRequest, UpdateOrderItemQuantityRequest
<1> QED BY <1>2, <1>3, <1>4, <1>5, <1>6, <1>7, <1>8

LEMMA TablesStep ==
  ASSUME Tables!TypeOK, NEW req \in Request, Execute(req)
  PROVE  Tables!TypeOK' /\ (Tables!NoOrphans => Tables!NoOrphans')
<1>a. /\ Orders \cap Items = {} /\ NULL \notin Int
      /\ Quantities \subseteq Int /\ Stocks \subseteq Int
  BY DemoAssumption, MessagesAssumption
<1>1. CASE UNCHANGED tables
  BY <1>1 DEF tables, Tables!TypeOK, Tables!Key, Tables!Ids, Tables!NoOrphans
<1>2. CASE Accepted(req) /\ UserServiceEffect(req)
  <2>1. Usernames # {} /\ Emails # {}
    BY DemoAssumption
  <2>2. Cat!UserService \/ UNCHANGED tables
    <3>1. CASE /\ req.method = "CreateUser"
               /\ Tables!CreateUser(Fresh(Users), req.username, req.email)
      <4>1. Fresh(Users) \in Users
        BY <3>1, FreshIds DEF Execute
      <4> QED BY <1>2, <3>1, <4>1, AcceptedTexts, CatalogSteps DEF Cat!UserService
    <3>2. ASSUME req.method = "UpdateUser", NEW u \in RowOf(users, req.id),
                 Tables!UpdateUser(u, req.username, req.email)
          PROVE  Cat!UserService
      BY <1>2, <3>2, AcceptedTexts, CatalogSteps DEF Cat!UserService, RowOf
    <3>3. ASSUME NEW u \in RowOf(users, req.id), Tables!DeleteUser(u)
          PROVE  Cat!UserService
      BY <2>1, <3>3, CatalogSteps DEF Cat!UserService, RowOf
    <3> QED BY <1>2, <3>1, <3>2, <3>3 DEF UserServiceEffect
  <2> QED BY <1>a, <1>1, <2>2, CatalogAgrees, Cat!UserType, Cat!UserKeepsRows
<1>3. CASE Accepted(req) /\ ProductServiceEffect(req)
  <2>1. Stocks # {}
    BY DemoAssumption
  <2>2. Cat!ProductService \/ UNCHANGED tables
    <3>1. CASE /\ req.method = "CreateProduct"
               /\ Tables!CreateProduct(Fresh(Products), req.stock_quantity)
      <4>1. Fresh(Products) \in Products
        BY <3>1, FreshIds DEF Execute
      <4> QED BY <1>3, <3>1, <4>1, AcceptedTexts, CatalogSteps DEF Cat!ProductService
    <3>2. ASSUME req.method = "UpdateProduct", NEW p \in RowOf(products, req.id),
                 Tables!UpdateProduct(p, req.stock_quantity)
          PROVE  Cat!ProductService
      BY <1>3, <3>2, AcceptedTexts, CatalogSteps DEF Cat!ProductService, RowOf
    <3>3. ASSUME NEW p \in RowOf(products, req.id), Tables!DeleteProduct(p)
          PROVE  Cat!ProductService
      BY <2>1, <3>3, CatalogSteps DEF Cat!ProductService, RowOf
    <3> QED BY <1>3, <3>1, <3>2, <3>3 DEF ProductServiceEffect
  <2> QED BY <1>a, <1>1, <2>2, CatalogAgrees, Cat!ProductType, Cat!ProductKeepsRows
<1>4. CASE Accepted(req) /\ OrderServiceEffect(req)
  <2>1. Cat!OrderService
    <3>1. ASSUME req.method = "CreateOrder", NEW u \in RowOf(users, req.user_id),
                 Tables!CreateOrder(Fresh(Orders), u)
          PROVE  Cat!OrderService
      <4>1. Fresh(Orders) \in Orders
        BY <3>1, FreshIds DEF Execute
      <4> QED BY <3>1, <4>1, CatalogSteps DEF Cat!OrderService, RowOf
    <3>2. ASSUME req.method = "UpdateOrderStatus", NEW o \in RowOf(orders, req.id),
                 Tables!UpdateOrderStatus(o, req.status)
          PROVE  Cat!OrderService
      BY <1>4, <3>2, AcceptedTexts, CatalogSteps DEF Cat!OrderService, RowOf
    <3>3. CASE req.method = "DeleteOrder" /\ Tables!DeleteOrder(req.id)
      BY <1>4, <3>3, AcceptedTexts, CatalogSteps DEF Cat!OrderService
    <3>4. ASSUME req.method = "CreateOrderItem", NEW o \in RowOf(orders, req.order_id),
                 NEW p \in RowOf(products, req.product_id),
                 Tables!CreateOrderItem(Fresh(Items), o, p, req.quantity)
          PROVE  Cat!OrderService
      <4>1. Fresh(Items) \in Items /\ req.quantity \in Quantities
        BY <1>4, <3>4, AcceptedTexts, FreshIds DEF Execute
      <4>2. o \in orders /\ p \in products
        BY DEF RowOf
      <4>3. Cat!CreateOrderItem(Fresh(Items), o, p, req.quantity)
        BY <3>4, CatalogSteps
      <4> QED BY <4>1, <4>2, <4>3, Zenon DEF Cat!OrderService
    <3>5. ASSUME req.method = "UpdateOrderItemQuantity", NEW i \in RowOf(items, req.id),
                 Tables!UpdateOrderItemQuantity(i, req.quantity)
          PROVE  Cat!OrderService
      BY <1>4, <3>5, AcceptedTexts, CatalogSteps DEF Cat!OrderService, RowOf
    <3>6. CASE req.method = "DeleteOrderItem" /\ Tables!DeleteOrderItem(req.id)
      BY <1>4, <3>6, AcceptedTexts, CatalogSteps DEF Cat!OrderService
    <3> QED BY <1>4, <3>1, <3>2, <3>3, <3>4, <3>5, <3>6 DEF OrderServiceEffect
  <2> QED BY <1>a, <2>1, CatalogAgrees, Cat!OrderType, Cat!OrderKeepsRows
<1> QED BY <1>1, <1>2, <1>3, <1>4, ExecuteEffect

(* The outbox: the statuses that are written are those of the enum.        *)
LEMMA OutboxTypeStep ==
  ASSUME Outbox!TypeOK, NEW req \in Request, Execute(req)
  PROVE  Outbox!TypeOK'
<1>1. CASE UNCHANGED outbox
  BY <1>1 DEF outbox, Outbox!TypeOK, Outbox!TopicsTypeOK
<1>2. CASE Outbox!Submit(FreshEvent(req.event_type))
  BY <1>2 DEF Outbox!Submit, Outbox!TypeOK, Outbox!TopicsTypeOK, EventStatus, Outbox!EventStatus
<1>3. CASE /\ req.method = "UpdateEventStatus" /\ Accepted(req)
           /\ Outbox!Relabel(req.id, eventStatusFromProto(req.status_v2))
  <2> DEFINE s == eventStatusFromProto(req.status_v2)
  <2>1. Answer(req) = EventServiceAnswer(req)
    BY <1>3, ServiceAnswers DEF EventMethods
  <2>2. Answer(req) = UpdateEventStatusAnswer(req)
    BY <1>3, <2>1 DEF EventServiceAnswer
  <2>3. s = "" => UpdateEventStatusAnswer(req) = Refused("InvalidArgument")
    BY Zenon DEF UpdateEventStatusAnswer
  <2>4. Refused("InvalidArgument").code # "OK"
    BY DEF Refused
  <2>5. s # ""
    BY <1>3, <2>2, <2>3, <2>4 DEF Accepted
  <2>6. s \in EventStatus
    BY <2>5 DEF eventStatusFromProto
  <2>7. row' = [row EXCEPT ![req.id] = s] /\ topics' = topics
    BY <1>3 DEF Outbox!Relabel
  <2> HIDE DEF s
  <2> QED BY <2>6, <2>7 DEF Outbox!TypeOK, Outbox!TopicsTypeOK, EventStatus,
         Outbox!EventStatus
<1> QED BY <1>1, <1>2, <1>3 DEF Execute, EventServiceEffect, Accepted

LEMMA PipelineType ==
  ASSUME Outbox!TypeOK, NEW e \in Event,
         Outbox!Publish(e) \/ Outbox!Complete(e) \/ Outbox!Fail(e)
  PROVE  Outbox!TypeOK'
<1>1. CASE Outbox!Publish(e)
  <2>1. Outbox!TopicsTypeOK' /\ row' = row
    BY <1>1, ProduceKeeps DEF Outbox!Publish, Outbox!TypeOK
  <2> QED BY <2>1 DEF Outbox!TypeOK
<1>2. CASE Outbox!Complete(e) \/ Outbox!Fail(e)
  BY <1>2 DEF Outbox!Complete, Outbox!Fail, Outbox!TypeOK, Outbox!TopicsTypeOK, EventStatus, Outbox!EventStatus
<1> QED BY <1>1, <1>2

-----------------------------------------------------------------------------
(* The client's calls, step by step.                                       *)

LEMMA Sections ==
  /\ "CreateUser" \in ToSet(UserSection) /\ "ListUsers" \in ToSet(UserSection)
  /\ "GetUser" \in ToSet(UserSection) /\ "GetUserByEmail" \in ToSet(UserSection)
  /\ "UpdateUser" \in ToSet(UserSection)
  /\ "CreateProduct" \in ToSet(ProductSection) /\ "ListProducts" \in ToSet(ProductSection)
  /\ "GetProduct" \in ToSet(ProductSection) /\ "UpdateProduct" \in ToSet(ProductSection)
  /\ "CreateOrder" \in ToSet(OrderSection) /\ "CreateOrderItem" \in ToSet(OrderSection)
  /\ "GetOrder" \in ToSet(OrderSection) /\ "GetOrderItems" \in ToSet(OrderSection)
  /\ "ListOrdersByUser" \in ToSet(OrderSection)
  /\ "UpdateOrderStatus" \in ToSet(OrderSection)
  /\ "FindItem" \in ToSet(Cleanup) /\ "DeleteOrderItem" \in ToSet(Cleanup)
  /\ "DeleteOrder" \in ToSet(Cleanup) /\ "DeleteProduct" \in ToSet(Cleanup)
  /\ "DeleteUser" \in ToSet(Cleanup)
<1>a. ASSUME NEW s, NEW i \in DOMAIN s PROVE s[i] \in ToSet(s)
  BY DEF ToSet
<1>1. /\ "CreateUser" \in ToSet(UserSection) /\ "ListUsers" \in ToSet(UserSection)
      /\ "GetUser" \in ToSet(UserSection) /\ "GetUserByEmail" \in ToSet(UserSection)
      /\ "UpdateUser" \in ToSet(UserSection)
  <2>1. \A i \in DOMAIN UserSection : UserSection[i] \in ToSet(UserSection)
    BY <1>a
  <2> QED BY <2>1 DEF UserSection
<1>2. /\ "CreateProduct" \in ToSet(ProductSection) /\ "ListProducts" \in ToSet(ProductSection)
      /\ "GetProduct" \in ToSet(ProductSection) /\ "UpdateProduct" \in ToSet(ProductSection)
  <2>1. \A i \in DOMAIN ProductSection : ProductSection[i] \in ToSet(ProductSection)
    BY <1>a
  <2> QED BY <2>1 DEF ProductSection
<1>3. /\ "CreateOrder" \in ToSet(OrderSection) /\ "CreateOrderItem" \in ToSet(OrderSection)
      /\ "GetOrder" \in ToSet(OrderSection) /\ "GetOrderItems" \in ToSet(OrderSection)
      /\ "ListOrdersByUser" \in ToSet(OrderSection) /\ "UpdateOrderStatus" \in ToSet(OrderSection)
  <2>1. \A i \in DOMAIN OrderSection : OrderSection[i] \in ToSet(OrderSection)
    BY <1>a
  <2> QED BY <2>1 DEF OrderSection
<1>4. /\ "FindItem" \in ToSet(Cleanup) /\ "DeleteOrderItem" \in ToSet(Cleanup)
      /\ "DeleteOrder" \in ToSet(Cleanup) /\ "DeleteProduct" \in ToSet(Cleanup)
      /\ "DeleteUser" \in ToSet(Cleanup)
  <2>1. \A i \in DOMAIN Cleanup : Cleanup[i] \in ToSet(Cleanup)
    BY <1>a
  <2> QED BY <2>1 DEF Cleanup
<1> QED BY <1>1, <1>2, <1>3, <1>4

LEMMA CallOf ==
  ASSUME NEW id
  PROVE  /\ Call("CreateUser", id) =
              [method |-> "CreateUser", username |-> "testuser",
               email |-> "testuser@example.com", texts |-> "good"]
         /\ Call("ListUsers", id) = [method |-> "ListUsers"]
         /\ Call("GetUser", id) = [method |-> "GetUser", id |-> id.user]
         /\ Call("GetUserByEmail", id) =
              [method |-> "GetUserByEmail", email |-> "testuser@example.com"]
         /\ Call("UpdateUser", id) =
              [method |-> "UpdateUser", id |-> id.user, username |-> "updateduser",
               email |-> "updated@example.com"]
         /\ Call("CreateProduct", id) =
              [method |-> "CreateProduct", stock_quantity |-> 100, texts |-> "good"]
         /\ Call("ListProducts", id) = [method |-> "ListProducts"]
         /\ Call("GetProduct", id) = [method |-> "GetProduct", id |-> id.product]
         /\ Call("UpdateProduct", id) =
              [method |-> "UpdateProduct", id |-> id.product, stock_quantity |-> 200,
               texts |-> "good"]
         /\ Call("CreateOrder", id) =
              [method |-> "CreateOrder", user_id |-> id.user, texts |-> "good"]
         /\ Call("CreateOrderItem", id) =
              [method |-> "CreateOrderItem", order_id |-> id.order,
               product_id |-> id.product, quantity |-> 2, texts |-> "good"]
         /\ Call("GetOrder", id) = [method |-> "GetOrder", id |-> id.order]
         /\ Call("GetOrderItems", id) = [method |-> "GetOrderItems", order_id |-> id.order]
         /\ Call("ListOrdersByUser", id) =
              [method |-> "ListOrdersByUser", user_id |-> id.user]
         /\ Call("UpdateOrderStatus", id) =
              [method |-> "UpdateOrderStatus", id |-> id.order, status |-> "completed"]
         /\ Call("FindItem", id) = [method |-> "GetOrderItems", order_id |-> id.order]
         /\ Call("DeleteOrderItem", id) = [method |-> "DeleteOrderItem", id |-> id.item]
         /\ Call("DeleteOrder", id) = [method |-> "DeleteOrder", id |-> id.order]
         /\ Call("DeleteProduct", id) = [method |-> "DeleteProduct", id |-> id.product]
         /\ Call("DeleteUser", id) = [method |-> "DeleteUser", id |-> id.user]
         /\ Call("CreateEvent", id) = EventCall
<1>1. \A label \in {"CreateUser", "ListUsers", "GetUser", "GetUserByEmail", "UpdateUser"} :
        Call(label, id) = UserCall(label, id)
  BY Sections, SectionCalls DEF Call
<1>2. \A label \in {"CreateProduct", "ListProducts", "GetProduct", "UpdateProduct"} :
        Call(label, id) = ProductCall(label, id)
  BY Sections, SectionCalls DEF Call
<1>3. \A label \in {"CreateOrder", "CreateOrderItem", "GetOrder", "GetOrderItems",
                    "ListOrdersByUser", "UpdateOrderStatus"} :
        Call(label, id) = OrderCall(label, id)
  BY Sections, SectionCalls DEF Call
<1>4. \A label \in {"FindItem", "DeleteOrderItem", "DeleteOrder", "DeleteProduct",
                    "DeleteUser"} :
        Call(label, id) = CleanupCall(label, id)
  BY Sections, SectionCalls DEF Call
<1>5. Call("CreateEvent", id) = EventCall
  BY SectionCalls DEF Call
<1>7. /\ UserCall("CreateUser", id) =
           [method |-> "CreateUser", username |-> "testuser",
            email |-> "testuser@example.com", texts |-> "good"]
      /\ UserCall("ListUsers", id) = [method |-> "ListUsers"]
      /\ UserCall("GetUser", id) = [method |-> "GetUser", id |-> id.user]
      /\ UserCall("GetUserByEmail", id) =
           [method |-> "GetUserByEmail", email |-> "testuser@example.com"]
      /\ UserCall("UpdateUser", id) =
           [method |-> "UpdateUser", id |-> id.user, username |-> "updateduser",
            email |-> "updated@example.com"]
  BY DEF UserCall
<1>8. /\ ProductCall("CreateProduct", id) =
           [method |-> "CreateProduct", stock_quantity |-> 100, texts |-> "good"]
      /\ ProductCall("ListProducts", id) = [method |-> "ListProducts"]
      /\ ProductCall("GetProduct", id) = [method |-> "GetProduct", id |-> id.product]
      /\ ProductCall("UpdateProduct", id) =
           [method |-> "UpdateProduct", id |-> id.product, stock_quantity |-> 200,
            texts |-> "good"]
  BY DEF ProductCall
<1>9. /\ OrderCall("CreateOrder", id) =
           [method |-> "CreateOrder", user_id |-> id.user, texts |-> "good"]
      /\ OrderCall("CreateOrderItem", id) =
           [method |-> "CreateOrderItem", order_id |-> id.order,
            product_id |-> id.product, quantity |-> 2, texts |-> "good"]
      /\ OrderCall("GetOrder", id) = [method |-> "GetOrder", id |-> id.order]
      /\ OrderCall("GetOrderItems", id) = [method |-> "GetOrderItems", order_id |-> id.order]
      /\ OrderCall("ListOrdersByUser", id) =
           [method |-> "ListOrdersByUser", user_id |-> id.user]
      /\ OrderCall("UpdateOrderStatus", id) =
           [method |-> "UpdateOrderStatus", id |-> id.order, status |-> "completed"]
  BY DEF OrderCall
<1>10. /\ CleanupCall("FindItem", id) = [method |-> "GetOrderItems", order_id |-> id.order]
       /\ CleanupCall("DeleteOrderItem", id) = [method |-> "DeleteOrderItem", id |-> id.item]
       /\ CleanupCall("DeleteOrder", id) = [method |-> "DeleteOrder", id |-> id.order]
       /\ CleanupCall("DeleteProduct", id) = [method |-> "DeleteProduct", id |-> id.product]
       /\ CleanupCall("DeleteUser", id) = [method |-> "DeleteUser", id |-> id.user]
  BY DEF CleanupCall
<1> QED BY <1>1, <1>2, <1>3, <1>4, <1>5, <1>7, <1>8, <1>9, <1>10

-----------------------------------------------------------------------------
(* A client's state, from step to step.                                    *)

Shape ==
  /\ step \in [Client -> 1..25]
  /\ known = [c \in Client |-> [k \in Kind |-> known[c][k]]]
  /\ failed = [c \in Client |-> failed[c]]
  /\ made = [c \in Client |-> made[c]]

(* What a client asks for, and asked for: at its turn, of what it knows.   *)
Own(c, req) ==
  /\ req.method = "UpdateUser" => step[c] >= 5 /\ req.id = known[c].user
  /\ req.method = "DeleteUser" => step[c] >= 20 /\ req.id = known[c].user
  /\ req.method = "UpdateProduct" => step[c] >= 9 /\ req.id = known[c].product
  /\ req.method = "DeleteProduct" => step[c] >= 19 /\ req.id = known[c].product
  /\ req.method = "CreateOrder" => step[c] >= 10 /\ req.user_id = known[c].user
  /\ req.method = "UpdateOrderStatus" => step[c] >= 15 /\ req.id = known[c].order
  /\ req.method = "DeleteOrder" => step[c] >= 18 /\ req.id = known[c].order
  /\ req.method = "CreateOrderItem" =>
       step[c] >= 11 /\ req.order_id = known[c].order /\ req.product_id = known[c].product
  /\ req.method = "DeleteOrderItem" => step[c] >= 17 /\ req.id = known[c].item
  /\ req.method # "UpdateOrderItemQuantity"

KnownTyped(c) ==
  /\ known[c].user \in Users \cup {NULL}
  /\ known[c].product \in Products \cup {NULL}
  /\ known[c].order \in Orders \cup {NULL}
  /\ known[c].item \in Items \cup {NULL}
  /\ known[c].event \in Event \cup {NULL}


LEMMA CallAt ==
  ASSUME NEW c
  PROVE  /\ step[c] = 1 =>
              Req(c) = [method |-> "CreateUser", username |-> "testuser",
                        email |-> "testuser@example.com", texts |-> "good"]
         /\ step[c] = 2 =>
              Req(c) = [method |-> "ListUsers"]
         /\ step[c] = 3 =>
              Req(c) = [method |-> "GetUser", id |-> known[c].user]
         /\ step[c] = 4 =>
              Req(c) = [method |-> "GetUserByEmail", email |-> "testuser@example.com"]
         /\ step[c] = 5 =>
              Req(c) = [method |-> "UpdateUser", id |-> known[c].user, username |-> "updateduser",
                        email |-> "updated@example.com"]
         /\ step[c] = 6 =>
              Req(c) = [method |-> "CreateProduct", stock_quantity |-> 100, texts |-> "good"]
         /\ step[c] = 7 =>
              Req(c) = [method |-> "ListProducts"]
         /\ step[c] = 8 =>
              Req(c) = [method |-> "GetProduct", id |-> known[c].product]
         /\ step[c] = 9 =>
              Req(c) = [method |-> "UpdateProduct", id |-> known[c].product, stock_quantity |-> 200,
                        texts |-> "good"]
         /\ step[c] = 10 =>
              Req(c) = [method |-> "CreateOrder", user_id |-> known[c].user, texts |-> "good"]
         /\ step[c] = 11 =>
              Req(c) = [method |-> "CreateOrderItem", order_id |-> known[c].order,
                        product_id |-> known[c].product, quantity |-> 2, texts |-> "good"]
         /\ step[c] = 12 =>
              Req(c) = [method |-> "GetOrder", id |-> known[c].order]
         /\ step[c] = 13 =>
              Req(c) = [method |-> "GetOrderItems", order_id |-> known[c].order]
         /\ step[c] = 14 =>
              Req(c) = [method |-> "ListOrdersByUser", user_id |-> known[c].user]
         /\ step[c] = 15 =>
              Req(c) = [method |-> "UpdateOrderStatus", id |-> known[c].order, status |-> "completed"]
         /\ step[c] = 16 =>
              Req(c) = [method |-> "GetOrderItems", order_id |-> known[c].order]
         /\ step[c] = 17 =>
              Req(c) = [method |-> "DeleteOrderItem", id |-> known[c].item]
         /\ step[c] = 18 =>
              Req(c) = [method |-> "DeleteOrder", id |-> known[c].order]
         /\ step[c] = 19 =>
              Req(c) = [method |-> "DeleteProduct", id |-> known[c].product]
         /\ step[c] = 20 =>
              Req(c) = [method |-> "DeleteUser", id |-> known[c].user]
         /\ step[c] = 21 =>
              Req(c) = EventCall
<1>1. /\ step[c] = 1 =>
           Req(c) = [method |-> "CreateUser", username |-> "testuser",
                     email |-> "testuser@example.com", texts |-> "good"]
      /\ step[c] = 2 =>
           Req(c) = [method |-> "ListUsers"]
      /\ step[c] = 3 =>
           Req(c) = [method |-> "GetUser", id |-> known[c].user]
      /\ step[c] = 4 =>
           Req(c) = [method |-> "GetUserByEmail", email |-> "testuser@example.com"]
      /\ step[c] = 5 =>
           Req(c) = [method |-> "UpdateUser", id |-> known[c].user, username |-> "updateduser",
                     email |-> "updated@example.com"]
  <2>1. step[c] = 1 => Req(c) = Call("CreateUser", known[c])
    BY PlanLabels DEF Req, Label
  <2>2. step[c] = 2 => Req(c) = Call("ListUsers", known[c])
    BY PlanLabels DEF Req, Label
  <2>3. step[c] = 3 => Req(c) = Call("GetUser", known[c])
    BY PlanLabels DEF Req, Label
  <2>4. step[c] = 4 => Req(c) = Call("GetUserByEmail", known[c])
    BY PlanLabels DEF Req, Label
  <2>5. step[c] = 5 => Req(c) = Call("UpdateUser", known[c])
    BY PlanLabels DEF Req, Label
  <2> QED BY <2>1, <2>2, <2>3, <2>4, <2>5, CallOf
<1>2. /\ step[c] = 6 =>
           Req(c) = [method |-> "CreateProduct", stock_quantity |-> 100, texts |-> "good"]
      /\ step[c] = 7 =>
           Req(c) = [method |-> "ListProducts"]
      /\ step[c] = 8 =>
           Req(c) = [method |-> "GetProduct", id |-> known[c].product]
      /\ step[c] = 9 =>
           Req(c) = [method |-> "UpdateProduct", id |-> known[c].product, stock_quantity |-> 200,
                     texts |-> "good"]
  <2>6. step[c] = 6 => Req(c) = Call("CreateProduct", known[c])
    BY PlanLabels DEF Req, Label
  <2>7. step[c] = 7 => Req(c) = Call("ListProducts", known[c])
    BY PlanLabels DEF Req, Label
  <2>8. step[c] = 8 => Req(c) = Call("GetProduct", known[c])
    BY PlanLabels DEF Req, Label
  <2>9. step[c] = 9 => Req(c) = Call("UpdateProduct", known[c])
    BY PlanLabels DEF Req, Label
  <2> QED BY <2>6, <2>7, <2>8, <2>9, CallOf
<1>3. /\ step[c] = 10 =>
           Req(c) = [method |-> "CreateOrder", user_id |-> known[c].user, texts |-> "good"]
      /\ step[c] = 11 =>
           Req(c) = [method |-> "CreateOrderItem", order_id |-> known[c].order,
                     product_id |-> known[c].product, quantity |-> 2, texts |-> "good"]
      /\ step[c] = 12 =>
           Req(c) = [method |-> "GetOrder", id |-> known[c].order]
      /\ step[c] = 13 =>
           Req(c) = [method |-> "GetOrderItems", order_id |-> known[c].order]
      /\ step[c] = 14 =>
           Req(c) = [method |-> "ListOrdersByUser", user_id |-> known[c].user]
      /\ step[c] = 15 =>
           Req(c) = [method |-> "UpdateOrderStatus", id |-> known[c].order, status |-> "completed"]
  <2>10. step[c] = 10 => Req(c) = Call("CreateOrder", known[c])
    BY PlanLabels DEF Req, Label
  <2>11. step[c] = 11 => Req(c) = Call("CreateOrderItem", known[c])
    BY PlanLabels DEF Req, Label
  <2>12. step[c] = 12 => Req(c) = Call("GetOrder", known[c])
    BY PlanLabels DEF Req, Label
  <2>13. step[c] = 13 => Req(c) = Call("GetOrderItems", known[c])
    BY PlanLabels DEF Req, Label
  <2>14. step[c] = 14 => Req(c) = Call("ListOrdersByUser", known[c])
    BY PlanLabels DEF Req, Label
  <2>15. step[c] = 15 => Req(c) = Call("UpdateOrderStatus", known[c])
    BY PlanLabels DEF Req, Label
  <2> QED BY <2>10, <2>11, <2>12, <2>13, <2>14, <2>15, CallOf
<1>4. /\ step[c] = 16 =>
           Req(c) = [method |-> "GetOrderItems", order_id |-> known[c].order]
      /\ step[c] = 17 =>
           Req(c) = [method |-> "DeleteOrderItem", id |-> known[c].item]
      /\ step[c] = 18 =>
           Req(c) = [method |-> "DeleteOrder", id |-> known[c].order]
      /\ step[c] = 19 =>
           Req(c) = [method |-> "DeleteProduct", id |-> known[c].product]
      /\ step[c] = 20 =>
           Req(c) = [method |-> "DeleteUser", id |-> known[c].user]
      /\ step[c] = 21 =>
           Req(c) = EventCall
  <2>16. step[c] = 16 => Req(c) = Call("FindItem", known[c])
    BY PlanLabels DEF Req, Label
  <2>17. step[c] = 17 => Req(c) = Call("DeleteOrderItem", known[c])
    BY PlanLabels DEF Req, Label
  <2>18. step[c] = 18 => Req(c) = Call("DeleteOrder", known[c])
    BY PlanLabels DEF Req, Label
  <2>19. step[c] = 19 => Req(c) = Call("DeleteProduct", known[c])
    BY PlanLabels DEF Req, Label
  <2>20. step[c] = 20 => Req(c) = Call("DeleteUser", known[c])
    BY PlanLabels DEF Req, Label
  <2>21. step[c] = 21 => Req(c) = Call("CreateEvent", known[c])
    BY PlanLabels DEF Req, Label
  <2> QED BY <2>16, <2>17, <2>18, <2>19, <2>20, <2>21, CallOf
<1> QED BY <1>1, <1>2, <1>3, <1>4

(* The method of the call, which is its label but for FindItem.            *)
LEMMA MethodAt ==
  ASSUME NEW c
  PROVE  /\ step[c] = 1 => Req(c).method = "CreateUser"
         /\ step[c] = 2 => Req(c).method = "ListUsers"
         /\ step[c] = 3 => Req(c).method = "GetUser"
         /\ step[c] = 4 => Req(c).method = "GetUserByEmail"
         /\ step[c] = 5 => Req(c).method = "UpdateUser"
         /\ step[c] = 6 => Req(c).method = "CreateProduct"
         /\ step[c] = 7 => Req(c).method = "ListProducts"
         /\ step[c] = 8 => Req(c).method = "GetProduct"
         /\ step[c] = 9 => Req(c).method = "UpdateProduct"
         /\ step[c] = 10 => Req(c).method = "CreateOrder"
         /\ step[c] = 11 => Req(c).method = "CreateOrderItem"
         /\ step[c] = 12 => Req(c).method = "GetOrder"
         /\ step[c] = 13 => Req(c).method = "GetOrderItems"
         /\ step[c] = 14 => Req(c).method = "ListOrdersByUser"
         /\ step[c] = 15 => Req(c).method = "UpdateOrderStatus"
         /\ step[c] = 16 => Req(c).method = "GetOrderItems"
         /\ step[c] = 17 => Req(c).method = "DeleteOrderItem"
         /\ step[c] = 18 => Req(c).method = "DeleteOrder"
         /\ step[c] = 19 => Req(c).method = "DeleteProduct"
         /\ step[c] = 20 => Req(c).method = "DeleteUser"
         /\ step[c] = 21 => Req(c).method = "CreateEvent"
<1>1. step[c] = 1 => Req(c).method = "CreateUser"
  BY CallAt
<1>2. step[c] = 2 => Req(c).method = "ListUsers"
  BY CallAt
<1>3. step[c] = 3 => Req(c).method = "GetUser"
  BY CallAt
<1>4. step[c] = 4 => Req(c).method = "GetUserByEmail"
  BY CallAt
<1>5. step[c] = 5 => Req(c).method = "UpdateUser"
  BY CallAt
<1>6. step[c] = 6 => Req(c).method = "CreateProduct"
  BY CallAt
<1>7. step[c] = 7 => Req(c).method = "ListProducts"
  BY CallAt
<1>8. step[c] = 8 => Req(c).method = "GetProduct"
  BY CallAt
<1>9. step[c] = 9 => Req(c).method = "UpdateProduct"
  BY CallAt
<1>10. step[c] = 10 => Req(c).method = "CreateOrder"
  BY CallAt
<1>11. step[c] = 11 => Req(c).method = "CreateOrderItem"
  BY CallAt
<1>12. step[c] = 12 => Req(c).method = "GetOrder"
  BY CallAt
<1>13. step[c] = 13 => Req(c).method = "GetOrderItems"
  BY CallAt
<1>14. step[c] = 14 => Req(c).method = "ListOrdersByUser"
  BY CallAt
<1>15. step[c] = 15 => Req(c).method = "UpdateOrderStatus"
  BY CallAt
<1>16. step[c] = 16 => Req(c).method = "GetOrderItems"
  BY CallAt
<1>17. step[c] = 17 => Req(c).method = "DeleteOrderItem"
  BY CallAt
<1>18. step[c] = 18 => Req(c).method = "DeleteOrder"
  BY CallAt
<1>19. step[c] = 19 => Req(c).method = "DeleteProduct"
  BY CallAt
<1>20. step[c] = 20 => Req(c).method = "DeleteUser"
  BY CallAt
<1>21. step[c] = 21 => Req(c).method = "CreateEvent"
  BY CallAt DEF EventCall
<1> QED
  BY <1>1, <1>2, <1>3, <1>4, <1>5, <1>6, <1>7, <1>8, <1>9, <1>10, <1>11,
     <1>12, <1>13, <1>14, <1>15, <1>16, <1>17, <1>18, <1>19, <1>20, <1>21

LEMMA OwnCall ==
  ASSUME Shape, NEW c \in Client, KnownTyped(c), Applies(c)
  PROVE  Req(c) \in Request /\ Own(c, Req(c))
<1> DEFINE k == known[c]
           r == Req(c)
<1>1. step[c] \in 1..21
  BY PlanLabels DEF Applies, Scripted
<1>2. \A kind \in Needs(Plan[step[c]]) : k[kind] # NULL
  BY DEF Applies, Label
<1> HIDE DEF r
<1>u. CASE step[c] \in 1..5
  <2>1. /\ "testuser" \in Text(Usernames) /\ "updateduser" \in Text(Usernames)
        /\ "testuser@example.com" \in Text(Emails)
        /\ "updated@example.com" \in Text(Emails) /\ "good" \in Texts
    BY DemoAssumption DEF Text, Texts
  <2>2. step[c] \in {3, 5} => k.user \in Id(Users)
    BY <1>2, PlanLabels DEF Needs, KnownTyped, Id
  <2>3. r \in UserServiceRequest /\ Own(c, r)
    <3>1. CASE step[c] = 1
      <4>1. r = [method |-> "CreateUser", username |-> "testuser",
                 email |-> "testuser@example.com", texts |-> "good"]
        BY <3>1, CallAt DEF r
      <4> QED BY <4>1, <2>1, <3>1
        DEF UserServiceRequest, CreateUserRequest, Own 
    <3>2. CASE step[c] = 2
      <4>1. r = [method |-> "ListUsers"]
        BY <3>2, CallAt DEF r
      <4> QED BY <4>1, <3>2
        DEF UserServiceRequest, ListUsersRequest, Own 
    <3>3. CASE step[c] = 3
      <4>1. r = [method |-> "GetUser", id |-> known[c].user]
        BY <3>3, CallAt DEF r
      <4> QED BY <4>1, <2>2, <3>3
        DEF UserServiceRequest, GetUserRequest, Own 
    <3>4. CASE step[c] = 4
      <4>1. r = [method |-> "GetUserByEmail", email |-> "testuser@example.com"]
        BY <3>4, CallAt DEF r
      <4> QED BY <4>1, <2>1, <3>4
        DEF UserServiceRequest, GetUserByEmailRequest, Own 
    <3>5. CASE step[c] = 5
      <4>1. r = [method |-> "UpdateUser", id |-> known[c].user, username |-> "updateduser",
                 email |-> "updated@example.com"]
        BY <3>5, CallAt DEF r
      <4> QED BY <4>1, <2>1, <2>2, <3>5
        DEF UserServiceRequest, UpdateUserRequest, Own 
    <3> QED BY <1>u, <3>1, <3>2, <3>3, <3>4, <3>5
  <2> QED BY <2>3 DEF Request, r
<1>p. CASE step[c] \in 6..9
  <2>1. 100 \in Stocks /\ 200 \in Stocks /\ "good" \in Texts
    BY DemoAssumption DEF Texts
  <2>2. step[c] \in {8, 9} => k.product \in Id(Products)
    BY <1>2, PlanLabels DEF Needs, KnownTyped, Id
  <2>3. r \in ProductServiceRequest /\ Own(c, r)
    <3>1. CASE step[c] = 6
      <4>1. r = [method |-> "CreateProduct", stock_quantity |-> 100, texts |-> "good"]
        BY <3>1, CallAt DEF r
      <4> QED BY <4>1, <2>1, <3>1
        DEF ProductServiceRequest, CreateProductRequest, Own 
    <3>2. CASE step[c] = 7
      <4>1. r = [method |-> "ListProducts"]
        BY <3>2, CallAt DEF r
      <4> QED BY <4>1, <3>2
        DEF ProductServiceRequest, ListProductsRequest, Own 
    <3>3. CASE step[c] = 8
      <4>1. r = [method |-> "GetProduct", id |-> known[c].product]
        BY <3>3, CallAt DEF r
      <4> QED BY <4>1, <2>2, <3>3
        DEF ProductServiceRequest, GetProductRequest, Own 
    <3>4. CASE step[c] = 9
      <4>1. r = [method |-> "UpdateProduct", id |-> known[c].product, stock_quantity |-> 200,
                 texts |-> "good"]
        BY <3>4, CallAt DEF r
      <4> QED BY <4>1, <2>1, <2>2, <3>4
        DEF ProductServiceRequest, UpdateProductRequest, Own 
    <3> QED BY <1>p, <3>1, <3>2, <3>3, <3>4
  <2> QED BY <2>3 DEF Request, r
<1>o. CASE step[c] \in 10..15
  <2>1. 2 \in Quantities /\ "completed" \in Text(Statuses) /\ "good" \in Texts
    BY DemoAssumption DEF Texts, Text
  <2>2. /\ step[c] \in {10, 14} => k.user \in Id(Users)
        /\ step[c] = 11 => k.order \in Id(Orders) /\ k.product \in Id(Products)
        /\ step[c] \in {12, 13, 15} => k.order \in Id(Orders)
    <3>1. step[c] \in {10, 14} => k.user \in Id(Users)
      BY <1>2, PlanLabels DEF Needs, KnownTyped, Id
    <3>2. step[c] = 11 => k.order \in Id(Orders) /\ k.product \in Id(Products)
      BY <1>2, PlanLabels DEF Needs, KnownTyped, Id
    <3>3. step[c] \in {12, 13, 15} => k.order \in Id(Orders)
      BY <1>2, PlanLabels DEF Needs, KnownTyped, Id
    <3> QED BY <3>1, <3>2, <3>3
  <2>3. r \in OrderServiceRequest /\ Own(c, r)
    <3>1. CASE step[c] = 10
      <4>1. r = [method |-> "CreateOrder", user_id |-> known[c].user, texts |-> "good"]
        BY <3>1, CallAt DEF r
      <4> QED BY <4>1, <2>1, <2>2, <3>1
        DEF OrderServiceRequest, CreateOrderRequest, Own 
    <3>2. CASE step[c] = 11
      <4>1. r = [method |-> "CreateOrderItem", order_id |-> known[c].order,
                 product_id |-> known[c].product, quantity |-> 2, texts |-> "good"]
        BY <3>2, CallAt DEF r
      <4> QED BY <4>1, <2>1, <2>2, <3>2
        DEF OrderServiceRequest, CreateOrderItemRequest, Own 
    <3>3. CASE step[c] = 12
      <4>1. r = [method |-> "GetOrder", id |-> known[c].order]
        BY <3>3, CallAt DEF r
      <4> QED BY <4>1, <2>2, <3>3
        DEF OrderServiceRequest, GetOrderRequest, Own 
    <3>4. CASE step[c] = 13
      <4>1. r = [method |-> "GetOrderItems", order_id |-> known[c].order]
        BY <3>4, CallAt DEF r
      <4> QED BY <4>1, <2>2, <3>4
        DEF OrderServiceRequest, GetOrderItemsRequest, Own 
    <3>5. CASE step[c] = 14
      <4>1. r = [method |-> "ListOrdersByUser", user_id |-> known[c].user]
        BY <3>5, CallAt DEF r
      <4> QED BY <4>1, <2>2, <3>5
        DEF OrderServiceRequest, ListOrdersByUserRequest, Own 
    <3>6. CASE step[c] = 15
      <4>1. r = [method |-> "UpdateOrderStatus", id |-> known[c].order, status |-> "completed"]
        BY <3>6, CallAt DEF r
      <4> QED BY <4>1, <2>1, <2>2, <3>6
        DEF OrderServiceRequest, UpdateOrderStatusRequest, Own 
    <3> QED BY <1>o, <3>1, <3>2, <3>3, <3>4, <3>5, <3>6
  <2> QED BY <2>3 DEF Request, r
<1>d. CASE step[c] \in 16..20
  <2>2. /\ step[c] \in {16, 18} => k.order \in Id(Orders)
        /\ step[c] = 17 => k.item \in Id(Items)
        /\ step[c] = 19 => k.product \in Id(Products)
        /\ step[c] = 20 => k.user \in Id(Users)
    <3>1. step[c] \in {16, 18} => k.order \in Id(Orders)
      BY <1>2, PlanLabels DEF Needs, KnownTyped, Id
    <3>2. step[c] = 17 => k.item \in Id(Items)
      BY <1>2, PlanLabels DEF Needs, KnownTyped, Id
    <3>3. step[c] = 19 => k.product \in Id(Products)
      BY <1>2, PlanLabels DEF Needs, KnownTyped, Id
    <3>4. step[c] = 20 => k.user \in Id(Users)
      BY <1>2, PlanLabels DEF Needs, KnownTyped, Id
    <3> QED BY <3>1, <3>2, <3>3, <3>4
  <2>3. r \in Request /\ Own(c, r)
    <3>1. CASE step[c] = 16
      <4>1. r = [method |-> "GetOrderItems", order_id |-> known[c].order]
        BY <3>1, CallAt DEF r
      <4> QED BY <4>1, <2>2, <3>1
        DEF Request, OrderServiceRequest, GetOrderItemsRequest, Own 
    <3>2. CASE step[c] = 17
      <4>1. r = [method |-> "DeleteOrderItem", id |-> known[c].item]
        BY <3>2, CallAt DEF r
      <4> QED BY <4>1, <2>2, <3>2
        DEF Request, OrderServiceRequest, DeleteOrderItemRequest, Own 
    <3>3. CASE step[c] = 18
      <4>1. r = [method |-> "DeleteOrder", id |-> known[c].order]
        BY <3>3, CallAt DEF r
      <4> QED BY <4>1, <2>2, <3>3
        DEF Request, OrderServiceRequest, DeleteOrderRequest, Own 
    <3>4. CASE step[c] = 19
      <4>1. r = [method |-> "DeleteProduct", id |-> known[c].product]
        BY <3>4, CallAt DEF r
      <4> QED BY <4>1, <2>2, <3>4
        DEF Request, ProductServiceRequest, DeleteProductRequest, Own 
    <3>5. CASE step[c] = 20
      <4>1. r = [method |-> "DeleteUser", id |-> known[c].user]
        BY <3>5, CallAt DEF r
      <4> QED BY <4>1, <2>2, <3>5
        DEF Request, UserServiceRequest, DeleteUserRequest, Own 
    <3> QED BY <1>d, <3>1, <3>2, <3>3, <3>4, <3>5
  <2> QED BY <2>3 DEF r
<1>e. CASE step[c] = 21
  <2>1. r = EventCall
    BY <1>e, CallAt DEF r
  <2>2. EventCall \in CreateEventRequest
    <3>1. "user.signup" \in Text(EventType)
      BY DemoAssumption DEF Text
    <3>2. TRUE \in BOOLEAN
      BY Zenon
    <3> QED BY <3>1, <3>2 DEF EventCall, CreateEventRequest
  <2>3. Own(c, r)
    BY <2>1 DEF Own, EventCall
  <2> QED BY <2>1, <2>2, <2>3 DEF Request, EventServiceRequest, r
<1>x. step[c] \in Int
  BY <1>1
<1> QED BY <1>1, <1>x, <1>u, <1>p, <1>o, <1>d, <1>e

(* What a step leaves of a client: it goes forward, forgets nothing of     *)
(* what it did, and learns each identifier at one step of the plan.        *)
Moves(c) ==
  /\ step[c] <= step'[c]
  /\ failed[c] \subseteq failed'[c] /\ made[c] \subseteq made'[c]
  /\ step[c] # 1 => known'[c].user = known[c].user
  /\ step[c] # 6 => known'[c].product = known[c].product
  /\ step[c] # 10 => known'[c].order = known[c].order
  /\ step[c] # 16 => known'[c].item = known[c].item
  /\ step[c] # 21 => known'[c].event = known[c].event
  /\ step[c] \in {1, 6, 10, 16} /\ step'[c] = step[c] => known'[c] = known[c]

LEMMA OwnStays ==
  ASSUME Shape, Shape', NEW c \in Client, Moves(c), NEW req, Own(c, req)
  PROVE  Own(c, req)'
<1>1. step \in [Client -> 1..25] /\ step' \in [Client -> 1..25]
  BY Zenon DEF Shape
<1>2. step[c] \in Int /\ step'[c] \in Int
  BY <1>1
<1> QED BY <1>2 DEF Own, Moves

LEMMA PositionAt ==
  Position("check") = 23 /\ Position("exit0") = 24 /\ Position("exit1") = 25
<1>1. ASSUME NEW i \in 1..21 PROVE Plan[i] \in CallLabel
  BY PlanLabels, PlanLayout
<1>2. ASSUME NEW i \in 1..25, Plan[i] \in Ending PROVE i \in 22..25
  BY <1>1, <1>2 DEF CallLabel, Ending
<1> DEFINE pc == Position("check")
           p0 == Position("exit0")
           p1 == Position("exit1")
<1>3. /\ pc \in 1..25 /\ Plan[pc] = "check" /\ p0 \in 1..25 /\ Plan[p0] = "exit0"
      /\ p1 \in 1..25 /\ Plan[p1] = "exit1"
  BY PositionOfLabel, PlanLabels DEF Ending
<1> HIDE DEF pc, p0, p1
<1>4. pc \in 22..25 /\ p0 \in 22..25 /\ p1 \in 22..25
  BY <1>2, <1>3 DEF Ending
<1>5. pc = 23 /\ p0 = 24 /\ p1 = 25
  BY <1>3, <1>4, PlanLabels
<1> QED BY <1>5 DEF pc, p0, p1

LEMMA AdvanceTo ==
  ASSUME Shape, NEW c \in Client, Scripted(c), NEW ok, Advance(c, ok)
  PROVE  /\ step[c] \in 1..21 /\ step' \in [Client -> 1..25]
         /\ \A d \in Client : d # c => step'[d] = step[d]
         /\ step[c] < 21 => step'[c] = step[c] + 1
         /\ step[c] = 21 => step'[c] \in {22, 25} /\ (step'[c] = 22 => ok)
<1>1. step[c] \in 1..21 /\ Label(c) = Plan[step[c]]
  BY PlanLabels DEF Scripted, Label
<1>2. Label(c) = "CreateEvent" <=> step[c] = 21
  BY <1>1, PlanLabels
<1>3. CASE Label(c) = "CreateEvent" /\ ~ok
  <2>1. step' = [step EXCEPT ![c] = 25]
    BY <1>3, PositionAt DEF Advance
  <2> QED BY <1>1, <1>2, <1>3, <2>1 DEF Shape
<1>4. CASE ~(Label(c) = "CreateEvent" /\ ~ok)
  <2>1. step' = [step EXCEPT ![c] = step[c] + 1]
    BY <1>4 DEF Advance
  <2> QED BY <1>1, <1>2, <1>4, <2>1 DEF Shape
<1> QED BY <1>3, <1>4

(* What an answer teaches the client.                                      *)
LEMMA LearnTo ==
  ASSUME Shape, NEW c \in Client, Scripted(c), NEW body, Learn(c, Label(c), body)
  PROVE  /\ known' = [d \in Client |-> [k \in Kind |-> known'[d][k]]]
         /\ \A d \in Client : d # c => known'[d] = known[d]
         /\ IF step[c] = 1 /\ body # {}
            THEN \E m \in body : known'[c].user = m.id
            ELSE known'[c].user = known[c].user
         /\ IF step[c] = 6 /\ body # {}
            THEN \E m \in body : known'[c].product = m.id
            ELSE known'[c].product = known[c].product
         /\ IF step[c] = 10 /\ body # {}
            THEN \E m \in body : known'[c].order = m.id
            ELSE known'[c].order = known[c].order
         /\ IF step[c] = 16 /\ body # {}
            THEN \E m \in body : known'[c].item = m.id
            ELSE known'[c].item = known[c].item
         /\ IF step[c] = 21 /\ body # {}
            THEN \E m \in body : known'[c].event = m.id
            ELSE known'[c].event = known[c].event
<1>1. step[c] \in 1..21 /\ Label(c) = Plan[step[c]]
  BY PlanLabels DEF Scripted, Label
<1>2. known = [d \in Client |-> [k \in Kind |-> known[d][k]]]
  BY DEF Shape
<1>3. {"user", "product", "order", "item", "event"} = Kind
  BY DEF Kind
<1>4. CASE body = {} \/ step[c] \notin {1, 6, 10, 16, 21}
  <2>1. step[c] \notin {1, 6, 10, 16, 21} =>
          Label(c) \notin {"CreateUser", "CreateProduct", "CreateOrder", "FindItem",
                           "CreateEvent"}
    BY <1>1, PlanLabels
  <2>2. UNCHANGED known
    BY <1>4, <2>1 DEF Learn
  <2> QED BY <1>2, <1>4, <2>2
<1> DEFINE Learnt(kind, m) ==
             /\ known' = [d \in Client |-> [k \in Kind |-> known'[d][k]]]
             /\ \A d \in Client : d # c => known'[d] = known[d]
             /\ known'[c][kind] = m.id
             /\ \A k \in Kind \ {kind} : known'[c][k] = known[c][k]
<1>5. ASSUME NEW kind \in Kind, NEW m \in body,
             known' = [known EXCEPT ![c][kind] = m.id]
      PROVE  Learnt(kind, m)
  BY <1>2, <1>5
<1>6. ASSUME body # {}, step[c] \in {1, 6, 10, 16, 21}
      PROVE  \E m \in body : known' = [known EXCEPT ![c][
               IF step[c] = 1 THEN "user" ELSE IF step[c] = 6 THEN "product"
               ELSE IF step[c] = 10 THEN "order" ELSE IF step[c] = 16 THEN "item"
               ELSE "event"] = m.id]
  <2>1. CASE step[c] = 1
    BY <1>1, <1>6, <2>1, PlanLabels DEF Learn
  <2>2. CASE step[c] = 6
    BY <1>1, <1>6, <2>2, PlanLabels DEF Learn
  <2>3. CASE step[c] = 10
    BY <1>1, <1>6, <2>3, PlanLabels DEF Learn
  <2>4. CASE step[c] = 16
    BY <1>1, <1>6, <2>4, PlanLabels DEF Learn
  <2>5. CASE step[c] = 21
    BY <1>1, <1>6, <2>5, PlanLabels DEF Learn
  <2> QED BY <1>6, <2>1, <2>2, <2>3, <2>4, <2>5
<1>7. CASE body # {} /\ step[c] = 1
  <2>1. PICK m \in body : known' = [known EXCEPT ![c]["user"] = m.id]
    BY <1>6, <1>7
  <2>2. Learnt("user", m)
    BY <1>3, <1>5, <2>1
  <2> QED BY <1>3, <1>7, <2>2
<1>8. CASE body # {} /\ step[c] = 6
  <2>1. PICK m \in body : known' = [known EXCEPT ![c]["product"] = m.id]
    BY <1>6, <1>8
  <2>2. Learnt("product", m)
    BY <1>3, <1>5, <2>1
  <2> QED BY <1>3, <1>8, <2>2
<1>9. CASE body # {} /\ step[c] = 10
  <2>1. PICK m \in body : known' = [known EXCEPT ![c]["order"] = m.id]
    BY <1>6, <1>9
  <2>2. Learnt("order", m)
    BY <1>3, <1>5, <2>1
  <2> QED BY <1>3, <1>9, <2>2
<1>10. CASE body # {} /\ step[c] = 16
  <2>1. PICK m \in body : known' = [known EXCEPT ![c]["item"] = m.id]
    BY <1>6, <1>10
  <2>2. Learnt("item", m)
    BY <1>3, <1>5, <2>1
  <2> QED BY <1>3, <1>10, <2>2
<1>11. CASE body # {} /\ step[c] = 21
  <2>1. PICK m \in body : known' = [known EXCEPT ![c]["event"] = m.id]
    BY <1>6, <1>11
  <2>2. Learnt("event", m)
    BY <1>3, <1>5, <2>1
  <2> QED BY <1>3, <1>11, <2>2
<1> QED BY <1>4, <1>7, <1>8, <1>9, <1>10, <1>11

-----------------------------------------------------------------------------
(* The invariant of the clients, whatever the others ask for.              *)

Creates == {"CreateUser", "CreateProduct", "CreateOrder", "CreateOrderItem"}

(* An identifier a client knows is one its own create was answered with.   *)
KnownMade(c) ==
  {known[c].user, known[c].product, known[c].order} \subseteq made[c] \cup {NULL}

(* A create that failed is past.                                           *)
Past(c) ==
  /\ "CreateUser" \in failed[c] => step[c] > 1
  /\ "CreateProduct" \in failed[c] => step[c] > 6
  /\ "CreateOrder" \in failed[c] => step[c] > 10
  /\ "CreateOrderItem" \in failed[c] => step[c] > 11

(* A row a client created hangs on what the client knows, and the client   *)
(* knows the row unless the create failed.                                 *)
Rows(c) ==
  /\ \A u \in users : u.id \in made[c] =>
       /\ step[c] > 1
       /\ "CreateUser" \in failed[c] \/ known[c].user = u.id
  /\ \A p \in products : p.id \in made[c] =>
       /\ step[c] > 6
       /\ "CreateProduct" \in failed[c] \/ known[c].product = p.id
  /\ \A o \in orders : o.id \in made[c] =>
       /\ step[c] > 10 /\ o.user_id = known[c].user
       /\ "CreateOrder" \in failed[c] \/ known[c].order = o.id
  /\ \A i \in items : i.id \in made[c] =>
       /\ step[c] > 11
       /\ i.order_id = known[c].order /\ i.product_id = known[c].product

(* Once a delete is past and did not fail, what it deleted is gone.        *)
Deletes(c) ==
  /\ step[c] > 18 /\ "DeleteOrder" \notin failed[c] =>
       known[c].order \notin Tables!Ids(orders)
  /\ step[c] > 19 /\ "DeleteProduct" \notin failed[c] =>
       known[c].product \notin Tables!Ids(products)
  /\ step[c] > 20 /\ "DeleteUser" \notin failed[c] =>
       known[c].user \notin Tables!Ids(users)

(* A client polls only for an event it knows.                              *)
Polls(c) == step[c] \in 22..24 => known[c].event # NULL

ClientInv(c) ==
  /\ KnownTyped(c) /\ KnownMade(c) /\ made[c] \subseteq issued
  /\ Past(c) /\ Rows(c) /\ Deletes(c) /\ Polls(c)

(* A call a client has given up on: one of its own, and noted as failed.   *)
Abandoned(l) ==
  /\ l.client \in Client /\ l.request \in Request /\ Own(l.client, l.request)
  /\ l.request.method \in Creates => l.request.method \in failed[l.client]

DemoInv ==
  /\ Tables!TypeOK /\ Tables!NoOrphans /\ Outbox!TypeOK
  /\ Shape /\ expired \subseteq Client /\ pollOver \subseteq Client
  /\ \A l \in late : Abandoned(l)
  /\ \A c \in Client : ClientInv(c)

-----------------------------------------------------------------------------
(* One client, in a step in which req is executed or nothing is.           *)

(* A row made for the client is one it knows, or its create failed.        *)
Explained(c, req) ==
  Accepted(req) =>
    /\ req.method = "CreateUser" =>
         /\ step'[c] > 1
         /\ "CreateUser" \in failed'[c] \/ known'[c].user = Fresh(Users)
    /\ req.method = "CreateProduct" =>
         /\ step'[c] > 6
         /\ "CreateProduct" \in failed'[c] \/ known'[c].product = Fresh(Products)
    /\ req.method = "CreateOrder" =>
         /\ step'[c] > 10 /\ req.user_id = known'[c].user
         /\ "CreateOrder" \in failed'[c] \/ known'[c].order = Fresh(Orders)
    /\ req.method = "CreateOrderItem" =>
         /\ step'[c] > 11
         /\ req.order_id = known'[c].order /\ req.product_id = known'[c].product

MadeFor(c, req) ==
  \/ made'[c] = made[c]
  \/ made'[c] = made[c] \cup (issued' \ issued) /\ Explained(c, req)

(* A delete the client is done with has failed or has deleted.             *)
Removed(c) ==
  /\ step[c] = 18 /\ step'[c] > 18 /\ "DeleteOrder" \notin failed'[c] =>
       known'[c].order \notin Tables!Ids(orders)'
  /\ step[c] = 19 /\ step'[c] > 19 /\ "DeleteProduct" \notin failed'[c] =>
       known'[c].product \notin Tables!Ids(products)'
  /\ step[c] = 20 /\ step'[c] > 20 /\ "DeleteUser" \notin failed'[c] =>
       known'[c].user \notin Tables!Ids(users)'

LEMMA RowsStep ==
  ASSUME Tables!TypeOK, NEW c \in Client, step[c] \in Int, step'[c] \in Int,
         made[c] \subseteq issued, Rows(c), Moves(c),
         NEW req, RowsComeFrom(req), MadeFor(c, req)
  PROVE  Rows(c)'
<1>1. ASSUME NEW id, id \in issued, id \in made'[c] PROVE id \in made[c]
  BY <1>1 DEF MadeFor
<1>2. ASSUME NEW id, id \notin issued, id \in made'[c] PROVE Explained(c, req)
  BY <1>2 DEF MadeFor
<1>i. /\ \A u \in users : u.id \in issued
      /\ \A p \in products : p.id \in issued
      /\ \A o \in orders : o.id \in issued
      /\ \A i \in items : i.id \in issued
  BY DEF Tables!TypeOK, Tables!Ids
<1>3. ASSUME NEW u \in users', u.id \in made'[c]
      PROVE  step'[c] > 1 /\ ("CreateUser" \in failed'[c] \/ known'[c].user = u.id)
  <2>1. CASE u.id \in Tables!Ids(users)
    <3>1. PICK old \in users : old.id = u.id
      BY <2>1 DEF Tables!Ids
    <3>2. old.id \in made[c]
      BY <1>1, <1>3, <1>i, <3>1
    <3> QED BY <3>1, <3>2 DEF Rows, Moves
  <2>2. CASE u.id \notin Tables!Ids(users)
    <3>1. /\ Accepted(req) /\ req.method = "CreateUser"
          /\ u.id = Fresh(Users) /\ u.id \notin issued
      BY <2>2 DEF RowsComeFrom
    <3> QED BY <1>2, <1>3, <3>1 DEF Explained
  <2> QED BY <2>1, <2>2
<1>4. ASSUME NEW p \in products', p.id \in made'[c]
      PROVE  step'[c] > 6 /\ ("CreateProduct" \in failed'[c] \/ known'[c].product = p.id)
  <2>1. CASE p.id \in Tables!Ids(products)
    <3>1. PICK old \in products : old.id = p.id
      BY <2>1 DEF Tables!Ids
    <3>2. old.id \in made[c]
      BY <1>1, <1>4, <1>i, <3>1
    <3> QED BY <3>1, <3>2 DEF Rows, Moves
  <2>2. CASE p.id \notin Tables!Ids(products)
    <3>1. /\ Accepted(req) /\ req.method = "CreateProduct"
          /\ p.id = Fresh(Products) /\ p.id \notin issued
      BY <2>2 DEF RowsComeFrom
    <3> QED BY <1>2, <1>4, <3>1 DEF Explained
  <2> QED BY <2>1, <2>2
<1>5. ASSUME NEW o \in orders', o.id \in made'[c]
      PROVE  /\ step'[c] > 10 /\ o.user_id = known'[c].user
             /\ "CreateOrder" \in failed'[c] \/ known'[c].order = o.id
  <2>1. ASSUME NEW old \in orders, old.id = o.id, old.user_id = o.user_id
        PROVE  /\ step'[c] > 10 /\ o.user_id = known'[c].user
               /\ "CreateOrder" \in failed'[c] \/ known'[c].order = o.id
    <3>1. old.id \in made[c]
      BY <1>1, <1>5, <1>i, <2>1
    <3> QED BY <2>1, <3>1 DEF Rows, Moves
  <2>2. CASE /\ Accepted(req) /\ req.method = "CreateOrder"
             /\ o.id = Fresh(Orders) /\ o.id \notin issued /\ o.user_id = req.user_id
    BY <1>2, <1>5, <2>2 DEF Explained
  <2> QED BY <2>1, <2>2 DEF RowsComeFrom
<1>6. ASSUME NEW i \in items', i.id \in made'[c]
      PROVE  /\ step'[c] > 11
             /\ i.order_id = known'[c].order /\ i.product_id = known'[c].product
  <2>1. ASSUME NEW old \in items, old.id = i.id, old.order_id = i.order_id,
               old.product_id = i.product_id
        PROVE  /\ step'[c] > 11
               /\ i.order_id = known'[c].order /\ i.product_id = known'[c].product
    <3>1. old.id \in made[c]
      BY <1>1, <1>6, <1>i, <2>1
    <3> QED BY <2>1, <3>1 DEF Rows, Moves
  <2>2. CASE /\ Accepted(req) /\ req.method = "CreateOrderItem"
             /\ i.id = Fresh(Items) /\ i.id \notin issued
             /\ i.order_id = req.order_id /\ i.product_id = req.product_id
    BY <1>2, <1>6, <2>2 DEF Explained
  <2> QED BY <2>1, <2>2 DEF RowsComeFrom
<1> QED BY <1>3, <1>4, <1>5, <1>6 DEF Rows

LEMMA DeletesStep ==
  ASSUME Tables!TypeOK, Tables!TypeOK', NEW c \in Client,
         step[c] \in Int, step'[c] \in Int, step[c] < 18 => step'[c] <= 18,
         step[c] = 18 => step'[c] <= 19, step[c] = 19 => step'[c] <= 20,
         made[c] \subseteq issued, KnownMade(c), Deletes(c), Moves(c), Removed(c),
         NEW req, RowsComeFrom(req)
  PROVE  Deletes(c)'
<1>n. NULL \notin Users /\ NULL \notin Products /\ NULL \notin Orders
  BY DemoAssumption
<1>i. /\ \A u \in users' : u.id \in Users
      /\ \A p \in products' : p.id \in Products
      /\ \A o \in orders' : o.id \in Orders
  BY DEF Tables!TypeOK, Tables!UserRow, Tables!ProductRow, Tables!OrderRow
<1>1. ASSUME step'[c] > 18, "DeleteOrder" \notin failed'[c]
      PROVE  known'[c].order \notin Tables!Ids(orders)'
  <2>1. CASE step[c] = 18
    BY <1>1, <2>1 DEF Removed
  <2>2. CASE step[c] > 18
    <3>1. known[c].order \notin Tables!Ids(orders) /\ known'[c].order = known[c].order
      BY <1>1, <2>2 DEF Deletes, Moves
    <3>2. known[c].order \in issued \cup {NULL}
      BY DEF KnownMade
    <3>3. \A o \in orders' : o.id # known[c].order
      BY <1>i, <1>n, <3>1, <3>2 DEF RowsComeFrom, Tables!Ids
    <3> QED BY <3>1, <3>3 DEF Tables!Ids
  <2> QED BY <1>1, <2>1, <2>2
<1>2. ASSUME step'[c] > 19, "DeleteProduct" \notin failed'[c]
      PROVE  known'[c].product \notin Tables!Ids(products)'
  <2>1. CASE step[c] = 19
    BY <1>2, <2>1 DEF Removed
  <2>2. CASE step[c] > 19
    <3>1. known[c].product \notin Tables!Ids(products) /\ known'[c].product = known[c].product
      BY <1>2, <2>2 DEF Deletes, Moves
    <3>2. known[c].product \in issued \cup {NULL}
      BY DEF KnownMade
    <3>3. \A p \in products' : p.id # known[c].product
      BY <1>i, <1>n, <3>1, <3>2 DEF RowsComeFrom
    <3> QED BY <3>1, <3>3 DEF Tables!Ids
  <2> QED BY <1>2, <2>1, <2>2
<1>3. ASSUME step'[c] > 20, "DeleteUser" \notin failed'[c]
      PROVE  known'[c].user \notin Tables!Ids(users)'
  <2>1. CASE step[c] = 20
    BY <1>3, <2>1 DEF Removed
  <2>2. CASE step[c] > 20
    <3>1. known[c].user \notin Tables!Ids(users) /\ known'[c].user = known[c].user
      BY <1>3, <2>2 DEF Deletes, Moves
    <3>2. known[c].user \in issued \cup {NULL}
      BY DEF KnownMade
    <3>3. \A u \in users' : u.id # known[c].user
      BY <1>i, <1>n, <3>1, <3>2 DEF RowsComeFrom
    <3> QED BY <3>1, <3>3 DEF Tables!Ids
  <2> QED BY <1>3, <2>1, <2>2
<1> QED BY <1>1, <1>2, <1>3 DEF Deletes

(* Nothing is executed: no row is new, or gone.                            *)
LEMMA NothingExecuted ==
  ASSUME UNCHANGED tables, NEW req
  PROVE  RowsComeFrom(req) /\ RowsStay(req)
BY DEF tables, RowsComeFrom, RowsStay, Tables!Ids

(* A client that does not move, for which req may have been executed late. *)
LEMMA StillStep ==
  ASSUME Tables!TypeOK, Tables!TypeOK', NEW c \in Client, step[c] \in Int, ClientInv(c),
         step'[c] = step[c], known'[c] = known[c], failed'[c] = failed[c],
         NEW req, RowsComeFrom(req),
         \/ made'[c] = made[c]
         \/ /\ made'[c] = made[c] \cup (issued' \ issued)
            /\ Own(c, req) /\ (req.method \in Creates => req.method \in failed[c])
  PROVE  Moves(c) /\ ClientInv(c)'
<1>1. Moves(c)
  BY DEF Moves
<1>2. MadeFor(c, req)
  <2>1. ASSUME Own(c, req), req.method \in Creates => req.method \in failed[c]
        PROVE  Explained(c, req)
    BY <2>1 DEF Explained, Own, Creates, ClientInv, Past
  <2> QED BY <2>1 DEF MadeFor
<1>3. Rows(c)'
  BY <1>1, <1>2, RowsStep DEF ClientInv
<1>4. Deletes(c)'
  <2>1. Removed(c)
    BY DEF Removed
  <2> QED BY <1>1, <2>1, DeletesStep DEF ClientInv
<1>5. made'[c] \subseteq issued'
  BY DEF ClientInv, RowsComeFrom
<1>6. KnownTyped(c)' /\ KnownMade(c)' /\ Past(c)' /\ Polls(c)'
  BY <1>1 DEF ClientInv, KnownTyped, KnownMade, Past, Polls, Moves
<1> QED BY <1>1, <1>3, <1>4, <1>5, <1>6 DEF ClientInv

(* A call that failed is noted at its step.                                *)
LEMMA NotePast ==
  ASSUME Shape, NEW c \in Client, step[c] \in 1..21, step'[c] \in Int,
         step'[c] > step[c], Past(c), NEW ok, Note(c, ok)
  PROVE  /\ failed' = [d \in Client |-> failed'[d]]
         /\ failed[c] \subseteq failed'[c] /\ Past(c)'
         /\ \A d \in Client : d # c => failed'[d] = failed[d]
         /\ ~ok => Label(c) \in failed'[c]
<1>1. Label(c) = Plan[step[c]] /\ failed = [d \in Client |-> failed[d]]
  BY DEF Label, Shape
<1>2. /\ failed' = [d \in Client |-> failed'[d]]
      /\ \A d \in Client : d # c => failed'[d] = failed[d]
      /\ failed'[c] = IF ok THEN failed[c] ELSE failed[c] \cup {Label(c)}
  BY <1>1 DEF Note
<1>3. /\ Label(c) = "CreateUser" => step[c] = 1
      /\ Label(c) = "CreateProduct" => step[c] = 6
      /\ Label(c) = "CreateOrder" => step[c] = 10
      /\ Label(c) = "CreateOrderItem" => step[c] = 11
  BY <1>1, PlanLabels
<1> QED BY <1>2, <1>3 DEF Past

(* The client goes on without an answer: it gives the call up, or has not  *)
(* what the call needs.                                                    *)
LEMMA OnwardStep ==
  ASSUME Tables!TypeOK, Tables!TypeOK', Shape, NEW c \in Client, ClientInv(c),
         Scripted(c), Advance(c, FALSE), UNCHANGED <<tables, known, made>>,
         Note(c, FALSE) \/ (~Applies(c) /\ UNCHANGED failed)
  PROVE  Shape' /\ Moves(c) /\ ClientInv(c)'
<1>1. /\ step[c] \in 1..21 /\ step' \in [Client -> 1..25]
      /\ \A d \in Client : d # c => step'[d] = step[d]
      /\ step[c] < 21 => step'[c] = step[c] + 1
      /\ step[c] = 21 => step'[c] = 25
  BY AdvanceTo
<1>2. step'[c] \in Int /\ step'[c] > step[c]
  BY <1>1
<1>3. /\ failed' = [d \in Client |-> failed'[d]]
      /\ failed[c] \subseteq failed'[c] /\ Past(c)'
      /\ Applies(c) => Label(c) \in failed'[c]
  <2>1. CASE Note(c, FALSE)
    BY <1>1, <1>2, <2>1, NotePast DEF ClientInv
  <2>2. CASE ~Applies(c) /\ UNCHANGED failed
    BY <1>2, <2>2 DEF ClientInv, Past, Shape
  <2> QED BY <2>1, <2>2
<1>4. Shape'
  BY <1>1, <1>3 DEF Shape
<1>5. Moves(c)
  BY <1>1, <1>2, <1>3 DEF Moves
<1>6. Removed(c)
  <2>1. /\ \A u \in users' : u.id \in Users
        /\ \A p \in products' : p.id \in Products
        /\ \A o \in orders' : o.id \in Orders
        /\ NULL \notin Users /\ NULL \notin Products /\ NULL \notin Orders
    BY DemoAssumption DEF Tables!TypeOK, Tables!UserRow, Tables!ProductRow, Tables!OrderRow
  <2>2. Label(c) = Plan[step[c]]
    BY DEF Label
  <2>3. ~Applies(c) => \E k \in Needs(Label(c)) : known[c][k] = NULL
    BY DEF Applies
  <2>4. /\ step[c] = 18 /\ "DeleteOrder" \notin failed'[c] => known[c].order = NULL
        /\ step[c] = 19 /\ "DeleteProduct" \notin failed'[c] => known[c].product = NULL
        /\ step[c] = 20 /\ "DeleteUser" \notin failed'[c] => known[c].user = NULL
    BY <1>3, <2>2, <2>3, PlanLabels DEF Needs
  <2> QED BY <2>1, <2>4 DEF Removed, Tables!Ids
<1>7. Rows(c)' /\ Deletes(c)'
  <2>1. PICK req : req = Req(c)
    OBVIOUS
  <2>2. RowsComeFrom(req) /\ MadeFor(c, req)
    BY NothingExecuted DEF MadeFor
  <2>3. Rows(c)'
    BY <1>1, <1>2, <1>5, <2>2, RowsStep DEF ClientInv
  <2>4. Deletes(c)'
    BY <1>1, <1>2, <1>5, <1>6, <2>2, DeletesStep DEF ClientInv
  <2> QED BY <2>3, <2>4
<1>8. made'[c] \subseteq issued'
  BY DEF ClientInv, tables
<1>9. KnownTyped(c)' /\ KnownMade(c)' /\ Polls(c)'
  BY <1>1 DEF ClientInv, KnownTyped, KnownMade, Polls
<1> QED BY <1>3, <1>4, <1>5, <1>7, <1>8, <1>9 DEF ClientInv

(* A create is answered with the one row it made, and a refusal with none. *)
LEMMA CreateAnswers ==
  ASSUME NEW req \in Request, req.method \in Creates
  PROVE  /\ ~Accepted(req) => Answer(req).body = {}
         /\ Accepted(req) =>
              /\ Answer(req).body # {}
              /\ \A m \in Answer(req).body :
                   /\ req.method = "CreateUser" => m.id = Fresh(Users)
                   /\ req.method = "CreateProduct" => m.id = Fresh(Products)
                   /\ req.method = "CreateOrder" => m.id = Fresh(Orders)
                   /\ req.method = "CreateOrderItem" => m.id = Fresh(Items)
<1>r. \A code : Refused(code).body = {} /\ Refused(code).code = code
  BY DEF Refused
<1>o. \A body : OK(body).body = body /\ OK(body).code = "OK"
  BY DEF OK
<1>c. "InvalidArgument" # "OK" /\ "Internal" # "OK"
  OBVIOUS
<1>1. CASE req.method = "CreateUser"
  <2> DEFINE m == [id |-> Fresh(Users), username |-> req.username, email |-> req.email]
  <2>1. Answer(req) = CreateUserAnswer(req)
    BY <1>1, UserRequests
  <2>2. \/ Answer(req) = Refused("InvalidArgument") \/ Answer(req) = Refused("Internal")
        \/ Answer(req) = OK({m})
    BY <2>1 DEF CreateUserAnswer
  <2>3. m.id = Fresh(Users)
    OBVIOUS
  <2> HIDE DEF m
  <2> QED BY <1>r, <1>o, <1>c, <1>1, <2>2, <2>3 DEF Accepted
<1>2. CASE req.method = "CreateProduct"
  <2> DEFINE m == [id |-> Fresh(Products), stock_quantity |-> req.stock_quantity]
  <2>1. Answer(req) = CreateProductAnswer(req)
    BY <1>2, ProductRequests
  <2>2. \/ Answer(req) = Refused("InvalidArgument") \/ Answer(req) = Refused("Internal")
        \/ Answer(req) = OK({m})
    BY <2>1 DEF CreateProductAnswer
  <2>3. m.id = Fresh(Products)
    OBVIOUS
  <2> HIDE DEF m
  <2> QED BY <1>r, <1>o, <1>c, <1>2, <2>2, <2>3 DEF Accepted
<1>3. CASE req.method = "CreateOrder"
  <2> DEFINE m == [id |-> Fresh(Orders), user_id |-> req.user_id, status |-> "pending"]
  <2>1. Answer(req) = CreateOrderAnswer(req)
    BY <1>3, OrderRequests
  <2>2. \/ Answer(req) = Refused("InvalidArgument") \/ Answer(req) = Refused("Internal")
        \/ Answer(req) = OK({m})
    BY <2>1 DEF CreateOrderAnswer
  <2>3. m.id = Fresh(Orders)
    OBVIOUS
  <2> HIDE DEF m
  <2> QED BY <1>r, <1>o, <1>c, <1>3, <2>2, <2>3 DEF Accepted
<1>4. CASE req.method = "CreateOrderItem"
  <2> DEFINE m == [id |-> Fresh(Items), order_id |-> req.order_id,
                   product_id |-> req.product_id, quantity |-> req.quantity]
  <2>1. Answer(req) = CreateOrderItemAnswer(req)
    BY <1>4, OrderRequests
  <2>2. \/ Answer(req) = Refused("InvalidArgument") \/ Answer(req) = Refused("Internal")
        \/ Answer(req) = OK({m})
    BY <2>1 DEF CreateOrderItemAnswer
  <2>3. m.id = Fresh(Items)
    OBVIOUS
  <2> HIDE DEF m
  <2> QED BY <1>r, <1>o, <1>c, <1>4, <2>2, <2>3 DEF Accepted
<1> QED BY <1>1, <1>2, <1>3, <1>4 DEF Creates

(* A row of GetOrderItems is an item of the order.                         *)
LEMMA ItemsAnswer ==
  ASSUME NEW req \in Request, req.method = "GetOrderItems", NEW m \in Answer(req).body
  PROVE  \E i \in items : i.order_id = req.order_id /\ m = orderItemToProto(i)
<1>1. Answer(req) = GetOrderItemsAnswer(req)
  BY OrderRequests
<1>2. CASE req.order_id = Malformed
  BY <1>1, <1>2 DEF GetOrderItemsAnswer, Refused
<1>3. CASE req.order_id # Malformed
  <2>1. Answer(req) =
          OK({orderItemToProto(i) : i \in {j \in items : j.order_id = req.order_id}})
    BY <1>1, <1>3 DEF GetOrderItemsAnswer
  <2>2. m \in {orderItemToProto(i) : i \in {j \in items : j.order_id = req.order_id}}
    BY <2>1 DEF OK
  <2> QED BY <2>2
<1> QED BY <1>2, <1>3

(* The answer has come: what was created is known.                         *)
Teaches(c, req) ==
  /\ step[c] = 1 => IF Accepted(req) THEN known'[c].user = Fresh(Users)
                                     ELSE known'[c].user = known[c].user
  /\ step[c] = 6 => IF Accepted(req) THEN known'[c].product = Fresh(Products)
                                     ELSE known'[c].product = known[c].product
  /\ step[c] = 10 => IF Accepted(req) THEN known'[c].order = Fresh(Orders)
                                      ELSE known'[c].order = known[c].order
  /\ IF step[c] = 16 /\ Answer(req).body # {}
     THEN \E m \in Answer(req).body : known'[c].item = m.id
     ELSE known'[c].item = known[c].item
  /\ IF step[c] = 21 /\ Answer(req).body # {}
     THEN \E m \in Answer(req).body : known'[c].event = m.id
     ELSE known'[c].event = known[c].event

LEMMA AnsweredCall ==
  ASSUME Tables!TypeOK, Shape, NEW c \in Client, ClientInv(c), Answered(c),
         NEW req, req = Req(c)
  PROVE  /\ req \in Request /\ Own(c, req) /\ CanIssue(req)
         /\ RowsComeFrom(req) /\ RowsStay(req) /\ RowsDone(req) /\ Tables!TypeOK'
         /\ step[c] \in 1..21 /\ step' \in [Client -> 1..25]
         /\ step[c] < 21 => step'[c] = step[c] + 1
         /\ step[c] = 21 => step'[c] \in {22, 25} /\ (step'[c] = 22 => Accepted(req))
         /\ \A d \in Client : d # c =>
              /\ step'[d] = step[d] /\ known'[d] = known[d]
              /\ failed'[d] = failed[d] /\ made'[d] = made[d]
         /\ made'[c] = made[c] \cup (issued' \ issued)
         /\ ~Accepted(req) => Label(c) \in failed'[c]
         /\ Past(c)' /\ Shape' /\ Moves(c) /\ Teaches(c, req)
<1> DEFINE body == Answer(req).body
           ok == Accepted(req)
<1>2. /\ Scripted(c) /\ Execute(req) /\ Learn(c, Label(c), body) /\ Advance(c, ok)
      /\ Note(c, ok)
      /\ made' = [made EXCEPT ![c] = made[c] \cup (issued' \ issued)]
  BY DEF Answered, Applies, ExecuteFor, Accepted
<1>3. req \in Request /\ Own(c, req)
  BY OwnCall DEF ClientInv, Answered
<1>4. RowsComeFrom(req) /\ RowsStay(req) /\ RowsDone(req) /\ Tables!TypeOK'
  BY <1>2, <1>3, Effects, TablesStep
<1>5. CanIssue(req)
  BY <1>2 DEF Execute
<1> HIDE DEF body, ok
<1>6. /\ step[c] \in 1..21 /\ step' \in [Client -> 1..25]
      /\ \A d \in Client : d # c => step'[d] = step[d]
      /\ step[c] < 21 => step'[c] = step[c] + 1
      /\ step[c] = 21 => step'[c] \in {22, 25} /\ (step'[c] = 22 => ok)
  BY <1>2, AdvanceTo
<1>7. step[c] \in Int /\ step'[c] \in Int /\ step'[c] > step[c]
  BY <1>6
<1>8. /\ failed' = [d \in Client |-> failed'[d]]
      /\ failed[c] \subseteq failed'[c] /\ Past(c)'
      /\ \A d \in Client : d # c => failed'[d] = failed[d]
      /\ ~ok => Label(c) \in failed'[c]
  BY <1>2, <1>6, <1>7, NotePast DEF ClientInv
<1>9. /\ made' = [d \in Client |-> made'[d]]
      /\ made'[c] = made[c] \cup (issued' \ issued)
      /\ \A d \in Client : d # c => made'[d] = made[d]
  BY <1>2 DEF Shape
<1>10. /\ known' = [d \in Client |-> [k \in Kind |-> known'[d][k]]]
       /\ \A d \in Client : d # c => known'[d] = known[d]
       /\ IF step[c] = 1 /\ body # {}
          THEN \E m \in body : known'[c].user = m.id
          ELSE known'[c].user = known[c].user
       /\ IF step[c] = 6 /\ body # {}
          THEN \E m \in body : known'[c].product = m.id
          ELSE known'[c].product = known[c].product
       /\ IF step[c] = 10 /\ body # {}
          THEN \E m \in body : known'[c].order = m.id
          ELSE known'[c].order = known[c].order
       /\ IF step[c] = 16 /\ body # {}
          THEN \E m \in body : known'[c].item = m.id
          ELSE known'[c].item = known[c].item
       /\ IF step[c] = 21 /\ body # {}
          THEN \E m \in body : known'[c].event = m.id
          ELSE known'[c].event = known[c].event
  BY <1>2, LearnTo
<1>11. Moves(c)
  BY <1>7, <1>8, <1>9, <1>10 DEF Moves
<1>12. Shape'
  BY <1>6, <1>8, <1>9, <1>10 DEF Shape
<1>13. step[c] \in {1, 6, 10} =>
         /\ req.method \in Creates
         /\ req.method = "CreateUser" <=> step[c] = 1
         /\ req.method = "CreateProduct" <=> step[c] = 6
         /\ req.method = "CreateOrder" <=> step[c] = 10
  BY <1>6, CallAt, MethodAt DEF Creates
<1>14. Teaches(c, req)
  <2>1. req.method \in Creates =>
          /\ ~ok => body = {}
          /\ ok => /\ body # {}
                   /\ \A m \in body :
                        /\ req.method = "CreateUser" => m.id = Fresh(Users)
                        /\ req.method = "CreateProduct" => m.id = Fresh(Products)
                        /\ req.method = "CreateOrder" => m.id = Fresh(Orders)
    BY <1>3, CreateAnswers DEF ok, body
  <2>2. /\ step[c] = 1 => IF ok THEN known'[c].user = Fresh(Users)
                                ELSE known'[c].user = known[c].user
        /\ step[c] = 6 => IF ok THEN known'[c].product = Fresh(Products)
                                ELSE known'[c].product = known[c].product
        /\ step[c] = 10 => IF ok THEN known'[c].order = Fresh(Orders)
                                 ELSE known'[c].order = known[c].order
    BY <1>10, <1>13, <2>1
  <2> QED BY <1>10, <2>2 DEF Teaches, ok, body
<1> QED
  BY <1>3, <1>4, <1>5, <1>6, <1>8, <1>9, <1>10, <1>11, <1>12, <1>14 DEF ok

(* What was created is known, what was deleted gone.                       *)
LEMMA AnsweredStep ==
  ASSUME Tables!TypeOK, Shape, NEW c \in Client, ClientInv(c), Answered(c)
  PROVE  /\ Shape' /\ Moves(c) /\ ClientInv(c)'
         /\ \A d \in Client : d # c =>
              /\ step'[d] = step[d] /\ known'[d] = known[d]
              /\ failed'[d] = failed[d] /\ made'[d] = made[d]
<1>1. PICK req : req = Req(c)
  OBVIOUS
<1> DEFINE body == Answer(req).body
           ok == Accepted(req)
<1>2. /\ req \in Request /\ Own(c, req) /\ CanIssue(req)
      /\ RowsComeFrom(req) /\ RowsStay(req) /\ RowsDone(req) /\ Tables!TypeOK'
      /\ step[c] \in 1..21 /\ step' \in [Client -> 1..25]
      /\ step[c] < 21 => step'[c] = step[c] + 1
      /\ step[c] = 21 => step'[c] \in {22, 25} /\ (step'[c] = 22 => ok)
      /\ \A d \in Client : d # c =>
           /\ step'[d] = step[d] /\ known'[d] = known[d]
           /\ failed'[d] = failed[d] /\ made'[d] = made[d]
      /\ made'[c] = made[c] \cup (issued' \ issued)
      /\ ~ok => Label(c) \in failed'[c]
      /\ Past(c)' /\ Shape' /\ Moves(c) /\ Teaches(c, req)
  BY <1>1, AnsweredCall
<1> HIDE DEF ok, body
<1>7. step[c] \in Int /\ step'[c] \in Int /\ step'[c] > step[c]
  BY <1>2
<1>13. /\ step[c] = 1 => IF ok THEN known'[c].user = Fresh(Users)
                               ELSE known'[c].user = known[c].user
       /\ step[c] = 6 => IF ok THEN known'[c].product = Fresh(Products)
                               ELSE known'[c].product = known[c].product
       /\ step[c] = 10 => IF ok THEN known'[c].order = Fresh(Orders)
                                ELSE known'[c].order = known[c].order
       /\ IF step[c] = 16 /\ body # {}
          THEN \E m \in body : known'[c].item = m.id
          ELSE known'[c].item = known[c].item
       /\ IF step[c] = 21 /\ body # {}
          THEN \E m \in body : known'[c].event = m.id
          ELSE known'[c].event = known[c].event
  BY <1>2 DEF Teaches, ok, body
<1>10. /\ step[c] # 1 => known'[c].user = known[c].user
       /\ step[c] # 6 => known'[c].product = known[c].product
       /\ step[c] # 10 => known'[c].order = known[c].order
  BY <1>2 DEF Moves
<1>l. Label(c) = Plan[step[c]]
  BY DEF Label
<1>m. /\ req.method = "CreateUser" <=> step[c] = 1
      /\ req.method = "CreateProduct" <=> step[c] = 6
      /\ req.method = "CreateOrder" <=> step[c] = 10
      /\ req.method = "CreateOrderItem" <=> step[c] = 11
      /\ req.method = "DeleteOrder" <=> step[c] = 18
      /\ req.method = "DeleteProduct" <=> step[c] = 19
      /\ req.method = "DeleteUser" <=> step[c] = 20
      /\ step[c] = 16 => req.method = "GetOrderItems"
      /\ step[c] = 21 => req = EventCall
  BY <1>1, <1>2, CallAt, MethodAt
<1>14. /\ step[c] = 1 => Fresh(Users) \in Users \ issued
       /\ step[c] = 6 => Fresh(Products) \in Products \ issued
       /\ step[c] = 10 => Fresh(Orders) \in Orders \ issued
       /\ step[c] = 11 => Fresh(Items) \in Items \ issued
  BY <1>2, <1>m, FreshIds
<1>15. /\ step[c] = 1 /\ ok => Fresh(Users) \in issued'
       /\ step[c] = 6 /\ ok => Fresh(Products) \in issued'
       /\ step[c] = 10 /\ ok => Fresh(Orders) \in issued'
  BY <1>2, <1>m DEF RowsDone, ok, Tables!TypeOK, Tables!Ids
<1>16. known'[c].item \in Items \cup {NULL}
  <2>1. CASE step[c] = 16 /\ body # {}
    <3>1. PICK m \in body : known'[c].item = m.id
      BY <1>13, <2>1
    <3>2. PICK i \in items : m = orderItemToProto(i)
      BY <1>2, <1>m, <2>1, ItemsAnswer DEF body
    <3>3. m.id = i.id
      BY <3>2 DEF orderItemToProto
    <3> QED BY <3>1, <3>3 DEF Tables!TypeOK, Tables!ItemRow
  <2>2. CASE ~(step[c] = 16 /\ body # {})
    BY <1>13, <2>2 DEF ClientInv, KnownTyped
  <2> QED BY <2>1, <2>2
<1>17. /\ known'[c].event \in Event \cup {NULL}
       /\ step[c] = 21 => known'[c].event \in Event
  <2>1. CASE step[c] = 21
    <3>1. body # {} /\ \A m \in body : m.id \in Event
      BY <1>2, <1>m, <2>1, CreateEventNamesOne DEF body
    <3> QED BY <1>13, <2>1, <3>1
  <2>2. CASE step[c] # 21
    BY <1>13, <2>2 DEF ClientInv, KnownTyped
  <2> QED BY <2>1, <2>2
<1>18. KnownTyped(c)'
  BY <1>10, <1>13, <1>14, <1>16, <1>17 DEF ClientInv, KnownTyped
<1>19. KnownMade(c)'
  BY <1>2, <1>10, <1>13, <1>14, <1>15 DEF ClientInv, KnownMade
<1>20. Polls(c)'
  <2>1. NULL \notin Event
    BY DemoAssumption
  <2> QED BY <1>2, <1>17, <2>1 DEF Polls
<1>21. Explained(c, req)
  BY <1>2, <1>10, <1>13, <1>m DEF Explained, Own, ok
<1>22. Removed(c)
  <2>1. /\ step[c] = 18 => req.id = known'[c].order
        /\ step[c] = 19 => req.id = known'[c].product
        /\ step[c] = 20 => req.id = known'[c].user
    BY <1>2, <1>10, <1>m DEF Own
  <2>2. /\ step[c] = 18 /\ "DeleteOrder" \notin failed'[c] => ok
        /\ step[c] = 19 /\ "DeleteProduct" \notin failed'[c] => ok
        /\ step[c] = 20 /\ "DeleteUser" \notin failed'[c] => ok
    BY <1>2, <1>l, PlanLabels
  <2>3. /\ step[c] = 18 /\ ok => req.id \notin Tables!Ids(orders)'
        /\ step[c] = 19 /\ ok => req.id \notin Tables!Ids(products)'
        /\ step[c] = 20 /\ ok => req.id \notin Tables!Ids(users)'
    BY <1>2, <1>m DEF RowsDone, ok, Tables!Ids
  <2> QED BY <2>1, <2>2, <2>3 DEF Removed
<1>23. Rows(c)'
  BY <1>2, <1>7, <1>21, RowsStep DEF ClientInv, MadeFor
<1>24. Deletes(c)'
  BY <1>2, <1>7, <1>22, DeletesStep DEF ClientInv
<1>25. made'[c] \subseteq issued'
  BY <1>2 DEF ClientInv, RowsComeFrom
<1> QED
  BY <1>2, <1>18, <1>19, <1>20, <1>23, <1>24, <1>25
  DEF ClientInv

(* Past the script, a client moves among the last labels only.             *)
LEMMA LabelAt ==
  ASSUME Shape, NEW c \in Client
  PROVE  /\ step[c] \in 1..25 /\ (Scripted(c) <=> step[c] <= 21)
         /\ Label(c) = "poll" <=> step[c] = 22
         /\ Label(c) = "check" <=> step[c] = 23
         /\ Label(c) = "exit0" <=> step[c] = 24
<1>1. step[c] \in 1..25
  BY DEF Shape
<1>2. ASSUME step[c] \in 1..21 PROVE Label(c) \in CallLabel
  BY <1>2, PlanLabels, PlanLayout DEF Label
<1>3. CASE step[c] \in 1..21
  BY <1>2, <1>3, PlanLabels DEF CallLabel, Scripted
<1>4. CASE step[c] \in 22..25
  BY <1>4, PlanLabels DEF Label, Scripted
<1> QED BY <1>1, <1>3, <1>4

LEMMA EndingStep ==
  ASSUME Tables!TypeOK, Tables!TypeOK', Shape, NEW c \in Client, ClientInv(c),
         UNCHANGED <<tables, known, made, failed>>,
         NEW label \in {"check", "exit0", "exit1"},
         \/ Label(c) = "poll" /\ label \in {"check", "exit1"}
         \/ Label(c) = "check" /\ label \in {"exit0", "exit1"},
         step' = [step EXCEPT ![c] = Position(label)]
  PROVE  /\ Shape' /\ Moves(c) /\ ClientInv(c)'
         /\ \A d \in Client : d # c => step'[d] = step[d]
<1>1. /\ step[c] \in {22, 23} /\ step'[c] \in 23..25 /\ step'[c] > step[c]
      /\ step' \in [Client -> 1..25] /\ \A d \in Client : d # c => step'[d] = step[d]
  BY LabelAt, PositionAt DEF Shape
<1>2. Shape' /\ Moves(c)
  BY <1>1 DEF Shape, Moves
<1>3. PICK req : req = Req(c)
  OBVIOUS
<1>4. RowsComeFrom(req) /\ MadeFor(c, req) /\ Removed(c)
  BY <1>1, NothingExecuted DEF MadeFor, Removed
<1>5. Rows(c)'
  BY <1>1, <1>2, <1>4, RowsStep DEF ClientInv
<1>6. Deletes(c)'
  BY <1>1, <1>2, <1>4, DeletesStep DEF ClientInv
<1>7. made'[c] \subseteq issued'
  BY DEF ClientInv, tables
<1>8. KnownTyped(c)' /\ KnownMade(c)' /\ Past(c)' /\ Polls(c)'
  BY <1>1 DEF ClientInv, KnownTyped, KnownMade, Past, Polls
<1> QED BY <1>1, <1>2, <1>5, <1>6, <1>7, <1>8 DEF ClientInv

LEMMA StaysAbandoned ==
  ASSUME Shape, Shape', NEW l, Abandoned(l), Moves(l.client)
  PROVE  Abandoned(l)'
<1>1. Own(l.client, l.request)'
  BY OwnStays DEF Abandoned
<1> QED BY <1>1 DEF Abandoned, Moves

LEMMA NewlyAbandoned ==
  ASSUME Shape, Shape', NEW c \in Client, KnownTyped(c), Applies(c), Moves(c),
         Label(c) \in failed'[c],
         NEW l, l = [client |-> c, request |-> Req(c)]
  PROVE  Abandoned(l)'
<1>1. l.client = c /\ l.request = Req(c)
  OBVIOUS
<1>2. l.request \in Request /\ Own(c, l.request)
  BY <1>1, OwnCall
<1>3. Own(c, l.request)'
  BY <1>2, OwnStays
<1>4. l.request.method \in Creates => l.request.method = Label(c)
  <2>1. step[c] \in 1..21 /\ Label(c) = Plan[step[c]]
    BY LabelAt DEF Applies, Label
  <2> QED BY <1>1, <2>1, MethodAt, PlanLabels DEF Creates
<1> QED BY <1>1, <1>2, <1>3, <1>4 DEF Abandoned

LEMMA DemoStep == DemoInv /\ [Next]_vars => DemoInv'
<1> SUFFICES ASSUME DemoInv, [Next]_vars PROVE DemoInv'
  OBVIOUS
<1>i. /\ Tables!TypeOK /\ Tables!NoOrphans /\ Outbox!TypeOK /\ Shape
      /\ \A c \in Client : ClientInv(c) /\ step[c] \in Int
      /\ \A l \in late : Abandoned(l)
  BY LabelAt DEF DemoInv
<1>t. ASSUME UNCHANGED tables PROVE Tables!TypeOK' /\ Tables!NoOrphans'
  BY <1>i, <1>t DEF tables, Tables!TypeOK, Tables!Key, Tables!Ids, Tables!NoOrphans
<1>o. ASSUME UNCHANGED outbox PROVE Outbox!TypeOK'
  BY <1>i, <1>o DEF outbox, Outbox!TypeOK, Outbox!TopicsTypeOK
(* The clients that stand still while nothing is executed for them.        *)
<1>s. ASSUME Tables!TypeOK', NEW d \in Client, NEW req, RowsComeFrom(req),
             step'[d] = step[d], known'[d] = known[d], failed'[d] = failed[d],
             made'[d] = made[d]
      PROVE  ClientInv(d)' /\ Moves(d)
  BY <1>i, <1>s, StillStep
(* The client goes on without an answer.                                   *)
<1>a. ASSUME NEW c \in Client, Scripted(c), Advance(c, FALSE),
             UNCHANGED <<tables, outbox, known, made, pollOver>>,
             Note(c, FALSE) \/ (~Applies(c) /\ UNCHANGED failed),
             expired' \subseteq expired \cup {c},
             \A l \in late' :
               l \in late \/ (Applies(c) /\ l = [client |-> c, request |-> Req(c)])
      PROVE  DemoInv'
  <2>1. Tables!TypeOK' /\ Tables!NoOrphans' /\ Outbox!TypeOK'
    BY <1>a, <1>t, <1>o
  <2>2. Shape' /\ Moves(c) /\ ClientInv(c)'
    BY <1>a, <1>i, <2>1, OnwardStep
  <2>3. \A d \in Client : d # c =>
          step'[d] = step[d] /\ failed'[d] = failed[d]
    <3>1. \A d \in Client : d # c => step'[d] = step[d]
      BY <1>a, <1>i, AdvanceTo
    <3>2. \A d \in Client : d # c => failed'[d] = failed[d]
      BY <1>a, <1>i DEF Note, Shape
    <3> QED BY <3>1, <3>2
  <2>4. \A d \in Client : ClientInv(d)' /\ Moves(d)
    <3> SUFFICES ASSUME NEW d \in Client, d # c PROVE ClientInv(d)' /\ Moves(d)
      BY <2>2
    <3>1. PICK req : req = Req(c)
      OBVIOUS
    <3>2. RowsComeFrom(req)
      BY <1>a, NothingExecuted
    <3> QED BY <1>a, <1>s, <2>1, <2>3, <3>2
  <2>5. Applies(c) => Label(c) \in failed'[c]
    BY <1>a, <1>i DEF Note, Shape
  <2>6. \A l \in late' : Abandoned(l)'
    <3> SUFFICES ASSUME NEW l \in late' PROVE Abandoned(l)'
      OBVIOUS
    <3>1. CASE l \in late
      <4>1. Abandoned(l) /\ l.client \in Client
        BY <1>i, <3>1 DEF Abandoned
      <4> QED BY <1>i, <2>2, <2>4, <4>1, StaysAbandoned
    <3>2. CASE Applies(c) /\ l = [client |-> c, request |-> Req(c)]
      BY <1>i, <2>2, <2>5, <3>2, NewlyAbandoned DEF ClientInv
    <3> QED BY <1>a, <3>1, <3>2
  <2> QED BY <1>a, <2>1, <2>2, <2>4, <2>6 DEF DemoInv
<1>1. ASSUME NEW c \in Client, Skip(c) PROVE DemoInv'
  <2>1. /\ Scripted(c) /\ ~Applies(c) /\ Advance(c, FALSE)
        /\ UNCHANGED <<tables, outbox, known, made, pollOver, failed, expired, late>>
    BY <1>1 DEF Skip
  <2> QED BY <1>a, <2>1
<1>2. ASSUME NEW c \in Client, Lost(c) \/ Expire(c) \/ FailsUnsent(c) PROVE DemoInv'
  <2>1. /\ Scripted(c) /\ Applies(c) /\ Advance(c, FALSE) /\ Note(c, FALSE)
        /\ UNCHANGED <<tables, outbox, known, made, pollOver>>
    BY <1>2 DEF Lost, Expire, FailsUnsent, GiveUp, Applies
  <2>2. /\ expired' \subseteq expired \cup {c}
        /\ \A l \in late' : l \in late \/ l = [client |-> c, request |-> Req(c)]
    BY <1>2 DEF Lost, Expire, FailsUnsent
  <2> QED BY <1>a, <2>1, <2>2
<1>3. ASSUME NEW c \in Client, Answered(c) PROVE DemoInv'
  <2>1. PICK req : req = Req(c)
    OBVIOUS
  <2>2. Execute(req) /\ UNCHANGED <<expired, pollOver, late>> /\ Applies(c)
    BY <1>3, <2>1 DEF Answered, ExecuteFor
  <2>3. req \in Request
    BY <1>i, <2>1, <2>2, OwnCall DEF ClientInv
  <2>4. RowsComeFrom(req) /\ Tables!TypeOK' /\ Tables!NoOrphans' /\ Outbox!TypeOK'
    BY <1>i, <2>2, <2>3, Effects, TablesStep, OutboxTypeStep
  <2>5. /\ Shape' /\ Moves(c) /\ ClientInv(c)'
        /\ \A d \in Client : d # c =>
             /\ step'[d] = step[d] /\ known'[d] = known[d]
             /\ failed'[d] = failed[d] /\ made'[d] = made[d]
    BY <1>3, <1>i, AnsweredStep
  <2>6. \A d \in Client : ClientInv(d)' /\ Moves(d)
    BY <1>s, <2>4, <2>5
  <2>7. \A l \in late' : Abandoned(l)'
    <3> SUFFICES ASSUME NEW l \in late PROVE Abandoned(l)'
      BY <2>2
    <3>1. Abandoned(l) /\ l.client \in Client
      BY <1>i DEF Abandoned
    <3> QED BY <1>i, <2>5, <2>6, <3>1, StaysAbandoned
  <2> QED BY <2>2, <2>4, <2>5, <2>6, <2>7 DEF DemoInv
(* Past the script.                                                        *)
<1>b. ASSUME NEW c \in Client, NEW label \in {"check", "exit0", "exit1"},
             \/ Label(c) = "poll" /\ label \in {"check", "exit1"}
             \/ Label(c) = "check" /\ label \in {"exit0", "exit1"},
             Goto(c, label)
      PROVE  DemoInv'
  <2>1. /\ step' = [step EXCEPT ![c] = Position(label)]
        /\ UNCHANGED <<tables, outbox, known, expired, pollOver, late, failed, made>>
    BY <1>b DEF Goto
  <2>2. Tables!TypeOK' /\ Tables!NoOrphans' /\ Outbox!TypeOK'
    BY <1>t, <1>o, <2>1
  <2>3. /\ Shape' /\ Moves(c) /\ ClientInv(c)'
        /\ \A d \in Client : d # c => step'[d] = step[d]
    BY <1>b, <1>i, <2>1, <2>2, EndingStep
  <2>4. PICK req : req = Req(c)
    OBVIOUS
  <2>5. RowsComeFrom(req)
    BY <2>1, NothingExecuted
  <2>6. \A d \in Client : ClientInv(d)' /\ Moves(d)
    BY <1>s, <2>1, <2>2, <2>3, <2>5
  <2>7. \A l \in late' : Abandoned(l)'
    <3> SUFFICES ASSUME NEW l \in late PROVE Abandoned(l)'
      BY <2>1
    <3>1. Abandoned(l) /\ l.client \in Client
      BY <1>i DEF Abandoned
    <3> QED BY <1>i, <2>3, <2>6, <3>1, StaysAbandoned
  <2> QED BY <2>1, <2>2, <2>3, <2>6, <2>7 DEF DemoInv
<1>4. ASSUME NEW c \in Client, Polled(c) PROVE DemoInv'
  BY <1>4, <1>b DEF Polled
<1>5. ASSUME NEW c \in Client, PollEnds(c) PROVE DemoInv'
  BY <1>5, <1>b DEF PollEnds
(* No client moves; req is executed, for one of them or for others.        *)
<1>c. ASSUME NEW req, RowsComeFrom(req), Tables!TypeOK', Tables!NoOrphans', Outbox!TypeOK',
             UNCHANGED <<step, known, failed, expired>>, late' \subseteq late,
             pollOver' \subseteq Client, made' = [d \in Client |-> made'[d]],
             \A d \in Client :
               \/ made'[d] = made[d]
               \/ /\ made'[d] = made[d] \cup (issued' \ issued)
                  /\ Own(d, req) /\ (req.method \in Creates => req.method \in failed[d])
      PROVE  DemoInv'
  <2>1. Shape'
    BY <1>c, <1>i DEF Shape
  <2>2. \A d \in Client : Moves(d) /\ ClientInv(d)'
    BY <1>c, <1>i, StillStep
  <2>3. \A l \in late' : Abandoned(l)'
    <3> SUFFICES ASSUME NEW l \in late PROVE Abandoned(l)'
      BY <1>c
    <3>1. Abandoned(l) /\ l.client \in Client
      BY <1>i DEF Abandoned
    <3> QED BY <1>i, <2>1, <2>2, <3>1, StaysAbandoned
  <2> QED BY <1>c, <2>1, <2>2, <2>3 DEF DemoInv
<1>n. ASSUME UNCHANGED <<tables, step, known, failed, expired, late, made>>,
             Outbox!TypeOK', pollOver' \subseteq Client
      PROVE  DemoInv'
  <2>1. PICK req : req = EventCall
    OBVIOUS
  <2>2. RowsComeFrom(req) /\ Tables!TypeOK' /\ Tables!NoOrphans'
    BY <1>n, <1>t, NothingExecuted
  <2>3. made' = [d \in Client |-> made'[d]]
    BY <1>n, <1>i DEF Shape
  <2> QED BY <1>c, <1>n, <2>2, <2>3
<1>6. ASSUME NEW c \in Client, PollOver(c) PROVE DemoInv'
  <2>1. /\ UNCHANGED <<tables, step, known, failed, expired, late, made, outbox>>
        /\ pollOver' \subseteq Client
    BY <1>6 DEF PollOver, DemoInv
  <2> QED BY <1>n, <1>o, <2>1
<1>7. ASSUME NEW l \in late, ExecuteLate(l) PROVE DemoInv'
  <2>1. PICK req : req = l.request
    OBVIOUS
  <2>2. /\ Abandoned(l) /\ Execute(req) /\ req \in Request
        /\ UNCHANGED <<step, known, failed, expired, pollOver>> /\ late' \subseteq late
        /\ made' = [made EXCEPT ![l.client] = made[l.client] \cup (issued' \ issued)]
    BY <1>7, <1>i, <2>1 DEF ExecuteLate, ExecuteFor, Abandoned, clientVars
  <2>3. RowsComeFrom(req) /\ Tables!TypeOK' /\ Tables!NoOrphans' /\ Outbox!TypeOK'
    BY <1>i, <2>2, Effects, TablesStep, OutboxTypeStep
  <2>4. /\ made' = [d \in Client |-> made'[d]]
        /\ \A d \in Client :
             \/ made'[d] = made[d]
             \/ /\ made'[d] = made[d] \cup (issued' \ issued)
                /\ Own(d, req) /\ (req.method \in Creates => req.method \in failed[d])
    BY <1>i, <2>1, <2>2 DEF Abandoned, Shape
  <2>5. pollOver' \subseteq Client
    BY <2>2 DEF DemoInv
  <2> QED BY <1>c, <2>2, <2>3, <2>4, <2>5
<1>8. ASSUME NEW e \in Event, Pipeline(e) PROVE DemoInv'
  <2>1. /\ UNCHANGED <<tables, step, known, failed, expired, late, made, pollOver>>
        /\ Outbox!Publish(e) \/ Outbox!Complete(e) \/ Outbox!Fail(e)
    BY <1>8 DEF Pipeline, clientVars
  <2> QED BY <1>i, <1>n, <2>1, PipelineType DEF DemoInv
<1>9. ASSUME NEW req \in OthersAsk, Others(req) PROVE DemoInv'
  <2>1. /\ Execute(req) /\ req \in Request
        /\ UNCHANGED <<step, known, failed, expired, late, made, pollOver>>
    BY <1>9, DemoAssumption DEF Others, clientVars
  <2>2. RowsComeFrom(req) /\ Tables!TypeOK' /\ Tables!NoOrphans' /\ Outbox!TypeOK'
    BY <1>i, <2>1, Effects, TablesStep, OutboxTypeStep
  <2>3. pollOver' \subseteq Client /\ made' = [d \in Client |-> made'[d]]
    BY <1>i, <2>1 DEF DemoInv, Shape
  <2> QED BY <1>c, <2>1, <2>2, <2>3
<1>10. CASE UNCHANGED vars
  <2>1. UNCHANGED <<tables, step, known, failed, expired, late, made, pollOver, outbox>>
    BY <1>10 DEF vars, clientVars
  <2> QED BY <1>n, <1>o, <2>1 DEF DemoInv
<1> QED
  BY <1>1, <1>2, <1>3, <1>4, <1>5, <1>6, <1>7, <1>8, <1>9, <1>10 DEF Next

LEMMA DemoStart == Init => DemoInv
<1> SUFFICES ASSUME Init PROVE DemoInv
  OBVIOUS
<1>1. Tables!TypeOK /\ Tables!NoOrphans
  BY DEF Init, Tables!Init, Tables!TypeOK, Tables!Key, Tables!Ids, Tables!NoOrphans
<1>2. Outbox!TypeOK
  BY EmptySeq DEF Init, Outbox!Init, Outbox!TopicsInit, Outbox!TypeOK, Outbox!TopicsTypeOK
<1>3. Shape
  BY DEF Init, Shape
<1>4. ASSUME NEW c \in Client PROVE ClientInv(c)
  <2>1. /\ step[c] = 1 /\ made[c] = {} /\ failed[c] = {}
        /\ \A k \in Kind : known[c][k] = NULL
    BY DEF Init
  <2>2. users = {} /\ products = {} /\ orders = {} /\ items = {}
    BY DEF Init, Tables!Init
  <2>3. KnownTyped(c) /\ KnownMade(c) /\ Polls(c)
    BY <2>1 DEF KnownTyped, KnownMade, Polls, Kind
  <2> QED BY <2>1, <2>2, <2>3 DEF ClientInv, Past, Rows, Deletes
<1> QED BY <1>1, <1>2, <1>3, <1>4 DEF Init, DemoInv

(* The tables, the outbox and what the clients know keep their types, and  *)
(* a client that polls knows an event to poll for.                         *)
THEOREM TypeCorrect == Spec => []TypeOK
<1>1. DemoInv => TypeOK
  <2> SUFFICES ASSUME DemoInv PROVE TypeOK
    OBVIOUS
  <2>1. step \in [Client -> DOMAIN Plan]
    BY PlanLabels DEF DemoInv, Shape
  <2>2. \A c \in Client : Label(c) \in {"poll", "check", "exit0"} => step[c] \in 22..24
    BY LabelAt DEF DemoInv
  <2>3. \A l \in late : l.client \in Client /\ l.request \in Request
    BY DEF DemoInv, Abandoned
  <2> QED BY <2>1, <2>2, <2>3 DEF DemoInv, ClientInv, KnownTyped, Polls, TypeOK
<1> QED BY <1>1, DemoStart, DemoStep, PTL DEF Spec

(* Whatever calls are lost, executed late or cut off, and whatever other   *)
(* clients ask for: what a client created is there when it is done only    *)
(* for the calls that failed.                                              *)
THEOREM NothingIsLeft == Spec => []NothingLeftBehind
<1>1. DemoInv => NothingLeftBehind
  <2> SUFFICES ASSUME DemoInv, NEW c \in Client, Done(c)
               PROVE  /\ \A u \in users : u.id \in made[c] =>
                           failed[c] \cap {"CreateUser", "DeleteUser"} # {}
                      /\ \A p \in products : p.id \in made[c] =>
                           failed[c] \cap {"CreateProduct", "DeleteProduct"} # {}
                      /\ \A o \in orders : o.id \in made[c] =>
                           /\ "DeleteUser" \in failed[c]
                           /\ failed[c] \cap {"CreateOrder", "DeleteOrder"} # {}
                      /\ \A i \in items : i.id \in made[c] =>
                           {"DeleteOrder", "DeleteProduct", "DeleteUser"} \subseteq failed[c]
    BY DEF NothingLeftBehind
  <2>1. step[c] \in 22..25
    BY LabelAt DEF DemoInv, Done
  <2>2. Rows(c) /\ Deletes(c) /\ KnownMade(c) /\ Tables!NoOrphans /\ Tables!TypeOK
    BY DEF DemoInv, ClientInv
  <2>3. /\ \A u \in users : u.id = known[c].user => "DeleteUser" \in failed[c]
        /\ \A p \in products : p.id = known[c].product => "DeleteProduct" \in failed[c]
        /\ \A o \in orders : o.id = known[c].order => "DeleteOrder" \in failed[c]
    BY <2>1, <2>2 DEF Deletes, Tables!Ids
  <2>4. ASSUME NEW o \in orders, o.id \in made[c] PROVE "DeleteUser" \in failed[c]
    BY <2>2, <2>3, <2>4 DEF Rows, Tables!NoOrphans, Tables!Ids
  <2>5. ASSUME NEW i \in items, i.id \in made[c]
        PROVE  {"DeleteOrder", "DeleteProduct", "DeleteUser"} \subseteq failed[c]
    <3>1. /\ \E o \in orders : o.id = known[c].order
          /\ \E p \in products : p.id = known[c].product
      BY <2>2, <2>5 DEF Rows, Tables!NoOrphans, Tables!Ids
    <3>2. NULL \notin Orders /\ \A o \in orders : o.id \in Orders
      BY <2>2, DemoAssumption DEF Tables!TypeOK, Tables!OrderRow
    <3>3. PICK o \in orders : o.id = known[c].order
      BY <3>1
    <3>4. o.id \in made[c]
      BY <2>2, <3>2, <3>3 DEF KnownMade
    <3> QED BY <2>3, <2>4, <3>1, <3>4
  <2> QED BY <2>2, <2>3, <2>4, <2>5 DEF Rows
<1> QED BY <1>1, DemoStart, DemoStep, PTL DEF Spec

-----------------------------------------------------------------------------
(* What a client reads back, where others keep off its rows.               *)

(* The rows issued for one client are not issued for another.              *)
Apart == \A c, d \in Client : c # d => made[c] \cap made[d] = {}

KnownPast(c) ==
  /\ known[c].user # NULL => step[c] > 1
  /\ known[c].product # NULL => step[c] > 6
  /\ known[c].order # NULL => step[c] > 10

(* Between its create and its read, a row is as it was created.            *)
UserThere(c) ==
  step[c] \in 2..3 /\ known[c].user # NULL =>
    [id |-> known[c].user, username |-> "testuser", email |-> "testuser@example.com"]
      \in users

ProductThere(c) ==
  step[c] \in 7..8 /\ known[c].product # NULL =>
    [id |-> known[c].product, stock_quantity |-> 100] \in products

OrderThere(c) ==
  step[c] \in 11..12 /\ known[c].order # NULL =>
    [id |-> known[c].order, user_id |-> known[c].user, status |-> "pending"] \in orders

ItemThere(c) ==
  (/\ step[c] \in 12..16 /\ "CreateOrderItem" \notin failed[c]
   /\ known[c].order # NULL /\ known[c].product # NULL) =>
    \E i \in items : /\ i.id \in made[c] /\ i.order_id = known[c].order
                     /\ i.product_id = known[c].product

Reads(c) == UserThere(c) /\ ProductThere(c) /\ OrderThere(c) /\ ItemThere(c)

(* The items of its order are its own, and one at most unless the create   *)
(* failed: then a second may come of it late.                              *)
ItemsOf(c) ==
  /\ \A i \in items : i.order_id = known[c].order => i.id \in made[c] /\ step[c] > 11
  /\ "CreateOrderItem" \notin failed[c] =>
       \A i, j \in items : i.order_id = known[c].order /\ j.order_id = known[c].order =>
         i.id = j.id
  /\ known[c].item \in made[c] \cup {NULL}

ReadsInv ==
  /\ Apart
  /\ \A c \in Client : KnownPast(c) /\ Reads(c) /\ ItemsOf(c)

(* A request that changes none of the client's rows before the client      *)
(* itself would.                                                           *)
Spares(c, req) ==
  /\ req.method = "UpdateUser" => step[c] >= 5 \/ req.id \notin made[c] \cap Users
  /\ req.method = "DeleteUser" => step[c] >= 20 \/ req.id \notin made[c] \cap Users
  /\ req.method = "UpdateProduct" => step[c] >= 9 \/ req.id \notin made[c] \cap Products
  /\ req.method = "DeleteProduct" => step[c] >= 19 \/ req.id \notin made[c] \cap Products
  /\ req.method = "UpdateOrderStatus" => step[c] >= 15 \/ req.id \notin made[c] \cap Orders
  /\ req.method = "DeleteOrder" => step[c] >= 18 \/ req.id \notin made[c] \cap Orders
  /\ req.method = "DeleteOrderItem" => step[c] >= 17 \/ req.id \notin made[c] \cap Items

(* A request that adds no item to the client's order.                      *)
AddsNot(c, req) ==
  req.method = "CreateOrderItem" => req.order_id \notin made[c] \cap Orders

LEMMA OwnSpares ==
  ASSUME NEW c \in Client, NEW req, Own(c, req)
  PROVE  Spares(c, req)
BY DEF Own, Spares

LEMMA OwnSparesOthers ==
  ASSUME Apart, NEW c \in Client, NEW d \in Client, c # d, NEW req, Own(d, req),
         KnownMade(d), ItemsOf(d)
  PROVE  Spares(c, req) /\ AddsNot(c, req)
<1>1. /\ NULL \notin Users /\ NULL \notin Products /\ NULL \notin Orders
      /\ NULL \notin Items
  BY DemoAssumption
<1>2. /\ known[d].user \notin made[c] \cap Users
      /\ known[d].product \notin made[c] \cap Products
      /\ known[d].order \notin made[c] \cap Orders
      /\ known[d].item \notin made[c] \cap Items
  BY <1>1 DEF Apart, KnownMade, ItemsOf
<1> QED BY <1>2 DEF Own, Spares, AddsNot

(* What the step brings where the row is created.                          *)
Enters(c) ==
  /\ step[c] = 1 /\ step'[c] = 2 /\ known'[c].user # NULL =>
       [id |-> known'[c].user, username |-> "testuser", email |-> "testuser@example.com"]
         \in users'
  /\ step[c] = 6 /\ step'[c] = 7 /\ known'[c].product # NULL =>
       [id |-> known'[c].product, stock_quantity |-> 100] \in products'
  /\ step[c] = 10 /\ step'[c] = 11 /\ known'[c].order # NULL =>
       [id |-> known'[c].order, user_id |-> known'[c].user, status |-> "pending"] \in orders'
  /\ (/\ step[c] = 11 /\ step'[c] = 12 /\ "CreateOrderItem" \notin failed'[c]
      /\ known'[c].order # NULL /\ known'[c].product # NULL) =>
       \E i \in items' : /\ i.id \in made'[c] /\ i.order_id = known'[c].order
                         /\ i.product_id = known'[c].product

LEMMA ReadsStep ==
  ASSUME Tables!TypeOK, NEW c \in Client, step[c] \in 1..25, step'[c] \in 1..25,
         step'[c] \in {step[c], step[c] + 1} \/ step'[c] > 16,
         KnownTyped(c), KnownMade(c), Rows(c), Reads(c), Moves(c), Enters(c),
         NEW req, RowsStay(req), Spares(c, req)
  PROVE  Reads(c)'
<1>n. /\ NULL \notin Users /\ NULL \notin Products /\ NULL \notin Orders
      /\ NULL \notin Items
  BY DemoAssumption
<1>k. /\ known[c].user # NULL => known[c].user \in made[c] \cap Users
      /\ known[c].product # NULL => known[c].product \in made[c] \cap Products
      /\ known[c].order # NULL => known[c].order \in made[c] \cap Orders
  BY DEF KnownMade, KnownTyped
<1>1. ASSUME step'[c] \in 2..3, known'[c].user # NULL
      PROVE  [id |-> known'[c].user, username |-> "testuser",
              email |-> "testuser@example.com"] \in users'
  <2>1. CASE step[c] = 1
    BY <1>1, <2>1 DEF Enters
  <2>2. CASE step[c] # 1
    <3> DEFINE u == [id |-> known[c].user, username |-> "testuser",
                     email |-> "testuser@example.com"]
    <3>1. step[c] \in 2..3 /\ known'[c].user = known[c].user
      BY <1>1, <2>2 DEF Moves
    <3>2. u \in users /\ u.id = known[c].user /\ u.id \in made[c] \cap Users
      BY <1>1, <1>k, <3>1 DEF Reads, UserThere
    <3> HIDE DEF u
    <3>3. u \in users'
      BY <3>1, <3>2 DEF RowsStay, Spares
    <3> QED BY <3>1, <3>3 DEF u
  <2> QED BY <2>1, <2>2
<1>2. ASSUME step'[c] \in 7..8, known'[c].product # NULL
      PROVE  [id |-> known'[c].product, stock_quantity |-> 100] \in products'
  <2>1. CASE step[c] = 6
    BY <1>2, <2>1 DEF Enters
  <2>2. CASE step[c] # 6
    <3> DEFINE p == [id |-> known[c].product, stock_quantity |-> 100]
    <3>1. step[c] \in 7..8 /\ known'[c].product = known[c].product
      BY <1>2, <2>2 DEF Moves
    <3>2. p \in products /\ p.id = known[c].product /\ p.id \in made[c] \cap Products
      BY <1>2, <1>k, <3>1 DEF Reads, ProductThere
    <3> HIDE DEF p
    <3>3. p \in products'
      BY <3>1, <3>2 DEF RowsStay, Spares
    <3> QED BY <3>1, <3>3 DEF p
  <2> QED BY <2>1, <2>2
<1>3. ASSUME step'[c] \in 11..12, known'[c].order # NULL
      PROVE  [id |-> known'[c].order, user_id |-> known'[c].user, status |-> "pending"]
               \in orders'
  <2>1. CASE step[c] = 10
    BY <1>3, <2>1 DEF Enters
  <2>2. CASE step[c] # 10
    <3> DEFINE o == [id |-> known[c].order, user_id |-> known[c].user, status |-> "pending"]
    <3>1. step[c] \in 11..12
      BY <1>3, <2>2
    <3>2. known'[c].order = known[c].order /\ known'[c].user = known[c].user
      BY <3>1 DEF Moves
    <3>3. /\ o \in orders /\ o.id = known[c].order /\ o.user_id = known[c].user
          /\ o.id \in made[c] \cap Orders
      BY <1>3, <1>k, <3>1, <3>2 DEF Reads, OrderThere
    <3> HIDE DEF o
    <3>4. o.user_id \in made[c] \cap Users
      BY <1>n, <1>k, <3>3 DEF Tables!TypeOK, Tables!OrderRow
    <3>5. o \in orders'
      BY <3>1, <3>3, <3>4 DEF RowsStay, Spares
    <3> QED BY <3>2, <3>5 DEF o
  <2> QED BY <2>1, <2>2
<1>4. ASSUME step'[c] \in 12..16, "CreateOrderItem" \notin failed'[c],
             known'[c].order # NULL, known'[c].product # NULL
      PROVE  \E i \in items' : /\ i.id \in made'[c] /\ i.order_id = known'[c].order
                               /\ i.product_id = known'[c].product
  <2>1. CASE step[c] = 11
    BY <1>4, <2>1 DEF Enters
  <2>2. CASE step[c] # 11
    <3>1. step[c] \in 12..16
      BY <1>4, <2>2
    <3>2. /\ known'[c].order = known[c].order /\ known'[c].product = known[c].product
          /\ "CreateOrderItem" \notin failed[c] /\ made[c] \subseteq made'[c]
      BY <1>4, <3>1 DEF Moves
    <3>3. PICK i \in items : /\ i.id \in made[c] /\ i.order_id = known[c].order
                             /\ i.product_id = known[c].product
      BY <1>4, <3>1, <3>2 DEF Reads, ItemThere
    <3>4. /\ i.id \in made[c] \cap Items /\ i.order_id \in made[c] \cap Orders
          /\ i.product_id \in made[c] \cap Products
      BY <1>4, <1>k, <3>2, <3>3 DEF Tables!TypeOK, Tables!ItemRow
    <3>5. ASSUME NEW o \in orders, o.id = i.order_id PROVE o.user_id \in made[c] \cap Users
      <4>1. o.user_id = known[c].user
        BY <3>4, <3>5 DEF Rows
      <4> QED BY <1>n, <1>k, <4>1 DEF Tables!TypeOK, Tables!OrderRow
    <3>6. \E new \in items' : /\ new.id = i.id /\ new.order_id = i.order_id
                              /\ new.product_id = i.product_id
      BY <3>1, <3>4, <3>5 DEF RowsStay, Spares
    <3> QED BY <3>2, <3>3, <3>6
  <2> QED BY <2>1, <2>2
<1>5. UserThere(c)'
  BY <1>1, Zenon DEF UserThere
<1>6. ProductThere(c)'
  BY <1>2, Zenon DEF ProductThere
<1>7. OrderThere(c)'
  BY <1>3, Zenon DEF OrderThere
<1>8. ItemThere(c)'
  BY <1>4, Zenon DEF ItemThere
<1> QED BY <1>5, <1>6, <1>7, <1>8 DEF Reads

(* An item that comes to the client's order is the client's, and the first *)
(* one unless the create failed.                                           *)
ItemComes(c, req) ==
  \A i \in items' :
    /\ i.id \notin issued /\ Accepted(req) /\ req.method = "CreateOrderItem"
    /\ i.id = Fresh(Items) /\ req.order_id = known'[c].order
    /\ i.order_id = known'[c].order
    => /\ i.id \in made'[c] /\ step'[c] > 11
       /\ "CreateOrderItem" \in failed'[c] \/ step[c] = 11

LEMMA ItemsStep ==
  ASSUME Tables!TypeOK, Tables!NoOrphans, NEW c \in Client,
         step[c] \in Int, step'[c] \in Int, Moves(c), ItemsOf(c),
         step[c] = 10 => known'[c].order = known[c].order \/ known'[c].order \notin issued,
         known'[c].item \in made'[c] \cup {NULL},
         NEW req, RowsComeFrom(req), ItemComes(c, req)
  PROVE  ItemsOf(c)'
<1> DEFINE Old(i) == /\ \E old \in items : old.id = i.id /\ old.order_id = known[c].order
                     /\ known'[c].order = known[c].order
           New(i) == /\ Accepted(req) /\ req.method = "CreateOrderItem"
                     /\ i.id = Fresh(Items) /\ req.order_id = known'[c].order
                     /\ i.id \in made'[c] /\ step'[c] > 11
                     /\ "CreateOrderItem" \in failed'[c] \/ step[c] = 11
<1>1. ASSUME NEW i \in items', i.order_id = known'[c].order PROVE Old(i) \/ New(i)
  <2>1. ASSUME NEW old \in items, old.id = i.id, old.order_id = i.order_id PROVE Old(i)
    <3>1. old.order_id \in issued
      BY DEF Tables!TypeOK, Tables!NoOrphans, Tables!Ids
    <3>2. known'[c].order = known[c].order
      BY <1>1, <2>1, <3>1 DEF Moves
    <3> QED BY <1>1, <2>1, <3>2
  <2>2. CASE /\ Accepted(req) /\ req.method = "CreateOrderItem"
             /\ i.id = Fresh(Items) /\ i.id \notin issued
             /\ i.order_id = req.order_id /\ i.product_id = req.product_id
    BY <1>1, <2>2 DEF ItemComes
  <2> QED BY <2>1, <2>2 DEF RowsComeFrom
<1>2. ASSUME NEW i, Old(i) PROVE i.id \in made[c] /\ step[c] > 11
  BY <1>2 DEF ItemsOf
<1>3. ASSUME NEW i, NEW j, Old(i), Old(j), "CreateOrderItem" \notin failed[c]
      PROVE  i.id = j.id
  BY <1>3 DEF ItemsOf
<1> HIDE DEF Old
<1>4. \A i \in items' :
        i.order_id = known'[c].order => i.id \in made'[c] /\ step'[c] > 11
  BY <1>1, <1>2 DEF Moves
<1>5. ASSUME "CreateOrderItem" \notin failed'[c], NEW i \in items', NEW j \in items',
             i.order_id = known'[c].order, j.order_id = known'[c].order
      PROVE  i.id = j.id
  BY <1>1, <1>2, <1>3, <1>5 DEF Moves
<1> QED BY <1>4, <1>5 DEF ItemsOf

(* A client that does not move.                                            *)
LEMMA ReadsStill ==
  ASSUME Tables!TypeOK, Tables!TypeOK', Tables!NoOrphans, NEW c \in Client,
         step[c] \in 1..25, ClientInv(c), KnownPast(c), Reads(c), ItemsOf(c),
         step'[c] = step[c], known'[c] = known[c], failed'[c] = failed[c],
         NEW req, RowsComeFrom(req), RowsStay(req), Spares(c, req),
         \/ made'[c] = made[c] /\ AddsNot(c, req)
         \/ /\ made'[c] = made[c] \cup (issued' \ issued)
            /\ req.method \in Creates => req.method \in failed[c]
  PROVE  KnownPast(c)' /\ Reads(c)' /\ ItemsOf(c)'
<1>1. Moves(c)
  BY DEF Moves
<1>2. Enters(c)
  BY DEF Enters
<1>3. Reads(c)'
  BY <1>1, <1>2, ReadsStep DEF ClientInv
<1>4. ItemComes(c, req)
  <2> SUFFICES ASSUME NEW i \in items', i.id \notin issued, req.method = "CreateOrderItem",
                      req.order_id = known'[c].order, i.order_id = known'[c].order
               PROVE  /\ i.id \in made'[c] /\ step'[c] > 11
                      /\ "CreateOrderItem" \in failed'[c] \/ step[c] = 11
    BY DEF ItemComes
  <2>1. i.order_id \in Orders /\ i.id \in issued'
    BY DEF Tables!TypeOK, Tables!ItemRow, Tables!Ids
  <2>2. NULL \notin Orders
    BY DemoAssumption
  <2>3. ~AddsNot(c, req)
    BY <2>1, <2>2 DEF AddsNot, ClientInv, KnownMade
  <2> QED BY <2>1, <2>3 DEF Creates, ClientInv, Past
<1>5. ItemsOf(c)'
  <2>1. known'[c].item \in made'[c] \cup {NULL}
    BY DEF ItemsOf
  <2> QED BY <1>1, <1>4, <2>1, ItemsStep
<1>6. KnownPast(c)'
  BY DEF KnownPast
<1> QED BY <1>3, <1>5, <1>6

(* A client that goes on, and nothing is executed.                         *)
LEMMA ReadsOnward ==
  ASSUME Tables!TypeOK, Tables!NoOrphans, NEW c \in Client,
         step[c] \in 1..25, step'[c] \in 1..25, step'[c] = step[c] + 1 \/ step'[c] > 16,
         ClientInv(c), KnownPast(c), Reads(c), ItemsOf(c), Moves(c),
         UNCHANGED <<tables, known, made>>, Applies(c) => Label(c) \in failed'[c]
  PROVE  KnownPast(c)' /\ Reads(c)' /\ ItemsOf(c)'
<1>1. PICK req : req = EventCall
  OBVIOUS
<1>2. req.method = "CreateEvent"
  BY <1>1 DEF EventCall
<1>3. RowsComeFrom(req) /\ RowsStay(req) /\ Spares(c, req) /\ ItemComes(c, req)
  BY <1>2, NothingExecuted DEF Spares, ItemComes
<1>4. Enters(c)
  <2>1. step[c] = 11 => Label(c) = "CreateOrderItem"
    BY PlanLabels DEF Label
  <2>2. step[c] = 11 /\ "CreateOrderItem" \notin failed'[c] =>
          known[c].order = NULL \/ known[c].product = NULL
    BY <2>1, PlanLabels DEF Applies, Scripted, Needs
  <2> QED BY <2>2 DEF Enters, KnownPast
<1>5. Reads(c)'
  BY <1>3, <1>4, ReadsStep DEF ClientInv
<1>6. ItemsOf(c)'
  BY <1>3, ItemsStep DEF ItemsOf
<1>7. KnownPast(c)'
  BY DEF KnownPast
<1> QED BY <1>5, <1>6, <1>7

(* A client that is answered.                                              *)
LEMMA ReadsAnswered ==
  ASSUME Tables!TypeOK, Tables!NoOrphans, Shape, NEW c \in Client,
         ClientInv(c), KnownPast(c), Reads(c), ItemsOf(c), Answered(c)
  PROVE  KnownPast(c)' /\ Reads(c)' /\ ItemsOf(c)'
<1>1. PICK req : req = Req(c)
  OBVIOUS
<1> DEFINE ok == Accepted(req)
<1>2. /\ req \in Request /\ Own(c, req) /\ CanIssue(req)
      /\ RowsComeFrom(req) /\ RowsStay(req) /\ RowsDone(req) /\ Tables!TypeOK'
      /\ step[c] \in 1..21 /\ step' \in [Client -> 1..25]
      /\ step[c] < 21 => step'[c] = step[c] + 1
      /\ step[c] = 21 => step'[c] \in {22, 25}
      /\ made'[c] = made[c] \cup (issued' \ issued)
      /\ ~ok => Label(c) \in failed'[c]
      /\ Moves(c) /\ Teaches(c, req)
  BY <1>1, AnsweredCall
<1>3. /\ step[c] \in Int /\ step[c] \in 1..25 /\ step'[c] \in Int /\ step'[c] \in 1..25
      /\ step'[c] \in {step[c], step[c] + 1} \/ step'[c] > 16
  BY <1>2
<1>m. /\ req.method = "CreateUser" <=> step[c] = 1
      /\ req.method = "CreateProduct" <=> step[c] = 6
      /\ req.method = "CreateOrder" <=> step[c] = 10
      /\ req.method = "CreateOrderItem" <=> step[c] = 11
      /\ step[c] = 16 => req.method = "GetOrderItems"
  BY <1>1, <1>2, CallAt, MethodAt
<1>f. /\ step[c] = 1 => Fresh(Users) \in Users \ issued
      /\ step[c] = 6 => Fresh(Products) \in Products \ issued
      /\ step[c] = 10 => Fresh(Orders) \in Orders \ issued
      /\ step[c] = 11 => Fresh(Items) \in Items \ issued
  BY <1>2, <1>m, FreshIds
<1>n. /\ step[c] = 11 => Label(c) = "CreateOrderItem"
      /\ step[c] = 11 /\ "CreateOrderItem" \notin failed'[c] => ok
  <2>1. step[c] = 11 => Label(c) = "CreateOrderItem"
    BY PlanLabels DEF Label
  <2> QED BY <1>2, <2>1
<1>k. /\ step[c] = 1 /\ known'[c].user # NULL => ok /\ known'[c].user = Fresh(Users)
      /\ step[c] = 6 /\ known'[c].product # NULL =>
           ok /\ known'[c].product = Fresh(Products)
      /\ step[c] = 10 /\ known'[c].order # NULL => ok /\ known'[c].order = Fresh(Orders)
  BY <1>2 DEF Teaches, KnownPast
<1> HIDE DEF ok
<1>4. Enters(c)
  <2>1. ASSUME step[c] = 1, known'[c].user # NULL
        PROVE  [id |-> known'[c].user, username |-> "testuser",
                email |-> "testuser@example.com"] \in users'
    <3>1. req.username = "testuser" /\ req.email = "testuser@example.com"
      BY <1>1, <2>1, CallAt
    <3>2. [id |-> Fresh(Users), username |-> req.username, email |-> req.email] \in users'
      BY <1>2, <1>k, <1>m, <2>1 DEF RowsDone, ok
    <3> QED BY <1>k, <2>1, <3>1, <3>2
  <2>2. ASSUME step[c] = 6, known'[c].product # NULL
        PROVE  [id |-> known'[c].product, stock_quantity |-> 100] \in products'
    <3>1. req.stock_quantity = 100
      BY <1>1, <2>2, CallAt
    <3>2. [id |-> Fresh(Products), stock_quantity |-> req.stock_quantity] \in products'
      BY <1>2, <1>k, <1>m, <2>2 DEF RowsDone, ok
    <3> QED BY <1>k, <2>2, <3>1, <3>2
  <2>3. ASSUME step[c] = 10, known'[c].order # NULL
        PROVE  [id |-> known'[c].order, user_id |-> known'[c].user, status |-> "pending"]
                 \in orders'
    <3>1. req.user_id = known[c].user /\ known'[c].user = known[c].user
      BY <1>2, <1>m, <2>3 DEF Own, Moves
    <3>2. [id |-> Fresh(Orders), user_id |-> req.user_id, status |-> "pending"] \in orders'
      BY <1>2, <1>k, <1>m, <2>3 DEF RowsDone, ok
    <3> QED BY <1>k, <2>3, <3>1, <3>2
  <2>4. ASSUME step[c] = 11, "CreateOrderItem" \notin failed'[c]
        PROVE  \E i \in items' : /\ i.id \in made'[c] /\ i.order_id = known'[c].order
                                 /\ i.product_id = known'[c].product
    <3>1. /\ req.order_id = known'[c].order /\ req.product_id = known'[c].product
      BY <1>2, <1>m, <2>4 DEF Own, Moves
    <3>2. PICK i \in items' : /\ i.id = Fresh(Items) /\ i.order_id = req.order_id
                              /\ i.product_id = req.product_id
      BY <1>2, <1>m, <1>n, <2>4 DEF RowsDone, ok
    <3>3. i.id \in issued' \ issued
      BY <1>2, <1>f, <2>4, <3>2 DEF Tables!TypeOK, Tables!Ids
    <3> QED BY <1>2, <3>1, <3>2, <3>3
  <2> QED BY <2>1, <2>2, <2>3, <2>4, Zenon DEF Enters
<1>5. Spares(c, req)
  BY <1>2, OwnSpares
<1>6. Reads(c)'
  BY <1>2, <1>3, <1>4, <1>5, ReadsStep DEF ClientInv
<1>7. ItemComes(c, req)
  <2> SUFFICES ASSUME NEW i \in items', i.id \notin issued, req.method = "CreateOrderItem"
               PROVE  i.id \in made'[c] /\ step'[c] > 11 /\ step[c] = 11
    BY DEF ItemComes
  <2>1. i.id \in issued'
    BY <1>2 DEF Tables!TypeOK, Tables!Ids
  <2> QED BY <1>2, <1>m, <2>1
<1>8. known'[c].item \in made'[c] \cup {NULL}
  <2>1. CASE step[c] = 16 /\ Answer(req).body # {}
    <3>1. PICK m \in Answer(req).body : known'[c].item = m.id
      BY <1>2, <2>1 DEF Teaches
    <3>2. PICK i \in items : i.order_id = req.order_id /\ m = orderItemToProto(i)
      BY <1>2, <1>m, <2>1, ItemsAnswer
    <3>3. m.id = i.id
      BY <3>2 DEF orderItemToProto
    <3>4. req.order_id = known[c].order
      BY <1>1, <2>1, CallAt
    <3> QED BY <1>2, <3>1, <3>2, <3>3, <3>4 DEF ItemsOf
  <2>2. CASE ~(step[c] = 16 /\ Answer(req).body # {})
    BY <1>2, <2>2 DEF Teaches, ItemsOf
  <2> QED BY <2>1, <2>2
<1>9. ItemsOf(c)'
  <2>1. step[c] = 10 => known'[c].order = known[c].order \/ known'[c].order \notin issued
    BY <1>2, <1>f DEF Teaches
  <2> QED BY <1>2, <1>3, <1>7, <1>8, <2>1, ItemsStep
<1>10. KnownPast(c)'
  BY <1>2, <1>3 DEF KnownPast, Moves
<1> QED BY <1>6, <1>9, <1>10

-----------------------------------------------------------------------------
(* Every step keeps what the clients read, where others keep off.          *)

LEMMA ApartStep ==
  ASSUME Apart, NEW c \in Client, made'[c] = made[c] \cup (issued' \ issued),
         \A d \in Client : made[d] \subseteq issued /\ (d # c => made'[d] = made[d])
  PROVE  Apart'
BY DEF Apart

LEMMA ReadsInvStep ==
  ASSUME NobodyElseChanges, DemoInv, ReadsInv, [Next]_vars
  PROVE  ReadsInv'
<1>i. /\ Tables!TypeOK /\ Tables!NoOrphans /\ Outbox!TypeOK /\ Shape /\ Apart
      /\ \A c \in Client :
           /\ ClientInv(c) /\ step[c] \in 1..25
           /\ KnownPast(c) /\ Reads(c) /\ ItemsOf(c)
      /\ \A l \in late : Abandoned(l)
  BY LabelAt DEF DemoInv, ReadsInv
<1>t. Tables!TypeOK' /\ Shape'
  BY DemoStep DEF DemoInv
<1> DEFINE StillReads(c) == KnownPast(c)' /\ Reads(c)' /\ ItemsOf(c)'
           Still(c) == /\ step'[c] = step[c] /\ known'[c] = known[c]
                       /\ failed'[c] = failed[c]
<1>s. ASSUME NEW d \in Client, Still(d), made'[d] = made[d],
             NEW req, RowsComeFrom(req), RowsStay(req), Spares(d, req), AddsNot(d, req)
      PROVE  StillReads(d)
  BY <1>i, <1>t, <1>s, ReadsStill
<1>u. ASSUME NEW d \in Client, Still(d), made'[d] = made[d], UNCHANGED tables
      PROVE  StillReads(d)
  <2>1. PICK req : req = EventCall
    OBVIOUS
  <2>2. req.method = "CreateEvent"
    BY <2>1 DEF EventCall
  <2>3. RowsComeFrom(req) /\ RowsStay(req) /\ Spares(d, req) /\ AddsNot(d, req)
    BY <1>u, <2>2, NothingExecuted DEF Spares, AddsNot
  <2> QED BY <1>s, <1>u, <2>3
<1> HIDE DEF StillReads
(* One client moves, and nothing is executed.                              *)
<1>a. ASSUME NEW c \in Client, UNCHANGED <<tables, known, made>>, Moves(c),
             step'[c] \in 1..25, step'[c] = step[c] + 1 \/ step'[c] > 16,
             Applies(c) => Label(c) \in failed'[c],
             \A d \in Client : d # c => Still(d)
      PROVE  ReadsInv'
  <2>1. StillReads(c)
    BY <1>a, <1>i, ReadsOnward DEF StillReads
  <2>2. \A d \in Client : d # c => StillReads(d)
    BY <1>a, <1>u
  <2>3. Apart'
    BY <1>a, <1>i DEF Apart
  <2> QED BY <2>1, <2>2, <2>3 DEF ReadsInv, StillReads
<1>b. ASSUME NEW c \in Client, Scripted(c), Advance(c, FALSE),
             UNCHANGED <<tables, outbox, known, made>>,
             Note(c, FALSE) \/ (~Applies(c) /\ UNCHANGED failed)
      PROVE  ReadsInv'
  <2>1. Moves(c)
    BY <1>b, <1>i, <1>t, OnwardStep
  <2>2. /\ step[c] \in 1..21 /\ step' \in [Client -> 1..25]
        /\ \A d \in Client : d # c => step'[d] = step[d]
        /\ step[c] < 21 => step'[c] = step[c] + 1
        /\ step[c] = 21 => step'[c] \in {22, 25}
    BY <1>b, <1>i, AdvanceTo
  <2>3. /\ Applies(c) => Label(c) \in failed'[c]
        /\ \A d \in Client : d # c => failed'[d] = failed[d]
    BY <1>b, <1>i DEF Note, Shape
  <2>4. \A d \in Client : d # c => Still(d)
    BY <1>b, <2>2, <2>3
  <2> QED BY <1>a, <1>b, <2>1, <2>2, <2>3, <2>4
(* No client moves, and nothing is executed.                               *)
<1>n. ASSUME UNCHANGED <<tables, step, known, failed, made>>
      PROVE  ReadsInv'
  <2>1. \A d \in Client : StillReads(d)
    BY <1>n, <1>u
  <2>2. Apart'
    BY <1>n, <1>i DEF Apart
  <2> QED BY <2>1, <2>2 DEF ReadsInv, StillReads
<1>1. ASSUME NEW c \in Client, Skip(c) PROVE ReadsInv'
  BY <1>1, <1>b DEF Skip
<1>2. ASSUME NEW c \in Client, Lost(c) \/ Expire(c) \/ FailsUnsent(c) PROVE ReadsInv'
  <2>1. /\ Scripted(c) /\ Advance(c, FALSE) /\ Note(c, FALSE)
        /\ UNCHANGED <<tables, outbox, known, made>>
    BY <1>2 DEF Lost, Expire, FailsUnsent, GiveUp, Applies
  <2> QED BY <1>b, <2>1
<1>3. ASSUME NEW c \in Client, Answered(c) PROVE ReadsInv'
  <2>1. PICK req : req = Req(c)
    OBVIOUS
  <2>2. /\ Own(c, req) /\ RowsComeFrom(req) /\ RowsStay(req)
        /\ made'[c] = made[c] \cup (issued' \ issued)
        /\ \A d \in Client : d # c => Still(d) /\ made'[d] = made[d]
    BY <1>3, <1>i, <2>1, AnsweredCall
  <2>3. StillReads(c)
    BY <1>3, <1>i, ReadsAnswered DEF StillReads
  <2>4. ASSUME NEW d \in Client, d # c PROVE StillReads(d)
    <3>1. Spares(d, req) /\ AddsNot(d, req)
      BY <1>i, <2>2, <2>4, OwnSparesOthers DEF ClientInv
    <3> QED BY <1>s, <2>2, <2>4, <3>1
  <2>5. Apart'
    BY <1>i, <2>2, ApartStep DEF ClientInv
  <2> QED BY <2>3, <2>4, <2>5 DEF ReadsInv, StillReads
(* Past the script.                                                        *)
<1>c. ASSUME NEW c \in Client, NEW label \in {"check", "exit0", "exit1"},
             \/ Label(c) = "poll" /\ label \in {"check", "exit1"}
             \/ Label(c) = "check" /\ label \in {"exit0", "exit1"},
             Goto(c, label)
      PROVE  ReadsInv'
  <2>1. /\ step' = [step EXCEPT ![c] = Position(label)]
        /\ UNCHANGED <<tables, known, made, failed>>
    BY <1>c DEF Goto
  <2>2. Moves(c) /\ \A d \in Client : d # c => step'[d] = step[d]
    BY <1>c, <1>i, <1>t, <2>1, EndingStep
  <2>3. step[c] \in {22, 23} /\ ~Scripted(c)
    BY <1>c, <1>i, LabelAt
  <2>4. step'[c] \in 1..25 /\ step'[c] > 16
    BY <1>t, <2>2, <2>3 DEF Shape, Moves
  <2>5. ~Applies(c)
    BY <2>3 DEF Applies
  <2> QED BY <1>a, <2>1, <2>2, <2>4, <2>5
<1>4. ASSUME NEW c \in Client, Polled(c) PROVE ReadsInv'
  BY <1>4, <1>c DEF Polled
<1>5. ASSUME NEW c \in Client, PollEnds(c) PROVE ReadsInv'
  BY <1>5, <1>c DEF PollEnds
<1>6. ASSUME NEW c \in Client, PollOver(c) PROVE ReadsInv'
  BY <1>6, <1>n DEF PollOver
<1>7. ASSUME NEW l \in late, ExecuteLate(l) PROVE ReadsInv'
  <2>1. PICK req : req = l.request
    OBVIOUS
  <2>2. PICK c \in Client : c = l.client
    BY <1>i DEF Abandoned
  <2>3. /\ Own(c, req) /\ (req.method \in Creates => req.method \in failed[c])
        /\ Execute(req) /\ req \in Request /\ UNCHANGED <<step, known, failed>>
        /\ made' = [made EXCEPT ![c] = made[c] \cup (issued' \ issued)]
    BY <1>7, <1>i, <2>1, <2>2 DEF ExecuteLate, ExecuteFor, Abandoned, clientVars
  <2>4. RowsComeFrom(req) /\ RowsStay(req)
    BY <1>i, <2>3, Effects
  <2>5. /\ made'[c] = made[c] \cup (issued' \ issued)
        /\ \A d \in Client : d # c => made'[d] = made[d]
    BY <1>i, <2>3 DEF Shape
  <2>6. StillReads(c)
    <3>1. Spares(c, req)
      BY <2>3, OwnSpares
    <3> QED BY <1>i, <1>t, <2>3, <2>4, <2>5, <3>1, ReadsStill DEF StillReads
  <2>7. ASSUME NEW d \in Client, d # c PROVE StillReads(d)
    <3>1. Spares(d, req) /\ AddsNot(d, req)
      BY <1>i, <2>3, <2>7, OwnSparesOthers DEF ClientInv
    <3> QED BY <1>s, <2>3, <2>4, <2>5, <2>7, <3>1
  <2>8. Apart'
    BY <1>i, <2>5, ApartStep DEF ClientInv
  <2> QED BY <2>6, <2>7, <2>8 DEF ReadsInv, StillReads
<1>8. ASSUME NEW e \in Event, Pipeline(e) PROVE ReadsInv'
  BY <1>8, <1>n DEF Pipeline, clientVars
<1>9. ASSUME NEW req \in OthersAsk, Others(req) PROVE ReadsInv'
  <2>1. /\ Execute(req) /\ req \in Request
        /\ UNCHANGED <<step, known, failed, made>>
    BY <1>9, DemoAssumption DEF Others, clientVars
  <2>2. RowsComeFrom(req) /\ RowsStay(req)
    BY <1>i, <2>1, Effects
  <2>3. \A d \in Client : Spares(d, req) /\ AddsNot(d, req)
    BY DEF NobodyElseChanges, Spares, AddsNot
  <2>4. \A d \in Client : StillReads(d)
    BY <1>s, <2>1, <2>2, <2>3
  <2>5. Apart'
    BY <1>i, <2>1 DEF Apart
  <2> QED BY <2>4, <2>5 DEF ReadsInv, StillReads
<1>10. CASE UNCHANGED vars
  BY <1>10, <1>n DEF vars, clientVars
<1> QED
  BY <1>1, <1>2, <1>3, <1>4, <1>5, <1>6, <1>7, <1>8, <1>9, <1>10 DEF Next

LEMMA ReadsStart == Init => ReadsInv
<1> SUFFICES ASSUME Init PROVE ReadsInv
  OBVIOUS
<1>1. \A c \in Client :
        /\ step[c] = 1 /\ made[c] = {} /\ failed[c] = {}
        /\ \A k \in Kind : known[c][k] = NULL
  BY DEF Init
<1>2. users = {} /\ products = {} /\ orders = {} /\ items = {}
  BY DEF Init, Tables!Init
<1>3. Apart
  BY <1>1 DEF Apart
<1>4. ASSUME NEW c \in Client PROVE KnownPast(c) /\ Reads(c) /\ ItemsOf(c)
  <2>1. /\ known[c].user = NULL /\ known[c].product = NULL
        /\ known[c].order = NULL /\ known[c].item = NULL
    BY <1>1 DEF Kind
  <2>2. KnownPast(c) /\ ItemsOf(c)
    BY <1>2, <2>1 DEF KnownPast, ItemsOf
  <2>3. step[c] = 1
    BY <1>1
  <2> QED BY <2>2, <2>3 DEF Reads, UserThere, ProductThere, OrderThere, ItemThere
<1> QED BY <1>3, <1>4 DEF ReadsInv

-----------------------------------------------------------------------------
(* What the client is answered when it reads.                              *)

LEMMA OneRow ==
  ASSUME NEW table, NEW r \in table, \A a, b \in table : a.id = b.id => a = b
  PROVE  RowOf(table, r.id) = {r}
BY DEF RowOf

LEMMA ReadsUser ==
  ASSUME Tables!TypeOK, NEW req \in Request, req.method = "GetUser", req.id \in Users,
         NEW u \in users, u.id = req.id
  PROVE  Answer(req) = OK({userToProto(u)})
<1>1. Answer(req) = GetUserAnswer(req) /\ req.id # Malformed
  BY UserRequests, MessagesAssumption
<1>2. RowOf(users, req.id) = {u}
  BY OneRow DEF Tables!TypeOK, Tables!Key
<1>3. GetUserAnswer(req) = OK({userToProto(r) : r \in {u}})
  BY <1>1, <1>2 DEF GetUserAnswer, ReadOne
<1> QED BY <1>1, <1>3

LEMMA ReadsProduct ==
  ASSUME Tables!TypeOK, NEW req \in Request, req.method = "GetProduct",
         req.id \in Products, NEW p \in products, p.id = req.id
  PROVE  Answer(req) = OK({productToProto(p)})
<1>1. Answer(req) = GetProductAnswer(req) /\ req.id # Malformed
  BY ProductRequests, MessagesAssumption
<1>2. RowOf(products, req.id) = {p}
  BY OneRow DEF Tables!TypeOK, Tables!Key
<1>3. GetProductAnswer(req) = OK({productToProto(r) : r \in {p}})
  BY <1>1, <1>2 DEF GetProductAnswer, ReadOne
<1> QED BY <1>1, <1>3

LEMMA ReadsOrder ==
  ASSUME Tables!TypeOK, NEW req \in Request, req.method = "GetOrder",
         req.id \in Orders, NEW o \in orders, o.id = req.id
  PROVE  Answer(req) = OK({orderToProto(o)})
<1>1. Answer(req) = GetOrderAnswer(req) /\ req.id # Malformed
  BY OrderRequests, MessagesAssumption
<1>2. RowOf(orders, req.id) = {o}
  BY OneRow DEF Tables!TypeOK, Tables!Key
<1>3. GetOrderAnswer(req) = OK({orderToProto(r) : r \in {o}})
  BY <1>1, <1>2 DEF GetOrderAnswer, ReadOne
<1> QED BY <1>1, <1>3

LEMMA ReadsItem ==
  ASSUME Tables!TypeOK, NEW req \in Request, req.method = "GetOrderItems",
         req.order_id \in Orders, NEW i \in items, i.order_id = req.order_id,
         \A j \in items : j.order_id = req.order_id => j.id = i.id
  PROVE  Cardinality(Answer(req).body) = 1
<1>1. Answer(req) = GetOrderItemsAnswer(req) /\ req.order_id # Malformed
  BY OrderRequests, MessagesAssumption
<1>2. {j \in items : j.order_id = req.order_id} = {i}
  BY DEF Tables!TypeOK, Tables!Key
<1>3. GetOrderItemsAnswer(req) = OK({orderItemToProto(j) : j \in {i}})
  BY <1>1, <1>2 DEF GetOrderItemsAnswer
<1>4. Answer(req).body = {orderItemToProto(i)}
  BY <1>1, <1>3 DEF OK
<1> QED BY <1>4, FS_Singleton

(* Where no other client changes or deletes rows, or adds to an order,     *)
(* that are not its own: a client reads what it wrote, whatever calls are  *)
(* lost, executed late or cut off.                                         *)
THEOREM ReadsItsWrites ==
  ASSUME NobodyElseChanges PROVE Spec => []ReadsOwnWrites
<1>1. DemoInv /\ ReadsInv => ReadsOwnWrites
  <2> SUFFICES ASSUME DemoInv, ReadsInv, NEW c \in Client, Applies(c)
               PROVE  LET answer == Answer(Req(c)) IN
                      /\ Label(c) = "GetUser" =>
                           answer = OK({[id |-> known[c].user, username |-> "testuser",
                                         email |-> "testuser@example.com"]})
                      /\ Label(c) = "GetProduct" =>
                           answer = OK({[id |-> known[c].product, stock_quantity |-> 100]})
                      /\ Label(c) = "GetOrder" =>
                           answer = OK({[id |-> known[c].order, user_id |-> known[c].user,
                                         status |-> "pending"]})
                      /\ Label(c) = "FindItem" /\ "CreateOrderItem" \notin failed[c]
                           /\ known[c].product # NULL => Cardinality(answer.body) = 1
    BY DEF ReadsOwnWrites
  <2>1. PICK req : req = Req(c)
    OBVIOUS
  <2>2. /\ Tables!TypeOK /\ KnownTyped(c) /\ Reads(c) /\ ItemsOf(c) /\ Shape
        /\ req \in Request
    BY <2>1, OwnCall DEF DemoInv, ClientInv, ReadsInv
  <2>3. /\ Label(c) = "GetUser" => step[c] = 3
        /\ Label(c) = "GetProduct" => step[c] = 8
        /\ Label(c) = "GetOrder" => step[c] = 12
        /\ Label(c) = "FindItem" => step[c] = 16
    BY PlanLabels DEF Applies, Scripted, Label
  <2>4. \A k \in Needs(Label(c)) : known[c][k] # NULL
    BY DEF Applies
  <2>5. ASSUME Label(c) = "GetUser"
        PROVE  Answer(req) = OK({[id |-> known[c].user, username |-> "testuser",
                                  email |-> "testuser@example.com"]})
    <3> DEFINE u == [id |-> known[c].user, username |-> "testuser",
                     email |-> "testuser@example.com"]
    <3>1. known[c].user \in Users
      BY <2>2, <2>4, <2>5 DEF Needs, KnownTyped
    <3>2. req.method = "GetUser" /\ req.id = known[c].user
      BY <2>1, <2>3, <2>5, CallAt
    <3>3. u \in users
      BY <2>2, <2>3, <2>4, <2>5 DEF Needs, Reads, UserThere
    <3>4. u.id = known[c].user /\ userToProto(u) = u
      BY DEF userToProto
    <3> HIDE DEF u
    <3>5. Answer(req) = OK({userToProto(u)})
      BY <2>2, <3>1, <3>2, <3>3, <3>4, ReadsUser
    <3> QED BY <3>4, <3>5 DEF u
  <2>6. ASSUME Label(c) = "GetProduct"
        PROVE  Answer(req) = OK({[id |-> known[c].product, stock_quantity |-> 100]})
    <3> DEFINE p == [id |-> known[c].product, stock_quantity |-> 100]
    <3>1. known[c].product \in Products
      BY <2>2, <2>4, <2>6 DEF Needs, KnownTyped
    <3>2. req.method = "GetProduct" /\ req.id = known[c].product
      BY <2>1, <2>3, <2>6, CallAt
    <3>3. p \in products
      BY <2>2, <2>3, <2>4, <2>6 DEF Needs, Reads, ProductThere
    <3>4. p.id = known[c].product /\ productToProto(p) = p
      BY DemoAssumption DEF productToProto
    <3> HIDE DEF p
    <3>5. Answer(req) = OK({productToProto(p)})
      BY <2>2, <3>1, <3>2, <3>3, <3>4, ReadsProduct
    <3> QED BY <3>4, <3>5 DEF p
  <2>7. ASSUME Label(c) = "GetOrder"
        PROVE  Answer(req) = OK({[id |-> known[c].order, user_id |-> known[c].user,
                                  status |-> "pending"]})
    <3> DEFINE o == [id |-> known[c].order, user_id |-> known[c].user, status |-> "pending"]
    <3>1. known[c].order \in Orders
      BY <2>2, <2>4, <2>7 DEF Needs, KnownTyped
    <3>2. req.method = "GetOrder" /\ req.id = known[c].order
      BY <2>1, <2>3, <2>7, CallAt
    <3>3. o \in orders
      BY <2>2, <2>3, <2>4, <2>7 DEF Needs, Reads, OrderThere
    <3>4. o.id = known[c].order /\ orderToProto(o) = o
      BY DEF orderToProto
    <3> HIDE DEF o
    <3>5. Answer(req) = OK({orderToProto(o)})
      BY <2>2, <3>1, <3>2, <3>3, <3>4, ReadsOrder
    <3> QED BY <3>4, <3>5 DEF o
  <2>8. ASSUME Label(c) = "FindItem", "CreateOrderItem" \notin failed[c],
               known[c].product # NULL
        PROVE  Cardinality(Answer(req).body) = 1
    <3>1. known[c].order \in Orders /\ known[c].order # NULL
      BY <2>2, <2>4, <2>8 DEF Needs, KnownTyped
    <3>2. req.method = "GetOrderItems" /\ req.order_id = known[c].order
      BY <2>1, <2>3, <2>8, CallAt
    <3>3. PICK i \in items : i.order_id = known[c].order
      BY <2>2, <2>3, <2>8, <3>1 DEF Reads, ItemThere
    <3>4. \A j \in items : j.order_id = known[c].order => j.id = i.id
      BY <2>2, <2>8, <3>3 DEF ItemsOf
    <3> QED BY <2>2, <3>1, <3>2, <3>3, <3>4, ReadsItem
  <2> QED BY <2>1, <2>5, <2>6, <2>7, <2>8, Zenon
<1>2. DemoInv /\ ReadsInv /\ [Next]_vars => DemoInv' /\ ReadsInv'
  BY DemoStep, ReadsInvStep
<1>3. Init => DemoInv /\ ReadsInv
  BY DemoStart, ReadsStart
<1> QED BY <1>1, <1>2, <1>3, PTL DEF Spec
=============================================================================
