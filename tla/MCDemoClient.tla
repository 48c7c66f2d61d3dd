---------------------------- MODULE MCDemoClient ----------------------------
(* Instances of DemoClient for TLC.                                        *)
EXTENDS DemoClient, TLC

CONSTANTS c1, c2, u1, u2, p1, p2, o1, o2, i1, i2, e1, e2

DemoNames == {"testuser", "updateduser"}
DemoEmails == {"testuser@example.com", "updated@example.com"}
DemoStocks == {100, 200}
DemoStatuses == {"completed"}
DemoQuantities == {0, 2}
DemoTypes == {"user.signup"}
AllSignups == [e \in Event |-> "user.signup"]

(* Users with the same name or address, and what the script never sends.   *)
Meddling ==
  {[method |-> "CreateUser", username |-> "testuser", email |-> "updated@example.com",
    texts |-> "good"],
   [method |-> "UpdateOrderItemQuantity", id |-> i1, quantity |-> 0],
   [method |-> "UpdateEventStatus", id |-> e1, status_v2 |-> "EVENT_STATUS_PROCESSING"]}
=============================================================================
