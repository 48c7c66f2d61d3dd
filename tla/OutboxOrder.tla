---------------------------- MODULE OutboxOrder ----------------------------
(***************************************************************************)
(* In which order the outbox poller publishes (README, "Ordering": events  *)
(* are processed in created_at order).  The code keeps that order only for *)
(* an event nothing has happened to: OutboxListener with a history of what *)
(* has, step by step, whatever fails and whatever clients do.              *)
(***************************************************************************)
EXTENDS OutboxProperties

VARIABLE disturbed  \* history: events that lost their place before publishing

orderVars == <<vars, disturbed>>

(* The poller, its context alive, goes on without the record of e: the     *)
(* look-up failed, or the publish did and the event is marked or left.     *)
GaveUpOn(e) ==
  /\ pc \in {"get", "fail"} /\ e = Current
  /\ batch' # batch /\ pc' \in Loop /\ ~ctxDone

(* A scan returned without e: it failed, or LIMIT or a row lock left e out.*)
LeftOut(e) ==
  /\ pc = "scan" /\ pc' \in Loop /\ ~ctxDone
  /\ e \in Pending \ ToSet(batch')

(* Somebody wrote the status of e: MarkEventFailed, or a client.           *)
Relabelled(e) == e \in Committed /\ status'[e] # status[e]

(* The insert of e commits after that of an event with a later created_at. *)
CommittedLate(e) ==
  /\ e \in Committed' \ Committed
  /\ \E f \in Committed : createdAt[e] < createdAt[f]

Disturb ==
  disturbed' = disturbed \cup
    {e \in Event : /\ ~Delivered(e)'
                   /\ GaveUpOn(e) \/ LeftOut(e) \/ Relabelled(e) \/ CommittedLate(e)}

OrderInit == Init /\ disturbed = {}

OrderNext == Next /\ Disturb

OrderSpec == OrderInit /\ [][OrderNext]_orderVars

-----------------------------------------------------------------------------
(* An event that has kept its place is published before every younger one  *)
(* of its topic, through crashes, restarts, shutdowns, lost connections,   *)
(* overlapping inserts, and whatever becomes of other events: no record of *)
(* a younger event is in the topic before its first.  Events of one        *)
(* created_at have no order.                                               *)
FifoPerTopic ==
  \A e \in Committed \ disturbed, f \in Event :
    /\ TypeOf[e] = TypeOf[f] /\ createdAt[e] < createdAt[f]
    /\ Delivered(f)
    => DeliveredBefore(e, f)

(* Events that wait for their turn, which nothing has happened to.         *)
InLine == {e \in Committed \ disturbed : ~Delivered(e)}

(* Who waits in line and is older than an event the poller is going to     *)
(* publish is ahead of it, in the batch or, for a notified one, in the     *)
(* queue; and the poller has them all while it is subscribed.              *)
InTurn ==
  /\ \A i \in DOMAIN batch, e \in InLine : createdAt[e] < createdAt[batch[i]] =>
       \E j \in DOMAIN batch : j < i /\ batch[j] = e
  /\ \A i \in DOMAIN queue, e \in InLine : createdAt[e] < createdAt[queue[i]] =>
       \/ e \in ToSet(batch)
       \/ \E j \in DOMAIN queue : j < i /\ queue[j] = e
  /\ conn = "listening" => InLine \subseteq ToSet(queue) \cup ToSet(batch)

(* The strengthening of FifoPerTopic: a record is in its topic only if the *)
(* records of all older events that kept their place, of any type, are in  *)
(* theirs.                                                                 *)
OrderInv ==
  /\ PublishInv
  /\ \A e \in Event : Delivered(e) => e \in Committed
  /\ InLine \subseteq Pending
  /\ \A e \in Committed \ disturbed, f \in Event :
       createdAt[e] < createdAt[f] /\ Delivered(f) =>
         Delivered(e) /\ (TypeOf[e] = TypeOf[f] => DeliveredBefore(e, f))
  /\ pc \in {"relisten", "backoff"} => conn # "listening" /\ queue = <<>>
  /\ pc \in Loop /\ ~ctxDone => InTurn

=============================================================================
