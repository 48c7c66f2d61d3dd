----------------------------- MODULE AtLeastOnce ----------------------------
(***************************************************************************)
(* What the pipeline promises, whatever fails and however often the        *)
(* process restarts: a topic only grows, only by events that were          *)
(* committed, and the poller calls an event COMPLETED only when a record   *)
(* of it is in its topic.  It does not promise one record per event, nor   *)
(* that an event is ever published, nor that a status is final.            *)
(***************************************************************************)
EXTENDS RedpandaPublisher

CONSTANT ClientStatuses  \* what clients may write over any status

VARIABLE row  \* per event: "absent" or the status of its committed row

TypeOK ==
  /\ TopicsTypeOK
  /\ row \in [Event -> EventStatus \cup {"absent"}]

Init ==
  /\ TopicsInit
  /\ row = [e \in Event |-> "absent"]

Submit(e) ==
  /\ row[e] = "absent"
  /\ row' = [row EXCEPT ![e] = "pending"]
  /\ UNCHANGED topics

Publish(e) ==
  /\ row[e] # "absent"
  /\ Produce(e)
  /\ UNCHANGED row

Complete(e) ==
  /\ row[e] # "absent" /\ Delivered(e)
  /\ row' = [row EXCEPT ![e] = "completed"]
  /\ UNCHANGED topics

Fail(e) ==
  /\ row[e] # "absent"
  /\ row' = [row EXCEPT ![e] = "failed"]
  /\ UNCHANGED topics

Relabel(e, s) ==
  /\ row[e] # "absent"
  /\ row' = [row EXCEPT ![e] = s]
  /\ UNCHANGED topics

Next ==
  \E e \in Event :
    \/ Submit(e) \/ Publish(e) \/ Complete(e) \/ Fail(e)
    \/ \E s \in ClientStatuses : Relabel(e, s)

Spec == Init /\ [][Next]_<<row, topics>>

=============================================================================
