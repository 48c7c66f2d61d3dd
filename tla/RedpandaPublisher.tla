-------------------------- MODULE RedpandaPublisher -------------------------
(***************************************************************************)
(* internal/publisher/redpanda.go and the topics it produces to: one topic *)
(* per event type (TopicForEventType), each an append-only log.  The       *)
(* client's idempotent producer appends a record at most once per Publish; *)
(* whether the caller learns of it is decided in OutboxListener.           *)
(***************************************************************************)
EXTENDS Events, Naturals, SequencesExt

VARIABLE topics   \* per topic: the keys of its records, oldest first

TopicsTypeOK == topics \in [EventType -> Seq(Event)]

TopicsInit == topics = [t \in EventType |-> <<>>]

TopicForEventType(e) == TypeOf[e]

(* The broker has accepted the record of e.                                *)
Produce(e) ==
  topics' = [topics EXCEPT ![TopicForEventType(e)] = Append(@, e)]

Delivered(e) == e \in ToSet(topics[TopicForEventType(e)])

(* How many records of e there are.                                        *)
Copies(e) ==
  LET log == topics[TopicForEventType(e)] IN
  Cardinality({i \in DOMAIN log : log[i] = e})

(* e's first record precedes f's first record.                             *)
DeliveredBefore(e, f) ==
  LET log == topics[TopicForEventType(e)] IN
  \E i \in DOMAIN log : log[i] = e /\ \A j \in 1..i : log[j] # f

=============================================================================
