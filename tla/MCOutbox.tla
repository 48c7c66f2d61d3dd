------------------------------ MODULE MCOutbox ------------------------------
(***************************************************************************)
(* Instances of the outbox poller for TLC.                                 *)
(***************************************************************************)
EXTENDS OutboxProperties, TLC

(* Every event goes to the same topic.                                     *)
OneTopic == [e \in Event |-> CHOOSE t \in EventType : TRUE]

(* Events of one topic are interchangeable.                                *)
Interchangeable == Permutations(Event)

=============================================================================
