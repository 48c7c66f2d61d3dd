------------------------------ MODULE MCOrder ------------------------------
(* Instances of OutboxOrder for TLC.                                       *)
EXTENDS OutboxOrder, TLC

(* Every event goes to the same topic.                                     *)
OneTopic == [e \in Event |-> CHOOSE t \in EventType : TRUE]

(* Events of one topic are interchangeable.                                *)
Interchangeable == Permutations(Event)
=============================================================================
