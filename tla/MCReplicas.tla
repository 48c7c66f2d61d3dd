----------------------------- MODULE MCReplicas -----------------------------
(* Instances of OutboxReplicas for TLC.                                    *)
EXTENDS OutboxReplicas, TLC

CONSTANTS e1, e2, orders, users

(* The events go to different topics.                                      *)
TwoTopics == (e1 :> orders) @@ (e2 :> users)

SymmetricReplicas == Permutations(Replica)
=============================================================================
