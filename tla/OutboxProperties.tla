-------------------------- MODULE OutboxProperties --------------------------
(***************************************************************************)
(* The correctness properties of the outbox poller.                        *)
(***************************************************************************)
EXTENDS OutboxListener

Polling == pc \notin Ended

-----------------------------------------------------------------------------
(* Safety, whatever goes wrong.                                            *)

(* While the poller is in its loop on a subscribed connection, a pending   *)
(* event is still to be taken from that connection, is being processed, or *)
(* is one the poller gave up on with a logged error, a LIMIT or a locked   *)
(* row: Start and Reconnect LISTEN before they scan, so no insert falls    *)
(* between the two.                                                        *)
NoSilentGap ==
  pc \in Loop /\ conn = "listening" =>
    Pending \subseteq ToSet(queue) \cup ToSet(batch) \cup stranded

(* NoSilentGap is not inductive: the poller enters its loop from the scan  *)
(* and from the back-off, where nothing must be subscribed.                *)
GapInv ==
  /\ TypeOK
  /\ pc \in {"relisten", "backoff"} => conn # "listening"
  /\ NoSilentGap

(* Unless a client writes COMPLETED itself, an event whose status is       *)
(* COMPLETED has a record in its topic: ProcessEvent publishes first.      *)
CompletedWasPublished ==
  "completed" \notin ClientStatuses =>
    \A e \in Event : status[e] = "completed" => Delivered(e)

(* Its strengthening: what the poller publishes is committed, and by the   *)
(* time it marks an event COMPLETED that event's record is in the topic.   *)
PublishInv ==
  /\ TypeOK
  /\ ToSet(queue) \cup ToSet(batch) \subseteq Committed
  /\ pc \in {"ack", "complete"} => Delivered(Current)
  /\ CompletedWasPublished

(* The poller implements AtLeastOnce: an uncommitted row does not exist.   *)
Outbox == INSTANCE AtLeastOnce WITH
  row <- [e \in Event |-> IF status[e] = "inserting" THEN "absent" ELSE status[e]]

ImplementsAtLeastOnce == Outbox!Spec

-----------------------------------------------------------------------------
(* Safety, when no database call of the poller fails.                      *)

(* With a LIMIT the backlog fits in, and no client locking or rewriting    *)
(* rows, nothing is ever given up on: across crashes, shutdowns and lost   *)
(* connections every pending event is in the poller's hands, until the     *)
(* context is cancelled.                                                   *)
HoldsAllPending ==
  pc \in Loop /\ conn = "listening" /\ ~ctxDone =>
    Pending \subseteq ToSet(queue) \cup ToSet(batch)

(* Those conditions, and the strengthening of HoldsAllPending under them.  *)
BacklogFits ==
  /\ "query" \notin Disruptions
  /\ "pending" \notin ClientStatuses /\ RpcLimits = {}
  /\ IsFiniteSet(Event) /\ Cardinality(Event) <= PollLimit

HoldInv ==
  /\ TypeOK
  /\ locked = {}
  /\ pc \in {"relisten", "backoff"} => conn # "listening"
  /\ HoldsAllPending

(* A cancelled context is no reason to call an event FAILED: the publish   *)
(* it interrupts fails, but so does the update, and the event stays        *)
(* PENDING for the scan of the next start.  FAILED would be for ever.      *)
ShutdownFailsNoEvent ==
  "publish" \notin Disruptions /\ "failed" \notin ClientStatuses =>
    \A e \in Event : status[e] # "failed"

(* Its strengthening: only a cancelled publish leads to MarkEventFailed.   *)
FailInv ==
  /\ TypeOK
  /\ "publish" \notin Disruptions /\ pc = "fail" => ctxDone
  /\ ShutdownFailsNoEvent

(* The poller's status updates succeed, and no client undoes them.         *)
MarksStick == "query" \notin Disruptions /\ "pending" \notin ClientStatuses

(* Whatever goes wrong, an event has no more records than there were scans *)
(* - one per start, one per lost connection - and one for its notification.*)
(* Where marks stick it has none for a reconnection, which finds no event  *)
(* pending that was published since the start.                             *)
BoundedDuplicates ==
  \A e \in Event :
    /\ Copies(e) <= boots + drops + 1
    /\ MarksStick => Copies(e) <= boots + 1

(* Events the batch is still going to make a record of.                    *)
Unpublished ==
  IF pc \in {"ack", "complete", "fail"} THEN ToSet(Tail(batch)) ELSE ToSet(batch)

(* The records e has, and those it may get without another scan.           *)
Claimed(e) ==
  Copies(e)
    + (IF e \notin Committed \/ e \in ToSet(queue) THEN 1 ELSE 0)
    + (IF e \in Unpublished THEN 1 ELSE 0)

(* Scans that are owed: the one ahead, and the one of the reconnection.    *)
ScansDue ==
  (IF pc \in {"start", "scan"} THEN 1 ELSE 0)
    + (IF pc \in {"scan"} \cup Loop \cup Reconnecting /\ conn # "listening" THEN 1 ELSE 0)

(* The strengthening of BoundedDuplicates: starts and lost connections pay *)
(* for scans, a scan for one record of an event.  Where marks stick, the   *)
(* start pays for an event until a scan has returned it, for then it stays *)
(* in the batch until it is no longer pending.                             *)
DuplicatesInv ==
  /\ TypeOK
  /\ IsInjective(queue) /\ IsInjective(batch)
  /\ ToSet(queue) \cup ToSet(batch) \subseteq Committed
  /\ \A e \in Event : Delivered(e) => e \in Committed
  /\ pc \in Reconnecting => conn # "listening"
  /\ pc \notin Ended => boots > 0
  /\ \A e \in Event :
       /\ Claimed(e) + ScansDue <= boots + drops + 1
       /\ MarksStick =>
            /\ Claimed(e) <= boots + 1
            /\ pc \notin Ended /\ ~ctxDone /\ e \in Pending \ ToSet(batch) =>
                 Claimed(e) <= boots

-----------------------------------------------------------------------------
(* Liveness.                                                               *)

(* An event the subscribed poller holds is taken off PENDING, or is given  *)
(* up on with a logged error, or the poller ends.                          *)
EventuallyHandled ==
  \A e \in Event :
    (status[e] = "pending" /\ pc \in Loop /\ conn = "listening")
      ~> (status[e] # "pending" \/ e \in stranded \/ ~Polling)

(* A shutdown that has begun ends the process: no wait, back-off, backlog  *)
(* or failing call keeps the poller from returning.                        *)
ShutdownEnds == stopped ~> pc \in Down

-----------------------------------------------------------------------------
(* What the documentation says and the code does not do.                   *)

(* README.md:138 "Events retry on failure": an event whose publish failed  *)
(* is published in the end, or the poller ends.                            *)
FailedIsRetried ==
  \A e \in Event : status[e] = "failed" ~> (Delivered(e) \/ ~Polling)

(* README.md:25 "Automatic retry, backlog scanning, and reconnection": a   *)
(* failed reconnection does not take the server down.                      *)
SurvivesFailedReconnect == pc # "panicked"

(* README.md:139 "Exactly-once processing: Idempotent operations with      *)
(* status tracking": an event that has been processed stays so.            *)
CompletedIsFinal ==
  [][\A e \in Event : status[e] = "completed" => status'[e] = "completed"]_vars

=============================================================================
