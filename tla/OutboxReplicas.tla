--------------------------- MODULE OutboxReplicas ---------------------------
(***************************************************************************)
(* Several server processes over one events table and one broker.  Each    *)
(* has its own LISTEN connection and its own outbox poller; what they      *)
(* share is PostgreSQL: every one of them is notified of every insert, and *)
(* a scan locks the rows it returns, FOR UPDATE SKIP LOCKED, for as long   *)
(* as its SELECT runs, and no longer.                                      *)
(*                                                                         *)
(* A replica's step is coarser than in OutboxListener: the look-up of a    *)
(* notified event reads columns that never change and is part of taking    *)
(* the notification, a Publish is sent and acknowledged in one step, and   *)
(* closing, dialling and subscribing anew are one step.  A reconnection    *)
(* that fails and a shutdown end the replica like a crash.                 *)
(***************************************************************************)
EXTENDS EventTable, RedpandaPublisher

CONSTANTS
  Replica,      \* server processes
  PollLimit,    \* pollLimit of NewOutboxListener
  Disruptions,  \* what may go wrong: a subset of the kinds below
  MaxBoots,     \* bound: process starts, of all replicas together
  MaxDrops      \* bound: LISTEN connections lost, of all replicas together

ASSUME ReplicasAssumption ==
  /\ IsFiniteSet(Replica)
  /\ PollLimit \in Nat \ {0}
  /\ Disruptions \subseteq {"query", "publish", "crash"}
  /\ MaxBoots \in Nat
  /\ MaxDrops \in Nat

VARIABLES
  at,         \* per replica: the next call of its run goroutine
  batch,      \* per replica: events handed to ProcessEvent, still to process
  queue,      \* per replica: ids notified to its session and not yet taken
  subscribed, \* per replica: its LISTEN connection is good
  boots,      \* process starts so far
  drops,      \* connection losses so far
  reading,    \* rows a client's PollPendingEvents has locked
  dropped     \* history: events nobody is sure to have in hands

replicaVars == <<at, batch, queue, subscribed>>
vars == <<tableVars, topics, replicaVars, boots, drops, reading, dropped>>

Working == {"publish", "complete", "fail"}  \* on the head of the batch
Loop == Working \cup {"wait"}

Scanning == {r \in Replica : at[r] = "scanning"}

(* Only a running SELECT locks rows, a replica's scan or a client's call,  *)
(* and no two lock the same one.                                           *)
LocksAreSelects ==
  /\ locked = reading \cup UNION {ToSet(batch[r]) : r \in Scanning}
  /\ \A r \in Scanning : ToSet(batch[r]) \cap reading = {}
  /\ \A q, r \in Scanning : ToSet(batch[q]) \cap ToSet(batch[r]) # {} => q = r

TypeOK ==
  /\ TableTypeOK
  /\ TopicsTypeOK
  /\ at \in [Replica -> Loop \cup {"down", "listen", "scan", "scanning"}]
  /\ batch \in [Replica -> Seq(Event)]
  /\ queue \in [Replica -> Seq(Event)]
  /\ subscribed \in [Replica -> BOOLEAN]
  /\ \A r \in Replica : at[r] \in Working => batch[r] # <<>>
  /\ boots \in Nat /\ drops \in Nat
  /\ reading \in SUBSET Event /\ dropped \in SUBSET Event

Init ==
  /\ TableInit /\ TopicsInit
  /\ at = [r \in Replica |-> "down"]
  /\ batch = [r \in Replica |-> <<>>]
  /\ queue = [r \in Replica |-> <<>>]
  /\ subscribed = [r \in Replica |-> FALSE]
  /\ boots = 0 /\ drops = 0
  /\ dropped = {}
  /\ reading = {}

-----------------------------------------------------------------------------
(* Helpers.                                                                *)

Current(r) == Head(batch[r])

Goto(r, label) == at' = [at EXCEPT ![r] = label]

(* Mutant: goes on with a batch that is used up.                           *)
NextEventUnguarded(r) ==
  /\ batch' = [batch EXCEPT ![r] = Tail(@)]
  /\ Goto(r, "publish")

(* The current event is done with: the next one, or the next notification. *)
NextEvent(r) ==
  /\ batch' = [batch EXCEPT ![r] = Tail(@)]
  /\ Goto(r, IF Tail(batch[r]) = <<>> THEN "wait" ELSE "publish")

GiveUp(events) == dropped' = dropped \cup events

-----------------------------------------------------------------------------
(* A process starts and subscribes, then scans: the trigger's pg_notify    *)
(* reaches it from the subscription on.                                    *)

Boot(r) ==
  /\ at[r] = "down" /\ boots < MaxBoots
  /\ boots' = boots + 1
  /\ Goto(r, "listen")
  /\ UNCHANGED <<tableVars, topics, batch, queue, subscribed>>
  /\ UNCHANGED <<drops, dropped, reading>>

Subscribe(r) ==
  /\ at[r] = "listen"
  /\ subscribed' = [subscribed EXCEPT ![r] = TRUE]
  /\ Goto(r, "scan")
  /\ UNCHANGED <<tableVars, topics, batch, queue>>
  /\ UNCHANGED <<boots, drops, dropped, reading>>

(* scanBacklog: the SELECT locks the rows it returns.  It skips those that *)
(* another SELECT has locked: another replica's scan, which goes on with   *)
(* them, or a client's, which does nothing with them.  These, and what     *)
(* LIMIT leaves out, wait for some other scan.                             *)
ScanBegin(r, b) ==
  /\ at[r] = "scan"
  /\ batch' = [batch EXCEPT ![r] = b]
  /\ locked' = locked \cup ToSet(b)
  /\ Goto(r, "scanning")
  /\ GiveUp(Pending \ (ToSet(b) \cup (locked \ reading)))
  /\ UNCHANGED <<status, createdAt, clock, topics, queue, subscribed>>
  /\ UNCHANGED <<boots, drops, reading>>

(* Mutant: the rows stay locked until all of them are processed.           *)
ScanKeepsLocks(r) ==
  /\ at[r] = "scanning"
  /\ Goto(r, IF batch[r] = <<>> THEN "wait" ELSE "publish")
  /\ UNCHANGED <<tableVars, topics, batch, queue, subscribed>>
  /\ UNCHANGED <<boots, drops, dropped, reading>>

(* The statement's implicit transaction ends and with it the row locks,    *)
(* before the first event of the batch is published.                       *)
ScanEnd(r) ==
  /\ at[r] = "scanning"
  /\ locked' = locked \ ToSet(batch[r])
  /\ Goto(r, IF batch[r] = <<>> THEN "wait" ELSE "publish")
  /\ UNCHANGED <<status, createdAt, clock, topics, batch, queue, subscribed>>
  /\ UNCHANGED <<boots, drops, dropped, reading>>

ScanFails(r) ==
  /\ at[r] = "scan" /\ "query" \in Disruptions
  /\ Goto(r, "wait")
  /\ GiveUp(Pending)
  /\ UNCHANGED <<tableVars, topics, batch, queue, subscribed>>
  /\ UNCHANGED <<boots, drops, reading>>

(* Mutant: the notification is looked at and stays in the queue.           *)
NotificationKept(r) ==
  /\ at[r] = "wait" /\ queue[r] # <<>>
  /\ batch' = [batch EXCEPT ![r] = <<Head(queue[r])>>]
  /\ Goto(r, "publish")
  /\ UNCHANGED <<tableVars, topics, queue, subscribed>>
  /\ UNCHANGED <<boots, drops, dropped, reading>>

(* handleNotification, with GetEventByID.  The status of the event is read *)
(* and not looked at.                                                      *)
Notified(r) ==
  /\ at[r] = "wait" /\ queue[r] # <<>>
  /\ batch' = [batch EXCEPT ![r] = <<Head(queue[r])>>]
  /\ queue' = [queue EXCEPT ![r] = Tail(@)]
  /\ Goto(r, "publish")
  /\ UNCHANGED <<tableVars, topics, subscribed>>
  /\ UNCHANGED <<boots, drops, dropped, reading>>

LookupFails(r) ==
  /\ at[r] = "wait" /\ queue[r] # <<>> /\ "query" \in Disruptions
  /\ queue' = [queue EXCEPT ![r] = Tail(@)]
  /\ GiveUp({Head(queue[r])})
  /\ UNCHANGED <<tableVars, topics, at, batch, subscribed>>
  /\ UNCHANGED <<boots, drops, reading>>

(* ProcessEvent: Publish, with its three outcomes.                         *)
Published(r) ==
  /\ at[r] = "publish"
  /\ Produce(Current(r))
  /\ Goto(r, "complete")
  /\ UNCHANGED <<tableVars, batch, queue, subscribed>>
  /\ UNCHANGED <<boots, drops, dropped, reading>>

(* Mutant: the publish error is dropped.                                   *)
PublishErrorDropped(r) ==
  /\ at[r] = "publish" /\ "publish" \in Disruptions
  /\ Goto(r, "complete")
  /\ UNCHANGED <<tableVars, topics, batch, queue, subscribed>>
  /\ UNCHANGED <<boots, drops, dropped, reading>>

NotPublished(r) ==
  /\ at[r] = "publish" /\ "publish" \in Disruptions
  /\ Goto(r, "fail")
  /\ UNCHANGED <<tableVars, topics, batch, queue, subscribed>>
  /\ UNCHANGED <<boots, drops, dropped, reading>>

PublishedUnacked(r) ==
  /\ at[r] = "publish" /\ "publish" \in Disruptions
  /\ Produce(Current(r))
  /\ Goto(r, "fail")
  /\ UNCHANGED <<tableVars, batch, queue, subscribed>>
  /\ UNCHANGED <<boots, drops, dropped, reading>>

(* The status update: by id, whatever the status is by now, once no scan   *)
(* of another replica locks the row.                                       *)
MarkCompleted(r) ==
  /\ at[r] = "complete"
  /\ SetStatus(Current(r), "completed")
  /\ NextEvent(r)
  /\ UNCHANGED <<topics, queue, subscribed, boots, drops, dropped, reading>>

MarkEventFailed(r) ==
  /\ at[r] = "fail"
  /\ SetStatus(Current(r), "failed")
  /\ NextEvent(r)
  /\ UNCHANGED <<topics, queue, subscribed, boots, drops, dropped, reading>>

MarkFails(r) ==
  /\ at[r] \in {"complete", "fail"} /\ "query" \in Disruptions
  /\ NextEvent(r)
  /\ GiveUp({Current(r)})
  /\ UNCHANGED <<tableVars, topics, queue, subscribed, boots, drops, reading>>

(* Mutant: subscribes anew and does not scan.                              *)
ReconnectOnly(r) ==
  /\ at[r] = "wait" /\ ~subscribed[r] /\ queue[r] = <<>>
  /\ subscribed' = [subscribed EXCEPT ![r] = TRUE]
  /\ UNCHANGED <<tableVars, topics, at, batch, queue>>
  /\ UNCHANGED <<boots, drops, dropped, reading>>

(* WaitForNotification fails on the lost connection: reconnectAndScan.     *)
Reconnect(r) ==
  /\ at[r] = "wait" /\ ~subscribed[r] /\ queue[r] = <<>>
  /\ subscribed' = [subscribed EXCEPT ![r] = TRUE]
  /\ Goto(r, "scan")
  /\ UNCHANGED <<tableVars, topics, batch, queue>>
  /\ UNCHANGED <<boots, drops, dropped, reading>>

RunStep(r) ==
  \/ Subscribe(r)
  \/ \E b \in PollResults(PollLimit) : ScanBegin(r, b)
  \/ ScanEnd(r) \/ ScanFails(r)
  \/ Notified(r) \/ LookupFails(r)
  \/ Published(r) \/ NotPublished(r) \/ PublishedUnacked(r)
  \/ MarkCompleted(r) \/ MarkEventFailed(r) \/ MarkFails(r)
  \/ Reconnect(r)

-----------------------------------------------------------------------------
(* What happens to a replica.                                              *)

(* Its memory and its connections are gone, and so are its row locks.      *)
Crash(r) ==
  /\ at[r] # "down" /\ "crash" \in Disruptions
  /\ Goto(r, "down")
  /\ locked' = IF at[r] = "scanning" THEN locked \ ToSet(batch[r]) ELSE locked
  /\ GiveUp(ToSet(batch[r]))
  /\ batch' = [batch EXCEPT ![r] = <<>>]
  /\ queue' = [queue EXCEPT ![r] = <<>>]
  /\ subscribed' = [subscribed EXCEPT ![r] = FALSE]
  /\ UNCHANGED <<status, createdAt, clock, topics, boots, drops, reading>>

(* Its LISTEN connection is lost: of the notifications, those pgx has      *)
(* already received remain.                                                *)
ConnectionDrops(r) ==
  /\ subscribed[r] /\ drops < MaxDrops
  /\ drops' = drops + 1
  /\ subscribed' = [subscribed EXCEPT ![r] = FALSE]
  /\ \E n \in 0..Len(queue[r]) : queue' = [queue EXCEPT ![r] = SubSeq(@, 1, n)]
  /\ UNCHANGED <<tableVars, topics, at, batch, boots, dropped, reading>>

-----------------------------------------------------------------------------
(* The RPC handlers, of whatever replica.                                  *)

BeginCreateEvent(e) ==
  /\ \E r \in Replica : at[r] # "down"
  /\ CreateEventBegin(e)
  /\ UNCHANGED <<topics, replicaVars, boots, drops, dropped, reading>>

(* The trigger notifies every session that listens at the commit.          *)
CommitCreateEvent(e) ==
  /\ CreateEventCommit(e)
  /\ queue' = [r \in Replica |->
                 IF subscribed[r] THEN Append(queue[r], e) ELSE queue[r]]
  /\ UNCHANGED <<topics, at, batch, subscribed>>
  /\ UNCHANGED <<boots, drops, dropped, reading>>

UpdateEventStatus(e, s) ==
  /\ \E r \in Replica : at[r] # "down"
  /\ UpdateEventStatusRPC(e, s)
  /\ GiveUp(IF s = "pending" THEN {e} ELSE {})
  /\ UNCHANGED <<topics, replicaVars, boots, drops, reading>>

(* PollPendingEvents, for a client: as much of a SELECT FOR UPDATE as the  *)
(* poller's own.  One such call at a time.                                 *)
BeginPollPendingEvents(b) ==
  /\ \E r \in Replica : at[r] # "down"
  /\ reading = {} /\ b # <<>>
  /\ reading' = ToSet(b)
  /\ locked' = locked \cup reading'
  /\ UNCHANGED <<status, createdAt, clock, topics, replicaVars>>
  /\ UNCHANGED <<boots, drops, dropped>>

EndPollPendingEvents ==
  /\ reading # {}
  /\ locked' = locked \ reading
  /\ reading' = {}
  /\ UNCHANGED <<status, createdAt, clock, topics, replicaVars>>
  /\ UNCHANGED <<boots, drops, dropped>>

Next ==
  \/ \E r \in Replica : RunStep(r) \/ Boot(r) \/ Crash(r) \/ ConnectionDrops(r)
  \/ \E e \in Event :
       \/ BeginCreateEvent(e) \/ CommitCreateEvent(e)
       \/ \E s \in ClientStatuses : UpdateEventStatus(e, s)
  \/ \E n \in RpcLimits : \E b \in PollResults(n) : BeginPollPendingEvents(b)
  \/ EndPollPendingEvents

Spec == Init /\ [][Next]_vars

-----------------------------------------------------------------------------
(* Properties.                                                             *)

(* What one poller promises, several over one table promise too: a record  *)
(* only for a committed event, COMPLETED only when there is a record.      *)
Outbox == INSTANCE AtLeastOnce WITH
  row <- [e \in Event |-> IF status[e] = "inserting" THEN "absent" ELSE status[e]]

ImplementsAtLeastOnce == Outbox!Spec

(* What its step-by-step argument rests on.                                *)
ReplicaInv ==
  /\ TypeOK
  /\ \A r \in Replica :
       /\ ToSet(queue[r]) \cup ToSet(batch[r]) \subseteq Committed
       /\ at[r] = "complete" => Delivered(Current(r))

Held(e) == \E r \in Replica : e \in ToSet(queue[r]) \cup ToSet(batch[r])

(* Skipping locked rows loses nothing: as long as one subscribed replica   *)
(* is in its loop, a pending event is in some replica's hands, unless one  *)
(* gave up on it (a failed query, LIMIT, a row a client had locked),       *)
(* crashed with it, or a client put it back, of which nobody is notified.  *)
SkippedAreHeld ==
  (\E r \in Replica : at[r] \in Loop /\ subscribed[r]) =>
    \A e \in Pending : Held(e) \/ e \in dropped

(* Its strengthening: what a subscribed replica does not have itself is in *)
(* the batch of one that locked it, and a batch is only replaced when it   *)
(* is used up.                                                             *)
SkipInv ==
  /\ TypeOK
  /\ LocksAreSelects
  /\ \A r \in Replica : at[r] \in {"down", "listen", "scan", "wait"} => batch[r] = <<>>
  /\ \A r \in Replica :
       at[r] \in Loop \cup {"scanning"} /\ subscribed[r] =>
         Pending \subseteq ToSet(queue[r]) \cup dropped
                              \cup UNION {ToSet(batch[q]) : q \in Replica}

(* An event has no more records than there were scans, plus one per        *)
(* replica for its notification: neither the race of two scans nor that of *)
(* a scan with a notification feeds on itself.                             *)
DuplicatesBounded ==
  \A e \in Event : Copies(e) <= boots + drops + Cardinality(Replica)

(* Its strengthening: starts and lost connections pay for scans; a scan    *)
(* puts an event in a replica's hands once, a notification once more; and  *)
(* a record takes it out.                                                  *)
ToScan == {r \in Replica : at[r] \in {"listen", "scan"}}
Lost == {r \in Replica : at[r] \notin {"down", "listen"} /\ ~subscribed[r]}
ToldOf(e) == {r \in Replica : e \notin Committed \/ e \in ToSet(queue[r])}
ToPublish(e) ==
  {r \in Replica : e \in IF at[r] \in {"complete", "fail"} THEN ToSet(Tail(batch[r]))
                                                           ELSE ToSet(batch[r])}

DuplicatesInv ==
  /\ ReplicaInv
  /\ \A r \in Replica : IsInjective(queue[r]) /\ IsInjective(batch[r])
  /\ \A e \in Event :
       Copies(e) + Cardinality(ToScan) + Cardinality(Lost)
         + Cardinality(ToldOf(e)) + Cardinality(ToPublish(e))
       <= boots + drops + Cardinality(Replica)

=============================================================================
