---------------------------- MODULE ReplicaProofs ----------------------------
(***************************************************************************)
(* Theorems about several pollers over one table, for any number of        *)
(* replicas and every value of the other constants.                        *)
(***************************************************************************)
EXTENDS OutboxReplicas, EventTableProofs

(* The two steps of a client's PollPendingEvents, which touch row locks    *)
(* and nothing else.                                                       *)
ClientPolls ==
  \/ \E n \in RpcLimits : \E b \in PollResults(n) : BeginPollPendingEvents(b)
  \/ EndPollPendingEvents

LEMMA ClientPollsLock ==
  ASSUME ClientPolls
  PROVE  UNCHANGED <<status, createdAt, clock, topics, at, batch, queue, subscribed,
                     boots, drops, dropped>>
BY DEF ClientPolls, BeginPollPendingEvents, EndPollPendingEvents, replicaVars

-----------------------------------------------------------------------------
(* Type correctness.                                                       *)

LEMMA TypeInit == Init => TypeOK
<1> SUFFICES ASSUME Init PROVE TypeOK
  OBVIOUS
<1>1. <<>> \in Seq(Event)
  BY EmptySeq
<1>2. TableTypeOK /\ TopicsTypeOK
  BY <1>1 DEF Init, TableInit, TableTypeOK, TopicsInit, TopicsTypeOK
<1>3. \A r \in Replica : at[r] = "down" /\ at[r] \notin Working
  BY DEF Init, Working
<1> QED BY <1>1, <1>2, <1>3 DEF Init, TypeOK

LEMMA BatchType ==
  ASSUME TypeOK, NEW r \in Replica, at[r] \in Working
  PROVE  /\ Current(r) \in Event
         /\ Tail(batch[r]) \in Seq(Event)
BY HeadTailProperties DEF TypeOK, Current

(* What finishing an event does to the control state, in one replica.      *)
LEMMA NextEventType ==
  ASSUME TypeOK, NEW r \in Replica, at[r] \in Working, NextEvent(r)
  PROVE  /\ at' \in [Replica -> Loop \cup {"down", "listen", "scan", "scanning"}]
         /\ batch' \in [Replica -> Seq(Event)]
         /\ \A q \in Replica : at'[q] \in Working => batch'[q] # <<>>
<1>1. Tail(batch[r]) \in Seq(Event)
  BY BatchType
<1> QED BY <1>1 DEF NextEvent, Goto, TypeOK, Loop, Working

LEMMA TypeStep == TypeOK /\ [Next]_vars => TypeOK'
<1> SUFFICES ASSUME TypeOK, [Next]_vars PROVE TypeOK'
  OBVIOUS
<1> USE DEF TypeOK, TableTypeOK, tableVars, replicaVars, Loop, Working, Goto, EventStatus
<1>1. ASSUME NEW r \in Replica, Boot(r) \/ Subscribe(r) \/ ScanFails(r) \/ Reconnect(r)
      PROVE  TypeOK'
  <2>1. CASE Boot(r)
    BY <2>1 DEF Boot, TopicsTypeOK
  <2>2. CASE Subscribe(r)
    BY <2>2 DEF Subscribe, TopicsTypeOK
  <2>3. CASE ScanFails(r)
    BY <2>3 DEF ScanFails, GiveUp, Pending, TopicsTypeOK
  <2>4. CASE Reconnect(r)
    BY <2>4 DEF Reconnect, TopicsTypeOK
  <2> QED BY <1>1, <2>1, <2>2, <2>3, <2>4
<1>2. ASSUME NEW r \in Replica, NEW b \in PollResults(PollLimit), ScanBegin(r, b)
      PROVE  TypeOK'
  <2>1. b \in Seq(Event) /\ ToSet(b) \subseteq Event
    BY ReplicasAssumption, PollResultsAreRows DEF Pending
  <2> QED BY <1>2, <2>1 DEF ScanBegin, GiveUp, Pending, TopicsTypeOK
<1>3. ASSUME NEW r \in Replica, ScanEnd(r) PROVE TypeOK'
  BY <1>3 DEF ScanEnd, TopicsTypeOK
<1>4. ASSUME NEW r \in Replica, Notified(r) \/ LookupFails(r) PROVE TypeOK'
  <2>1. /\ Head(queue[r]) \in Event /\ Tail(queue[r]) \in Seq(Event)
        /\ <<Head(queue[r])>> \in Seq(Event) /\ <<Head(queue[r])>> # <<>>
    BY <1>4, HeadTailProperties DEF Notified, LookupFails
  <2>2. CASE Notified(r)
    BY <2>1, <2>2 DEF Notified, TopicsTypeOK
  <2>3. CASE LookupFails(r)
    BY <2>1, <2>3 DEF LookupFails, GiveUp, TopicsTypeOK
  <2> QED BY <1>4, <2>2, <2>3
<1>5. ASSUME NEW r \in Replica, Published(r) \/ PublishedUnacked(r) PROVE TypeOK'
  <2>1. Produce(Current(r)) /\ Current(r) \in Event /\ at[r] = "publish"
    BY <1>5, BatchType DEF Published, PublishedUnacked
  <2>2. TopicsTypeOK'
    BY <2>1, ProduceType
  <2> QED BY <1>5, <2>1, <2>2 DEF Published, PublishedUnacked
<1>6. ASSUME NEW r \in Replica, NotPublished(r) PROVE TypeOK'
  BY <1>6 DEF NotPublished, TopicsTypeOK
<1>7. ASSUME NEW r \in Replica, MarkCompleted(r) \/ MarkEventFailed(r) \/ MarkFails(r)
      PROVE  TypeOK'
  <2>1. at[r] \in Working /\ NextEvent(r) /\ Current(r) \in Event
    BY <1>7, BatchType DEF MarkCompleted, MarkEventFailed, MarkFails
  <2>2. /\ at' \in [Replica -> Loop \cup {"down", "listen", "scan", "scanning"}]
        /\ batch' \in [Replica -> Seq(Event)]
        /\ \A q \in Replica : at'[q] \in Working => batch'[q] # <<>>
    BY <2>1, NextEventType
  <2>3. TableTypeOK' /\ TopicsTypeOK' /\ dropped' \in SUBSET Event
    BY <1>7, <2>1
       DEF MarkCompleted, MarkEventFailed, MarkFails, SetStatus, GiveUp, TopicsTypeOK
  <2> QED
    BY <1>7, <2>2, <2>3 DEF MarkCompleted, MarkEventFailed, MarkFails
<1>8. ASSUME NEW r \in Replica, Crash(r) PROVE TypeOK'
  <2>1. <<>> \in Seq(Event) /\ ToSet(batch[r]) \subseteq Event
    BY EmptySeq DEF ToSet
  <2> QED BY <1>8, <2>1 DEF Crash, GiveUp, TopicsTypeOK
<1>9. ASSUME NEW r \in Replica, ConnectionDrops(r) PROVE TypeOK'
  <2>1. PICK n \in 0..Len(queue[r]) :
          queue' = [queue EXCEPT ![r] = SubSeq(queue[r], 1, n)]
    BY <1>9 DEF ConnectionDrops
  <2>2. SubSeq(queue[r], 1, n) \in Seq(Event)
    BY PrefixIsSeq
  <2> QED BY <1>9, <2>1, <2>2 DEF ConnectionDrops, TopicsTypeOK
<1>10. ASSUME NEW e \in Event, BeginCreateEvent(e) PROVE TypeOK'
  BY <1>10 DEF BeginCreateEvent, CreateEventBegin, TopicsTypeOK
<1>11. ASSUME NEW e \in Event, CommitCreateEvent(e) PROVE TypeOK'
  <2>1. \A r \in Replica : Append(queue[r], e) \in Seq(Event)
    BY AppendProperties
  <2> QED BY <1>11, <2>1 DEF CommitCreateEvent, CreateEventCommit, TopicsTypeOK
<1>12. ASSUME NEW e \in Event, NEW s \in ClientStatuses, UpdateEventStatus(e, s)
       PROVE  TypeOK'
  BY <1>12, TableAssumption
     DEF UpdateEventStatus, UpdateEventStatusRPC, SetStatus, GiveUp, TopicsTypeOK
<1>13. CASE ClientPolls
  <2>1. UNCHANGED <<status, createdAt, clock, topics, at, batch, queue, subscribed,
                    boots, drops, dropped>>
    BY <1>13, ClientPollsLock
  <2>2. locked' \in SUBSET Event /\ reading' \in SUBSET Event
    <3>1. CASE EndPollPendingEvents
      BY <3>1 DEF EndPollPendingEvents
    <3>2. ASSUME NEW n \in RpcLimits, NEW b \in PollResults(n), BeginPollPendingEvents(b)
          PROVE  locked' \in SUBSET Event /\ reading' \in SUBSET Event
      <4>1. ToSet(b) \subseteq Event
        BY TableAssumption, PollResultsAreRows DEF Pending
      <4> QED BY <3>2, <4>1 DEF BeginPollPendingEvents
    <3> QED BY <1>13, <3>1, <3>2 DEF ClientPolls
  <2> QED BY <2>1, <2>2 DEF TopicsTypeOK
<1>14. CASE UNCHANGED vars
  BY <1>14 DEF vars, TopicsTypeOK
<1> QED
  BY <1>1, <1>2, <1>3, <1>4, <1>5, <1>6, <1>7, <1>8, <1>9, <1>10, <1>11,
     <1>12, <1>13, <1>14 DEF Next, RunStep, ClientPolls

(* The state keeps its types.                                              *)
THEOREM TypeCorrect == Spec => []TypeOK
BY TypeInit, TypeStep, PTL DEF Spec

-----------------------------------------------------------------------------
(* Row locks.                                                              *)

(* A step that neither starts nor ends a SELECT leaves the locks as they   *)
(* are.                                                                    *)
LEMMA LocksUndisturbed ==
  ASSUME LocksAreSelects, UNCHANGED <<locked, reading>>, Scanning' = Scanning,
         \A r \in Scanning : batch'[r] = batch[r]
  PROVE  LocksAreSelects'
<1>1. /\ locked' = reading' \cup UNION {ToSet(batch'[r]) : r \in Scanning'}
      /\ \A r \in Scanning' : ToSet(batch'[r]) \cap reading' = {}
      /\ \A q, r \in Scanning' : ToSet(batch'[q]) \cap ToSet(batch'[r]) # {} => q = r
  BY DEF LocksAreSelects
<1> QED BY <1>1 DEF LocksAreSelects

LEMMA LocksStep == TypeOK /\ LocksAreSelects /\ [Next]_vars => LocksAreSelects'
<1> SUFFICES ASSUME TypeOK, LocksAreSelects, [Next]_vars PROVE LocksAreSelects'
  OBVIOUS
<1>a. /\ locked = reading \cup UNION {ToSet(batch[r]) : r \in Scanning}
      /\ \A r \in Scanning : ToSet(batch[r]) \cap reading = {}
      /\ \A q, r \in Scanning : ToSet(batch[q]) \cap ToSet(batch[r]) # {} => q = r
  BY DEF LocksAreSelects
<1> USE DEF Goto, tableVars, replicaVars
<1>1. ASSUME NEW r \in Replica, NEW b \in PollResults(PollLimit), ScanBegin(r, b)
      PROVE  LocksAreSelects'
  <2>1. /\ locked' = locked \cup ToSet(b) /\ batch' = [batch EXCEPT ![r] = b]
        /\ at[r] = "scan" /\ at' = [at EXCEPT ![r] = "scanning"] /\ reading' = reading
    BY <1>1 DEF ScanBegin
  <2>2. ToSet(b) \cap locked = {}
    BY DEF PollResults, ToSet
  <2>3. /\ Scanning' = Scanning \cup {r} /\ r \notin Scanning
        /\ batch'[r] = b /\ \A q \in Scanning : batch'[q] = batch[q]
    BY <2>1 DEF TypeOK, Scanning
  <2>4. locked' = reading' \cup UNION {ToSet(batch'[q]) : q \in Scanning'}
    BY <1>a, <2>1, <2>3
  <2>5. /\ ToSet(b) \cap reading = {}
        /\ \A q \in Scanning : ToSet(batch[q]) \cap ToSet(b) = {}
    BY <1>a, <2>2
  <2>6. /\ \A q \in Scanning' : ToSet(batch'[q]) \cap reading' = {}
        /\ \A p, q \in Scanning' : ToSet(batch'[p]) \cap ToSet(batch'[q]) # {} => p = q
    BY <1>a, <2>1, <2>3, <2>5
  <2> QED BY <2>4, <2>6 DEF LocksAreSelects
<1>2. ASSUME NEW r \in Scanning, locked' = locked \ ToSet(batch[r]), reading' = reading,
             Scanning' = Scanning \ {r}, \A q \in Scanning \ {r} : batch'[q] = batch[q]
      PROVE  LocksAreSelects'
  <2>1. /\ ToSet(batch[r]) \cap reading = {}
        /\ \A q \in Scanning \ {r} : ToSet(batch[q]) \cap ToSet(batch[r]) = {}
    BY <1>a
  <2>2. locked' = reading' \cup UNION {ToSet(batch'[q]) : q \in Scanning'}
    BY <1>a, <1>2, <2>1
  <2>3. /\ \A q \in Scanning' : ToSet(batch'[q]) \cap reading' = {}
        /\ \A p, q \in Scanning' : ToSet(batch'[p]) \cap ToSet(batch'[q]) # {} => p = q
    BY <1>a, <1>2
  <2> QED BY <2>2, <2>3 DEF LocksAreSelects
<1>3. ASSUME NEW r \in Replica, ScanEnd(r) PROVE LocksAreSelects'
  BY <1>2, <1>3 DEF ScanEnd, Scanning, TypeOK
<1>4. ASSUME NEW r \in Replica, Crash(r) PROVE LocksAreSelects'
  <2>1. CASE at[r] = "scanning"
    BY <1>2, <1>4, <2>1 DEF Crash, Scanning, TypeOK
  <2>2. CASE at[r] # "scanning"
    BY <1>4, <2>2, LocksUndisturbed DEF Crash, Scanning, TypeOK
  <2> QED BY <2>1, <2>2
<1>5. ASSUME NEW r \in Replica,
             \/ Boot(r) \/ Subscribe(r) \/ ScanFails(r) \/ Notified(r)
             \/ LookupFails(r) \/ Published(r) \/ NotPublished(r)
             \/ PublishedUnacked(r) \/ Reconnect(r) \/ ConnectionDrops(r)
             \/ MarkCompleted(r) \/ MarkEventFailed(r) \/ MarkFails(r)
      PROVE  LocksAreSelects'
  <2>1. /\ UNCHANGED <<locked, reading>>
        /\ at' = at \/ (at[r] # "scanning" /\ \E l : l # "scanning" /\ at' = [at EXCEPT ![r] = l])
    BY <1>5 DEF Boot, Subscribe, ScanFails, Notified, LookupFails, Published,
         NotPublished, PublishedUnacked, Reconnect, ConnectionDrops,
         MarkCompleted, MarkEventFailed, MarkFails, SetStatus, NextEvent
  <2>2. batch' = batch \/ (at[r] # "scanning" /\ \E b : batch' = [batch EXCEPT ![r] = b])
    BY <1>5 DEF Boot, Subscribe, ScanFails, Notified, LookupFails, Published,
         NotPublished, PublishedUnacked, Reconnect, ConnectionDrops,
         MarkCompleted, MarkEventFailed, MarkFails, NextEvent
  <2> QED BY <2>1, <2>2, LocksUndisturbed DEF Scanning, TypeOK
<1>6. ASSUME NEW e \in Event,
             \/ BeginCreateEvent(e) \/ CommitCreateEvent(e)
             \/ \E s \in ClientStatuses : UpdateEventStatus(e, s)
      PROVE  LocksAreSelects'
  BY <1>6, LocksUndisturbed
     DEF BeginCreateEvent, CreateEventBegin, CommitCreateEvent, CreateEventCommit,
         UpdateEventStatus, UpdateEventStatusRPC, SetStatus, Scanning
<1>7. ASSUME NEW n \in RpcLimits, NEW b \in PollResults(n), BeginPollPendingEvents(b)
      PROVE  LocksAreSelects'
  <2>1. ToSet(b) \cap locked = {}
    BY DEF PollResults, ToSet
  <2>2. /\ Scanning' = Scanning /\ batch' = batch /\ reading = {}
        /\ reading' = ToSet(b) /\ locked' = locked \cup ToSet(b)
    BY <1>7 DEF BeginPollPendingEvents, Scanning
  <2>3. \A r \in Scanning : ToSet(batch[r]) \cap ToSet(b) = {}
    BY <1>a, <2>1
  <2> QED BY <1>a, <2>2, <2>3 DEF LocksAreSelects
<1>8. CASE EndPollPendingEvents
  <2>1. /\ Scanning' = Scanning /\ batch' = batch
        /\ reading' = {} /\ locked' = locked \ reading
    BY <1>8 DEF EndPollPendingEvents, Scanning
  <2> QED BY <1>a, <2>1 DEF LocksAreSelects
<1>9. CASE UNCHANGED vars
  BY <1>9, LocksUndisturbed DEF vars, Scanning
<1> QED
  BY <1>1, <1>3, <1>4, <1>5, <1>6, <1>7, <1>8, <1>9 DEF Next, RunStep

(* No two SELECTs under way return the same row, replicas' scans or        *)
(* clients' calls, and no row stays locked when the one that locked it has *)
(* ended or its replica has crashed.                                       *)
THEOREM ScansAreDisjoint == Spec => []LocksAreSelects
<1>1. Init => LocksAreSelects
  BY DEF Init, TableInit, LocksAreSelects, Scanning
<1> QED BY <1>1, TypeInit, TypeStep, LocksStep, PTL DEF Spec

-----------------------------------------------------------------------------
(* Published before completed, and only what was committed.                *)

Hands(r) == ToSet(queue[r]) \cup ToSet(batch[r])

LEMMA InvStep == ReplicaInv /\ [Next]_vars => ReplicaInv'
<1> SUFFICES ASSUME ReplicaInv, [Next]_vars PROVE ReplicaInv'
  OBVIOUS
<1>t. TypeOK /\ TypeOK'
  BY TypeStep DEF ReplicaInv
<1> USE DEF Goto, tableVars, replicaVars, Committed, Working, EventStatus
(* What preserves the invariant: nobody's hands gain an event that is not  *)
(* committed, and who is at "complete" has been there or has just produced.*)
<1>a. ASSUME Committed \subseteq Committed',
             \A q \in Replica : Hands(q)' \subseteq Hands(q) \cup Committed',
             \A e \in Event : Delivered(e) => Delivered(e)',
             \A q \in Replica : at'[q] = "complete" =>
                \/ at[q] = "complete" /\ batch'[q] = batch[q]
                \/ Delivered(Current(q))'
      PROVE  ReplicaInv'
  <2>1. \A q \in Replica : at[q] = "complete" => Current(q) \in Event
    BY <1>t, BatchType
  <2>2. \A q \in Replica :
          /\ Hands(q)' \subseteq Committed'
          /\ at'[q] = "complete" => Delivered(Current(q))'
    BY <1>a, <2>1 DEF ReplicaInv, Current, Delivered, TopicForEventType, Hands
  <2> QED BY <1>t, <2>2 DEF ReplicaInv, Hands
<1>b. UNCHANGED topics => \A e \in Event : Delivered(e) => Delivered(e)'
  BY DEF Delivered, TopicForEventType
(* A step of replica r that leaves the table's statuses and topics alone.  *)
<1>c. ASSUME NEW r \in Replica, NEW label, UNCHANGED <<status, topics>>,
             at' = [at EXCEPT ![r] = label], label # "complete",
             \A q \in Replica : q # r => batch'[q] = batch[q] /\ queue'[q] = queue[q],
             Hands(r)' \subseteq Hands(r) \cup Committed
      PROVE  ReplicaInv'
  <2>1. \A q \in Replica : Hands(q)' \subseteq Hands(q) \cup Committed'
    BY <1>c DEF Hands
  <2>2. \A q \in Replica : at'[q] = "complete" => at[q] = "complete" /\ batch'[q] = batch[q]
    BY <1>c, <1>t DEF TypeOK
  <2> QED BY <1>a, <1>b, <1>c, <2>1, <2>2
<1>1. ASSUME NEW r \in Replica, Boot(r) \/ Subscribe(r) \/ ScanEnd(r) \/ ScanFails(r)
                                \/ Reconnect(r) \/ NotPublished(r)
      PROVE  ReplicaInv'
  <2>1. /\ UNCHANGED <<status, topics, batch, queue>>
        /\ \E label : at' = [at EXCEPT ![r] = label] /\ label # "complete"
    BY <1>1 DEF Boot, Subscribe, ScanEnd, ScanFails, Reconnect, NotPublished
  <2>2. Hands(r)' \subseteq Hands(r)
    BY <2>1 DEF Hands
  <2> QED BY <1>c, <2>1, <2>2
<1>2. ASSUME NEW r \in Replica, NEW b \in PollResults(PollLimit), ScanBegin(r, b)
      PROVE  ReplicaInv'
  <2>1. ToSet(b) \subseteq Committed
    BY ReplicasAssumption, PollResultsAreRows DEF Pending
  <2>2. /\ UNCHANGED <<status, topics, queue>> /\ batch' = [batch EXCEPT ![r] = b]
        /\ at' = [at EXCEPT ![r] = "scanning"]
    BY <1>2 DEF ScanBegin
  <2>3. /\ Hands(r)' \subseteq Hands(r) \cup Committed
        /\ \A q \in Replica : q # r => batch'[q] = batch[q] /\ queue'[q] = queue[q]
    BY <1>t, <2>1, <2>2 DEF Hands, TypeOK
  <2> QED BY <1>c, <2>2, <2>3
<1>3. ASSUME NEW r \in Replica, Notified(r) PROVE ReplicaInv'
  <2>1. /\ UNCHANGED <<status, topics>> /\ queue[r] # <<>>
        /\ batch' = [batch EXCEPT ![r] = <<Head(queue[r])>>]
        /\ queue' = [queue EXCEPT ![r] = Tail(queue[r])]
        /\ at' = [at EXCEPT ![r] = "publish"]
    BY <1>3 DEF Notified
  <2>2. /\ Head(queue[r]) \in ToSet(queue[r])
        /\ ToSet(Tail(queue[r])) \subseteq ToSet(queue[r])
        /\ ToSet(<<Head(queue[r])>>) = {Head(queue[r])}
    BY <1>t, <2>1, ToSetHeadTail, ToSetSingle DEF TypeOK
  <2>3. /\ Hands(r)' \subseteq Hands(r)
        /\ \A q \in Replica : q # r => batch'[q] = batch[q] /\ queue'[q] = queue[q]
    BY <1>t, <2>1, <2>2 DEF Hands, TypeOK
  <2> QED BY <1>c, <2>1, <2>3
<1>4. ASSUME NEW r \in Replica, LookupFails(r) PROVE ReplicaInv'
  <2>1. /\ UNCHANGED <<status, topics, at, batch>> /\ queue[r] # <<>>
        /\ queue' = [queue EXCEPT ![r] = Tail(queue[r])]
    BY <1>4 DEF LookupFails
  <2>2. ToSet(Tail(queue[r])) \subseteq ToSet(queue[r])
    BY <1>t, <2>1, ToSetHeadTail DEF TypeOK
  <2>3. \A q \in Replica : Hands(q)' \subseteq Hands(q)
    BY <1>t, <2>1, <2>2 DEF Hands, TypeOK
  <2> QED BY <1>a, <1>b, <2>1, <2>3
<1>5. ASSUME NEW r \in Replica, Published(r) \/ PublishedUnacked(r) PROVE ReplicaInv'
  <2>1. /\ UNCHANGED <<status, batch, queue>> /\ Produce(Current(r))
        /\ at[r] = "publish" /\ at' \in {[at EXCEPT ![r] = "complete"], [at EXCEPT ![r] = "fail"]}
    BY <1>5 DEF Published, PublishedUnacked
  <2>2. PICK e \in Event : e = Current(r)
    BY <1>t, <2>1, BatchType
  <2>3. /\ Delivered(e)' /\ \A f \in Event : Delivered(f) => Delivered(f)'
    BY <1>t, <2>1, <2>2, ProduceDelivers DEF TypeOK, Delivered, TopicForEventType
  <2>4. Current(r)' = e
    BY <2>1, <2>2 DEF Current
  <2>5. Delivered(Current(r))'
    BY <2>3, <2>4 DEF Delivered, TopicForEventType
  <2>6. \A q \in Replica : at'[q] = "complete" => at[q] = "complete" \/ q = r
    BY <1>t, <2>1 DEF TypeOK
  <2> QED BY <1>a, <2>1, <2>3, <2>5, <2>6 DEF Hands
(* The steps that finish an event.                                         *)
<1>6. ASSUME NEW r \in Replica, MarkCompleted(r) \/ MarkEventFailed(r) \/ MarkFails(r)
      PROVE  ReplicaInv'
  <2>1. /\ UNCHANGED <<topics, queue>> /\ at[r] \in Working
        /\ batch' = [batch EXCEPT ![r] = Tail(batch[r])]
        /\ at' = [at EXCEPT ![r] = IF Tail(batch[r]) = <<>> THEN "wait" ELSE "publish"]
    BY <1>6 DEF MarkCompleted, MarkEventFailed, MarkFails, NextEvent
  <2>2. ToSet(Tail(batch[r])) \subseteq ToSet(batch[r])
    BY <1>t, <2>1, ToSetHeadTail DEF TypeOK
  <2>3. Committed \subseteq Committed'
    BY <1>6, <1>t DEF MarkCompleted, MarkEventFailed, MarkFails, SetStatus, TypeOK, TableTypeOK
  <2>4. /\ \A q \in Replica : Hands(q)' \subseteq Hands(q)
        /\ \A q \in Replica : at'[q] = "complete" => at[q] = "complete" /\ batch'[q] = batch[q]
    BY <1>t, <2>1, <2>2 DEF Hands, TypeOK
  <2> QED BY <1>a, <1>b, <2>1, <2>3, <2>4
<1>7. ASSUME NEW r \in Replica, Crash(r) PROVE ReplicaInv'
  <2>1. /\ UNCHANGED <<status, topics>> /\ at' = [at EXCEPT ![r] = "down"]
        /\ batch' = [batch EXCEPT ![r] = <<>>] /\ queue' = [queue EXCEPT ![r] = <<>>]
    BY <1>7 DEF Crash
  <2>2. /\ Hands(r)' \subseteq Hands(r)
        /\ \A q \in Replica : q # r => batch'[q] = batch[q] /\ queue'[q] = queue[q]
    BY <1>t, <2>1, ToSetEmpty DEF Hands, TypeOK
  <2> QED BY <1>c, <2>1, <2>2
<1>8. ASSUME NEW r \in Replica, ConnectionDrops(r) PROVE ReplicaInv'
  <2>1. PICK n \in 0..Len(queue[r]) :
          queue' = [queue EXCEPT ![r] = SubSeq(queue[r], 1, n)]
    BY <1>8 DEF ConnectionDrops
  <2>2. ToSet(SubSeq(queue[r], 1, n)) \subseteq ToSet(queue[r])
    BY <1>t, PrefixIsSeq DEF TypeOK
  <2>3. UNCHANGED <<status, topics, at, batch>>
    BY <1>8 DEF ConnectionDrops
  <2>4. \A q \in Replica : Hands(q)' \subseteq Hands(q)
    BY <1>t, <2>1, <2>2, <2>3 DEF Hands, TypeOK
  <2> QED BY <1>a, <1>b, <2>3, <2>4
<1>9. ASSUME NEW e \in Event, BeginCreateEvent(e) PROVE ReplicaInv'
  <2>1. /\ status[e] = "absent" /\ status' = [status EXCEPT ![e] = "inserting"]
        /\ UNCHANGED <<topics, at, batch, queue>>
    BY <1>9 DEF BeginCreateEvent, CreateEventBegin
  <2>2. Committed \subseteq Committed'
    BY <1>t, <2>1 DEF TypeOK, TableTypeOK
  <2> QED BY <1>a, <1>b, <2>1, <2>2 DEF Hands
<1>10. ASSUME NEW e \in Event, CommitCreateEvent(e) PROVE ReplicaInv'
  <2>1. /\ status' = [status EXCEPT ![e] = "pending"]
        /\ UNCHANGED <<topics, at, batch>>
    BY <1>10 DEF CommitCreateEvent, CreateEventCommit
  <2>2. Committed \subseteq Committed' /\ e \in Committed'
    BY <1>t, <2>1 DEF TypeOK, TableTypeOK
  <2>3. \A q \in Replica : ToSet(queue'[q]) \subseteq ToSet(queue[q]) \cup {e}
    BY <1>10, <1>t, ToSetAppend DEF CommitCreateEvent, TypeOK
  <2>4. \A q \in Replica : Hands(q)' \subseteq Hands(q) \cup Committed'
    BY <2>1, <2>2, <2>3 DEF Hands
  <2> QED BY <1>a, <1>b, <2>1, <2>2, <2>4
<1>11. ASSUME NEW e \in Event, NEW s \in ClientStatuses, UpdateEventStatus(e, s)
       PROVE  ReplicaInv'
  <2>1. /\ status' = [status EXCEPT ![e] = s] /\ s \in EventStatus
        /\ UNCHANGED <<topics, at, batch, queue>>
    BY <1>11, TableAssumption DEF UpdateEventStatus, UpdateEventStatusRPC, SetStatus
  <2>2. Committed \subseteq Committed'
    BY <1>t, <2>1 DEF TypeOK, TableTypeOK
  <2> QED BY <1>a, <1>b, <2>1, <2>2 DEF Hands
<1>12. CASE ClientPolls \/ UNCHANGED vars
  <2>1. UNCHANGED <<status, topics, at, batch, queue>>
    BY <1>12, ClientPollsLock DEF vars
  <2> QED BY <2>1, <1>a, <1>b DEF Hands
<1> QED
  BY <1>1, <1>2, <1>3, <1>4, <1>5, <1>6, <1>7, <1>8, <1>9, <1>10, <1>11, <1>12
     DEF Next, RunStep, ClientPolls

LEMMA InvInit == Init => ReplicaInv
BY TypeInit, ToSetEmpty DEF Init, ReplicaInv

-----------------------------------------------------------------------------
(* Several pollers implement AtLeastOnce.                                  *)

RowOf == [e \in Event |-> IF status[e] = "inserting" THEN "absent" ELSE status[e]]

(* A step that changes the status of one event changes at most its row.    *)
LEMMA RowUpdate ==
  ASSUME TypeOK, NEW e \in Event, NEW s, status' = [status EXCEPT ![e] = s]
  PROVE  RowOf' = [RowOf EXCEPT ![e] = IF s = "inserting" THEN "absent" ELSE s]
BY DEF RowOf, TypeOK, TableTypeOK

(* What a replica works on is committed.                                   *)
LEMMA CurrentCommitted ==
  ASSUME ReplicaInv, NEW r \in Replica, at[r] \in Working
  PROVE  /\ Current(r) \in Event
         /\ status[Current(r)] \in EventStatus
         /\ RowOf[Current(r)] # "absent"
<1>1. Current(r) \in Event /\ Current(r) \in ToSet(batch[r])
  BY BatchType, ToSetHeadTail DEF ReplicaInv, TypeOK, Current
<1>2. Current(r) \in Committed
  BY <1>1 DEF ReplicaInv
<1> QED BY <1>1, <1>2 DEF Committed, RowOf, EventStatus

LEMMA RefinementStep ==
  ReplicaInv /\ [Next]_vars => [Outbox!Next]_<<RowOf, topics>>
<1> SUFFICES ASSUME ReplicaInv, [Next]_vars
             PROVE  [Outbox!Next]_<<RowOf, topics>>
  OBVIOUS
<1>t. TypeOK
  BY DEF ReplicaInv
<1> USE DEF Goto, tableVars, replicaVars, EventStatus
<1>1. CASE UNCHANGED <<status, topics>>
  BY <1>1 DEF RowOf
<1>2. ASSUME NEW r \in Replica, Published(r) \/ PublishedUnacked(r) PROVE Outbox!Next
  <2>1. PICK e \in Event : e = Current(r)
    BY <1>2, CurrentCommitted DEF Published, PublishedUnacked, Working
  <2>2. Produce(e) /\ UNCHANGED status /\ RowOf[e] # "absent"
    BY <1>2, <2>1, CurrentCommitted DEF Published, PublishedUnacked, Working
  <2>3. RowOf' = RowOf
    BY <2>2 DEF RowOf
  <2>4. Outbox!Publish(e)
    BY <2>2, <2>3 DEF Outbox!Publish, Outbox!Produce, Produce, RowOf,
         Outbox!TopicForEventType, TopicForEventType
  <2> QED BY <2>4 DEF Outbox!Next
<1>3. ASSUME NEW r \in Replica, MarkCompleted(r) PROVE Outbox!Next
  <2>1. PICK e \in Event : e = Current(r)
    BY <1>3, CurrentCommitted DEF MarkCompleted, Working
  <2>2. /\ Delivered(e) /\ UNCHANGED topics /\ RowOf[e] # "absent"
        /\ status' = [status EXCEPT ![e] = "completed"]
    BY <1>3, <2>1, CurrentCommitted DEF MarkCompleted, SetStatus, ReplicaInv, Working
  <2>3. RowOf' = [RowOf EXCEPT ![e] = "completed"]
    BY <1>t, <2>2, RowUpdate DEF RowOf
  <2>4. Outbox!Delivered(e)
    BY <2>2 DEF Outbox!Delivered, Delivered, Outbox!ToSet, ToSet,
         Outbox!TopicForEventType, TopicForEventType
  <2>5. Outbox!Complete(e)
    BY <2>2, <2>3, <2>4 DEF Outbox!Complete, RowOf
  <2> QED BY <2>5 DEF Outbox!Next
<1>4. ASSUME NEW r \in Replica, MarkEventFailed(r) PROVE Outbox!Next
  <2>1. PICK e \in Event : e = Current(r)
    BY <1>4, CurrentCommitted DEF MarkEventFailed, Working
  <2>2. /\ UNCHANGED topics /\ RowOf[e] # "absent"
        /\ status' = [status EXCEPT ![e] = "failed"]
    BY <1>4, <2>1, CurrentCommitted DEF MarkEventFailed, SetStatus, Working
  <2>3. RowOf' = [RowOf EXCEPT ![e] = "failed"]
    BY <1>t, <2>2, RowUpdate DEF RowOf
  <2>4. Outbox!Fail(e)
    BY <2>2, <2>3 DEF Outbox!Fail, RowOf
  <2> QED BY <2>4 DEF Outbox!Next
<1>5. ASSUME NEW e \in Event, BeginCreateEvent(e)
      PROVE  UNCHANGED <<RowOf, topics>>
  <2>1. /\ status[e] = "absent" /\ status' = [status EXCEPT ![e] = "inserting"]
        /\ UNCHANGED topics
    BY <1>5 DEF BeginCreateEvent, CreateEventBegin
  <2> QED BY <1>t, <2>1 DEF RowOf, TypeOK, TableTypeOK
<1>6. ASSUME NEW e \in Event, CommitCreateEvent(e) PROVE Outbox!Next
  <2>1. /\ status[e] = "inserting" /\ status' = [status EXCEPT ![e] = "pending"]
        /\ UNCHANGED topics
    BY <1>6 DEF CommitCreateEvent, CreateEventCommit
  <2>2. RowOf[e] = "absent" /\ RowOf' = [RowOf EXCEPT ![e] = "pending"]
    BY <1>t, <2>1, RowUpdate DEF RowOf
  <2>3. Outbox!Submit(e)
    BY <2>1, <2>2 DEF Outbox!Submit, RowOf
  <2> QED BY <2>3 DEF Outbox!Next
<1>7. ASSUME NEW e \in Event, NEW s \in ClientStatuses, UpdateEventStatus(e, s)
      PROVE  Outbox!Next
  <2>1. /\ status[e] \in EventStatus /\ status' = [status EXCEPT ![e] = s]
        /\ UNCHANGED topics /\ s \in EventStatus
    BY <1>7, TableAssumption
       DEF UpdateEventStatus, UpdateEventStatusRPC, SetStatus, Committed
  <2>2. RowOf[e] # "absent" /\ RowOf' = [RowOf EXCEPT ![e] = s]
    BY <1>t, <2>1, RowUpdate DEF RowOf
  <2>3. Outbox!Relabel(e, s)
    BY <2>1, <2>2 DEF Outbox!Relabel, RowOf
  <2> QED BY <2>3 DEF Outbox!Next
<1>8. ASSUME NEW r \in Replica,
             \/ Boot(r) \/ Subscribe(r) \/ ScanEnd(r) \/ ScanFails(r)
             \/ (\E b \in PollResults(PollLimit) : ScanBegin(r, b))
             \/ Notified(r) \/ LookupFails(r) \/ NotPublished(r) \/ MarkFails(r)
             \/ Reconnect(r) \/ Crash(r) \/ ConnectionDrops(r)
      PROVE  UNCHANGED <<status, topics>>
  BY <1>8 DEF Boot, Subscribe, ScanEnd, ScanFails, ScanBegin, Notified, LookupFails,
       NotPublished, MarkFails, Reconnect, Crash, ConnectionDrops
<1>9. CASE ClientPolls \/ UNCHANGED vars
  BY <1>1, <1>9, ClientPollsLock DEF vars
<1> QED
  BY <1>1, <1>2, <1>3, <1>4, <1>5, <1>6, <1>7, <1>8, <1>9 DEF Next, RunStep, ClientPolls

(* However many servers share the table, what they do together is what     *)
(* AtLeastOnce allows: their duplicates, races and crashes never call an   *)
(* event COMPLETED without a record, nor publish what was not committed.   *)
THEOREM ReplicasImplement == Spec => ImplementsAtLeastOnce
<1>1. Init => Outbox!Init
  BY DEF Init, TableInit, TopicsInit, Outbox!Init, Outbox!TopicsInit
<1>2. ReplicaInv /\ [Next]_vars => [Outbox!Next]_<<RowOf, topics>>
  BY RefinementStep
<1>3. Spec => Outbox!Spec
  BY <1>1, <1>2, InvInit, InvStep, PTL DEF Spec, Outbox!Spec, RowOf
<1> QED BY <1>3 DEF ImplementsAtLeastOnce

-----------------------------------------------------------------------------
(* Skipping locked rows.                                                   *)

Batches == UNION {ToSet(batch[q]) : q \in Replica}

LEMMA BatchReplaced ==
  ASSUME TypeOK, NEW r \in Replica, NEW b, batch' = [batch EXCEPT ![r] = b]
  PROVE  ToSet(b) \subseteq Batches' /\ Batches \subseteq Batches' \cup ToSet(batch[r])
<1>1. batch'[r] = b /\ \A q \in Replica \ {r} : batch'[q] = batch[q]
  BY DEF TypeOK
<1>2. Batches' = UNION {ToSet(batch'[q]) : q \in Replica}
  BY DEF Batches
<1>3. \A x \in Batches : \E q \in Replica : x \in ToSet(batch[q])
  BY DEF Batches
<1>4. ASSUME NEW q \in Replica PROVE ToSet(batch'[q]) \subseteq Batches'
  BY <1>2
<1>5. ASSUME NEW x \in Batches PROVE x \in Batches' \cup ToSet(batch[r])
  <2>1. PICK q \in Replica : x \in ToSet(batch[q])
    BY <1>3
  <2> QED BY <1>1, <1>4, <2>1
<1> QED BY <1>1, <1>4, <1>5

LEMMA SkipStep == SkipInv /\ [Next]_vars => SkipInv'
<1> SUFFICES ASSUME SkipInv, [Next]_vars PROVE SkipInv'
  OBVIOUS
<1>t. TypeOK /\ TypeOK' /\ LocksAreSelects /\ LocksAreSelects'
  BY TypeStep, LocksStep DEF SkipInv
<1> USE DEF Goto, tableVars, replicaVars, Loop, Working
<1> DEFINE Idle(l) == l \in {"down", "listen", "scan", "wait"}
           Covers(r) == at[r] \in Loop \cup {"scanning"} /\ subscribed[r]
<1>i. /\ \A r \in Replica : Idle(at[r]) => batch[r] = <<>>
      /\ \A r \in Replica : Covers(r) => Pending \subseteq ToSet(queue[r]) \cup dropped \cup Batches
  BY DEF SkipInv, Batches
(* No pending event appears; what leaves the batches is dropped or not     *)
(* pending any more; and who is in charge was so before, with his queue.   *)
<1>a. ASSUME Pending' \subseteq Pending \cup dropped', dropped \subseteq dropped',
             Batches \cap Pending' \subseteq Batches' \cup dropped',
             \A r \in Replica : Idle(at'[r]) => batch'[r] = <<>>,
             \A r \in Replica : Covers(r)' =>
                /\ Covers(r)
                /\ ToSet(queue[r]) \subseteq ToSet(queue'[r]) \cup Batches' \cup dropped'
      PROVE  SkipInv'
  <2>1. ASSUME NEW r \in Replica, Covers(r)'
        PROVE  Pending' \subseteq ToSet(queue'[r]) \cup dropped' \cup Batches'
    BY <1>a, <1>i, <2>1
  <2> QED BY <1>a, <1>t, <2>1 DEF SkipInv, Batches
<1>b. \A r \in Replica : ToSet(batch[r]) \subseteq Batches
  BY DEF Batches
<1>1. ASSUME NEW r \in Replica, Boot(r) \/ Subscribe(r) \/ Reconnect(r) PROVE SkipInv'
  <2>1. /\ UNCHANGED <<status, batch, queue, dropped>> /\ Idle(at[r])
        /\ at' \in {[at EXCEPT ![r] = "listen"], [at EXCEPT ![r] = "scan"]}
        /\ \A q \in Replica : q # r => subscribed'[q] = subscribed[q]
    BY <1>1, <1>t DEF Boot, Subscribe, Reconnect, TypeOK
  <2>2. \A q \in Replica : Covers(q)' => Covers(q)
    BY <1>t, <2>1 DEF TypeOK
  <2>3. \A q \in Replica : Idle(at'[q]) => batch'[q] = <<>>
    BY <1>i, <1>t, <2>1 DEF TypeOK
  <2> QED BY <1>a, <2>1, <2>2, <2>3 DEF Pending, Batches
<1>2. ASSUME NEW r \in Replica, NEW b \in PollResults(PollLimit), ScanBegin(r, b)
      PROVE  SkipInv'
  <2>1. /\ UNCHANGED <<status, queue, subscribed>> /\ batch' = [batch EXCEPT ![r] = b]
        /\ at' = [at EXCEPT ![r] = "scanning"] /\ batch[r] = <<>>
        /\ dropped' = dropped \cup (Pending \ (ToSet(b) \cup (locked \ reading)))
    BY <1>2, <1>i DEF ScanBegin, GiveUp
  <2>2. /\ Batches \subseteq Batches' /\ ToSet(b) \subseteq Batches'
    BY <1>t, <2>1, ToSetEmpty, BatchReplaced
  <2>3. locked \ reading \subseteq Batches
    BY <1>t DEF LocksAreSelects, Scanning, Batches
  <2>4. Pending' = Pending /\ Pending \subseteq dropped' \cup Batches'
    BY <2>1, <2>2, <2>3 DEF Pending
  <2>5. \A q \in Replica : Idle(at'[q]) => batch'[q] = <<>>
    BY <1>i, <1>t, <2>1 DEF TypeOK
  <2> QED BY <1>t, <2>4, <2>5 DEF SkipInv, Batches
<1>3. ASSUME NEW r \in Replica, ScanEnd(r) PROVE SkipInv'
  <2>1. /\ UNCHANGED <<status, batch, queue, subscribed, dropped>> /\ at[r] = "scanning"
        /\ at' = [at EXCEPT ![r] = IF batch[r] = <<>> THEN "wait" ELSE "publish"]
    BY <1>3 DEF ScanEnd
  <2>2. \A q \in Replica : Covers(q)' => Covers(q)
    BY <1>t, <2>1 DEF TypeOK
  <2>3. \A q \in Replica : Idle(at'[q]) => batch'[q] = <<>>
    BY <1>i, <1>t, <2>1 DEF TypeOK
  <2> QED BY <1>a, <2>1, <2>2, <2>3 DEF Pending, Batches
<1>4. ASSUME NEW r \in Replica, ScanFails(r) PROVE SkipInv'
  <2>1. /\ UNCHANGED <<status, batch, queue, subscribed>> /\ at[r] = "scan"
        /\ at' = [at EXCEPT ![r] = "wait"] /\ dropped' = dropped \cup Pending
    BY <1>4 DEF ScanFails, GiveUp
  <2>2. \A q \in Replica : Idle(at'[q]) => batch'[q] = <<>>
    BY <1>i, <1>t, <2>1 DEF TypeOK
  <2> QED BY <1>t, <2>1, <2>2 DEF SkipInv, Pending
<1>5. ASSUME NEW r \in Replica, Notified(r) \/ LookupFails(r) PROVE SkipInv'
  <2>1. /\ UNCHANGED <<status, subscribed>> /\ queue[r] # <<>> /\ at[r] = "wait"
        /\ queue' = [queue EXCEPT ![r] = Tail(queue[r])] /\ batch[r] = <<>>
    BY <1>5, <1>i DEF Notified, LookupFails
  <2>2. ToSet(queue[r]) = {Head(queue[r])} \cup ToSet(Tail(queue[r]))
    BY <1>t, <2>1, ToSetHeadTail DEF TypeOK
  <2>3. CASE Notified(r)
    <3>1. /\ batch' = [batch EXCEPT ![r] = <<Head(queue[r])>>]
          /\ at' = [at EXCEPT ![r] = "publish"] /\ UNCHANGED dropped
      BY <2>3 DEF Notified
    <3>2. Batches \subseteq Batches' /\ Head(queue[r]) \in Batches'
      BY <1>t, <2>1, <3>1, ToSetEmpty, ToSetSingle, BatchReplaced
    <3>3. \A q \in Replica : Covers(q)' => Covers(q)
      BY <1>t, <2>1, <3>1 DEF TypeOK
    <3>4. \A q \in Replica : Idle(at'[q]) => batch'[q] = <<>>
      BY <1>i, <1>t, <3>1 DEF TypeOK
    <3>5. \A q \in Replica : ToSet(queue[q]) \subseteq ToSet(queue'[q]) \cup Batches'
      BY <1>t, <2>1, <2>2, <3>2 DEF TypeOK
    <3> QED BY <1>a, <2>1, <3>1, <3>2, <3>3, <3>4, <3>5 DEF Pending
  <2>4. CASE LookupFails(r)
    <3>1. UNCHANGED <<batch, at>> /\ dropped' = dropped \cup {Head(queue[r])}
      BY <2>4 DEF LookupFails, GiveUp
    <3>2. \A q \in Replica : ToSet(queue[q]) \subseteq ToSet(queue'[q]) \cup dropped'
      BY <1>t, <2>1, <2>2, <3>1 DEF TypeOK
    <3> QED BY <1>a, <1>i, <2>1, <3>1, <3>2 DEF Pending, Batches
  <2> QED BY <1>5, <2>3, <2>4
<1>6. ASSUME NEW r \in Replica, Published(r) \/ NotPublished(r) \/ PublishedUnacked(r)
      PROVE  SkipInv'
  <2>1. /\ UNCHANGED <<status, batch, queue, subscribed, dropped>> /\ at[r] = "publish"
        /\ at' \in {[at EXCEPT ![r] = "complete"], [at EXCEPT ![r] = "fail"]}
    BY <1>6 DEF Published, NotPublished, PublishedUnacked
  <2>2. \A q \in Replica : Covers(q)' => Covers(q)
    BY <1>t, <2>1 DEF TypeOK
  <2>3. \A q \in Replica : Idle(at'[q]) => batch'[q] = <<>>
    BY <1>i, <1>t, <2>1 DEF TypeOK
  <2> QED BY <1>a, <2>1, <2>2, <2>3 DEF Pending, Batches
<1>7. ASSUME NEW r \in Replica, MarkCompleted(r) \/ MarkEventFailed(r) \/ MarkFails(r)
      PROVE  SkipInv'
  <2>1. /\ UNCHANGED <<queue, subscribed>> /\ at[r] \in Working
        /\ batch' = [batch EXCEPT ![r] = Tail(batch[r])]
        /\ at' = [at EXCEPT ![r] = IF Tail(batch[r]) = <<>> THEN "wait" ELSE "publish"]
    BY <1>7 DEF MarkCompleted, MarkEventFailed, MarkFails, NextEvent
  <2>2. ToSet(batch[r]) = {Current(r)} \cup ToSet(Tail(batch[r])) /\ Current(r) \in Event
    BY <1>t, <2>1, ToSetHeadTail, BatchType DEF TypeOK, Current
  <2>3. /\ Pending' \subseteq Pending /\ dropped \subseteq dropped'
        /\ Current(r) \in Pending' => Current(r) \in dropped'
    BY <1>7, <1>t, <2>2
       DEF MarkCompleted, MarkEventFailed, MarkFails, SetStatus, GiveUp, Pending,
           TypeOK, TableTypeOK
  <2>4. Batches \subseteq Batches' \cup {Current(r)}
    BY <1>t, <2>1, <2>2, BatchReplaced
  <2>5. \A q \in Replica : Covers(q)' => Covers(q)
    BY <1>t, <2>1 DEF TypeOK
  <2>6. \A q \in Replica : Idle(at'[q]) => batch'[q] = <<>>
    BY <1>i, <1>t, <2>1 DEF TypeOK
  <2> QED BY <1>a, <2>1, <2>3, <2>4, <2>5, <2>6
<1>8. ASSUME NEW r \in Replica, Crash(r) PROVE SkipInv'
  <2>1. /\ UNCHANGED status /\ at' = [at EXCEPT ![r] = "down"]
        /\ batch' = [batch EXCEPT ![r] = <<>>] /\ queue' = [queue EXCEPT ![r] = <<>>]
        /\ subscribed' = [subscribed EXCEPT ![r] = FALSE]
        /\ dropped' = dropped \cup ToSet(batch[r])
    BY <1>8 DEF Crash, GiveUp
  <2>2. Batches \subseteq Batches' \cup dropped'
    <3>1. \A q \in Replica \ {r} : batch'[q] = batch[q]
      BY <1>t, <2>1 DEF TypeOK
    <3>2. \A q \in Replica : ToSet(batch[q]) \subseteq Batches' \cup dropped'
      BY <2>1, <3>1 DEF Batches
    <3> QED BY <3>2 DEF Batches
  <2>3. \A q \in Replica : Covers(q)' => Covers(q) /\ queue'[q] = queue[q]
    BY <1>t, <2>1 DEF TypeOK
  <2>4. \A q \in Replica : Idle(at'[q]) => batch'[q] = <<>>
    BY <1>i, <1>t, <2>1 DEF TypeOK
  <2> QED BY <1>a, <2>1, <2>2, <2>3, <2>4 DEF Pending
<1>9. ASSUME NEW r \in Replica, ConnectionDrops(r) PROVE SkipInv'
  <2>1. PICK n \in 0..Len(queue[r]) :
          queue' = [queue EXCEPT ![r] = SubSeq(queue[r], 1, n)]
    BY <1>9 DEF ConnectionDrops
  <2>2. /\ UNCHANGED <<status, at, batch, dropped>>
        /\ subscribed' = [subscribed EXCEPT ![r] = FALSE]
    BY <1>9 DEF ConnectionDrops
  <2>3. \A q \in Replica : Covers(q)' => Covers(q) /\ queue'[q] = queue[q]
    BY <1>t, <2>1, <2>2 DEF TypeOK
  <2> QED BY <1>a, <1>i, <2>2, <2>3 DEF Pending, Batches
<1>10. ASSUME NEW e \in Event, BeginCreateEvent(e) PROVE SkipInv'
  <2>1. /\ status' = [status EXCEPT ![e] = "inserting"]
        /\ UNCHANGED <<at, batch, queue, subscribed, dropped>>
    BY <1>10 DEF BeginCreateEvent, CreateEventBegin
  <2>2. Pending' \subseteq Pending
    BY <1>t, <2>1 DEF Pending, TypeOK, TableTypeOK
  <2> QED BY <1>a, <1>i, <2>1, <2>2 DEF Batches
<1>11. ASSUME NEW e \in Event, CommitCreateEvent(e) PROVE SkipInv'
  <2>1. /\ status' = [status EXCEPT ![e] = "pending"]
        /\ queue' = [r \in Replica |->
                       IF subscribed[r] THEN Append(queue[r], e) ELSE queue[r]]
        /\ UNCHANGED <<at, batch, subscribed, dropped>>
    BY <1>11 DEF CommitCreateEvent, CreateEventCommit
  <2>2. Pending' \subseteq Pending \cup {e}
    BY <1>t, <2>1 DEF Pending, TypeOK, TableTypeOK
  <2>3. \A r \in Replica : subscribed[r] => ToSet(queue'[r]) = ToSet(queue[r]) \cup {e}
    BY <1>t, <2>1, ToSetAppend DEF TypeOK
  <2>4. \A r \in Replica : Covers(r)' =>
          Pending' \subseteq ToSet(queue'[r]) \cup dropped' \cup Batches'
    <3>1. SUFFICES ASSUME NEW r \in Replica, Covers(r)'
                   PROVE  Pending' \subseteq ToSet(queue'[r]) \cup dropped' \cup Batches'
      OBVIOUS
    <3>2. Covers(r) /\ Batches' = Batches /\ dropped' = dropped
      BY <2>1, <3>1 DEF Batches
    <3>3. Pending \subseteq ToSet(queue[r]) \cup dropped \cup Batches
      BY <1>i, <3>2
    <3>4. ToSet(queue'[r]) = ToSet(queue[r]) \cup {e}
      BY <2>3, <3>2
    <3> QED BY <2>2, <3>2, <3>3, <3>4
  <2> QED BY <1>i, <1>t, <2>1, <2>4 DEF SkipInv, Batches
<1>12. ASSUME NEW e \in Event, NEW s \in ClientStatuses, UpdateEventStatus(e, s)
       PROVE  SkipInv'
  <2>1. /\ status' = [status EXCEPT ![e] = s]
        /\ dropped' = dropped \cup (IF s = "pending" THEN {e} ELSE {})
        /\ UNCHANGED <<at, batch, queue, subscribed>>
    BY <1>12 DEF UpdateEventStatus, UpdateEventStatusRPC, SetStatus, GiveUp
  <2>2. Pending' \subseteq Pending \cup dropped'
    BY <1>t, <2>1 DEF Pending, TypeOK, TableTypeOK
  <2> QED BY <1>a, <1>i, <2>1, <2>2 DEF Batches
<1>13. CASE ClientPolls \/ UNCHANGED vars
  <2>1. UNCHANGED <<status, at, batch, queue, subscribed, dropped>>
    BY <1>13, ClientPollsLock DEF vars
  <2> QED BY <2>1, <1>a, <1>i DEF Pending, Batches
<1> QED
  BY <1>1, <1>2, <1>3, <1>4, <1>5, <1>6, <1>7, <1>8, <1>9, <1>10, <1>11,
     <1>12, <1>13 DEF Next, RunStep, ClientPolls

(* As long as one replica is in its loop on a good connection, every       *)
(* pending event is in the hands of a replica or has been given up on: the *)
(* rows a scan skips are in the batch of the replica that locked them, or  *)
(* a client locked them, which counts as giving up.                        *)
THEOREM SkippedNotLost == Spec => []SkippedAreHeld
<1>1. Init => SkipInv
  BY TypeInit
     DEF Init, TableInit, SkipInv, LocksAreSelects, Scanning, Loop, Working
<1>2. SkipInv => SkippedAreHeld
  BY DEF SkipInv, SkippedAreHeld, Held
<1> QED BY <1>1, <1>2, SkipStep, PTL DEF Spec

-----------------------------------------------------------------------------
(* Bounded duplicates.                                                     *)

Due(e) ==
  Cardinality(ToScan) + Cardinality(Lost)
    + Cardinality(ToldOf(e)) + Cardinality(ToPublish(e))

(* The bound, for one event.                                               *)
Paid(e) == Copies(e) + Due(e) <= boots + drops + Cardinality(Replica)

LEMMA SubsetsOfReplica ==
  ASSUME NEW S \in SUBSET Replica, NEW T \in SUBSET Replica
  PROVE  /\ Cardinality(S) \in Nat
         /\ T \subseteq S => Cardinality(T) <= Cardinality(S)
         /\ \A r : T \subseteq S \cup {r} => Cardinality(T) <= Cardinality(S) + 1
         /\ \A r \in S : T \subseteq S \ {r} => Cardinality(T) + 1 <= Cardinality(S)
<1>1. IsFiniteSet(S) /\ IsFiniteSet(T)
  BY ReplicasAssumption, FS_Subset
<1>2. Cardinality(S) \in Nat /\ Cardinality(T) \in Nat
  BY <1>1, FS_CardinalityType
<1>3. T \subseteq S => Cardinality(T) <= Cardinality(S)
  BY <1>1, FS_Subset
<1>4. ASSUME NEW r, T \subseteq S \cup {r} PROVE Cardinality(T) <= Cardinality(S) + 1
  <2>a. /\ IsFiniteSet(S \cup {r})
        /\ Cardinality(S \cup {r}) = IF r \in S THEN Cardinality(S) ELSE Cardinality(S) + 1
    BY <1>1, FS_AddElement
  <2>1. /\ IsFiniteSet(S \cup {r})
        /\ Cardinality(S \cup {r}) <= Cardinality(S) + 1
    BY <1>2, <2>a
  <2>2. Cardinality(T) <= Cardinality(S \cup {r}) /\ Cardinality(S \cup {r}) \in Nat
    BY <1>4, <2>1, FS_Subset, FS_CardinalityType
  <2> QED BY <1>2, <2>1, <2>2
<1>5. ASSUME NEW r \in S, T \subseteq S \ {r} PROVE Cardinality(T) + 1 <= Cardinality(S)
  <2>1. IsFiniteSet(S \ {r}) /\ Cardinality(S \ {r}) = Cardinality(S) - 1
    BY <1>1, FS_RemoveElement
  <2>2. Cardinality(T) <= Cardinality(S \ {r})
    BY <1>5, <2>1, FS_Subset
  <2> QED BY <1>2, <2>1, <2>2
<1> QED BY <1>2, <1>3, <1>4, <1>5

(* What a step may cost and what pays for it, set by set.                  *)
LEMMA DueSets ==
  ASSUME NEW e
  PROVE  /\ ToScan \in SUBSET Replica /\ Lost \in SUBSET Replica
         /\ ToldOf(e) \in SUBSET Replica /\ ToPublish(e) \in SUBSET Replica
         /\ ToScan' \in SUBSET Replica /\ Lost' \in SUBSET Replica
         /\ ToldOf(e)' \in SUBSET Replica /\ ToPublish(e)' \in SUBSET Replica
BY DEF ToScan, Lost, ToldOf, ToPublish

LEMMA DueNat ==
  ASSUME NEW e
  PROVE  /\ Cardinality(ToScan) \in Nat /\ Cardinality(Lost) \in Nat
         /\ Cardinality(ToldOf(e)) \in Nat /\ Cardinality(ToPublish(e)) \in Nat
         /\ Cardinality(ToScan') \in Nat /\ Cardinality(Lost') \in Nat
         /\ Cardinality(ToldOf(e)') \in Nat /\ Cardinality(ToPublish(e)') \in Nat
         /\ Cardinality(Replica) \in Nat
BY DueSets, SubsetsOfReplica

(* A step that makes no record and adds nothing to what is due.            *)
LEMMA PaidKept ==
  ASSUME TypeOK, NEW e \in Event, Paid(e), UNCHANGED <<topics, boots, drops>>,
         ToScan' \subseteq ToScan, Lost' \subseteq Lost,
         ToldOf(e)' \subseteq ToldOf(e), ToPublish(e)' \subseteq ToPublish(e)
  PROVE  Paid(e)'
<1>1. Copies(e)' = Copies(e) /\ Copies(e) \in Nat
  BY CopiesUnchanged, CopiesNat DEF TypeOK
<1>2. /\ Cardinality(ToScan') <= Cardinality(ToScan)
      /\ Cardinality(Lost') <= Cardinality(Lost)
      /\ Cardinality(ToldOf(e)') <= Cardinality(ToldOf(e))
      /\ Cardinality(ToPublish(e)') <= Cardinality(ToPublish(e))
  BY DueSets, SubsetsOfReplica
<1>3. boots \in Nat /\ drops \in Nat
  BY DEF TypeOK
<1> QED BY <1>1, <1>2, <1>3, DueNat DEF Paid, Due

(* A start or a lost connection pays for one scan.                         *)
LEMMA PaidByCounter ==
  ASSUME TypeOK, NEW e \in Event, Paid(e), UNCHANGED topics, NEW r \in Replica,
         \/ boots' = boots + 1 /\ drops' = drops
         \/ boots' = boots /\ drops' = drops + 1,
         \/ ToScan' \subseteq ToScan \cup {r} /\ Lost' \subseteq Lost
         \/ ToScan' \subseteq ToScan /\ Lost' \subseteq Lost \cup {r},
         ToldOf(e)' \subseteq ToldOf(e), ToPublish(e)' \subseteq ToPublish(e)
  PROVE  Paid(e)'
<1>1. Copies(e)' = Copies(e) /\ Copies(e) \in Nat
  BY CopiesUnchanged, CopiesNat DEF TypeOK
<1>2. Cardinality(ToScan') + Cardinality(Lost') <= Cardinality(ToScan) + Cardinality(Lost) + 1
  <2>1. CASE ToScan' \subseteq ToScan \cup {r} /\ Lost' \subseteq Lost
    <3>1. /\ Cardinality(ToScan') <= Cardinality(ToScan) + 1
          /\ Cardinality(Lost') <= Cardinality(Lost)
      BY <2>1, DueSets, SubsetsOfReplica
    <3> QED BY <3>1, DueNat
  <2>2. CASE ToScan' \subseteq ToScan /\ Lost' \subseteq Lost \cup {r}
    <3>1. /\ Cardinality(ToScan') <= Cardinality(ToScan)
          /\ Cardinality(Lost') <= Cardinality(Lost) + 1
      BY <2>2, DueSets, SubsetsOfReplica
    <3> QED BY <3>1, DueNat
  <2> QED BY <2>1, <2>2
<1>3. /\ Cardinality(ToldOf(e)') <= Cardinality(ToldOf(e))
      /\ Cardinality(ToPublish(e)') <= Cardinality(ToPublish(e))
  BY DueSets, SubsetsOfReplica
<1>4. boots \in Nat /\ drops \in Nat
  BY DEF TypeOK
<1> QED
  <2>1. CASE boots' = boots + 1 /\ drops' = drops
    BY <1>1, <1>2, <1>3, <1>4, <2>1, DueNat DEF Paid, Due
  <2>2. CASE boots' = boots /\ drops' = drops + 1
    BY <1>1, <1>2, <1>3, <1>4, <2>2, DueNat DEF Paid, Due
  <2> QED BY <2>1, <2>2
(* A scan is spent on an event in the batch, a notification on one, and a  *)
(* reconnection on a scan.                                                 *)
LEMMA PaidMoved ==
  ASSUME TypeOK, NEW e \in Event, Paid(e), UNCHANGED <<topics, boots, drops>>,
         NEW r \in Replica,
         \/ /\ r \in ToScan /\ ToScan' \subseteq ToScan \ {r} /\ Lost' \subseteq Lost
            /\ ToldOf(e)' \subseteq ToldOf(e)
            /\ ToPublish(e)' \subseteq ToPublish(e) \cup {r}
         \/ /\ r \in ToldOf(e) /\ ToldOf(e)' \subseteq ToldOf(e) \ {r}
            /\ ToScan' \subseteq ToScan /\ Lost' \subseteq Lost
            /\ ToPublish(e)' \subseteq ToPublish(e) \cup {r}
         \/ /\ r \in Lost /\ Lost' \subseteq Lost \ {r}
            /\ ToScan' \subseteq ToScan \cup {r}
            /\ ToldOf(e)' \subseteq ToldOf(e) /\ ToPublish(e)' \subseteq ToPublish(e)
  PROVE  Paid(e)'
<1>1. Copies(e)' = Copies(e) /\ Copies(e) \in Nat /\ boots \in Nat /\ drops \in Nat
  BY CopiesUnchanged, CopiesNat DEF TypeOK
<1>2. CASE /\ r \in ToScan /\ ToScan' \subseteq ToScan \ {r} /\ Lost' \subseteq Lost
           /\ ToldOf(e)' \subseteq ToldOf(e)
           /\ ToPublish(e)' \subseteq ToPublish(e) \cup {r}
  <2>1. /\ Cardinality(ToScan') + 1 <= Cardinality(ToScan)
        /\ Cardinality(Lost') <= Cardinality(Lost)
        /\ Cardinality(ToldOf(e)') <= Cardinality(ToldOf(e))
        /\ Cardinality(ToPublish(e)') <= Cardinality(ToPublish(e)) + 1
    BY <1>2, DueSets, SubsetsOfReplica
  <2> QED BY <1>1, <2>1, DueNat DEF Paid, Due
<1>3. CASE /\ r \in ToldOf(e) /\ ToldOf(e)' \subseteq ToldOf(e) \ {r}
           /\ ToScan' \subseteq ToScan /\ Lost' \subseteq Lost
           /\ ToPublish(e)' \subseteq ToPublish(e) \cup {r}
  <2>1. /\ Cardinality(ToScan') <= Cardinality(ToScan)
        /\ Cardinality(Lost') <= Cardinality(Lost)
        /\ Cardinality(ToldOf(e)') + 1 <= Cardinality(ToldOf(e))
        /\ Cardinality(ToPublish(e)') <= Cardinality(ToPublish(e)) + 1
    BY <1>3, DueSets, SubsetsOfReplica
  <2> QED BY <1>1, <2>1, DueNat DEF Paid, Due
<1>4. CASE /\ r \in Lost /\ Lost' \subseteq Lost \ {r}
           /\ ToScan' \subseteq ToScan \cup {r}
           /\ ToldOf(e)' \subseteq ToldOf(e) /\ ToPublish(e)' \subseteq ToPublish(e)
  <2>1. /\ Cardinality(ToScan') <= Cardinality(ToScan) + 1
        /\ Cardinality(Lost') + 1 <= Cardinality(Lost)
        /\ Cardinality(ToldOf(e)') <= Cardinality(ToldOf(e))
        /\ Cardinality(ToPublish(e)') <= Cardinality(ToPublish(e))
    BY <1>4, DueSets, SubsetsOfReplica
  <2> QED BY <1>1, <2>1, DueNat DEF Paid, Due
<1> QED BY <1>2, <1>3, <1>4

(* A record is made of an event that leaves the batch.                     *)
LEMMA PaidProduced ==
  ASSUME TypeOK, NEW e \in Event, Paid(e), NEW r \in Replica,
         NEW f \in Event, Produce(f), UNCHANGED <<boots, drops>>,
         ToScan' \subseteq ToScan, Lost' \subseteq Lost, ToldOf(e)' \subseteq ToldOf(e),
         ToPublish(e)' \subseteq ToPublish(e),
         f = e => r \in ToPublish(e) /\ ToPublish(e)' \subseteq ToPublish(e) \ {r}
  PROVE  Paid(e)'
<1>1. /\ Copies(e)' = IF e = f THEN Copies(e) + 1 ELSE Copies(e)
      /\ Copies(e) \in Nat /\ boots \in Nat /\ drops \in Nat
  BY ProduceCopies, CopiesNat DEF TypeOK
<1>2. /\ Cardinality(ToScan') <= Cardinality(ToScan)
      /\ Cardinality(Lost') <= Cardinality(Lost)
      /\ Cardinality(ToldOf(e)') <= Cardinality(ToldOf(e))
      /\ Cardinality(ToPublish(e)') <= Cardinality(ToPublish(e))
      /\ f = e => Cardinality(ToPublish(e)') + 1 <= Cardinality(ToPublish(e))
  BY DueSets, SubsetsOfReplica
<1> QED BY <1>1, <1>2, DueNat DEF Paid, Due

LEMMA PaidStep ==
  ReplicaInv /\ (\A r \in Replica : IsInjective(queue[r]) /\ IsInjective(batch[r]))
    /\ (\A e \in Event : Paid(e)) /\ [Next]_vars
  => \A e \in Event : Paid(e)'
<1> SUFFICES ASSUME ReplicaInv, [Next]_vars, NEW e \in Event, Paid(e),
                    \A r \in Replica : IsInjective(queue[r]) /\ IsInjective(batch[r])
             PROVE  Paid(e)'
  OBVIOUS
<1>t. /\ TypeOK
      /\ at \in [Replica -> Loop \cup {"down", "listen", "scan", "scanning"}]
      /\ batch \in [Replica -> Seq(Event)] /\ queue \in [Replica -> Seq(Event)]
      /\ subscribed \in [Replica -> BOOLEAN]
      /\ status \in [Event -> EventStatus \cup {"absent", "inserting"}]
      /\ \A r \in Replica : at[r] \in Working => batch[r] # <<>>
  BY DEF ReplicaInv, TypeOK, TableTypeOK
<1>c. \A r \in Replica : ToSet(queue[r]) \cup ToSet(batch[r]) \subseteq Committed
  BY DEF ReplicaInv
<1> USE DEF Goto, tableVars, replicaVars, Working
(* What a step that changes no row, and of the control of at most one      *)
(* replica, does to the four sets.                                         *)
<1>s. UNCHANGED status => Committed' = Committed
  BY DEF Committed
<1>1. ASSUME NEW r \in Replica, Boot(r) PROVE Paid(e)'
  <2>1. /\ at[r] = "down" /\ at' = [at EXCEPT ![r] = "listen"]
        /\ UNCHANGED <<status, topics, batch, queue, subscribed, drops>>
        /\ boots' = boots + 1
    BY <1>1 DEF Boot
  <2>2. /\ ToScan' \subseteq ToScan \cup {r} /\ Lost' \subseteq Lost
        /\ ToldOf(e)' \subseteq ToldOf(e) /\ ToPublish(e)' \subseteq ToPublish(e)
    BY <1>t, <1>s, <2>1 DEF ToScan, Lost, ToldOf, ToPublish
  <2> QED BY <1>t, <2>1, <2>2, PaidByCounter
<1>2. ASSUME NEW r \in Replica, ConnectionDrops(r) PROVE Paid(e)'
  <2>1. /\ subscribed' = [subscribed EXCEPT ![r] = FALSE] /\ drops' = drops + 1
        /\ UNCHANGED <<status, topics, at, batch, boots>>
    BY <1>2 DEF ConnectionDrops
  <2>2. PICK n \in 0..Len(queue[r]) :
          queue' = [queue EXCEPT ![r] = SubSeq(queue[r], 1, n)]
    BY <1>2 DEF ConnectionDrops
  <2>3. \A q \in Replica : ToSet(queue'[q]) \subseteq ToSet(queue[q])
    BY <1>t, <2>2, PrefixIsSeq
  <2>4. /\ ToScan' \subseteq ToScan /\ Lost' \subseteq Lost \cup {r}
        /\ ToldOf(e)' \subseteq ToldOf(e) /\ ToPublish(e)' \subseteq ToPublish(e)
    BY <1>t, <1>s, <2>1, <2>3 DEF ToScan, Lost, ToldOf, ToPublish
  <2> QED BY <1>t, <2>1, <2>4, PaidByCounter
<1>3. ASSUME NEW r \in Replica, Reconnect(r) PROVE Paid(e)'
  <2>1. /\ at[r] = "wait" /\ ~subscribed[r] /\ at' = [at EXCEPT ![r] = "scan"]
        /\ subscribed' = [subscribed EXCEPT ![r] = TRUE]
        /\ UNCHANGED <<status, topics, batch, queue, boots, drops>>
    BY <1>3 DEF Reconnect
  <2>2. /\ r \in Lost /\ Lost' \subseteq Lost \ {r} /\ ToScan' \subseteq ToScan \cup {r}
        /\ ToldOf(e)' \subseteq ToldOf(e) /\ ToPublish(e)' \subseteq ToPublish(e)
    BY <1>t, <1>s, <2>1 DEF ToScan, Lost, ToldOf, ToPublish
  <2> QED BY <1>t, <2>1, <2>2, PaidMoved
<1>4. ASSUME NEW r \in Replica, NEW b \in PollResults(PollLimit), ScanBegin(r, b)
      PROVE  Paid(e)'
  <2>1. /\ at[r] = "scan" /\ at' = [at EXCEPT ![r] = "scanning"]
        /\ batch' = [batch EXCEPT ![r] = b]
        /\ UNCHANGED <<status, topics, queue, subscribed, boots, drops>>
    BY <1>4 DEF ScanBegin
  <2>2. /\ r \in ToScan /\ ToScan' \subseteq ToScan \ {r} /\ Lost' \subseteq Lost
        /\ ToldOf(e)' \subseteq ToldOf(e)
        /\ ToPublish(e)' \subseteq ToPublish(e) \cup {r}
    BY <1>t, <1>s, <2>1 DEF ToScan, Lost, ToldOf, ToPublish
  <2> QED BY <1>t, <2>1, <2>2, PaidMoved
<1>5. ASSUME NEW r \in Replica, Notified(r) PROVE Paid(e)'
  <2>1. /\ at[r] = "wait" /\ queue[r] # <<>> /\ at' = [at EXCEPT ![r] = "publish"]
        /\ batch' = [batch EXCEPT ![r] = <<Head(queue[r])>>]
        /\ queue' = [queue EXCEPT ![r] = Tail(queue[r])]
        /\ UNCHANGED <<status, topics, subscribed, boots, drops>>
    BY <1>5 DEF Notified
  <2>2. /\ ToSet(queue[r]) = {Head(queue[r])} \cup ToSet(Tail(queue[r]))
        /\ Head(queue[r]) \notin ToSet(Tail(queue[r]))
        /\ ToSet(<<Head(queue[r])>>) = {Head(queue[r])}
    BY <1>t, <2>1, ToSetHeadTail, TailKeepsInjective, ToSetSingle
  <2>3. ToScan' \subseteq ToScan /\ Lost' \subseteq Lost
    BY <1>t, <2>1 DEF ToScan, Lost
  <2>4. /\ batch'[r] = <<Head(queue[r])>> /\ queue'[r] = Tail(queue[r])
        /\ at'[r] = "publish"
        /\ \A q \in Replica \ {r} :
             batch'[q] = batch[q] /\ queue'[q] = queue[q] /\ at'[q] = at[q]
    BY <1>t, <2>1
  <2>5. CASE e = Head(queue[r])
    <3>1. e \in Committed /\ e \in Committed'
      BY <1>c, <1>s, <2>1, <2>2, <2>5
    <3>2. r \in ToldOf(e) /\ ToldOf(e)' \subseteq ToldOf(e) \ {r}
      BY <2>2, <2>4, <2>5, <3>1 DEF ToldOf
    <3>3. ToPublish(e)' \subseteq ToPublish(e) \cup {r}
      BY <2>4 DEF ToPublish
    <3> QED BY <1>t, <2>1, <2>3, <3>2, <3>3, PaidMoved
  <2>6. CASE e # Head(queue[r])
    <3>1. ToldOf(e)' \subseteq ToldOf(e)
      BY <1>s, <2>1, <2>2, <2>4 DEF ToldOf
    <3>2. ToPublish(e)' \subseteq ToPublish(e)
      BY <2>2, <2>4, <2>6 DEF ToPublish
    <3> QED BY <1>t, <2>1, <2>3, <3>1, <3>2, PaidKept
  <2> QED BY <2>5, <2>6
<1>6. ASSUME NEW r \in Replica, Published(r) \/ PublishedUnacked(r) PROVE Paid(e)'
  <2>1. /\ at[r] = "publish" /\ Produce(Current(r))
        /\ \E l \in {"complete", "fail"} : at' = [at EXCEPT ![r] = l]
        /\ UNCHANGED <<status, batch, queue, subscribed, boots, drops>>
    BY <1>6 DEF Published, PublishedUnacked
  <2>2. /\ Current(r) \in Event
        /\ ToSet(batch[r]) = {Current(r)} \cup ToSet(Tail(batch[r]))
        /\ Current(r) \notin ToSet(Tail(batch[r]))
    BY <1>t, <2>1, BatchType, ToSetHeadTail, TailKeepsInjective DEF Current
  <2>3. /\ ToScan' \subseteq ToScan /\ Lost' \subseteq Lost
        /\ ToldOf(e)' \subseteq ToldOf(e)
    BY <1>t, <1>s, <2>1 DEF ToScan, Lost, ToldOf
  <2>4. /\ at'[r] \in {"complete", "fail"} /\ batch' = batch
        /\ \A q \in Replica \ {r} : at'[q] = at[q]
    BY <1>t, <2>1
  <2>5. ToPublish(e)' \subseteq ToPublish(e)
    BY <2>1, <2>2, <2>4 DEF ToPublish
  <2>6. Current(r) = e => r \in ToPublish(e) /\ ToPublish(e)' \subseteq ToPublish(e) \ {r}
    BY <2>1, <2>2, <2>4 DEF ToPublish
  <2> QED BY <1>t, <2>1, <2>2, <2>3, <2>5, <2>6, PaidProduced
<1>7. ASSUME NEW r \in Replica, MarkCompleted(r) \/ MarkEventFailed(r) \/ MarkFails(r)
      PROVE  Paid(e)'
  <2>1. /\ at[r] \in {"complete", "fail"} /\ batch' = [batch EXCEPT ![r] = Tail(batch[r])]
        /\ at' = [at EXCEPT ![r] = IF Tail(batch[r]) = <<>> THEN "wait" ELSE "publish"]
        /\ UNCHANGED <<topics, queue, subscribed, boots, drops>>
    BY <1>7 DEF MarkCompleted, MarkEventFailed, MarkFails, NextEvent
  <2>2. Committed \subseteq Committed'
    BY <1>7, <1>t DEF MarkCompleted, MarkEventFailed, MarkFails, SetStatus, Committed,
         EventStatus
  <2>3. /\ ToScan' \subseteq ToScan /\ Lost' \subseteq Lost
        /\ ToldOf(e)' \subseteq ToldOf(e) /\ ToPublish(e)' \subseteq ToPublish(e)
    BY <1>t, <2>1, <2>2 DEF ToScan, Lost, ToldOf, ToPublish
  <2> QED BY <1>t, <2>1, <2>3, PaidKept
<1>8. ASSUME NEW r \in Replica, LookupFails(r) PROVE Paid(e)'
  <2>1. /\ queue[r] # <<>> /\ queue' = [queue EXCEPT ![r] = Tail(queue[r])]
        /\ UNCHANGED <<status, topics, at, batch, subscribed, boots, drops>>
    BY <1>8 DEF LookupFails
  <2>2. \A q \in Replica : ToSet(queue'[q]) \subseteq ToSet(queue[q])
    BY <1>t, <2>1, ToSetHeadTail
  <2>3. /\ ToScan' \subseteq ToScan /\ Lost' \subseteq Lost
        /\ ToldOf(e)' \subseteq ToldOf(e) /\ ToPublish(e)' \subseteq ToPublish(e)
    BY <1>t, <1>s, <2>1, <2>2 DEF ToScan, Lost, ToldOf, ToPublish
  <2> QED BY <1>t, <2>1, <2>3, PaidKept
<1>9. ASSUME NEW r \in Replica, Crash(r) PROVE Paid(e)'
  <2>1. /\ at' = [at EXCEPT ![r] = "down"] /\ batch' = [batch EXCEPT ![r] = <<>>]
        /\ queue' = [queue EXCEPT ![r] = <<>>]
        /\ subscribed' = [subscribed EXCEPT ![r] = FALSE]
        /\ UNCHANGED <<status, topics, boots, drops>>
    BY <1>9 DEF Crash
  <2>2. /\ ToScan' \subseteq ToScan /\ Lost' \subseteq Lost
        /\ ToldOf(e)' \subseteq ToldOf(e) /\ ToPublish(e)' \subseteq ToPublish(e)
    BY <1>t, <1>s, <2>1, ToSetEmpty DEF ToScan, Lost, ToldOf, ToPublish
  <2> QED BY <1>t, <2>1, <2>2, PaidKept
<1>10. ASSUME NEW r \in Replica,
              \/ Subscribe(r) \/ ScanEnd(r) \/ ScanFails(r) \/ NotPublished(r)
       PROVE  Paid(e)'
  <2>1. UNCHANGED <<status, topics, batch, queue, boots, drops>>
    BY <1>10 DEF Subscribe, ScanEnd, ScanFails, NotPublished
  <2>2. ToScan' \subseteq ToScan /\ Lost' \subseteq Lost
    BY <1>10, <1>t DEF Subscribe, ScanEnd, ScanFails, NotPublished, ToScan, Lost
  <2>3. /\ at[r] \notin {"complete", "fail"}
        /\ at'[r] \in {"complete", "fail"} => at[r] = "publish"
        /\ \A q \in Replica \ {r} : at'[q] = at[q]
    BY <1>10, <1>t DEF Subscribe, ScanEnd, ScanFails, NotPublished
  <2>4. at[r] = "publish" => ToSet(Tail(batch[r])) \subseteq ToSet(batch[r])
    BY <1>t, ToSetHeadTail
  <2>5. ToldOf(e)' \subseteq ToldOf(e) /\ ToPublish(e)' \subseteq ToPublish(e)
    BY <1>s, <2>1, <2>3, <2>4 DEF ToldOf, ToPublish
  <2> QED BY <1>t, <2>1, <2>2, <2>5, PaidKept
<1>11. ASSUME NEW f \in Event, BeginCreateEvent(f) PROVE Paid(e)'
  <2>1. /\ status[f] = "absent" /\ status' = [status EXCEPT ![f] = "inserting"]
        /\ UNCHANGED <<topics, at, batch, queue, subscribed, boots, drops>>
    BY <1>11 DEF BeginCreateEvent, CreateEventBegin
  <2>2. Committed \subseteq Committed'
    BY <1>t, <2>1 DEF Committed, EventStatus
  <2>3. /\ ToScan' \subseteq ToScan /\ Lost' \subseteq Lost
        /\ ToldOf(e)' \subseteq ToldOf(e) /\ ToPublish(e)' \subseteq ToPublish(e)
    BY <2>1, <2>2 DEF ToScan, Lost, ToldOf, ToPublish
  <2> QED BY <1>t, <2>1, <2>3, PaidKept
<1>12. ASSUME NEW f \in Event, CommitCreateEvent(f) PROVE Paid(e)'
  <2>1. /\ status[f] = "inserting" /\ status' = [status EXCEPT ![f] = "pending"]
        /\ queue' = [r \in Replica |->
                       IF subscribed[r] THEN Append(queue[r], f) ELSE queue[r]]
        /\ UNCHANGED <<topics, at, batch, subscribed, boots, drops>>
    BY <1>12 DEF CommitCreateEvent, CreateEventCommit
  <2>2. Committed \subseteq Committed' /\ f \notin Committed
    BY <1>t, <2>1 DEF Committed, EventStatus
  <2>3. \A q \in Replica : ToSet(queue'[q]) \subseteq ToSet(queue[q]) \cup {f}
    BY <1>t, <2>1, ToSetAppend
  <2>4. /\ ToScan' \subseteq ToScan /\ Lost' \subseteq Lost
        /\ ToPublish(e)' \subseteq ToPublish(e)
    BY <2>1 DEF ToScan, Lost, ToPublish
  <2>5. ToldOf(e)' \subseteq ToldOf(e)
    BY <2>2, <2>3 DEF ToldOf
  <2> QED BY <1>t, <2>1, <2>4, <2>5, PaidKept
<1>13. ASSUME NEW f \in Event, NEW s \in ClientStatuses, UpdateEventStatus(f, s)
       PROVE  Paid(e)'
  <2>1. /\ status' = [status EXCEPT ![f] = s] /\ s \in EventStatus
        /\ UNCHANGED <<topics, at, batch, queue, subscribed, boots, drops>>
    BY <1>13, TableAssumption
       DEF UpdateEventStatus, UpdateEventStatusRPC, SetStatus
  <2>2. Committed \subseteq Committed'
    BY <1>t, <2>1 DEF Committed
  <2>3. /\ ToScan' \subseteq ToScan /\ Lost' \subseteq Lost
        /\ ToldOf(e)' \subseteq ToldOf(e) /\ ToPublish(e)' \subseteq ToPublish(e)
    BY <2>1, <2>2 DEF ToScan, Lost, ToldOf, ToPublish
  <2> QED BY <1>t, <2>1, <2>3, PaidKept
<1>14. CASE ClientPolls \/ UNCHANGED vars
  <2>1. UNCHANGED <<status, topics, at, batch, queue, subscribed, boots, drops>>
    BY <1>14, ClientPollsLock DEF vars
  <2>2. /\ ToScan' \subseteq ToScan /\ Lost' \subseteq Lost
        /\ ToldOf(e)' \subseteq ToldOf(e) /\ ToPublish(e)' \subseteq ToPublish(e)
    BY <1>s, <2>1 DEF ToScan, Lost, ToldOf, ToPublish
  <2> QED BY <1>t, <2>1, <2>2, PaidKept
<1> QED
  BY <1>1, <1>2, <1>3, <1>4, <1>5, <1>6, <1>7, <1>8, <1>9, <1>10, <1>11,
     <1>12, <1>13, <1>14 DEF Next, RunStep, ClientPolls

(* No replica is told of an event twice, or has it twice in its batch.     *)
LEMMA InjectiveStep ==
  ReplicaInv /\ (\A r \in Replica : IsInjective(queue[r]) /\ IsInjective(batch[r]))
    /\ [Next]_vars
  => (\A r \in Replica : IsInjective(queue'[r]) /\ IsInjective(batch'[r]))
<1> SUFFICES ASSUME ReplicaInv, [Next]_vars,
                    \A r \in Replica : IsInjective(queue[r]) /\ IsInjective(batch[r])
             PROVE  \A r \in Replica : IsInjective(queue'[r]) /\ IsInjective(batch'[r])
  OBVIOUS
<1>t. /\ TypeOK
      /\ batch \in [Replica -> Seq(Event)] /\ queue \in [Replica -> Seq(Event)]
      /\ status \in [Event -> EventStatus \cup {"absent", "inserting"}]
      /\ \A r \in Replica : at[r] \in Working => batch[r] # <<>>
  BY DEF ReplicaInv, TypeOK, TableTypeOK
<1> USE DEF tableVars, replicaVars, Working
<1>a. ASSUME NEW r \in Replica,
             \/ UNCHANGED queue
             \/ \E s : IsInjective(s) /\ queue' = [queue EXCEPT ![r] = s],
             \/ UNCHANGED batch
             \/ \E s : IsInjective(s) /\ batch' = [batch EXCEPT ![r] = s]
      PROVE  \A q \in Replica : IsInjective(queue'[q]) /\ IsInjective(batch'[q])
  BY <1>a, <1>t
<1>1. ASSUME NEW r \in Replica,
             \/ Boot(r) \/ Subscribe(r) \/ ScanEnd(r) \/ ScanFails(r)
             \/ Published(r) \/ NotPublished(r) \/ PublishedUnacked(r) \/ Reconnect(r)
      PROVE  UNCHANGED <<batch, queue>>
  BY <1>1 DEF Boot, Subscribe, ScanEnd, ScanFails, Published, NotPublished,
       PublishedUnacked, Reconnect
<1>2. ASSUME NEW r \in Replica, NEW b \in PollResults(PollLimit), ScanBegin(r, b)
      PROVE  \A q \in Replica : IsInjective(queue'[q]) /\ IsInjective(batch'[q])
  <2>1. IsInjective(b)
    BY ReplicasAssumption, PollResultsAreInjective
  <2> QED BY <1>2, <1>a, <2>1 DEF ScanBegin
<1>3. ASSUME NEW r \in Replica, Notified(r) \/ LookupFails(r)
      PROVE  \A q \in Replica : IsInjective(queue'[q]) /\ IsInjective(batch'[q])
  <2>1. /\ queue[r] # <<>> /\ queue' = [queue EXCEPT ![r] = Tail(queue[r])]
        /\ batch' = batch \/ batch' = [batch EXCEPT ![r] = <<Head(queue[r])>>]
    BY <1>3 DEF Notified, LookupFails
  <2>2. IsInjective(Tail(queue[r])) /\ IsInjective(<<Head(queue[r])>>)
    BY <1>t, <2>1, TailKeepsInjective, SingleIsInjective
  <2> QED BY <1>a, <2>1, <2>2
<1>4. ASSUME NEW r \in Replica, MarkCompleted(r) \/ MarkEventFailed(r) \/ MarkFails(r)
      PROVE  \A q \in Replica : IsInjective(queue'[q]) /\ IsInjective(batch'[q])
  <2>1. /\ at[r] \in {"complete", "fail"} /\ UNCHANGED queue
        /\ batch' = [batch EXCEPT ![r] = Tail(batch[r])]
    BY <1>4 DEF MarkCompleted, MarkEventFailed, MarkFails, NextEvent
  <2>2. IsInjective(Tail(batch[r]))
    BY <1>t, <2>1, TailKeepsInjective
  <2> QED BY <1>a, <2>1, <2>2
<1>5. ASSUME NEW r \in Replica, Crash(r)
      PROVE  \A q \in Replica : IsInjective(queue'[q]) /\ IsInjective(batch'[q])
  BY <1>5, <1>a, EmptyIsInjective DEF Crash
<1>6. ASSUME NEW r \in Replica, ConnectionDrops(r)
      PROVE  \A q \in Replica : IsInjective(queue'[q]) /\ IsInjective(batch'[q])
  <2>1. PICK n \in 0..Len(queue[r]) :
          queue' = [queue EXCEPT ![r] = SubSeq(queue[r], 1, n)]
    BY <1>6 DEF ConnectionDrops
  <2>2. IsInjective(SubSeq(queue[r], 1, n)) /\ UNCHANGED batch
    BY <1>6, <1>t, PrefixKeepsInjective DEF ConnectionDrops
  <2> QED BY <1>a, <2>1, <2>2
<1>7. ASSUME NEW e \in Event, CommitCreateEvent(e)
      PROVE  \A q \in Replica : IsInjective(queue'[q]) /\ IsInjective(batch'[q])
  <2>1. /\ status[e] = "inserting" /\ UNCHANGED batch
        /\ queue' = [r \in Replica |->
                       IF subscribed[r] THEN Append(queue[r], e) ELSE queue[r]]
    BY <1>7 DEF CommitCreateEvent, CreateEventCommit
  <2>2. \A q \in Replica : e \notin ToSet(queue[q])
    BY <2>1 DEF ReplicaInv, Committed, EventStatus
  <2>3. \A q \in Replica : IsInjective(Append(queue[q], e))
    BY <1>t, <2>2, AppendKeepsInjective
  <2> QED BY <2>1, <2>3
<1>8. ASSUME NEW e \in Event,
             BeginCreateEvent(e) \/ \E s \in ClientStatuses : UpdateEventStatus(e, s)
      PROVE  UNCHANGED <<batch, queue>>
  BY <1>8 DEF BeginCreateEvent, UpdateEventStatus
<1>9. CASE ClientPolls \/ UNCHANGED vars
  BY <1>9, ClientPollsLock DEF vars
<1> QED
  BY <1>1, <1>2, <1>3, <1>4, <1>5, <1>6, <1>7, <1>8, <1>9 DEF Next, RunStep, ClientPolls

LEMMA DuplicatesInvIsPaid ==
  DuplicatesInv <=>
    /\ ReplicaInv
    /\ \A r \in Replica : IsInjective(queue[r]) /\ IsInjective(batch[r])
    /\ \A e \in Event : Paid(e)
<1> SUFFICES ASSUME TypeOK, NEW e \in Event
             PROVE  Paid(e) <=>
                      Copies(e) + Cardinality(ToScan) + Cardinality(Lost)
                        + Cardinality(ToldOf(e)) + Cardinality(ToPublish(e))
                      <= boots + drops + Cardinality(Replica)
  BY DEF DuplicatesInv, ReplicaInv
<1>1. Copies(e) \in Nat /\ boots \in Nat /\ drops \in Nat
  BY CopiesNat DEF TypeOK
<1> QED BY <1>1, DueNat DEF Paid, Due
(* However many replicas race for an event, it has at most one record per  *)
(* scan - and each start and each lost connection makes one scan - and one *)
(* per replica for its notification.                                       *)
THEOREM DuplicatesAreBounded == Spec => []DuplicatesBounded
<1>1. Init => DuplicatesInv
  <2> SUFFICES ASSUME Init PROVE DuplicatesInv
    OBVIOUS
  <2>1. TypeOK /\ ReplicaInv
    BY TypeInit, InvInit
  <2>2. \A r \in Replica : /\ queue[r] = <<>> /\ batch[r] = <<>>
                           /\ at[r] = "down" /\ ~subscribed[r]
    BY DEF Init
  <2>3. \A e \in Event : ~Delivered(e)
    BY EventsAssumption, ToSetEmpty DEF Init, TopicsInit, Delivered, TopicForEventType
  <2>4. ASSUME NEW e \in Event PROVE Paid(e)
    <3>1. ToScan = {} /\ Lost = {} /\ ToPublish(e) = {}
      BY <2>2, ToSetEmpty DEF ToScan, Lost, ToPublish
    <3>2. /\ Cardinality(ToScan) = 0 /\ Cardinality(Lost) = 0
          /\ Cardinality(ToPublish(e)) = 0
      BY <3>1, FS_EmptySet
    <3>3. Cardinality(ToldOf(e)) <= Cardinality(Replica)
      BY ReplicasAssumption, DueSets, FS_Subset
    <3>4. Copies(e) = 0 /\ boots = 0 /\ drops = 0
      BY <2>1, <2>3, CopiesNat DEF Init, TypeOK
    <3> QED BY <3>2, <3>3, <3>4, DueNat DEF Paid, Due
  <2> QED BY <2>1, <2>2, <2>4, EmptyIsInjective, DuplicatesInvIsPaid
<1>2. DuplicatesInv /\ [Next]_vars => DuplicatesInv'
  <2> SUFFICES ASSUME DuplicatesInv, [Next]_vars PROVE DuplicatesInv'
    OBVIOUS
  <2>1. /\ ReplicaInv' /\ \A e \in Event : Paid(e)'
        /\ \A r \in Replica : IsInjective(queue'[r]) /\ IsInjective(batch'[r])
    BY InvStep, PaidStep, InjectiveStep, DuplicatesInvIsPaid
  <2>2. TypeOK' /\ TypeOK
    BY <2>1 DEF ReplicaInv, DuplicatesInv
  <2>3. ASSUME NEW e \in Event
        PROVE  Copies(e)' + Cardinality(ToScan') + Cardinality(Lost')
                 + Cardinality(ToldOf(e)') + Cardinality(ToPublish(e)')
               <= boots' + drops' + Cardinality(Replica)
    <3>1. boots' \in Nat /\ drops' \in Nat
      BY <2>2 DEF TypeOK
    <3>2. Copies(e)' \in Nat
      BY <2>2, CopiesNatNext DEF TypeOK
    <3>3. Paid(e)'
      BY <2>1
    <3> QED BY <3>1, <3>2, <3>3, DueNat DEF Paid, Due
  <2> QED BY <2>1, <2>3 DEF DuplicatesInv
<1>3. DuplicatesInv => DuplicatesBounded
  <2> SUFFICES ASSUME DuplicatesInv, NEW e \in Event
               PROVE  Copies(e) <= boots + drops + Cardinality(Replica)
    BY DEF DuplicatesBounded
  <2>1. Paid(e) /\ Copies(e) \in Nat /\ boots \in Nat /\ drops \in Nat
    BY DuplicatesInvIsPaid, CopiesNat DEF DuplicatesInv, ReplicaInv, TypeOK
  <2> QED BY <2>1, DueNat DEF Paid, Due
<1> QED BY <1>1, <1>2, <1>3, PTL DEF Spec

=============================================================================
