---------------------------- MODULE OutboxProofs ----------------------------
(***************************************************************************)
(* Theorems about the outbox poller, for every value of the constants.     *)
(***************************************************************************)
EXTENDS OutboxOrder, EventTableProofs, FiniteSetTheorems

-----------------------------------------------------------------------------
(* Type correctness.  TypeOK is inductive: the actions that leave the      *)
(* working labels are exactly those that empty the batch.                  *)

LEMMA TypeInit == Init => TypeOK
<1> SUFFICES ASSUME Init PROVE TypeOK
  OBVIOUS
<1>1. <<>> \in Seq(Event)
  BY EmptySeq
<1>2. TableTypeOK
  BY DEF Init, TableInit, TableTypeOK
<1>3. ListenerTypeOK /\ TopicsTypeOK
  BY <1>1 DEF Init, TopicsInit, ListenerTypeOK, TopicsTypeOK
<1>4. batch \in Seq(Event) /\ batch = <<>>
  BY <1>1 DEF Init
<1>5. pc = "down" /\ pc \notin Working /\ pc \in Ended
  BY DEF Init, Working, Ended, Down
<1> QED BY <1>2, <1>3, <1>4, <1>5 DEF Init, TypeOK

LEMMA BatchType ==
  ASSUME TypeOK, pc \in Working
  PROVE  /\ Current \in Event
         /\ Tail(batch) \in Seq(Event)
BY HeadTailProperties DEF TypeOK, Current

LEMMA TypeStep == TypeOK /\ [Next]_vars => TypeOK'
<1> SUFFICES ASSUME TypeOK, [Next]_vars PROVE TypeOK'
  OBVIOUS
<1> USE DEF TypeOK, TableTypeOK, ListenerTypeOK, tableVars, listenerVars,
            runVars, Ended, Down, Loop, Working, Reconnecting, Goto,
            EventStatus
<1>1. CASE StartListening
  BY <1>1 DEF StartListening, Listen, TopicsTypeOK
<1>2. CASE StartFails
  BY <1>2 DEF StartFails, ListenFails, TopicsTypeOK
<1>3. ASSUME NEW b \in PollResults(PollLimit), ScanBacklog(b) PROVE TypeOK'
  <2>1. b \in Seq(Event) BY ListenerAssumption, PollResultsAreRows
  <2>2. stranded' \in SUBSET Event BY <1>3 DEF ScanBacklog, Pending
  <2> QED BY <1>3, <2>1, <2>2 DEF ScanBacklog, ProcessAll, TopicsTypeOK
<1>4. CASE ScanFails
  BY <1>4 DEF ScanFails, Strand, Pending, TopicsTypeOK
<1>5. CASE SelectContinue
  BY <1>5 DEF SelectContinue, TopicsTypeOK
<1>6. CASE SelectStop
  BY <1>6, EmptySeq DEF SelectStop, Close, TopicsTypeOK
<1>7. ASSUME NEW e \in Event, WaitNotified(e) PROVE TypeOK'
  <2>1. Tail(queue) \in Seq(Event)
    BY <1>7, HeadTailProperties DEF WaitNotified, Take
  <2>2. <<e>> \in Seq(Event) /\ <<e>> # <<>>
    BY ToSetSingle
  <2> QED BY <1>7, <2>1, <2>2 DEF WaitNotified, Take, ProcessAll, TopicsTypeOK
<1>8. CASE WaitError
  BY <1>8 DEF WaitError, WaitFails, TopicsTypeOK
<1>9. CASE WaitCancelled
  BY <1>9 DEF WaitCancelled, TopicsTypeOK
<1>10. CASE WaitPanics
  BY <1>10, EmptySeq DEF WaitPanics, TopicsTypeOK
<1>11. CASE GetEvent
  BY <1>11 DEF GetEvent, TopicsTypeOK
<1>12. CASE GetFails
  BY <1>12, BatchType DEF GetFails, ProcessAll, Strand, TopicsTypeOK
<1>13. CASE PublishSent
  BY <1>13, BatchType, ProduceType DEF PublishSent, TypeOK
<1>14. CASE PublishNotSent
  BY <1>14 DEF PublishNotSent, TopicsTypeOK
<1>15. CASE PublishAcked
  BY <1>15 DEF PublishAcked, TopicsTypeOK
<1>16. CASE PublishUnacked
  BY <1>16 DEF PublishUnacked, TopicsTypeOK
<1>17. CASE MarkCompleted
  BY <1>17, BatchType DEF MarkCompleted, SetStatus, ProcessAll, TopicsTypeOK
<1>18. CASE MarkEventFailed
  BY <1>18, BatchType DEF MarkEventFailed, SetStatus, ProcessAll, TopicsTypeOK
<1>19. CASE MarkFails
  BY <1>19, BatchType DEF MarkFails, ProcessAll, Strand, TopicsTypeOK
<1>20. CASE ReconnectClose
  BY <1>20, EmptySeq DEF ReconnectClose, Close, TopicsTypeOK
<1>21. CASE ReconnectConnect
  BY <1>21, EmptySeq DEF ReconnectConnect, Connect, TopicsTypeOK
<1>22. CASE ReconnectConnectFails
  BY <1>22, EmptySeq DEF ReconnectConnectFails, ConnectFails, TopicsTypeOK
<1>23. CASE ReconnectListen
  BY <1>23 DEF ReconnectListen, Listen, TopicsTypeOK
<1>24. CASE ReconnectListenFails
  BY <1>24 DEF ReconnectListenFails, ListenFails, TopicsTypeOK
<1>25. CASE BackoffElapsed
  BY <1>25 DEF BackoffElapsed, TopicsTypeOK
<1>26. CASE BackoffStopped
  BY <1>26 DEF BackoffStopped, TopicsTypeOK
<1>27. ASSUME NEW e \in Event, BeginCreateEvent(e) PROVE TypeOK'
  BY <1>27 DEF BeginCreateEvent, CreateEventBegin, TopicsTypeOK
<1>28. ASSUME NEW e \in Event, CommitCreateEvent(e) PROVE TypeOK'
  BY <1>28, AppendProperties
     DEF CommitCreateEvent, CreateEventCommit, Notify, TopicsTypeOK
<1>29. ASSUME NEW e \in Event, NEW s \in ClientStatuses, UpdateEventStatus(e, s)
       PROVE  TypeOK'
  BY <1>29, TableAssumption
     DEF UpdateEventStatus, UpdateEventStatusRPC, SetStatus, TopicsTypeOK
<1>30. ASSUME NEW n \in RpcLimits, NEW b \in PollResults(n),
              BeginPollPendingEvents(b)
       PROVE  TypeOK'
  <2>1. ToSet(b) \subseteq Event
    BY TableAssumption, PollResultsAreRows DEF Pending
  <2> QED BY <1>30, <2>1 DEF BeginPollPendingEvents, PollRPCBegin, TopicsTypeOK
<1>31. CASE EndPollPendingEvents
  BY <1>31 DEF EndPollPendingEvents, PollRPCEnd, TopicsTypeOK
<1>32. CASE Boot
  <2>1. <<>> \in Seq(Event) BY EmptySeq
  <2>2. /\ pc' = "start" /\ batch' = <<>> /\ boots' = boots + 1
        /\ ctxDone' = FALSE /\ stopped' = FALSE
        /\ conn' = "open" /\ queue' = <<>>
        /\ UNCHANGED <<tableVars, topics, drops, stranded>>
    BY <1>32 DEF Boot, Connect
  <2>3. TableTypeOK' /\ ListenerTypeOK' /\ TopicsTypeOK'
    BY <2>1, <2>2 DEF TopicsTypeOK
  <2>4. pc' \notin Working /\ batch' = <<>> /\ batch' \in Seq(Event)
    BY <2>1, <2>2
  <2>5. ctxDone' \in BOOLEAN /\ stopped' \in BOOLEAN
    BY <2>2, Zenon
  <2>6. boots' \in Nat /\ drops' \in Nat
    BY <2>2
  <2> QED BY <2>2, <2>3, <2>4, <2>5, <2>6
<1>33. CASE Crash \/ Exit
  <2>1. ProcessGone
    BY <1>33 DEF Crash, Exit
  <2> QED BY <2>1, EmptySeq DEF ProcessGone, Close, TopicsTypeOK
<1>34. CASE ConnectionDrops
  BY <1>34, PrefixIsSeq DEF ConnectionDrops, Drop, TopicsTypeOK
<1>35. CASE CancelContext
  BY <1>35 DEF CancelContext, TopicsTypeOK
<1>36. CASE CloseStopCh
  BY <1>36 DEF CloseStopCh, TopicsTypeOK
<1>37. CASE UNCHANGED vars
  BY <1>37 DEF vars, TopicsTypeOK
<1> QED
  BY <1>1, <1>2, <1>3, <1>4, <1>5, <1>6, <1>7, <1>8, <1>9, <1>10, <1>11,
     <1>12, <1>13, <1>14, <1>15, <1>16, <1>17, <1>18, <1>19, <1>20, <1>21,
     <1>22, <1>23, <1>24, <1>25, <1>26, <1>27, <1>28, <1>29, <1>30, <1>31,
     <1>32, <1>33, <1>34, <1>35, <1>36, <1>37
     DEF Next, RunStep, RPC, Process

(* Every variable keeps its type, and the run goroutine is at a call about *)
(* an event exactly while it has an event to work on (ProcessEvent never   *)
(* runs on an empty batch, the loop never waits with work left).           *)
THEOREM TypeCorrect == Spec => []TypeOK
BY TypeInit, TypeStep, PTL DEF Spec

-----------------------------------------------------------------------------
(* No silent gap.                                                          *)

(* A step that moves no event and subscribes nothing leaves no gap.        *)
LEMMA GapUndisturbed ==
  ASSUME GapInv, TypeOK',
         Pending' \subseteq Pending,
         ToSet(queue)' = ToSet(queue), ToSet(batch)' = ToSet(batch),
         stranded \subseteq stranded',
         conn' = conn, pc' # "relisten", pc' = "backoff" => pc = "backoff",
         pc' \in Loop => pc \in Loop \cup {"backoff"}
  PROVE  GapInv'
BY DEF GapInv, NoSilentGap

(* Nor does one after which the poller is not subscribed or not in its     *)
(* loop.                                                                   *)
LEMMA GapVacuous ==
  ASSUME GapInv, TypeOK',
         conn' # "listening" \/ pc' \notin Loop \cup {"relisten", "backoff"}
  PROVE  GapInv'
BY DEF GapInv, NoSilentGap

LEMMA GapStep == GapInv /\ [Next]_vars => GapInv'
<1> SUFFICES ASSUME GapInv, [Next]_vars PROVE GapInv'
  OBVIOUS
<1>t. TypeOK /\ TypeOK'
  BY TypeStep DEF GapInv
<1> USE DEF Loop, Working, Goto, listenerVars, tableVars, runVars
<1>1. CASE StartListening \/ StartFails
  BY <1>1, <1>t, GapVacuous
     DEF StartListening, StartFails
<1>2. ASSUME NEW b \in PollResults(PollLimit), ScanBacklog(b) PROVE GapInv'
  <2>1. /\ batch' = b /\ stranded' = Pending \ (ToSet(b) \cup ToSet(queue))
        /\ Pending' = Pending /\ queue' = queue /\ pc' \in {"select", "publish"}
    BY <1>2 DEF ScanBacklog, ProcessAll, Pending
  <2> QED BY <1>t, <2>1 DEF GapInv, NoSilentGap
<1>3. CASE ScanFails
  BY <1>3, <1>t DEF ScanFails, Strand, GapInv, NoSilentGap, Pending
<1>4. CASE \/ SelectContinue \/ WaitCancelled \/ GetEvent
           \/ BackoffElapsed \/ BackoffStopped
           \/ PublishSent \/ PublishNotSent \/ PublishAcked \/ PublishUnacked
  <2>1. UNCHANGED <<status, listenerVars, batch, stranded>>
    BY <1>4 DEF SelectContinue, WaitCancelled, GetEvent, BackoffElapsed,
         BackoffStopped, PublishSent, PublishNotSent, PublishAcked, PublishUnacked
  <2>2. /\ pc' \notin {"relisten", "backoff"}
        /\ pc' \in Loop => pc \in Loop \cup {"backoff"}
    BY <1>4 DEF SelectContinue, WaitCancelled, GetEvent, BackoffElapsed,
         BackoffStopped, PublishSent, PublishNotSent, PublishAcked, PublishUnacked
  <2> QED BY <1>t, <2>1, <2>2, GapUndisturbed DEF Pending
<1>5. ASSUME NEW e \in Event, WaitNotified(e) PROVE GapInv'
  <2>1. /\ pc = "wait" /\ queue # <<>> /\ e = Head(queue) /\ queue' = Tail(queue)
        /\ batch' = <<e>> /\ conn' = conn /\ UNCHANGED <<status, stranded>>
    BY <1>5 DEF WaitNotified, Take, ProcessAll
  <2>2. batch = <<>>
    BY <1>t, <2>1 DEF TypeOK
  <2>3. pc' = "get"
    BY <1>5, ToSetSingle DEF WaitNotified, ProcessAll
  <2>4. ToSet(queue) \cup ToSet(batch) \subseteq ToSet(queue') \cup ToSet(batch')
    BY <1>t, <2>1, <2>2, ToSetHeadTail, ToSetSingle, ToSetEmpty
       DEF TypeOK, ListenerTypeOK
  <2> QED BY <1>t, <2>1, <2>3, <2>4 DEF GapInv, NoSilentGap, Pending
<1>6. CASE WaitError \/ WaitPanics \/ SelectStop
  BY <1>6, <1>t, GapVacuous DEF WaitError, WaitPanics, SelectStop
<1>7. ASSUME pc \in Working, batch' = Tail(batch), pc' \in {"select", "publish"},
             UNCHANGED listenerVars, stranded \subseteq stranded',
             Pending' \subseteq Pending,
             Current \notin Pending' \/ Current \in stranded' \cup ToSet(queue)
      PROVE  GapInv'
  <2>1. ToSet(batch) = {Current} \cup ToSet(Tail(batch))
    BY <1>7, <1>t, ToSetHeadTail DEF TypeOK, Current
  <2> QED BY <1>7, <1>t, <2>1 DEF GapInv, NoSilentGap
<1>8. CASE GetFails \/ MarkFails
  BY <1>7, <1>8 DEF GetFails, MarkFails, ProcessAll, Strand, Pending
<1>9. CASE MarkCompleted \/ MarkEventFailed
  <2>1. Pending' \subseteq Pending \ {Current}
    BY <1>9, <1>t DEF MarkCompleted, MarkEventFailed, SetStatus, Pending,
         TypeOK, TableTypeOK
  <2> QED
    BY <1>7, <1>9, <2>1 DEF MarkCompleted, MarkEventFailed, ProcessAll
<1>10. CASE ReconnectClose \/ ReconnectConnect \/ ReconnectConnectFails
  BY <1>10, <1>t, GapVacuous
     DEF ReconnectClose, ReconnectConnect, ReconnectConnectFails, Close,
         Connect, ConnectFails
<1>11. CASE ReconnectListen \/ ReconnectListenFails
  BY <1>11, <1>t, GapVacuous
     DEF ReconnectListen, ReconnectListenFails, ListenFails, GapInv
<1>12. ASSUME NEW e \in Event, BeginCreateEvent(e) PROVE GapInv'
  <2>1. Pending' \subseteq Pending
    BY <1>12, <1>t DEF BeginCreateEvent, CreateEventBegin, Pending, TypeOK,
         TableTypeOK
  <2> QED BY <1>12, <1>t, <2>1 DEF BeginCreateEvent, GapInv, NoSilentGap
<1>13. ASSUME NEW e \in Event, CommitCreateEvent(e) PROVE GapInv'
  <2>1. Pending' \subseteq Pending \cup {e}
    BY <1>13, <1>t DEF CommitCreateEvent, CreateEventCommit, Pending, TypeOK,
         TableTypeOK
  <2>2. conn = "listening" => ToSet(queue') = ToSet(queue) \cup {e}
    BY <1>13, <1>t, ToSetAppend DEF CommitCreateEvent, Notify, TypeOK,
         ListenerTypeOK
  <2> QED
    BY <1>13, <1>t, <2>1, <2>2 DEF CommitCreateEvent, Notify, GapInv, NoSilentGap
<1>14. ASSUME NEW e \in Event, NEW s \in ClientStatuses, UpdateEventStatus(e, s)
       PROVE  GapInv'
  <2>1. Pending' \subseteq Pending \cup (IF s = "pending" THEN {e} ELSE {})
    BY <1>14, <1>t DEF UpdateEventStatus, UpdateEventStatusRPC, SetStatus,
         Pending, TypeOK, TableTypeOK
  <2> QED BY <1>14, <1>t, <2>1 DEF UpdateEventStatus, GapInv, NoSilentGap
<1>15. CASE \/ \E n \in RpcLimits : \E b \in PollResults(n) : BeginPollPendingEvents(b)
            \/ EndPollPendingEvents \/ CancelContext \/ CloseStopCh
            \/ UNCHANGED vars
  <2>1. UNCHANGED <<status, listenerVars, batch, pc, stranded>>
    BY <1>15 DEF BeginPollPendingEvents, EndPollPendingEvents, PollRPCBegin,
         PollRPCEnd, CancelContext, CloseStopCh, vars
  <2> QED BY <1>t, <2>1 DEF GapInv, NoSilentGap, Pending
<1>16. CASE Boot \/ Crash \/ Exit \/ ConnectionDrops
  BY <1>16, <1>t, GapVacuous
     DEF Boot, Crash, Exit, ProcessGone, ConnectionDrops, Drop, Connect, Close
<1> QED
  BY <1>1, <1>2, <1>3, <1>4, <1>5, <1>6, <1>8, <1>9, <1>10, <1>11, <1>12,
     <1>13, <1>14, <1>15, <1>16
     DEF Next, RunStep, RPC, Process

(* Whatever fails, a poller that waits on its subscribed connection has    *)
(* lost sight only of events it gave up on itself: LISTEN precedes every   *)
(* scan, so nothing slips between the two.                                 *)
THEOREM GapFree == Spec => []NoSilentGap
<1>1. Init => GapInv
  BY TypeInit DEF Init, GapInv, NoSilentGap, Loop, Working
<1>2. GapInv => NoSilentGap
  BY DEF GapInv
<1> QED BY <1>1, <1>2, GapStep, PTL DEF Spec

-----------------------------------------------------------------------------
(* Nothing given up on.                                                    *)

(* A scan whose LIMIT all events fit in returns every pending row: the     *)
(* rows of a result are distinct, so LIMIT of them are all events.         *)
LEMMA ScanReturnsAll ==
  ASSUME TypeOK, BacklogFits, locked = {}, NEW b \in PollResults(PollLimit)
  PROVE  Pending \subseteq ToSet(b)
<1> SUFFICES ASSUME NEW e \in Pending, e \notin ToSet(b) PROVE FALSE
  OBVIOUS
<1>1. PICK n \in 0..PollLimit : b \in [1..n -> Pending]
  BY DEF PollResults
<1>2. Len(b) = PollLimit /\ IsInjective(b)
  BY DEF PollResults
<1>3. n = PollLimit /\ PollLimit \in Nat
  BY <1>1, <1>2, ListenerAssumption
<1>4. \A i \in 1..n : b[i] \in Event
  BY <1>1 DEF Pending
<1>5. b \in Injection(1..n, Event \ {e})
  <2>1. \A i \in 1..n : b[i] \in Event \ {e}
    BY <1>1, <1>4 DEF ToSet
  <2>2. \A i, j \in 1..n : b[i] = b[j] => i = j
    BY <1>1, <1>2 DEF IsInjective
  <2> QED BY <1>1, <2>1, <2>2 DEF Injection, IsInjective
<1>6. /\ IsFiniteSet(Event) /\ e \in Event
      /\ Cardinality(Event) <= PollLimit /\ Cardinality(Event) \in Nat
  BY FS_CardinalityType DEF BacklogFits, Pending
<1>7. IsFiniteSet(Event \ {e}) /\ Cardinality(Event \ {e}) = Cardinality(Event) - 1
  BY <1>6, FS_RemoveElement
<1>8. Cardinality(1..n) <= Cardinality(Event \ {e})
  BY <1>5, <1>7, FS_Injection
<1>9. Cardinality(1..n) = n
  BY <1>3, FS_Interval
<1> QED BY <1>3, <1>6, <1>7, <1>8, <1>9

(* A step that moves no event and subscribes nothing drops none.           *)
LEMMA HoldUndisturbed ==
  ASSUME HoldInv, TypeOK', locked' = {},
         Pending' \subseteq Pending,
         ToSet(queue)' = ToSet(queue), ToSet(batch)' = ToSet(batch),
         ~ctxDone' => ~ctxDone,
         conn' = conn, pc' # "relisten", pc' = "backoff" => pc = "backoff",
         pc' \in Loop => pc \in Loop \cup {"backoff"}
  PROVE  HoldInv'
BY DEF HoldInv, HoldsAllPending

(* Nor does one after which the poller is not subscribed, not in its loop  *)
(* or cancelled.                                                           *)
LEMMA HoldVacuous ==
  ASSUME HoldInv, TypeOK', locked' = {},
         \/ conn' # "listening"
         \/ pc' \notin Loop \cup {"relisten", "backoff"}
         \/ ctxDone' /\ pc' \notin {"relisten", "backoff"}
  PROVE  HoldInv'
BY DEF HoldInv, HoldsAllPending

LEMMA HoldStep == BacklogFits /\ HoldInv /\ [Next]_vars => HoldInv'
<1> SUFFICES ASSUME BacklogFits, HoldInv, [Next]_vars PROVE HoldInv'
  OBVIOUS
<1>t. TypeOK /\ TypeOK' /\ locked = {}
  BY TypeStep DEF HoldInv
<1> USE DEF Loop, Working, Goto, listenerVars, tableVars, runVars
<1>1. CASE StartListening \/ StartFails
  BY <1>1, <1>t, HoldVacuous DEF StartListening, StartFails
<1>2. ASSUME NEW b \in PollResults(PollLimit), ScanBacklog(b) PROVE HoldInv'
  <2>1. /\ batch' = b /\ Pending' = Pending /\ locked' = {}
        /\ pc' \in {"select", "publish"}
    BY <1>2, <1>t DEF ScanBacklog, ProcessAll, Pending
  <2>2. Pending \subseteq ToSet(b)
    BY <1>t, ScanReturnsAll
  <2> QED BY <1>t, <2>1, <2>2 DEF HoldInv, HoldsAllPending
<1>3. CASE ScanFails \/ GetFails \/ MarkFails
  <2>1. ctxDone' /\ pc' \in {"select", "publish"} /\ locked' = {}
    BY <1>3, <1>t DEF BacklogFits, ScanFails, GetFails, MarkFails, MayFail, ProcessAll
  <2> QED BY <1>t, <2>1, HoldVacuous
<1>4. CASE \/ SelectContinue \/ WaitCancelled \/ GetEvent
           \/ BackoffElapsed \/ BackoffStopped
           \/ PublishSent \/ PublishNotSent \/ PublishAcked \/ PublishUnacked
  <2>1. UNCHANGED <<status, locked, listenerVars, batch, ctxDone>>
    BY <1>4 DEF SelectContinue, WaitCancelled, GetEvent, BackoffElapsed,
         BackoffStopped, PublishSent, PublishNotSent, PublishAcked, PublishUnacked
  <2>2. /\ pc' \notin {"relisten", "backoff"}
        /\ pc' \in Loop => pc \in Loop \cup {"backoff"}
    BY <1>4 DEF SelectContinue, WaitCancelled, GetEvent, BackoffElapsed,
         BackoffStopped, PublishSent, PublishNotSent, PublishAcked, PublishUnacked
  <2> QED BY <1>t, <2>1, <2>2, HoldUndisturbed DEF Pending
<1>5. ASSUME NEW e \in Event, WaitNotified(e) PROVE HoldInv'
  <2>1. /\ pc = "wait" /\ queue # <<>> /\ e = Head(queue) /\ queue' = Tail(queue)
        /\ batch' = <<e>> /\ conn' = conn /\ UNCHANGED <<status, locked, ctxDone>>
    BY <1>5 DEF WaitNotified, Take, ProcessAll
  <2>2. batch = <<>>
    BY <1>t, <2>1 DEF TypeOK
  <2>3. pc' = "get"
    BY <1>5, ToSetSingle DEF WaitNotified, ProcessAll
  <2>4. ToSet(queue) \cup ToSet(batch) \subseteq ToSet(queue') \cup ToSet(batch')
    BY <1>t, <2>1, <2>2, ToSetHeadTail, ToSetSingle, ToSetEmpty
       DEF TypeOK, ListenerTypeOK
  <2> QED BY <1>t, <2>1, <2>3, <2>4 DEF HoldInv, HoldsAllPending, Pending
<1>6. CASE WaitError \/ WaitPanics \/ SelectStop
  BY <1>6, <1>t, HoldVacuous DEF WaitError, WaitPanics, SelectStop
<1>7. CASE MarkCompleted \/ MarkEventFailed
  <2>1. Pending' \subseteq Pending \ {Current}
    BY <1>7, <1>t DEF MarkCompleted, MarkEventFailed, SetStatus, Pending,
         TypeOK, TableTypeOK
  <2>2. ToSet(batch) = {Current} \cup ToSet(Tail(batch))
    BY <1>7, <1>t, ToSetHeadTail DEF TypeOK, Current, MarkCompleted, MarkEventFailed
  <2>3. /\ pc \in Working /\ pc' \in {"select", "publish"} /\ batch' = Tail(batch)
        /\ UNCHANGED <<locked, listenerVars, ctxDone>>
    BY <1>7 DEF MarkCompleted, MarkEventFailed, SetStatus, ProcessAll
  <2> QED BY <1>t, <2>1, <2>2, <2>3 DEF HoldInv, HoldsAllPending
<1>8. CASE ReconnectClose \/ ReconnectConnect \/ ReconnectConnectFails
  BY <1>8, <1>t, HoldVacuous
     DEF ReconnectClose, ReconnectConnect, ReconnectConnectFails, Close,
         Connect, ConnectFails
<1>9. CASE ReconnectListen \/ ReconnectListenFails
  BY <1>9, <1>t, HoldVacuous
     DEF ReconnectListen, ReconnectListenFails, ListenFails, HoldInv
<1>10. ASSUME NEW e \in Event, BeginCreateEvent(e) PROVE HoldInv'
  <2>1. Pending' \subseteq Pending /\ locked' = {}
    BY <1>10, <1>t DEF BeginCreateEvent, CreateEventBegin, Pending, TypeOK,
         TableTypeOK
  <2> QED BY <1>10, <1>t, <2>1 DEF BeginCreateEvent, HoldInv, HoldsAllPending
<1>11. ASSUME NEW e \in Event, CommitCreateEvent(e) PROVE HoldInv'
  <2>1. Pending' \subseteq Pending \cup {e} /\ locked' = {}
    BY <1>11, <1>t DEF CommitCreateEvent, CreateEventCommit, Pending, TypeOK,
         TableTypeOK
  <2>2. conn = "listening" => ToSet(queue') = ToSet(queue) \cup {e}
    BY <1>11, <1>t, ToSetAppend DEF CommitCreateEvent, Notify, TypeOK,
         ListenerTypeOK
  <2> QED
    BY <1>11, <1>t, <2>1, <2>2 DEF CommitCreateEvent, Notify, HoldInv, HoldsAllPending
<1>12. ASSUME NEW e \in Event, NEW s \in ClientStatuses, UpdateEventStatus(e, s)
       PROVE  HoldInv'
  <2>1. Pending' \subseteq Pending /\ locked' = {}
    BY <1>12, <1>t DEF BacklogFits, UpdateEventStatus, UpdateEventStatusRPC,
         SetStatus, Pending, TypeOK, TableTypeOK
  <2> QED BY <1>12, <1>t, <2>1 DEF UpdateEventStatus, HoldInv, HoldsAllPending
<1>13. CASE EndPollPendingEvents \/ CancelContext \/ CloseStopCh \/ UNCHANGED vars
  <2>1. /\ UNCHANGED <<status, listenerVars, batch, pc>> /\ locked' = {}
        /\ ~ctxDone' => ~ctxDone
    BY <1>13, <1>t DEF EndPollPendingEvents, PollRPCEnd, CancelContext, CloseStopCh, vars
  <2> QED BY <1>t, <2>1 DEF HoldInv, HoldsAllPending, Pending
<1>14. CASE Boot \/ Crash \/ Exit \/ ConnectionDrops
  BY <1>14, <1>t, HoldVacuous
     DEF Boot, Crash, Exit, ProcessGone, ConnectionDrops, Drop, Connect, Close
<1> QED
  BY <1>1, <1>2, <1>3, <1>4, <1>5, <1>6, <1>7, <1>8, <1>9, <1>10, <1>11, <1>12,
     <1>13, <1>14
     DEF BacklogFits, Next, RunStep, RPC, Process

(* As long as every event fits in one LIMIT, the poller's own queries work *)
(* and no client locks rows or puts events back, the poller holds every    *)
(* pending event whenever it is subscribed and in its loop: no crash,      *)
(* restart, lost connection or failed publish makes it lose one.           *)
THEOREM NothingGivenUp ==
  ASSUME BacklogFits
  PROVE  Spec => []HoldsAllPending
<1>1. Init => HoldInv
  BY TypeInit DEF Init, TableInit, HoldInv, HoldsAllPending, Loop, Working
<1>2. HoldInv => HoldsAllPending
  BY DEF HoldInv
<1>3. HoldInv /\ [Next]_vars => HoldInv'
  BY HoldStep
<1> QED BY <1>1, <1>2, <1>3, PTL DEF Spec

-----------------------------------------------------------------------------
(* Published before completed.                                             *)

LEMMA PublishStep == PublishInv /\ [Next]_vars => PublishInv'
<1> SUFFICES ASSUME PublishInv, [Next]_vars PROVE PublishInv'
  OBVIOUS
<1>t. TypeOK /\ TypeOK'
  BY TypeStep DEF PublishInv
<1> USE DEF Working, Goto, listenerVars, tableVars, runVars, Committed
<1> DEFINE Held == ToSet(queue) \cup ToSet(batch)
(* What preserves the invariant when no record is produced.                *)
<1>a. ASSUME UNCHANGED topics, Held' \subseteq Committed',
             pc' \in {"ack", "complete"} => pc \in {"ack", "complete"} /\ batch' = batch,
             \A e \in Event : status'[e] = "completed" =>
                status[e] = "completed" \/ Delivered(e) \/ "completed" \in ClientStatuses
      PROVE  PublishInv'
  <2>1. \A e \in Event : Delivered(e)' <=> Delivered(e)
    BY <1>a DEF Delivered, TopicForEventType
  <2>2. pc' \in {"ack", "complete"} => Delivered(Current)'
    BY <1>a, <1>t, BatchType, <2>1 DEF PublishInv, Current, Delivered, TopicForEventType
  <2> QED BY <1>a, <1>t, <2>1, <2>2 DEF PublishInv, CompletedWasPublished
<1>1. CASE \/ StartListening \/ StartFails \/ ScanFails
           \/ SelectContinue \/ WaitCancelled \/ WaitError \/ GetEvent
           \/ BackoffElapsed \/ BackoffStopped
           \/ PublishNotSent \/ PublishAcked \/ PublishUnacked
           \/ ReconnectListen \/ ReconnectListenFails
           \/ CancelContext \/ CloseStopCh \/ UNCHANGED vars
           \/ \E n \in RpcLimits : \E b \in PollResults(n) : BeginPollPendingEvents(b)
           \/ EndPollPendingEvents
  <2>1. UNCHANGED <<status, queue, batch, topics>>
    BY <1>1 DEF StartListening, StartFails, ScanFails, SelectContinue,
         WaitCancelled, WaitError, WaitFails, GetEvent, BackoffElapsed, BackoffStopped,
         PublishNotSent, PublishAcked, PublishUnacked, ReconnectListen,
         ReconnectListenFails, Listen, ListenFails, CancelContext, CloseStopCh,
         BeginPollPendingEvents, EndPollPendingEvents, PollRPCBegin, PollRPCEnd,
         vars
  <2>2. pc' \in {"ack", "complete"} => pc \in {"ack", "complete"}
    BY <1>1 DEF StartListening, StartFails, ScanFails, SelectContinue,
         WaitCancelled, WaitError, GetEvent, BackoffElapsed, BackoffStopped,
         PublishNotSent, PublishAcked, PublishUnacked, ReconnectListen,
         ReconnectListenFails, CancelContext, CloseStopCh,
         BeginPollPendingEvents, EndPollPendingEvents, vars
  <2> QED BY <1>a, <2>1, <2>2 DEF PublishInv
<1>2. ASSUME NEW b \in PollResults(PollLimit), ScanBacklog(b) PROVE PublishInv'
  <2>1. /\ batch' = b /\ ToSet(b) \subseteq Committed
        /\ UNCHANGED <<status, queue, topics>> /\ pc' \in {"select", "publish"}
    BY <1>2, ListenerAssumption, PollResultsAreRows
       DEF ScanBacklog, ProcessAll, Pending, EventStatus
  <2> QED BY <1>a, <2>1 DEF PublishInv
<1>3. ASSUME NEW e \in Event, WaitNotified(e) PROVE PublishInv'
  <2>1. /\ queue # <<>> /\ e = Head(queue) /\ queue' = Tail(queue)
        /\ batch' = <<e>> /\ UNCHANGED <<status, topics>> /\ pc' = "get"
    BY <1>3, ToSetSingle DEF WaitNotified, Take, ProcessAll
  <2>2. Held' \subseteq Held
    BY <1>t, <2>1, ToSetHeadTail, ToSetSingle DEF TypeOK, ListenerTypeOK
  <2> QED BY <1>a, <2>1, <2>2 DEF PublishInv
<1>4. CASE PublishSent
  <2>1. /\ Current \in Event /\ Produce(Current) /\ pc' = "ack"
        /\ UNCHANGED <<status, queue, batch>> /\ Current' = Current
    BY <1>4, <1>t, BatchType DEF PublishSent, Current
  <2>2. /\ Delivered(Current)'
        /\ \A f \in Event : Delivered(f) => Delivered(f)'
    BY <1>t, <2>1, ProduceDelivers DEF TypeOK, Delivered, TopicForEventType
  <2> QED BY <1>t, <2>1, <2>2 DEF PublishInv, CompletedWasPublished
(* The working steps that finish an event.                                 *)
<1>5. ASSUME pc \in Working, batch' = Tail(batch), pc' \in {"select", "publish"},
             UNCHANGED <<queue, topics>>, Committed \subseteq Committed',
             \A e \in Event : status'[e] = "completed" =>
                status[e] = "completed" \/ Delivered(e)
      PROVE  PublishInv'
  <2>1. Held' \subseteq Held
    BY <1>5, <1>t, ToSetHeadTail DEF TypeOK
  <2> QED BY <1>a, <1>5, <2>1 DEF PublishInv
<1>6. CASE GetFails \/ MarkFails
  BY <1>5, <1>6 DEF GetFails, MarkFails, ProcessAll
<1>7. CASE MarkCompleted
  <2>1. /\ pc = "complete" /\ status' = [status EXCEPT ![Current] = "completed"]
        /\ batch' = Tail(batch) /\ pc' \in {"select", "publish"}
        /\ UNCHANGED <<queue, topics>>
    BY <1>7 DEF MarkCompleted, SetStatus, ProcessAll
  <2> QED BY <1>5, <2>1, <1>t DEF PublishInv, TypeOK, TableTypeOK, EventStatus
<1>8. CASE MarkEventFailed
  <2>1. /\ pc = "fail" /\ status' = [status EXCEPT ![Current] = "failed"]
        /\ batch' = Tail(batch) /\ pc' \in {"select", "publish"}
        /\ UNCHANGED <<queue, topics>>
    BY <1>8 DEF MarkEventFailed, SetStatus, ProcessAll
  <2> QED BY <1>5, <2>1, <1>t DEF TypeOK, TableTypeOK, EventStatus
(* The steps that forget.                                                  *)
<1>9. CASE \/ SelectStop \/ WaitPanics \/ ReconnectClose \/ ReconnectConnect
           \/ ReconnectConnectFails \/ Boot \/ Crash \/ Exit
  <2>1. /\ queue' = <<>> /\ batch' \in {batch, <<>>}
        /\ UNCHANGED <<status, topics>> /\ pc' \notin {"ack", "complete"}
    BY <1>9 DEF SelectStop, WaitPanics, ReconnectClose, ReconnectConnect,
         ReconnectConnectFails, Boot, Crash, Exit, ProcessGone, Close, Connect,
         ConnectFails
  <2>2. Held' \subseteq Held
    BY <2>1, ToSetEmpty
  <2> QED BY <1>a, <2>1, <2>2 DEF PublishInv
<1>10. CASE ConnectionDrops
  <2>1. UNCHANGED <<status, topics, batch, pc>>
    BY <1>10 DEF ConnectionDrops
  <2>2. PICK n \in 0..Len(queue) : queue' = SubSeq(queue, 1, n)
    BY <1>10 DEF ConnectionDrops, Drop
  <2>3. Held' \subseteq Held
    BY <1>t, <2>1, <2>2, PrefixIsSeq DEF TypeOK, ListenerTypeOK
  <2> QED BY <1>a, <2>1, <2>3 DEF PublishInv
<1>11. ASSUME NEW e \in Event, BeginCreateEvent(e) PROVE PublishInv'
  <2>1. /\ status[e] = "absent" /\ status' = [status EXCEPT ![e] = "inserting"]
        /\ UNCHANGED <<queue, batch, topics, pc>>
    BY <1>11 DEF BeginCreateEvent, CreateEventBegin
  <2> QED BY <1>a, <1>t, <2>1 DEF PublishInv, TypeOK, TableTypeOK, EventStatus
<1>12. ASSUME NEW e \in Event, CommitCreateEvent(e) PROVE PublishInv'
  <2>1. /\ status' = [status EXCEPT ![e] = "pending"]
        /\ UNCHANGED <<batch, topics, pc>>
    BY <1>12 DEF CommitCreateEvent, CreateEventCommit
  <2>2. ToSet(queue') \subseteq ToSet(queue) \cup {e}
    BY <1>12, <1>t, ToSetAppend DEF CommitCreateEvent, Notify, TypeOK, ListenerTypeOK
  <2> QED
    BY <1>a, <1>t, <2>1, <2>2 DEF PublishInv, TypeOK, TableTypeOK, EventStatus
<1>13. ASSUME NEW e \in Event, NEW s \in ClientStatuses, UpdateEventStatus(e, s)
       PROVE  PublishInv'
  <2>1. /\ status' = [status EXCEPT ![e] = s] /\ s \in EventStatus
        /\ UNCHANGED <<queue, batch, topics, pc>>
    BY <1>13, TableAssumption
       DEF UpdateEventStatus, UpdateEventStatusRPC, SetStatus
  <2> QED BY <1>a, <1>t, <2>1 DEF PublishInv, TypeOK, TableTypeOK
<1> QED
  BY <1>1, <1>2, <1>3, <1>4, <1>6, <1>7, <1>8, <1>9, <1>10, <1>11, <1>12, <1>13
     DEF Next, RunStep, RPC, Process

LEMMA PublishInit == Init => PublishInv
BY TypeInit, ToSetEmpty
   DEF Init, TableInit, PublishInv, CompletedWasPublished

(* Whatever fails, no event is COMPLETED that has no record in its topic,  *)
(* as long as no client writes COMPLETED.                                  *)
THEOREM CompletedPublished == Spec => []CompletedWasPublished
<1>1. PublishInv => CompletedWasPublished
  BY DEF PublishInv
<1> QED BY <1>1, PublishInit, PublishStep, PTL DEF Spec

-----------------------------------------------------------------------------
(* The poller implements AtLeastOnce.                                      *)

RowOf == [e \in Event |-> IF status[e] = "inserting" THEN "absent" ELSE status[e]]

(* A step that changes the status of one event changes at most its row.    *)
LEMMA RowUpdate ==
  ASSUME TypeOK, NEW e \in Event, NEW s, status' = [status EXCEPT ![e] = s]
  PROVE  RowOf' = [RowOf EXCEPT ![e] = IF s = "inserting" THEN "absent" ELSE s]
BY DEF RowOf, TypeOK, TableTypeOK

LEMMA RefinementStep ==
  PublishInv /\ PublishInv' /\ [Next]_vars => [Outbox!Next]_<<RowOf, topics>>
<1> SUFFICES ASSUME PublishInv, [Next]_vars
             PROVE  [Outbox!Next]_<<RowOf, topics>>
  OBVIOUS
<1>t. TypeOK
  BY DEF PublishInv
<1> USE DEF Goto, listenerVars, tableVars, runVars, EventStatus
<1>1. CASE UNCHANGED <<status, topics>>
  BY <1>1 DEF RowOf
<1>2. CASE PublishSent
  <2>1. PICK e \in Event : e = Current
    BY <1>2, <1>t, BatchType DEF PublishSent, Working
  <2>2. /\ Produce(e) /\ UNCHANGED status
        /\ status[e] \in EventStatus
    BY <1>2, <1>t, <2>1, ToSetHeadTail
       DEF PublishSent, PublishInv, Working, Committed, Current, TypeOK
  <2>3. RowOf[e] # "absent" /\ RowOf' = RowOf
    BY <2>2 DEF RowOf
  <2>4. Outbox!Publish(e)
    BY <2>2, <2>3 DEF Outbox!Publish, Outbox!Produce, Produce, RowOf,
         Outbox!TopicForEventType, TopicForEventType
  <2> QED BY <2>4 DEF Outbox!Next
<1>3. CASE MarkCompleted
  <2>1. PICK e \in Event : e = Current
    BY <1>3, <1>t, BatchType DEF MarkCompleted, Working
  <2>2. /\ Delivered(e) /\ UNCHANGED topics
        /\ status[e] \in EventStatus
        /\ status' = [status EXCEPT ![e] = "completed"]
    BY <1>3, <1>t, <2>1, ToSetHeadTail
       DEF MarkCompleted, SetStatus, PublishInv, Working, Committed, Current, TypeOK
  <2>3. RowOf[e] # "absent" /\ RowOf' = [RowOf EXCEPT ![e] = "completed"]
    BY <1>t, <2>2, RowUpdate DEF RowOf
  <2>4. Outbox!Delivered(e)
    BY <2>2 DEF Outbox!Delivered, Delivered, Outbox!ToSet, ToSet,
         Outbox!TopicForEventType, TopicForEventType
  <2>5. Outbox!Complete(e)
    BY <2>2, <2>3, <2>4 DEF Outbox!Complete, RowOf
  <2> QED BY <2>5 DEF Outbox!Next
<1>4. CASE MarkEventFailed
  <2>1. PICK e \in Event : e = Current
    BY <1>4, <1>t, BatchType DEF MarkEventFailed, Working
  <2>2. /\ UNCHANGED topics
        /\ status[e] \in EventStatus
        /\ status' = [status EXCEPT ![e] = "failed"]
    BY <1>4, <1>t, <2>1, ToSetHeadTail
       DEF MarkEventFailed, SetStatus, PublishInv, Working, Committed, Current, TypeOK
  <2>3. RowOf[e] # "absent" /\ RowOf' = [RowOf EXCEPT ![e] = "failed"]
    BY <1>t, <2>2, RowUpdate DEF RowOf
  <2>4. Outbox!Fail(e)
    BY <2>2, <2>3 DEF Outbox!Fail, RowOf
  <2> QED BY <2>4 DEF Outbox!Next
<1>5. ASSUME NEW e \in Event, BeginCreateEvent(e)
      PROVE  UNCHANGED <<RowOf, topics>>
  <2>1. /\ status[e] = "absent" /\ status' = [status EXCEPT ![e] = "inserting"]
        /\ UNCHANGED topics
    BY <1>5 DEF BeginCreateEvent, CreateEventBegin
  <2> QED BY <1>t, <2>1 DEF RowOf, TypeOK, TableTypeOK
<1>6. ASSUME NEW e \in Event, CommitCreateEvent(e) PROVE Outbox!Next
  <2>1. /\ status[e] = "inserting" /\ status' = [status EXCEPT ![e] = "pending"]
        /\ UNCHANGED topics
    BY <1>6 DEF CommitCreateEvent, CreateEventCommit
  <2>2. RowOf[e] = "absent" /\ RowOf' = [RowOf EXCEPT ![e] = "pending"]
    BY <1>t, <2>1, RowUpdate DEF RowOf
  <2>3. Outbox!Submit(e)
    BY <2>1, <2>2 DEF Outbox!Submit, RowOf
  <2> QED BY <2>3 DEF Outbox!Next
<1>7. ASSUME NEW e \in Event, NEW s \in ClientStatuses, UpdateEventStatus(e, s)
      PROVE  Outbox!Next
  <2>1. /\ status[e] \in EventStatus /\ status' = [status EXCEPT ![e] = s]
        /\ UNCHANGED topics /\ s \in EventStatus
    BY <1>7, TableAssumption
       DEF UpdateEventStatus, UpdateEventStatusRPC, SetStatus, Committed
  <2>2. RowOf[e] # "absent" /\ RowOf' = [RowOf EXCEPT ![e] = s]
    BY <1>t, <2>1, RowUpdate DEF RowOf
  <2>3. Outbox!Relabel(e, s)
    BY <2>1, <2>2 DEF Outbox!Relabel, RowOf
  <2> QED BY <2>3 DEF Outbox!Next
<1>8. CASE \/ StartListening \/ StartFails \/ ScanFails
           \/ (\E b \in PollResults(PollLimit) : ScanBacklog(b))
           \/ SelectContinue \/ SelectStop
           \/ (\E e \in Event : WaitNotified(e))
           \/ WaitError \/ WaitCancelled \/ WaitPanics
           \/ GetEvent \/ GetFails
           \/ PublishNotSent \/ PublishAcked \/ PublishUnacked \/ MarkFails
  BY <1>1, <1>8
     DEF StartListening, StartFails, ScanFails, ScanBacklog, SelectContinue,
         SelectStop, WaitNotified, WaitError, WaitCancelled, WaitPanics, GetEvent,
         GetFails, PublishNotSent, PublishAcked, PublishUnacked, MarkFails
<1>9. CASE \/ ReconnectClose \/ ReconnectConnect \/ ReconnectConnectFails
           \/ ReconnectListen \/ ReconnectListenFails
           \/ BackoffElapsed \/ BackoffStopped
           \/ (\E n \in RpcLimits : \E b \in PollResults(n) : BeginPollPendingEvents(b))
           \/ EndPollPendingEvents \/ Boot \/ Crash \/ Exit
           \/ ConnectionDrops \/ CancelContext \/ CloseStopCh \/ UNCHANGED vars
  BY <1>1, <1>9
     DEF ReconnectClose, ReconnectConnect, ReconnectConnectFails, ReconnectListen,
         ReconnectListenFails, BackoffElapsed, BackoffStopped,
         BeginPollPendingEvents, PollRPCBegin, EndPollPendingEvents, PollRPCEnd,
         Boot, Crash, Exit, ProcessGone, ConnectionDrops, CancelContext,
         CloseStopCh, vars
<1> QED
  BY <1>2, <1>3, <1>4, <1>5, <1>6, <1>7, <1>8, <1>9
     DEF Next, RunStep, RPC, Process

(* The outbox poller, with every fault and restart, implements the         *)
(* abstract at-least-once pipeline: a topic only grows, by committed       *)
(* events, and the poller completes only what is in a topic.               *)
THEOREM Implements == Spec => ImplementsAtLeastOnce
<1>1. Init => Outbox!Init
  BY DEF Init, TableInit, TopicsInit, Outbox!Init, Outbox!TopicsInit
<1>2. PublishInv /\ PublishInv' /\ [Next]_vars => [Outbox!Next]_<<RowOf, topics>>
  BY RefinementStep
<1>3. Spec => Outbox!Spec
  BY <1>1, <1>2, PublishInit, PublishStep, PTL DEF Spec, Outbox!Spec, RowOf
<1> QED BY <1>3 DEF ImplementsAtLeastOnce

-----------------------------------------------------------------------------
(* A shutdown fails no event.                                              *)

LEMMA FailStep == FailInv /\ [Next]_vars => FailInv'
<1> SUFFICES ASSUME FailInv, [Next]_vars PROVE FailInv'
  OBVIOUS
<1>t. TypeOK /\ TypeOK'
  BY TypeStep DEF FailInv
<1>1. CASE "publish" \in Disruptions
  BY <1>1, <1>t DEF FailInv, ShutdownFailsNoEvent
<1>2. CASE "publish" \notin Disruptions
  <2> USE DEF Goto, runVars, tableVars
  <2>1. pc' = "fail" => ctxDone'
    <3>1. CASE PublishNotSent \/ PublishUnacked
      BY <1>2, <3>1 DEF PublishNotSent, PublishUnacked, MayFail
    <3>2. ASSUME pc' = pc, ctxDone' = ctxDone \/ ctxDone'
          PROVE  pc' = "fail" => ctxDone'
      BY <1>2, <3>2 DEF FailInv
    <3>3. CASE RPC \/ CancelContext \/ CloseStopCh \/ ConnectionDrops \/ UNCHANGED vars
      BY <3>2, <3>3
         DEF RPC, BeginCreateEvent, CommitCreateEvent, UpdateEventStatus,
             BeginPollPendingEvents, EndPollPendingEvents, CancelContext,
             CloseStopCh, ConnectionDrops, vars
    <3>4. CASE Boot \/ Crash \/ Exit
      BY <3>4 DEF Boot, Crash, Exit, ProcessGone
    <3>5. CASE RunStep /\ ~PublishNotSent /\ ~PublishUnacked
      <4>1. pc' # "fail"
        BY <3>5
           DEF RunStep, StartListening, StartFails, ScanBacklog, ScanFails,
               SelectContinue, SelectStop, WaitNotified, WaitError, WaitCancelled,
               WaitPanics, GetEvent, GetFails, PublishSent, PublishAcked,
               MarkCompleted, MarkEventFailed, MarkFails, ReconnectClose,
               ReconnectConnect, ReconnectConnectFails, ReconnectListen,
               ReconnectListenFails, BackoffElapsed, BackoffStopped, ProcessAll
      <4> QED BY <4>1
    <3> QED BY <3>1, <3>3, <3>4, <3>5 DEF Next, Process
  <2>2. ASSUME "failed" \notin ClientStatuses, NEW e \in Event, status'[e] = "failed"
        PROVE  FALSE
    <3>1. status[e] # "failed" /\ status \in [Event -> EventStatus \cup {"absent", "inserting"}]
      BY <1>2, <1>t, <2>2 DEF FailInv, ShutdownFailsNoEvent, TypeOK, TableTypeOK
    <3>2. ASSUME UNCHANGED status PROVE FALSE
      BY <2>2, <3>1, <3>2
    <3>3. ASSUME NEW f \in Event, NEW s, s # "failed",
                 status' = [status EXCEPT ![f] = s]
          PROVE  FALSE
      BY <2>2, <3>1, <3>3
    <3>4. CASE MarkEventFailed
      BY <1>2, <3>4 DEF MarkEventFailed, MaySucceed, FailInv
    <3>5. CASE MarkCompleted
      BY <1>t, <3>3, <3>5, BatchType DEF MarkCompleted, SetStatus, Working
    <3>6. CASE RPC
      <4>1. ASSUME NEW f \in Event, NEW s \in ClientStatuses, UpdateEventStatus(f, s)
            PROVE  FALSE
        BY <2>2, <3>3, <4>1 DEF UpdateEventStatus, UpdateEventStatusRPC, SetStatus
      <4>2. ASSUME NEW f \in Event, BeginCreateEvent(f) \/ CommitCreateEvent(f)
            PROVE  FALSE
        BY <3>3, <4>2 DEF BeginCreateEvent, CommitCreateEvent, CreateEventBegin,
             CreateEventCommit
      <4> QED
        BY <3>2, <3>6, <4>1, <4>2
           DEF RPC, BeginPollPendingEvents, PollRPCBegin, EndPollPendingEvents,
               PollRPCEnd
    <3>7. CASE RunStep /\ ~MarkCompleted /\ ~MarkEventFailed
      <4>1. UNCHANGED status
        BY <3>7
           DEF RunStep, StartListening, StartFails, ScanBacklog, ScanFails,
               SelectContinue, SelectStop, WaitNotified, WaitError, WaitCancelled,
               WaitPanics, GetEvent, GetFails, PublishSent, PublishNotSent,
               PublishAcked, PublishUnacked, MarkFails, ReconnectClose,
               ReconnectConnect, ReconnectConnectFails, ReconnectListen,
               ReconnectListenFails, BackoffElapsed, BackoffStopped
      <4> QED BY <3>2, <4>1
    <3>8. CASE Process \/ UNCHANGED vars
      <4>1. UNCHANGED status
        BY <3>8
           DEF Process, Boot, Crash, Exit, ProcessGone, ConnectionDrops,
               CancelContext, CloseStopCh, vars
      <4> QED BY <3>2, <4>1
    <3> QED BY <3>4, <3>5, <3>6, <3>7, <3>8 DEF Next
  <2> QED BY <1>2, <1>t, <2>1, <2>2 DEF FailInv, ShutdownFailsNoEvent
<1> QED BY <1>1, <1>2

(* A cancelled context leaves every event it interrupts PENDING, for the   *)
(* scan of the next start, and never FAILED, from which nothing returns.   *)
THEOREM ShutdownSpares == Spec => []ShutdownFailsNoEvent
<1>1. Init => FailInv
  BY TypeInit DEF Init, TableInit, FailInv, ShutdownFailsNoEvent
<1>2. FailInv => ShutdownFailsNoEvent
  BY DEF FailInv
<1> QED BY <1>1, <1>2, FailStep, PTL DEF Spec

-----------------------------------------------------------------------------
(* Bounded duplicates.                                                     *)

LEMMA ClaimsNat ==
  ASSUME TypeOK, NEW e \in Event
  PROVE  /\ Copies(e) \in Nat /\ Claimed(e) \in Nat /\ Copies(e) <= Claimed(e)
         /\ e \notin Unpublished => Claimed(e) <= Copies(e) + 1
BY CopiesNat DEF TypeOK, Claimed

(* A step that produces nothing, and after which the poller is told of no  *)
(* event, and works on none, but those of before, adds no claim.           *)
LEMMA ClaimsKept ==
  ASSUME TypeOK, UNCHANGED topics, NEW e \in Event,
         e \in Committed => e \in Committed',
         e \in ToSet(queue') => e \in ToSet(queue) \/ e \notin Committed,
         e \in Unpublished' => e \in Unpublished
  PROVE  Claimed(e)' <= Claimed(e) /\ Claimed(e)' \in Nat
<1>1. Copies(e)' = Copies(e) /\ Copies(e) \in Nat
  BY CopiesUnchanged, CopiesNat DEF TypeOK
<1> QED BY <1>1 DEF Claimed

(* A step that adds neither a claim nor a scan preserves the bound, if it  *)
(* drops no pending event from the batch of a poller that goes on.         *)
LEMMA BoundKept ==
  ASSUME DuplicatesInv, TypeOK', IsInjective(queue'), IsInjective(batch'),
         ToSet(queue') \cup ToSet(batch') \subseteq Committed',
         \A e \in Event : Delivered(e)' => e \in Committed',
         pc' \in Reconnecting => conn' # "listening",
         pc' \notin Ended => pc \notin Ended,
         UNCHANGED <<boots, drops>>,
         \A e \in Event : Claimed(e)' \in Nat /\ Claimed(e)' <= Claimed(e),
         ScansDue' <= ScansDue,
         MarksStick /\ pc' \notin Ended /\ ~ctxDone' =>
            ~ctxDone /\ Pending' \ ToSet(batch') \subseteq Pending \ ToSet(batch)
  PROVE  DuplicatesInv'
<1>1. ASSUME NEW e \in Event
      PROVE  /\ Claimed(e)' + ScansDue' <= boots' + drops' + 1
             /\ MarksStick =>
                  /\ Claimed(e)' <= boots' + 1
                  /\ pc' \notin Ended /\ ~ctxDone' /\ e \in Pending' \ ToSet(batch') =>
                       Claimed(e)' <= boots'
  <2>1. ScansDue' \in 0..2 /\ ScansDue \in 0..2
    BY DEF ScansDue
  <2>2. Claimed(e) \in Nat /\ boots \in Nat /\ drops \in Nat
    BY ClaimsNat DEF DuplicatesInv, TypeOK
  <2> QED BY <2>1, <2>2 DEF DuplicatesInv
<1> QED BY <1>1 DEF DuplicatesInv

LEMMA DuplicatesStep == DuplicatesInv /\ [Next]_vars => DuplicatesInv'
<1> SUFFICES ASSUME DuplicatesInv, [Next]_vars PROVE DuplicatesInv'
  OBVIOUS
<1>t. TypeOK /\ TypeOK'
  BY TypeStep DEF DuplicatesInv
<1>i. /\ queue \in Seq(Event) /\ batch \in Seq(Event)
      /\ IsInjective(queue) /\ IsInjective(batch)
      /\ ToSet(queue) \cup ToSet(batch) \subseteq Committed
      /\ \A e \in Event : Delivered(e) => e \in Committed
      /\ pc \in Reconnecting => conn # "listening"
      /\ pc \notin Ended => boots > 0
  BY <1>t DEF DuplicatesInv, TypeOK, ListenerTypeOK
<1> USE DEF Goto, listenerVars, tableVars, runVars
(* Steps that move no event.                                               *)
<1>a. ASSUME UNCHANGED <<status, topics, batch, boots, drops>>,
             queue' = queue \/ queue' = <<>>,
             pc \in {"ack", "complete", "fail"} => pc' \in {"ack", "complete", "fail"},
             pc' \in Reconnecting => conn' # "listening",
             pc' \notin Ended => pc \notin Ended,
             ScansDue' <= ScansDue,
             ~ctxDone' => ~ctxDone
      PROVE  DuplicatesInv'
  <2>1. Committed' = Committed /\ Pending' = Pending
    BY <1>a DEF Committed, Pending
  <2>2. \A e \in Event : Delivered(e)' = Delivered(e)
    BY <1>a, CopiesUnchanged
  <2>3. IsInjective(queue') /\ ToSet(queue') \subseteq ToSet(queue)
    BY <1>a, <1>i, EmptyIsInjective, ToSetEmpty
  <2>4. Unpublished' \subseteq Unpublished
    <3>1. CASE pc \in {"ack", "complete", "fail"} \/ pc' \notin {"ack", "complete", "fail"}
      BY <1>a, <3>1 DEF Unpublished
    <3>2. CASE pc \notin {"ack", "complete", "fail"} /\ pc' \in {"ack", "complete", "fail"}
      <4>1. batch # <<>>
        BY <1>a, <1>t, <3>2 DEF TypeOK, Working
      <4> QED BY <1>a, <1>i, <3>2, <4>1, ToSetHeadTail DEF Unpublished
    <3> QED BY <3>1, <3>2
  <2>5. \A e \in Event : Claimed(e)' \in Nat /\ Claimed(e)' <= Claimed(e)
    BY <1>a, <1>t, <2>1, <2>3, <2>4, ClaimsKept
  <2> QED BY <1>a, <1>i, <1>t, <2>1, <2>2, <2>3, <2>5, BoundKept
<1>1. CASE StartListening \/ ReconnectListen
  <2>1. /\ UNCHANGED <<status, topics, queue, batch, boots, drops, ctxDone>>
        /\ pc \in {"start", "relisten"} /\ conn = "open"
        /\ pc' = "scan" /\ conn' = "listening"
    BY <1>1 DEF StartListening, ReconnectListen, Listen
  <2>2. ScansDue' <= ScansDue
    BY <2>1 DEF ScansDue, Loop, Working, Reconnecting
  <2> QED
    BY <1>a, <1>t, <2>1, <2>2 DEF Reconnecting, Ended, Down, Working, TypeOK
<1>2. CASE StartFails \/ SelectStop \/ WaitCancelled \/ BackoffStopped
  <2>1. /\ UNCHANGED <<status, topics, batch, boots, drops>>
        /\ queue' = queue \/ queue' = <<>>
        /\ pc \in {"start", "select", "wait", "backoff"}
        /\ ~ctxDone' => ~ctxDone
        /\ pc' \in {"noPoller", "returned"}
    BY <1>2 DEF StartFails, ListenFails, SelectStop, Close, WaitCancelled, BackoffStopped
  <2>2. ScansDue' = 0 /\ ScansDue \in 0..2
    BY <2>1 DEF ScansDue, Loop, Working, Reconnecting
  <2> QED BY <1>a, <2>1, <2>2 DEF Reconnecting, Ended, Down
<1>3. CASE \/ ScanFails \/ SelectContinue \/ GetEvent \/ WaitError
           \/ PublishNotSent \/ PublishAcked \/ PublishUnacked
           \/ BackoffElapsed \/ ReconnectListenFails
           \/ ReconnectClose \/ ReconnectConnect \/ ReconnectConnectFails
  <2>1. /\ UNCHANGED <<status, topics, batch, boots, drops, ctxDone>>
        /\ queue' = queue \/ queue' = <<>>
        /\ pc \in {"scan"} \cup Loop \cup Reconnecting
        /\ pc' \in Loop \cup Reconnecting
    BY <1>3 DEF ScanFails, SelectContinue, GetEvent, WaitError, WaitFails,
         PublishNotSent, PublishAcked, PublishUnacked, BackoffElapsed,
         ReconnectListenFails, ListenFails, ReconnectClose, ReconnectConnect,
         ReconnectConnectFails, Close, Connect, ConnectFails, Loop, Working,
         Reconnecting
  <2>2. /\ pc \in {"ack", "complete", "fail"} => pc' \in {"ack", "complete", "fail"}
        /\ pc' \in Reconnecting => conn' # "listening"
        /\ conn' # "listening" => conn # "listening"
    BY <1>3, <1>i DEF ScanFails, SelectContinue, GetEvent, WaitError, WaitFails,
         PublishNotSent, PublishAcked, PublishUnacked, BackoffElapsed,
         ReconnectListenFails, ListenFails, ReconnectClose, ReconnectConnect,
         ReconnectConnectFails, Close, Connect, ConnectFails, Loop, Working,
         Reconnecting
  <2>3. ScansDue' <= ScansDue
    BY <2>1, <2>2 DEF ScansDue, Loop, Working, Reconnecting
  <2> QED
    BY <1>a, <2>1, <2>2, <2>3 DEF Loop, Working, Reconnecting, Ended, Down
<1>4. CASE \/ CancelContext \/ CloseStopCh \/ UNCHANGED vars
           \/ \E n \in RpcLimits : \E b \in PollResults(n) : BeginPollPendingEvents(b)
           \/ EndPollPendingEvents
  <2>1. /\ UNCHANGED <<status, topics, queue, conn, batch, boots, drops, pc>>
        /\ ~ctxDone' => ~ctxDone
    BY <1>4 DEF CancelContext, CloseStopCh, BeginPollPendingEvents, PollRPCBegin,
         EndPollPendingEvents, PollRPCEnd, vars
  <2>2. ScansDue' = ScansDue /\ ScansDue \in 0..2
    BY <2>1 DEF ScansDue
  <2> QED BY <1>a, <1>i, <2>1, <2>2
<1>5. CASE WaitPanics \/ Crash \/ Exit
  <2>1. /\ UNCHANGED <<status, topics, boots, drops>>
        /\ queue' = <<>> /\ batch' = <<>>
        /\ pc' \in Down /\ pc' \notin {"ack", "complete", "fail"}
    BY <1>5 DEF WaitPanics, Crash, Exit, ProcessGone, Close, Down
  <2>2. ScansDue' = 0 /\ ScansDue \in 0..2
    BY <2>1 DEF ScansDue, Down, Loop, Working, Reconnecting
  <2>3. Committed' = Committed /\ Pending' = Pending
    BY <2>1 DEF Committed, Pending
  <2>4. ToSet(queue') = {} /\ ToSet(batch') = {} /\ Unpublished' = {}
    BY <2>1, ToSetEmpty DEF Unpublished
  <2>5. \A e \in Event : Claimed(e)' \in Nat /\ Claimed(e)' <= Claimed(e)
    BY <1>t, <2>1, <2>3, <2>4, ClaimsKept
  <2>6. \A e \in Event : Delivered(e)' = Delivered(e)
    BY <2>1, CopiesUnchanged
  <2>7. IsInjective(queue') /\ IsInjective(batch')
    BY <2>1, EmptyIsInjective
  <2>8. pc' \in Ended /\ pc' \notin Reconnecting
    BY <2>1 DEF Ended, Down, Reconnecting
  <2> QED
    BY <1>i, <1>t, <2>1, <2>2, <2>3, <2>4, <2>5, <2>6, <2>7, <2>8, BoundKept
<1>6. ASSUME NEW b \in PollResults(PollLimit), ScanBacklog(b) PROVE DuplicatesInv'
  <2>1. /\ pc = "scan" /\ ~ctxDone /\ pc' \in {"select", "publish"} /\ batch' = b
        /\ UNCHANGED <<status, conn, queue, topics, ctxDone, boots, drops>>
    BY <1>6 DEF ScanBacklog, MaySucceed, ProcessAll
  <2>2. b \in Seq(Event) /\ ToSet(b) \subseteq Pending /\ IsInjective(b)
    BY <1>t, ListenerAssumption, PollResultsAreRows, PollResultsAreInjective DEF TypeOK
  <2>3. Committed' = Committed /\ Pending' = Pending /\ Pending \subseteq Committed
    BY <2>1 DEF Committed, Pending, EventStatus
  <2>4. /\ Unpublished = {} /\ Unpublished' = ToSet(b) /\ ToSet(batch) = {}
        /\ ScansDue = ScansDue' + 1 /\ ScansDue' \in 0..1
    BY <1>t, <2>1, ToSetEmpty
       DEF Unpublished, ScansDue, TypeOK, Loop, Working, Reconnecting
  <2>5. \A e \in Event : /\ Delivered(e)' = Delivered(e) /\ Copies(e)' = Copies(e)
                         /\ Copies(e) \in Nat
    BY <1>t, <2>1, CopiesUnchanged, CopiesNat DEF TypeOK
  <2>6. ASSUME NEW e \in Event
        PROVE  /\ Claimed(e) \in Nat /\ Claimed(e)' \in Nat
               /\ Claimed(e)' = IF e \in ToSet(b) THEN Claimed(e) + 1 ELSE Claimed(e)
    BY <2>1, <2>3, <2>4, <2>5 DEF Claimed
  <2>7. ASSUME NEW e \in Event
        PROVE  /\ Claimed(e)' + ScansDue' <= boots' + drops' + 1
               /\ MarksStick =>
                    /\ Claimed(e)' <= boots' + 1
                    /\ pc' \notin Ended /\ ~ctxDone' /\ e \in Pending' \ ToSet(batch') =>
                         Claimed(e)' <= boots'
    <3>1. /\ Claimed(e) + ScansDue <= boots + drops + 1
          /\ MarksStick => /\ Claimed(e) <= boots + 1
                           /\ e \in Pending => Claimed(e) <= boots
      BY <2>1, <2>4 DEF DuplicatesInv, Ended, Down
    <3>2. boots \in Nat /\ drops \in Nat
      BY <1>t DEF TypeOK
    <3> QED BY <2>1, <2>2, <2>3, <2>4, <2>6, <3>1, <3>2
  <2>8. pc \notin Ended /\ pc' \notin Reconnecting
    BY <2>1 DEF Ended, Down, Reconnecting
  <2> QED BY <1>i, <1>t, <2>1, <2>2, <2>3, <2>5, <2>7, <2>8 DEF DuplicatesInv
<1>7. ASSUME NEW e \in Event, WaitNotified(e) PROVE DuplicatesInv'
  <2>1. /\ pc = "wait" /\ queue # <<>> /\ e = Head(queue) /\ queue' = Tail(queue)
        /\ batch' = <<e>> /\ pc' = "get"
        /\ UNCHANGED <<status, conn, topics, ctxDone, boots, drops>>
    BY <1>7, ToSetSingle DEF WaitNotified, Take, ProcessAll
  <2>2. /\ ToSet(queue) = {e} \cup ToSet(queue') /\ e \notin ToSet(queue')
        /\ IsInjective(queue') /\ IsInjective(batch') /\ ToSet(batch') = {e}
    BY <1>i, <2>1, ToSetHeadTail, TailKeepsInjective, SingleIsInjective, ToSetSingle
  <2>3. Committed' = Committed /\ Pending' = Pending
    BY <2>1 DEF Committed, Pending
  <2>4. /\ Unpublished = {} /\ Unpublished' = {e} /\ ToSet(batch) = {}
        /\ ScansDue' = ScansDue /\ ScansDue \in 0..2
    BY <1>t, <2>1, <2>2, ToSetEmpty
       DEF Unpublished, ScansDue, TypeOK, Loop, Working, Reconnecting
  <2>5. \A f \in Event : /\ Delivered(f)' = Delivered(f) /\ Copies(f)' = Copies(f)
                         /\ Copies(f) \in Nat
    BY <1>t, <2>1, CopiesUnchanged, CopiesNat DEF TypeOK
  <2>6. \A f \in Event : Claimed(f)' \in Nat /\ Claimed(f)' <= Claimed(f)
    <3> TAKE f \in Event
    <3>1. CASE f = e
      BY <1>i, <2>2, <2>3, <2>4, <2>5, <3>1 DEF Claimed
    <3>2. CASE f # e
      BY <2>2, <2>3, <2>4, <2>5, <3>2 DEF Claimed
    <3> QED BY <3>1, <3>2
  <2>7. pc \notin Ended /\ pc' \notin Reconnecting
    BY <2>1 DEF Ended, Down, Reconnecting
  <2> QED
    BY <1>i, <1>t, <2>1, <2>2, <2>3, <2>4, <2>5, <2>6, <2>7, BoundKept
(* Steps that finish an event.                                             *)
<1>8. ASSUME pc \in {"get", "complete", "fail"}, batch' = Tail(batch),
             pc' \in {"select", "publish"},
             UNCHANGED <<conn, queue, topics, ctxDone, boots, drops>>,
             Committed' = Committed,
             MarksStick /\ ~ctxDone =>
                Pending' \ ToSet(batch') \subseteq Pending \ ToSet(batch)
      PROVE  DuplicatesInv'
  <2>1. batch # <<>>
    BY <1>8, <1>t DEF TypeOK, Working
  <2>2. /\ IsInjective(batch') /\ ToSet(batch') \subseteq ToSet(batch)
        /\ Unpublished' \subseteq Unpublished
    BY <1>8, <1>i, <2>1, ToSetHeadTail, TailKeepsInjective DEF Unpublished
  <2>3. ScansDue' = ScansDue /\ ScansDue \in 0..2
    BY <1>8 DEF ScansDue, Loop, Working, Reconnecting
  <2>4. \A e \in Event : Claimed(e)' \in Nat /\ Claimed(e)' <= Claimed(e)
    BY <1>8, <1>t, <2>2, ClaimsKept
  <2>5. \A e \in Event : Delivered(e)' = Delivered(e)
    BY <1>8, CopiesUnchanged
  <2>6. pc \notin Ended /\ pc' \notin Reconnecting
    BY <1>8 DEF Ended, Down, Reconnecting
  <2> QED BY <1>8, <1>i, <1>t, <2>2, <2>3, <2>4, <2>5, <2>6, BoundKept
<1>9. CASE GetFails \/ MarkFails
  <2>1. /\ pc \in {"get", "complete", "fail"} /\ batch' = Tail(batch)
        /\ pc' \in {"select", "publish"}
        /\ UNCHANGED <<status, conn, queue, topics, ctxDone, boots, drops>>
        /\ MarksStick => ctxDone
    BY <1>9 DEF GetFails, MarkFails, ProcessAll, MayFail, MarksStick
  <2> QED BY <1>8, <2>1 DEF Committed
<1>10. CASE MarkCompleted \/ MarkEventFailed
  <2>1. PICK s \in EventStatus \ {"pending"} :
           status' = [status EXCEPT ![Current] = s]
    BY <1>10 DEF MarkCompleted, MarkEventFailed, SetStatus, EventStatus
  <2>2. /\ pc \in {"get", "complete", "fail"} /\ batch' = Tail(batch)
        /\ pc' \in {"select", "publish"}
        /\ UNCHANGED <<conn, queue, topics, ctxDone, boots, drops>>
    BY <1>10 DEF MarkCompleted, MarkEventFailed, SetStatus, ProcessAll
  <2>3. Current \in Event /\ ToSet(batch) = {Current} \cup ToSet(Tail(batch))
    BY <1>i, <1>t, <2>2, BatchType, ToSetHeadTail DEF Working, Current, TypeOK
  <2>4. Current \in Committed
    BY <1>i, <2>3
  <2>5. Committed' = Committed /\ Pending' = Pending \ {Current}
    BY <1>t, <2>1, <2>3, <2>4 DEF Committed, Pending, TypeOK, TableTypeOK
  <2> QED BY <1>8, <2>2, <2>3, <2>5
<1>11. CASE PublishSent
  <2>1. /\ pc = "publish" /\ pc' = "ack" /\ Produce(Current)
        /\ UNCHANGED <<status, conn, queue, batch, ctxDone, boots, drops>>
    BY <1>11 DEF PublishSent
  <2>2. /\ Current \in Event /\ ToSet(batch) = {Current} \cup ToSet(Tail(batch))
        /\ Current \notin ToSet(Tail(batch))
    BY <1>i, <1>t, <2>1, BatchType, ToSetHeadTail, TailKeepsInjective
       DEF Working, Current, TypeOK
  <2>3. Committed' = Committed /\ Pending' = Pending /\ Current \in Committed
    BY <1>i, <2>1, <2>2 DEF Committed, Pending
  <2>4. /\ Unpublished = ToSet(batch) /\ Unpublished' = ToSet(Tail(batch))
        /\ ScansDue' = ScansDue /\ ScansDue \in 0..2
    BY <2>1 DEF Unpublished, ScansDue, Loop, Working, Reconnecting
  <2>5. \A e \in Event : /\ Copies(e) \in Nat
                         /\ Copies(e)' = IF e = Current THEN Copies(e) + 1 ELSE Copies(e)
    BY <1>t, <2>1, <2>2, CopiesNat, ProduceCopies DEF TypeOK
  <2>6. \A e \in Event : Claimed(e)' \in Nat /\ Claimed(e)' <= Claimed(e)
    <3> TAKE e \in Event
    <3>1. CASE e = Current
      BY <2>1, <2>2, <2>3, <2>4, <2>5, <3>1 DEF Claimed
    <3>2. CASE e # Current
      BY <2>1, <2>2, <2>3, <2>4, <2>5, <3>2 DEF Claimed
    <3> QED BY <3>1, <3>2
  <2>7. \A e \in Event : Delivered(e)' => e \in Committed'
    BY <1>i, <1>t, <2>1, <2>2, <2>3, ProduceDeliversOnly DEF TypeOK
  <2>8. pc \notin Ended /\ pc' \notin Reconnecting
    BY <2>1 DEF Ended, Down, Reconnecting
  <2> QED
    BY <1>i, <1>t, <2>1, <2>3, <2>4, <2>6, <2>7, <2>8, BoundKept
<1>12. ASSUME NEW e \in Event, BeginCreateEvent(e) PROVE DuplicatesInv'
  <2>1. /\ status[e] = "absent" /\ status' = [status EXCEPT ![e] = "inserting"]
        /\ UNCHANGED <<conn, queue, topics, pc, batch, ctxDone, boots, drops>>
    BY <1>12 DEF BeginCreateEvent, CreateEventBegin
  <2>2. Committed' = Committed /\ Pending' = Pending
    BY <1>t, <2>1 DEF Committed, Pending, TypeOK, TableTypeOK, EventStatus
  <2>3. Unpublished' = Unpublished /\ ScansDue' = ScansDue /\ ScansDue \in 0..2
    BY <2>1 DEF Unpublished, ScansDue
  <2>4. \A f \in Event : Claimed(f)' \in Nat /\ Claimed(f)' <= Claimed(f)
    BY <1>t, <2>1, <2>2, <2>3, ClaimsKept
  <2>5. \A f \in Event : Delivered(f)' = Delivered(f)
    BY <2>1, CopiesUnchanged
  <2> QED BY <1>i, <1>t, <2>1, <2>2, <2>3, <2>4, <2>5, BoundKept
<1>13. ASSUME NEW e \in Event, CommitCreateEvent(e) PROVE DuplicatesInv'
  <2>1. /\ status[e] = "inserting" /\ status' = [status EXCEPT ![e] = "pending"]
        /\ queue' = IF conn = "listening" THEN Append(queue, e) ELSE queue
        /\ UNCHANGED <<conn, topics, pc, batch, ctxDone, boots, drops>>
    BY <1>13 DEF CommitCreateEvent, CreateEventCommit, Notify
  <2>2. /\ Committed' = Committed \cup {e} /\ Pending' = Pending \cup {e}
        /\ e \notin Committed
    BY <1>t, <2>1 DEF Committed, Pending, TypeOK, TableTypeOK, EventStatus
  <2>3. /\ ToSet(queue') \subseteq ToSet(queue) \cup {e} /\ IsInjective(queue')
    BY <1>i, <2>1, <2>2, ToSetAppend, AppendKeepsInjective
  <2>4. Unpublished' = Unpublished /\ ScansDue' = ScansDue /\ ScansDue \in 0..2
    BY <2>1 DEF Unpublished, ScansDue
  <2>5. \A f \in Event : Claimed(f)' \in Nat /\ Claimed(f)' <= Claimed(f)
    BY <1>t, <2>1, <2>2, <2>3, <2>4, ClaimsKept
  <2>6. \A f \in Event : /\ Delivered(f)' = Delivered(f) /\ Copies(f)' = Copies(f)
                         /\ Copies(f) \in Nat
    BY <1>t, <2>1, CopiesUnchanged, CopiesNat DEF TypeOK
  <2>7. Claimed(e)' <= 1
    <3>1. e \notin Unpublished
      BY <1>i, <2>2, ToSetHeadTail, <1>t DEF Unpublished, TypeOK, Working
    <3>2. Copies(e) = 0
      BY <1>i, <1>t, <2>2, CopiesNat DEF TypeOK
    <3> QED BY <2>4, <2>6, <3>1, <3>2 DEF Claimed
  <2>8. boots \in Nat /\ drops \in Nat
    BY <1>t DEF TypeOK
  <2>9. ASSUME NEW f \in Event
        PROVE  /\ Claimed(f)' + ScansDue' <= boots' + drops' + 1
               /\ MarksStick =>
                    /\ Claimed(f)' <= boots' + 1
                    /\ pc' \notin Ended /\ ~ctxDone' /\ f \in Pending' \ ToSet(batch') =>
                         Claimed(f)' <= boots'
    <3>1. Claimed(f) \in Nat
      BY <1>t, ClaimsNat
    <3>2. CASE f = e
      BY <1>i, <2>1, <2>4, <2>5, <2>7, <2>8, <3>1, <3>2 DEF DuplicatesInv
    <3>3. CASE f # e
      BY <2>1, <2>2, <2>4, <2>5, <2>8, <3>1, <3>3 DEF DuplicatesInv
    <3> QED BY <3>2, <3>3
  <2> QED BY <1>i, <1>t, <2>1, <2>2, <2>3, <2>6, <2>9 DEF DuplicatesInv
<1>14. ASSUME NEW e \in Event, NEW s \in ClientStatuses, UpdateEventStatus(e, s)
       PROVE  DuplicatesInv'
  <2>1. /\ e \in Committed /\ status' = [status EXCEPT ![e] = s] /\ s \in EventStatus
        /\ UNCHANGED <<conn, queue, topics, pc, batch, ctxDone, boots, drops>>
        /\ MarksStick => s # "pending"
    BY <1>14, TableAssumption
       DEF UpdateEventStatus, UpdateEventStatusRPC, SetStatus, MarksStick
  <2>2. MarksStick => Pending' \subseteq Pending
    BY <1>t, <2>1 DEF Committed, Pending, TypeOK, TableTypeOK
  <2>3. Committed' = Committed
    BY <1>t, <2>1 DEF Committed, TypeOK, TableTypeOK
  <2>4. Unpublished' = Unpublished /\ ScansDue' = ScansDue /\ ScansDue \in 0..2
    BY <2>1 DEF Unpublished, ScansDue
  <2>5. \A f \in Event : Claimed(f)' \in Nat /\ Claimed(f)' <= Claimed(f)
    BY <1>t, <2>1, <2>3, <2>4, ClaimsKept
  <2>6. \A f \in Event : Delivered(f)' = Delivered(f)
    BY <2>1, CopiesUnchanged
  <2> QED BY <1>i, <1>t, <2>1, <2>2, <2>3, <2>4, <2>5, <2>6, BoundKept
(* Steps that pay for a scan.                                              *)
<1>15. ASSUME UNCHANGED <<status, topics>>,
              batch' = batch \/ batch' = <<>>, pc' = pc \/ pc' = "start",
              batch' = batch => Unpublished' = Unpublished,
              IsInjective(queue'), ToSet(queue') \subseteq ToSet(queue),
              \/ boots' = boots + 1 /\ drops' = drops
              \/ /\ boots' = boots /\ drops' = drops + 1
                 /\ pc' = pc /\ batch' = batch /\ ctxDone' = ctxDone,
              ScansDue' <= ScansDue + 1,
              pc' \in Reconnecting => conn' # "listening"
       PROVE  DuplicatesInv'
  <2>1. Committed' = Committed /\ Pending' = Pending
    BY <1>15 DEF Committed, Pending
  <2>2. /\ IsInjective(batch') /\ ToSet(batch') \subseteq ToSet(batch)
        /\ Unpublished' \subseteq Unpublished
    <3>1. CASE batch' = batch
      BY <1>15, <1>i, <3>1
    <3>2. CASE batch' = <<>> /\ pc' = "start"
      BY <3>2, EmptyIsInjective, ToSetEmpty DEF Unpublished
    <3>3. CASE batch' = <<>> /\ pc' = pc /\ batch # <<>>
      BY <1>t, <3>3 DEF TypeOK
    <3> QED BY <1>15, <3>1, <3>2, <3>3
  <2>3. \A e \in Event : Claimed(e)' \in Nat /\ Claimed(e)' <= Claimed(e)
    BY <1>15, <1>t, <2>1, <2>2, ClaimsKept
  <2>4. \A e \in Event : Delivered(e)' = Delivered(e)
    BY <1>15, CopiesUnchanged
  <2>5. ASSUME NEW e \in Event
        PROVE  /\ Claimed(e)' + ScansDue' <= boots' + drops' + 1
               /\ MarksStick =>
                    /\ Claimed(e)' <= boots' + 1
                    /\ pc' \notin Ended /\ ~ctxDone' /\ e \in Pending' \ ToSet(batch') =>
                         Claimed(e)' <= boots'
    <3>1. /\ Claimed(e) \in Nat /\ boots \in Nat /\ drops \in Nat
          /\ ScansDue \in 0..2 /\ ScansDue' \in 0..2
      BY <1>t, ClaimsNat DEF TypeOK, ScansDue
    <3>2. /\ Claimed(e)' \in Nat /\ Claimed(e)' <= Claimed(e)
          /\ Claimed(e) + ScansDue <= boots + drops + 1
          /\ MarksStick => Claimed(e) <= boots + 1
      BY <2>3 DEF DuplicatesInv
    <3>3. Claimed(e)' + ScansDue' <= boots' + drops' + 1
      <4>1. CASE boots' = boots + 1 /\ drops' = drops
        BY <1>15, <3>1, <3>2, <4>1
      <4>2. CASE boots' = boots /\ drops' = drops + 1
        BY <1>15, <3>1, <3>2, <4>2
      <4> QED BY <1>15, <4>1, <4>2
    <3>4. MarksStick => Claimed(e)' <= boots' + 1
      BY <1>15, <3>1, <3>2
    <3>5. ASSUME MarksStick, pc' \notin Ended, ~ctxDone', e \in Pending' \ ToSet(batch')
          PROVE  Claimed(e)' <= boots'
      <4>1. CASE boots' = boots + 1
        BY <1>15, <3>1, <3>2, <3>5, <4>1
      <4>2. CASE pc' = pc /\ batch' = batch /\ ctxDone' = ctxDone
        <5>1. Claimed(e) <= boots
          BY <2>1, <3>5, <4>2 DEF DuplicatesInv
        <5> QED BY <1>15, <3>1, <3>2, <5>1
      <4> QED BY <1>15, <4>1, <4>2
    <3> QED BY <3>3, <3>4, <3>5
  <2>6. pc' \notin Ended => boots' > 0
    BY <1>15, <1>i, <1>t DEF TypeOK
  <2> QED BY <1>15, <1>i, <1>t, <2>1, <2>2, <2>4, <2>5, <2>6 DEF DuplicatesInv
<1>16. CASE Boot
  <2>1. /\ pc \in Down /\ pc' = "start" /\ boots' = boots + 1 /\ batch' = <<>>
        /\ queue' = <<>> /\ conn' = "open" /\ UNCHANGED <<status, topics, drops>>
    BY <1>16 DEF Boot, Connect
  <2>2. batch = <<>> /\ boots \in Nat /\ drops \in Nat
    BY <1>t, <2>1 DEF TypeOK, Down, Working
  <2>3. Unpublished' = Unpublished /\ IsInjective(queue') /\ ToSet(queue') = {}
    BY <2>1, <2>2, ToSetEmpty, EmptyIsInjective DEF Unpublished, Down
  <2>4. ScansDue = 0 /\ ScansDue' = 1
    BY <2>1 DEF ScansDue, Down, Loop, Working, Reconnecting
  <2> QED BY <1>15, <2>1, <2>2, <2>3, <2>4
<1>17. CASE ConnectionDrops
  <2>1. /\ drops' = drops + 1 /\ conn' = "broken"
        /\ UNCHANGED <<status, topics, pc, batch, ctxDone, boots>>
    BY <1>17 DEF ConnectionDrops, Drop
  <2>2. PICK n \in 0..Len(queue) : queue' = SubSeq(queue, 1, n)
    BY <1>17 DEF ConnectionDrops, Drop
  <2>3. IsInjective(queue') /\ ToSet(queue') \subseteq ToSet(queue)
    BY <1>i, <2>2, PrefixIsSeq, PrefixKeepsInjective
  <2>4. Unpublished' = Unpublished /\ ScansDue' <= ScansDue + 1
    BY <2>1 DEF Unpublished, ScansDue
  <2>5. boots \in Nat /\ drops \in Nat
    BY <1>t DEF TypeOK
  <2> QED BY <1>15, <2>1, <2>3, <2>4, <2>5
<1> QED
  BY <1>1, <1>2, <1>3, <1>4, <1>5, <1>6, <1>7, <1>9, <1>10, <1>11, <1>12, <1>13,
     <1>14, <1>16, <1>17
     DEF Next, RunStep, RPC, Process

LEMMA DuplicatesInit == Init => DuplicatesInv
<1> SUFFICES ASSUME Init PROVE DuplicatesInv
  OBVIOUS
<1>1. TypeOK
  BY TypeInit
<1>2. /\ queue = <<>> /\ batch = <<>> /\ pc = "down" /\ boots = 0 /\ drops = 0
      /\ topics = [t \in EventType |-> <<>>]
  BY DEF Init, TopicsInit
<1>3. \A e \in Event : ~Delivered(e)
  BY <1>2, EventsAssumption, ToSetEmpty DEF Delivered, TopicForEventType
<1>4. Unpublished = {} /\ ScansDue = 0
  BY <1>2, ToSetEmpty DEF Unpublished, ScansDue, Loop, Working, Reconnecting
<1>5. \A e \in Event : Claimed(e) \in Nat /\ Claimed(e) <= 1
  <2> TAKE e \in Event
  <2>1. Copies(e) = 0
    BY <1>1, <1>3, CopiesNat DEF TypeOK
  <2> QED BY <1>4, <2>1 DEF Claimed
<1>6. pc \in Ended /\ pc \notin Reconnecting
  BY <1>2 DEF Ended, Down, Reconnecting
<1> QED
  BY <1>1, <1>2, <1>3, <1>4, <1>5, <1>6, ToSetEmpty, EmptyIsInjective
     DEF DuplicatesInv

(* Every start and every lost connection costs an event at most one more   *)
(* record, whatever fails and whatever clients write; where marks stick a  *)
(* lost connection costs it none.                                          *)
THEOREM RecordsBounded == Spec => []BoundedDuplicates
<1>1. DuplicatesInv => BoundedDuplicates
  <2> SUFFICES ASSUME DuplicatesInv, NEW e \in Event
               PROVE  /\ Copies(e) <= boots + drops + 1
                      /\ MarksStick => Copies(e) <= boots + 1
    BY DEF BoundedDuplicates
  <2>1. /\ Copies(e) \in Nat /\ Claimed(e) \in Nat /\ Copies(e) <= Claimed(e)
        /\ boots \in Nat /\ drops \in Nat /\ ScansDue \in 0..2
    BY ClaimsNat DEF DuplicatesInv, TypeOK, ScansDue
  <2> QED BY <2>1 DEF DuplicatesInv
<1> QED BY <1>1, DuplicatesInit, DuplicatesStep, PTL DEF Spec
-----------------------------------------------------------------------------
(* Order within a topic.                                                   *)

(* The history keeps who was disturbed, and adds who is relabelled.        *)
Remembers ==
  /\ disturbed \subseteq disturbed'
  /\ \A e \in Committed : status'[e] # status[e] =>
       Delivered(e)' \/ e \in disturbed'

(* Nobody joins the line but by committing.                                *)
LEMMA LineShrinks ==
  ASSUME Remembers, Committed' = Committed,
         \A e \in Event : Delivered(e) => Delivered(e)'
  PROVE  InLine' \subseteq InLine
BY DEF Remembers, InLine, Committed

(* A step that commits no event and produces no record preserves the       *)
(* invariant if the poller's events stay in turn.                          *)
LEMMA OrderKept ==
  ASSUME OrderInv, PublishInv', Remembers, UNCHANGED topics,
         Committed' = Committed,
         \A e \in Committed : createdAt'[e] = createdAt[e],
         pc' \in {"relisten", "backoff"} => conn' # "listening" /\ queue' = <<>>,
         pc' \in Loop /\ ~ctxDone' => InTurn'
  PROVE  OrderInv'
<1>1. \A e \in Event : Delivered(e)' = Delivered(e)
  BY CopiesUnchanged
<1>2. \A e, f \in Event : DeliveredBefore(e, f)' = DeliveredBefore(e, f)
  BY DEF DeliveredBefore, TopicForEventType
<1>3. InLine' \subseteq InLine
  BY <1>1, LineShrinks
<1>4. InLine' \subseteq Pending'
  BY <1>3 DEF Remembers, OrderInv, InLine, Pending, Committed
<1>5. (Committed \ disturbed)' \subseteq Committed \ disturbed
  BY DEF Remembers
<1>6. ASSUME NEW e \in (Committed \ disturbed)', NEW f \in Event,
             createdAt'[e] < createdAt'[f], Delivered(f)'
      PROVE  Delivered(e)' /\ (TypeOf[e] = TypeOf[f] => DeliveredBefore(e, f)')
  <2>1. Delivered(f) /\ f \in Committed /\ e \in Committed \ disturbed /\ e \in Event
    BY <1>1, <1>5, <1>6 DEF OrderInv, Committed
  <2>2. createdAt[e] < createdAt[f]
    BY <1>6, <2>1
  <2> QED BY <1>1, <1>2, <2>1, <2>2 DEF OrderInv
<1>7. \A e \in Event : Delivered(e)' => e \in Committed'
  BY <1>1 DEF OrderInv
<1> QED BY <1>4, <1>6, <1>7 DEF OrderInv

(* What is in turn stays so if no event moves.                             *)
LEMMA InTurnKept ==
  ASSUME PublishInv, InTurn, InLine' \subseteq InLine,
         UNCHANGED <<queue, batch>>, conn' = "listening" => conn = "listening",
         \A e \in Committed : createdAt'[e] = createdAt[e]
  PROVE  InTurn'
<1>1. /\ \A i \in DOMAIN batch : batch[i] \in Committed
      /\ \A i \in DOMAIN queue : queue[i] \in Committed
  BY DEF PublishInv, ToSet
<1>2. \A e \in InLine' : e \in InLine /\ e \in Committed
  BY DEF InLine
<1> QED BY <1>1, <1>2 DEF InTurn

(* Nor does the end of the work on an event, if that is not in line.       *)
LEMMA InTurnTail ==
  ASSUME TypeOK, InTurn, InLine' \subseteq InLine, pc \in Working,
         Current \notin InLine',
         batch' = Tail(batch), UNCHANGED <<queue, conn, createdAt>>
  PROVE  InTurn'
<1>1. batch \in Seq(Event) /\ batch # <<>> /\ queue \in Seq(Event)
  BY DEF TypeOK, ListenerTypeOK
<1>2. ToSet(batch) = {Current} \cup ToSet(batch')
  BY <1>1, ToSetHeadTail DEF Current
<1>3. /\ DOMAIN batch = 1..Len(batch) /\ Len(batch) \in Nat
      /\ batch[1] = Current
      /\ DOMAIN batch' = 1..(Len(batch) - 1)
      /\ \A i \in 1..(Len(batch) - 1) : batch'[i] = batch[i + 1] /\ i + 1 \in DOMAIN batch
  BY <1>1, HeadTailProperties, EmptySeq, LenProperties DEF Current
<1>4. ASSUME NEW i \in DOMAIN batch', NEW e \in InLine',
             createdAt[e] < createdAt[batch'[i]]
      PROVE  \E j \in DOMAIN batch' : j < i /\ batch'[j] = e
  <2>1. PICK j \in DOMAIN batch : j < i + 1 /\ batch[j] = e
    BY <1>3, <1>4 DEF InTurn
  <2>2. j # 1
    BY <1>3, <1>4, <2>1
  <2>3. j - 1 \in DOMAIN batch' /\ j - 1 < i /\ batch'[j - 1] = e
    BY <1>3, <1>4, <2>1, <2>2
  <2> QED BY <2>3
<1>5. ASSUME NEW i \in DOMAIN queue, NEW e \in InLine',
             createdAt[e] < createdAt[queue[i]]
      PROVE  e \in ToSet(batch') \/ \E j \in DOMAIN queue : j < i /\ queue[j] = e
  <2>1. e \in ToSet(batch) \/ \E j \in DOMAIN queue : j < i /\ queue[j] = e
    BY <1>5 DEF InTurn
  <2> QED BY <1>2, <1>5, <2>1
<1>6. conn = "listening" => InLine' \subseteq ToSet(queue) \cup ToSet(batch')
  BY <1>2 DEF InTurn
<1> QED BY <1>4, <1>5, <1>6 DEF InTurn

LEMMA OrderStep == OrderInv /\ [OrderNext]_orderVars => OrderInv'
<1> SUFFICES ASSUME OrderInv, [OrderNext]_orderVars PROVE OrderInv'
  OBVIOUS
<1>n. [Next]_vars
  BY DEF OrderNext, orderVars
<1>p. PublishInv /\ PublishInv'
  BY <1>n, PublishStep DEF OrderInv
<1>t. TypeOK /\ TypeOK'
  BY <1>p DEF PublishInv
<1>b. /\ queue \in Seq(Event) /\ batch \in Seq(Event)
      /\ topics \in [EventType -> Seq(Event)] /\ TopicsTypeOK
      /\ status \in [Event -> EventStatus \cup {"absent", "inserting"}]
      /\ createdAt \in [Event -> Nat]
  BY <1>t DEF TypeOK, ListenerTypeOK, TopicsTypeOK, TableTypeOK
<1>r. Remembers
  <2>1. CASE Disturb
    BY <2>1 DEF Disturb, Remembers, Relabelled, Committed
  <2>2. CASE UNCHANGED orderVars
    BY <2>2 DEF orderVars, vars, tableVars, Remembers
  <2> QED BY <2>1, <2>2 DEF OrderNext
<1> USE DEF Goto, listenerVars, tableVars, runVars
(* Steps that change no row and produce nothing.                           *)
<1>a. ASSUME UNCHANGED <<topics, createdAt, status>>
      PROVE  /\ Committed' = Committed /\ InLine' \subseteq InLine
             /\ \A e \in Event : Delivered(e)' = Delivered(e)
  <2>1. Committed' = Committed /\ \A e \in Event : Delivered(e)' = Delivered(e)
    BY <1>a, CopiesUnchanged DEF Committed
  <2> QED BY <1>r, <2>1, LineShrinks
<1>c. ASSUME UNCHANGED <<topics, createdAt, status>>,
             pc' \in {"relisten", "backoff"} => conn' # "listening" /\ queue' = <<>>,
             pc' \in Loop /\ ~ctxDone' => InTurn'
      PROVE  OrderInv'
  BY <1>a, <1>c, <1>p, <1>r, OrderKept
<1>1. CASE \/ StartListening \/ StartFails \/ ReconnectListen
           \/ SelectStop \/ WaitCancelled \/ WaitError \/ WaitPanics
           \/ ReconnectClose \/ ReconnectConnect \/ ReconnectConnectFails
           \/ BackoffStopped \/ Boot \/ Crash \/ Exit
  <2>1. /\ UNCHANGED <<topics, createdAt, status>>
        /\ pc' \notin Loop
        /\ pc' \in {"relisten", "backoff"} => conn' # "listening" /\ queue' = <<>>
    BY <1>1 DEF StartListening, StartFails, ReconnectListen, SelectStop, WaitCancelled,
         WaitError, WaitPanics, ReconnectClose, ReconnectConnect,
         ReconnectConnectFails, BackoffStopped, Boot, Crash, Exit, ProcessGone,
         Connect, ConnectFails, Loop, Working
  <2> QED BY <1>c, <2>1
<1>2. ASSUME NEW b \in PollResults(PollLimit), ScanBacklog(b), Disturb PROVE OrderInv'
  <2>1. /\ pc = "scan" /\ ~ctxDone
        /\ batch' = b /\ pc' \in {"select", "publish"} /\ pc' \in Loop
        /\ UNCHANGED <<topics, createdAt, status, queue, conn>>
    BY <1>2 DEF ScanBacklog, ProcessAll, MaySucceed, Loop, Working
  <2>2. b \in Seq(Event) /\ DOMAIN b \subseteq Nat
    BY PollResultsAreRows, ListenerAssumption, LenProperties
  <2>3. InLine' \subseteq ToSet(b)
    <3>1. \A e \in Pending \ ToSet(b) : Delivered(e)' \/ e \in disturbed'
      BY <1>2, <2>1 DEF Disturb, LeftOut, Pending
    <3> QED BY <1>a, <2>1, <3>1 DEF OrderInv, InLine
  <2>4. ASSUME NEW i \in DOMAIN b, NEW e \in InLine', createdAt[e] < createdAt[b[i]]
        PROVE  \E j \in DOMAIN b : j < i /\ b[j] = e
    <3>1. PICK j \in DOMAIN b : b[j] = e
      BY <2>3, <2>4 DEF ToSet
    <3>2. \A k, l \in DOMAIN b : k < l => createdAt[b[k]] <= createdAt[b[l]]
      BY DEF PollResults, InOrder
    <3>3. createdAt[b[i]] \in Nat /\ createdAt[b[j]] \in Nat
      BY <1>b, <2>2
    <3>4. ~(i < j) /\ i # j
      BY <2>4, <3>1, <3>2, <3>3
    <3> QED BY <2>2, <3>1, <3>4
  <2>5. InTurn'
    BY <2>1, <2>3, <2>4 DEF InTurn
  <2> QED BY <1>c, <2>1, <2>5
<1>3. CASE ScanFails /\ Disturb
  <2>1. /\ pc = "scan" /\ pc' = "select" /\ pc' \in Loop /\ ctxDone' = ctxDone
        /\ UNCHANGED <<topics, createdAt, status, queue, conn, batch>>
    BY <1>3 DEF ScanFails, Loop, Working
  <2>2. batch = <<>> /\ ToSet(batch) = {}
    BY <1>t, <2>1, ToSetEmpty DEF TypeOK, Working
  <2>3. ASSUME ~ctxDone PROVE InLine' = {}
    <3>1. \A e \in Pending : Delivered(e)' \/ e \in disturbed'
      BY <1>3, <2>1, <2>2, <2>3 DEF Disturb, LeftOut, Pending
    <3> QED BY <1>a, <2>1, <3>1 DEF OrderInv, InLine
  <2>4. ~ctxDone' => InTurn'
    BY <2>1, <2>3 DEF InTurn
  <2> QED BY <1>c, <2>1, <2>4
(* Steps that end the work on an event.                                    *)
<1>4. CASE (GetFails \/ MarkFails \/ MarkCompleted \/ MarkEventFailed) /\ Disturb
  <2>1. /\ pc \in {"get", "complete", "fail"} /\ pc \in Working
        /\ pc' \in {"select", "publish"} /\ pc' \in Loop /\ pc \in Loop
        /\ batch' = Tail(batch)
        /\ UNCHANGED <<topics, createdAt, queue, conn, ctxDone>>
    BY <1>4 DEF GetFails, MarkFails, MarkCompleted, MarkEventFailed, SetStatus,
         ProcessAll, Loop, Working
  <2>2. PICK g \in Event : g = Current
    BY <1>t, <2>1, BatchType
  <2>3. batch # <<>> /\ g \in ToSet(batch) /\ batch' # batch
    <3>1. batch # <<>> /\ Len(Tail(batch)) = Len(batch) - 1 /\ Len(batch) \in Nat
      BY <1>b, <1>t, <2>1, HeadTailProperties, LenProperties DEF TypeOK
    <3>2. Head(batch) \in ToSet(batch)
      BY <1>b, <3>1, ToSetHeadTail
    <3>3. batch' # batch
      <4>1. Len(batch') = Len(batch) - 1
        BY <2>1, <3>1, Zenon
      <4>2. ASSUME NEW n \in Nat PROVE n - 1 # n
        OBVIOUS
      <4> QED BY <3>1, <4>1, <4>2, Zenon
    <3> QED BY <2>2, <3>1, <3>2, <3>3 DEF Current
  <2>4. Committed' = Committed
    <3>1. \/ status' = status
          \/ \E s \in EventStatus : status' = [status EXCEPT ![g] = s]
      BY <1>4, <2>2 DEF GetFails, MarkFails, MarkCompleted, MarkEventFailed, SetStatus,
           EventStatus
    <3>2. g \in Committed
      BY <1>p, <2>3 DEF PublishInv
    <3> QED BY <1>b, <3>1, <3>2 DEF Committed
  <2>5. \A e \in Event : Delivered(e)' = Delivered(e)
    BY <2>1, CopiesUnchanged
  <2>6. InLine' \subseteq InLine
    BY <1>r, <2>4, <2>5, LineShrinks
  <2>7. ASSUME ~ctxDone PROVE g \notin InLine'
    <3>1. CASE pc = "complete"
      <4>1. Delivered(g)
        BY <1>p, <2>2, <3>1 DEF PublishInv
      <4> QED BY <2>6, <4>1 DEF InLine
    <3>2. CASE pc \in {"get", "fail"}
      <4>1. GaveUpOn(g)
        BY <2>1, <2>2, <2>3, <2>7, <3>2 DEF GaveUpOn
      <4>2. Delivered(g)' \/ g \in disturbed'
        BY <1>4, <4>1 DEF Disturb
      <4> QED BY <4>2 DEF InLine
    <3> QED BY <2>1, <3>1, <3>2
  <2>8. ~ctxDone => InTurn'
    BY <1>t, <2>1, <2>2, <2>6, <2>7, InTurnTail DEF OrderInv
  <2> QED BY <1>p, <1>r, <2>1, <2>4, <2>8, OrderKept
(* Steps that move no event.                                               *)
<1>f. ASSUME UNCHANGED <<topics, queue, batch, conn>>, Committed' = Committed,
             \A e \in Committed : createdAt'[e] = createdAt[e],
             pc' \in Loop => pc \in Loop, ~ctxDone' => ~ctxDone,
             pc' \in {"relisten", "backoff"} => pc \in {"relisten", "backoff"}
      PROVE  OrderInv'
  <2>1. InLine' \subseteq InLine
    BY <1>f, <1>r, LineShrinks, CopiesUnchanged
  <2>2. pc' \in Loop /\ ~ctxDone' => InTurn'
    BY <1>f, <1>p, <2>1, InTurnKept DEF OrderInv
  <2> QED BY <1>f, <1>p, <1>r, <2>2, OrderKept DEF OrderInv
<1>5. CASE \/ SelectContinue \/ GetEvent \/ PublishNotSent \/ PublishAcked
           \/ PublishUnacked \/ CancelContext \/ CloseStopCh \/ EndPollPendingEvents
           \/ \E n \in RpcLimits : \E b \in PollResults(n) : BeginPollPendingEvents(b)
           \/ UNCHANGED vars
  <2>1. /\ UNCHANGED <<topics, queue, batch, conn, status, createdAt>>
        /\ pc' \in Loop => pc \in Loop
        /\ ~ctxDone' => ~ctxDone
        /\ pc' \in {"relisten", "backoff"} => pc \in {"relisten", "backoff"}
    BY <1>5 DEF SelectContinue, GetEvent, PublishNotSent, PublishAcked, PublishUnacked,
         CancelContext, CloseStopCh, EndPollPendingEvents, PollRPCEnd,
         BeginPollPendingEvents, PollRPCBegin, vars, Loop, Working
  <2> QED BY <1>a, <1>f, <2>1
<1>6. ASSUME NEW e \in Event, NEW s \in ClientStatuses, UpdateEventStatus(e, s)
      PROVE  OrderInv'
  <2>1. /\ e \in Committed /\ status' = [status EXCEPT ![e] = s] /\ s \in EventStatus
        /\ UNCHANGED <<topics, queue, batch, conn, createdAt, pc, ctxDone>>
    BY <1>6, TableAssumption DEF UpdateEventStatus, UpdateEventStatusRPC, SetStatus
  <2>2. Committed' = Committed
    BY <1>b, <2>1 DEF Committed
  <2> QED BY <1>f, <2>1, <2>2
<1>7. ASSUME NEW e \in Event, BeginCreateEvent(e) PROVE OrderInv'
  <2>1. /\ status[e] = "absent" /\ status' = [status EXCEPT ![e] = "inserting"]
        /\ createdAt' = [createdAt EXCEPT ![e] = clock']
        /\ UNCHANGED <<topics, queue, batch, conn, pc, ctxDone>>
    BY <1>7 DEF BeginCreateEvent, CreateEventBegin
  <2>2. Committed' = Committed /\ \A f \in Committed : createdAt'[f] = createdAt[f]
    BY <1>b, <2>1 DEF Committed, EventStatus
  <2> QED BY <1>f, <2>1, <2>2
<1>8. CASE ReconnectListenFails \/ BackoffElapsed
  <2>1. /\ UNCHANGED <<topics, createdAt, status, queue, batch>>
        /\ pc \in {"relisten", "backoff"}
        /\ conn' # "listening"
    BY <1>8 DEF ReconnectListenFails, ListenFails, BackoffElapsed, OrderInv
  <2>2. batch = <<>> /\ queue = <<>>
    BY <1>t, <2>1 DEF TypeOK, Working, OrderInv
  <2>3. InTurn'
    BY <2>1, <2>2 DEF InTurn
  <2> QED BY <1>c, <2>1, <2>2, <2>3
<1>9. ASSUME NEW e \in Event, WaitNotified(e) PROVE OrderInv'
  <2>1. /\ pc = "wait" /\ queue # <<>> /\ e = Head(queue) /\ queue' = Tail(queue)
        /\ batch' = <<e>> /\ pc' = "get" /\ ctxDone' = ctxDone
        /\ UNCHANGED <<topics, createdAt, status, conn>>
    BY <1>9, ToSetSingle DEF WaitNotified, Take, ProcessAll
  <2>2. batch = <<>> /\ ToSet(batch) = {}
    BY <1>t, <2>1, ToSetEmpty DEF TypeOK, Working
  <2>3. ASSUME ~ctxDone PROVE InTurn'
    <3>1. InTurn /\ InLine' \subseteq InLine
      BY <1>a, <2>1, <2>3 DEF OrderInv, Loop
    <3>2. /\ DOMAIN queue = 1..Len(queue) /\ Len(queue) \in Nat /\ 1 \in DOMAIN queue
          /\ queue[1] = e
          /\ DOMAIN queue' = 1..(Len(queue) - 1)
          /\ \A i \in 1..(Len(queue) - 1) : queue'[i] = queue[i + 1] /\ i + 1 \in DOMAIN queue
      BY <1>b, <2>1, HeadTailProperties, EmptySeq, LenProperties
    <3>3. DOMAIN batch' = {1} /\ batch'[1] = e /\ ToSet(batch') = {e}
      BY <2>1, ToSetSingle
    <3>4. \A g \in InLine : ~(createdAt[g] < createdAt[e])
      BY <2>2, <3>1, <3>2 DEF InTurn
    <3>5. ASSUME NEW i \in DOMAIN queue', NEW g \in InLine',
                 createdAt[g] < createdAt[queue'[i]], g # e
          PROVE  \E j \in DOMAIN queue' : j < i /\ queue'[j] = g
      <4>1. PICK j \in DOMAIN queue : j < i + 1 /\ queue[j] = g
        BY <2>2, <3>1, <3>2, <3>5 DEF InTurn
      <4>2. j - 1 \in DOMAIN queue' /\ j - 1 < i /\ queue'[j - 1] = g
        BY <3>2, <3>5, <4>1
      <4> QED BY <4>2
    <3>6. ToSet(queue) = {e} \cup ToSet(queue')
      BY <1>b, <2>1, ToSetHeadTail
    <3>7. conn = "listening" => InLine' \subseteq ToSet(queue') \cup ToSet(batch')
      BY <2>2, <3>1, <3>3, <3>6 DEF InTurn
    <3>8. \A g \in InLine' : ~(createdAt[g] < createdAt[e])
      BY <3>1, <3>4
    <3> QED BY <2>1, <3>3, <3>5, <3>7, <3>8 DEF InTurn
  <2> QED BY <1>c, <2>1, <2>3
<1>10. CASE PublishSent
  <2>1. /\ pc = "publish" /\ pc' = "ack" /\ ~ctxDone /\ pc \in Loop
        /\ UNCHANGED <<status, createdAt, conn, queue, batch, ctxDone>>
    BY <1>10 DEF PublishSent, MaySucceed, Loop, Working
  <2>2. PICK g \in Event : g = Current /\ Produce(g)
    BY <1>10, <1>t, BatchType DEF PublishSent, Working
  <2>3. /\ batch # <<>> /\ g \in ToSet(batch) /\ g = batch[1] /\ 1 \in DOMAIN batch
        /\ DOMAIN batch \subseteq 1..Len(batch) /\ Len(batch) \in Nat
    BY <1>b, <1>t, <2>1, <2>2, ToSetHeadTail, HeadTailProperties, EmptySeq, LenProperties
       DEF Working, Current, TypeOK
  <2>4. Committed' = Committed /\ g \in Committed
    BY <1>p, <2>1, <2>3 DEF PublishInv, Committed
  <2>5. /\ \A f \in Event : Delivered(f) => Delivered(f)'
        /\ \A f \in Event : Delivered(f)' => f = g \/ Delivered(f)
    BY <1>b, <2>2, ProduceDelivers, ProduceDeliversOnly
  <2>6. InTurn /\ InLine' \subseteq InLine
    BY <1>r, <2>1, <2>4, <2>5, LineShrinks DEF OrderInv
  <2>7. \A e \in InLine : ~(createdAt[e] < createdAt[g])
    BY <2>3, <2>6 DEF InTurn
  <2>8. (Committed \ disturbed)' \subseteq Committed \ disturbed
    BY <1>r, <2>4 DEF Remembers
  <2>9. ASSUME NEW e \in (Committed \ disturbed)', NEW f \in Event,
               createdAt[e] < createdAt[f], Delivered(f)'
        PROVE  Delivered(e)' /\ (TypeOf[e] = TypeOf[f] => DeliveredBefore(e, f)')
    <3>1. e \in Committed \ disturbed /\ e \in Event
      BY <2>8 DEF Committed
    <3>2. Delivered(e)
      <4>1. CASE Delivered(f)
        BY <2>9, <3>1, <4>1 DEF OrderInv
      <4>2. CASE f = g
        BY <2>7, <2>9, <3>1, <4>2 DEF InLine
      <4> QED BY <2>5, <2>9, <4>1, <4>2
    <3>3. ASSUME TypeOf[e] = TypeOf[f] PROVE DeliveredBefore(e, f)'
      <4>1. DeliveredBefore(e, f) \/ (Delivered(e) /\ ~Delivered(f))
        BY <2>9, <3>1, <3>2, <3>3 DEF OrderInv
      <4> QED BY <1>b, <2>2, <3>1, <3>3, <4>1, ProduceKeepsOrder
    <3> QED BY <2>5, <3>1, <3>2, <3>3
  <2>10. InTurn'
    BY <1>p, <2>1, <2>6, InTurnKept
  <2>11. \A e \in Event : Delivered(e)' => e \in Committed'
    BY <2>4, <2>5 DEF OrderInv
  <2>12. InLine' \subseteq Pending'
    BY <2>1, <2>6 DEF OrderInv, Pending
  <2> QED BY <1>p, <2>1, <2>9, <2>10, <2>11, <2>12 DEF OrderInv
<1>11. ASSUME NEW e \in Event, CommitCreateEvent(e), Disturb PROVE OrderInv'
  <2>1. /\ status[e] = "inserting" /\ status' = [status EXCEPT ![e] = "pending"]
        /\ queue' = IF conn = "listening" THEN Append(queue, e) ELSE queue
        /\ UNCHANGED <<createdAt, conn, topics, pc, batch, ctxDone>>
    BY <1>11 DEF CommitCreateEvent, CreateEventCommit, Notify
  <2>2. Committed' = Committed \cup {e} /\ e \notin Committed /\ Pending' = Pending \cup {e}
    BY <1>b, <2>1 DEF Committed, Pending, EventStatus
  <2>3. /\ \A f \in Event : Delivered(f)' = Delivered(f)
        /\ \A f, g \in Event : DeliveredBefore(f, g)' = DeliveredBefore(f, g)
    BY <2>1, CopiesUnchanged DEF DeliveredBefore, TopicForEventType
  <2>4. ~Delivered(e)
    BY <2>2 DEF OrderInv
  <2>5. InLine' \subseteq InLine \cup {e}
    BY <1>r, <2>2, <2>3 DEF Remembers, InLine, Committed
  <2>6. e \notin disturbed' => \A f \in Committed : ~(createdAt[e] < createdAt[f])
    BY <1>11, <2>2, <2>3, <2>4 DEF Disturb, CommittedLate
  <2>7. \A f \in Event : Delivered(f)' => f \in Committed /\ f \in Committed'
    BY <2>2, <2>3 DEF OrderInv
  <2>8. ASSUME NEW f \in (Committed \ disturbed)', NEW g \in Event,
               createdAt[f] < createdAt[g], Delivered(g)'
        PROVE  Delivered(f)' /\ (TypeOf[f] = TypeOf[g] => DeliveredBefore(f, g)')
    <3>1. f # e
      BY <2>6, <2>7, <2>8
    <3>2. f \in Committed \ disturbed /\ f \in Event
      BY <1>r, <2>2, <2>8, <3>1 DEF Remembers, Committed
    <3> QED BY <2>3, <2>8, <3>2 DEF OrderInv
  <2>9. InLine' \subseteq Pending'
    BY <2>2, <2>5 DEF OrderInv
  <2>10. ASSUME pc \in Loop, ~ctxDone PROVE InTurn'
    <3>1. InTurn
      BY <2>10 DEF OrderInv
    <3>2. \A i \in DOMAIN batch : batch[i] \in Committed
      BY <1>p DEF PublishInv, ToSet
    <3>3. \A i \in DOMAIN queue : queue[i] \in Committed
      BY <1>p DEF PublishInv, ToSet
    <3>4. \A i \in DOMAIN batch, g \in InLine' : createdAt[g] < createdAt[batch[i]] =>
            \E j \in DOMAIN batch : j < i /\ batch[j] = g
      BY <2>5, <2>6, <3>1, <3>2 DEF InTurn, InLine
    <3>5. \A i \in DOMAIN queue, g \in InLine' : createdAt[g] < createdAt[queue[i]] =>
            g \in ToSet(batch) \/ \E j \in DOMAIN queue : j < i /\ queue[j] = g
      BY <2>5, <2>6, <3>1, <3>3 DEF InTurn, InLine
    <3>6. CASE conn # "listening"
      BY <2>1, <3>4, <3>5, <3>6 DEF InTurn
    <3>7. CASE conn = "listening"
      <4>1. /\ DOMAIN queue = 1..Len(queue) /\ Len(queue) \in Nat
            /\ DOMAIN queue' = 1..(Len(queue) + 1)
            /\ \A i \in 1..Len(queue) : queue'[i] = queue[i]
            /\ queue'[Len(queue) + 1] = e
            /\ ToSet(queue') = ToSet(queue) \cup {e}
        BY <1>b, <2>1, <3>7, AppendProperties, LenProperties, ToSetAppend
      <4>2. ASSUME NEW i \in DOMAIN queue', NEW g \in InLine',
                   createdAt[g] < createdAt[queue'[i]], g \notin ToSet(batch)
            PROVE  \E j \in DOMAIN queue' : j < i /\ queue'[j] = g
        <5>1. CASE i \in 1..Len(queue)
          <6>1. PICK j \in DOMAIN queue : j < i /\ queue[j] = g
            BY <3>5, <4>1, <4>2, <5>1
          <6> QED BY <4>1, <6>1
        <5>2. CASE i = Len(queue) + 1
          <6>1. g # e
            BY <1>b, <4>1, <4>2, <5>2
          <6>2. g \in ToSet(queue)
            BY <2>5, <3>1, <3>7, <4>2, <6>1 DEF InTurn
          <6>3. PICK j \in DOMAIN queue : queue[j] = g
            BY <6>2 DEF ToSet
          <6> QED BY <4>1, <5>2, <6>3
        <5> QED BY <4>1, <5>1, <5>2
      <4>3. InLine' \subseteq ToSet(queue') \cup ToSet(batch)
        BY <2>5, <3>1, <3>7, <4>1 DEF InTurn
      <4> QED BY <2>1, <3>4, <4>2, <4>3 DEF InTurn
    <3> QED BY <3>6, <3>7
  <2>11. pc \in {"relisten", "backoff"} => conn' # "listening" /\ queue' = <<>>
    BY <2>1 DEF OrderInv
  <2> QED BY <1>p, <2>1, <2>7, <2>8, <2>9, <2>10, <2>11 DEF OrderInv
<1>12. CASE ConnectionDrops
  <2>1. /\ UNCHANGED <<topics, createdAt, status, pc, batch, ctxDone>>
        /\ conn' # "listening"
    BY <1>12 DEF ConnectionDrops, Drop
  <2>2. PICK n \in 0..Len(queue) : queue' = SubSeq(queue, 1, n)
    BY <1>12 DEF ConnectionDrops, Drop
  <2>3. /\ DOMAIN queue' = 1..n /\ DOMAIN queue = 1..Len(queue) /\ Len(queue) \in Nat
        /\ n \in Nat /\ n <= Len(queue)
        /\ \A i \in 1..n : queue'[i] = queue[i]
    BY <1>b, <2>2, SubSeqProperties, LenProperties
  <2>4. ASSUME InTurn PROVE InTurn'
    <3>1. InLine' \subseteq InLine
      BY <1>a, <2>1
    <3>2. ASSUME NEW i \in DOMAIN queue', NEW g \in InLine',
                 createdAt[g] < createdAt[queue'[i]], g \notin ToSet(batch)
          PROVE  \E j \in DOMAIN queue' : j < i /\ queue'[j] = g
      <4>1. PICK j \in DOMAIN queue : j < i /\ queue[j] = g
        BY <2>3, <2>4, <3>1, <3>2 DEF InTurn
      <4> QED BY <2>3, <4>1
    <3> QED BY <2>1, <2>4, <3>1, <3>2 DEF InTurn
  <2>5. queue = <<>> => queue' = <<>>
    <3>1. queue' \in Seq(Event)
      BY <1>b, <2>2, PrefixIsSeq
    <3> QED BY <2>3, <3>1, EmptySeq
  <2> QED BY <1>c, <2>1, <2>4, <2>5 DEF OrderInv
<1>13. CASE OrderNext
  BY <1>1, <1>2, <1>3, <1>4, <1>5, <1>6, <1>7, <1>8, <1>9, <1>10, <1>11, <1>12, <1>13
     DEF OrderNext, Next, RunStep, RPC, Process
<1>14. CASE UNCHANGED orderVars
  BY <1>5, <1>14 DEF orderVars
<1> QED BY <1>13, <1>14

LEMMA OrderStart == OrderInit => OrderInv
<1> SUFFICES ASSUME OrderInit PROVE OrderInv
  OBVIOUS
<1>1. PublishInv
  BY PublishInit DEF OrderInit
<1>2. /\ pc = "down" /\ topics = [t \in EventType |-> <<>>]
      /\ status = [e \in Event |-> "absent"]
  BY DEF OrderInit, Init, TopicsInit, TableInit
<1>3. Committed = {} /\ \A e \in Event : ~Delivered(e)
  BY <1>2, EventsAssumption, ToSetEmpty
     DEF Committed, EventStatus, Delivered, TopicForEventType
<1> QED BY <1>1, <1>2, <1>3 DEF OrderInv, InLine, Loop, Working

(* Whatever fails, whatever clients do and however inserts overlap: no     *)
(* record of a younger event comes before the first record of an event     *)
(* that the poller did not give up on, no scan left out, nobody relabelled *)
(* and whose insert was not late; no fault but these disturbs the order.   *)
THEOREM TopicsInOrder == OrderSpec => []FifoPerTopic
<1>1. OrderInv => FifoPerTopic
  BY DEF OrderInv, FifoPerTopic, Committed
<1> QED BY <1>1, OrderStart, OrderStep, PTL DEF OrderSpec

=============================================================================
