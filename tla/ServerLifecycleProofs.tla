----------------------- MODULE ServerLifecycleProofs -----------------------
(***************************************************************************)
(* Safety of the shutdown, for any client calls, whatever hangs.           *)
(***************************************************************************)
EXTENDS ServerLifecycle, TLAPS

-----------------------------------------------------------------------------
LEMMA InitType == Init => TypeOK
<1> SUFFICES ASSUME Init PROVE TypeOK
  OBVIOUS
<1>1. ctxDone \in BOOLEAN
  BY Zenon DEF Init
<1>2. at \in [Stoppers -> {"serving", "idle"}] /\ \A s \in Stoppers : at[s] # "closing"
  BY DEF Init, Stoppers
<1>3. rpc \in [RPCs -> {"idle"}] /\ closed = {}
  BY DEF Init
<1> QED
  BY <1>1, <1>2, <1>3 DEF Init, TypeOK, Stoppers, Gone, Dead, Stopping

LEMMA StopperType ==
  ASSUME TypeOK, NEW s \in Stoppers, StopperStep(s)
  PROVE  TypeOK'
<1> USE DEF Moves, Lock, shared, resources, Stoppers, Gone, Dead, Stopping, TypeOK
<1>1. CASE CancelOutbox(s)
  BY <1>1 DEF CancelOutbox
<1>2. CASE StopPoller(s)
  BY <1>2 DEF StopPoller
<1>3. CASE PollerStopped(s)
  BY <1>3 DEF PollerStopped
<1>4. CASE LockListener(s)
  BY <1>4 DEF LockListener
<1>5. CASE CloseListener(s)
  BY <1>5 DEF CloseListener
<1> QED
  BY <1>1, <1>2, <1>3, <1>4, <1>5 DEF StopperStep

LEMMA NextType == TypeOK /\ [Next]_vars => TypeOK'
<1> SUFFICES ASSUME TypeOK, [Next]_vars PROVE TypeOK'
  OBVIOUS
<1> USE DEF Moves, RunGoes, Lock, shared, resources, Stoppers, Gone, Dead,
            Stopping, TypeOK
<1>1. CASE Signal
  BY <1>1 DEF Signal
<1>2. CASE MainStep
  <2>1. CASE SelectDone
    BY <2>1 DEF SelectDone
  <2>2. CASE SelectTimeout
    BY <2>2 DEF SelectTimeout
  <2>3. CASE StopperStep("main")
    BY <2>3, StopperType
  <2>4. CASE StopGRPC
    BY <2>4 DEF StopGRPC, CutCalls
  <2>5. CASE ClosePublisher
    BY <2>5 DEF ClosePublisher
  <2>6. CASE ClosePool
    BY <2>6 DEF ClosePool
  <2>7. CASE Exit
    BY <2>7 DEF Exit
  <2> QED
    BY <1>2, <2>1, <2>2, <2>3, <2>4, <2>5, <2>6, <2>7 DEF MainStep
<1>3. CASE GracefulStep
  <2>1. CASE StopperStep("graceful")
    BY <2>1, StopperType
  <2>2. CASE DrainGRPC
    BY <2>2 DEF DrainGRPC
  <2>3. CASE Drained
    BY <2>3 DEF Drained
  <2> QED
    BY <1>3, <2>1, <2>2, <2>3 DEF GracefulStep
<1>4. CASE RunStep \/ RunDisturbed
  <2>1. CASE RunLocksToClose \/ RunCloses
    BY <2>1 DEF RunLocksToClose, RunCloses
  <2>2. CASE RunLocksToReconnect \/ RunDropsConnection \/ RunReconnects
               \/ RunReconnectFails
    BY <2>2 DEF RunLocksToReconnect, RunDropsConnection, RunReconnects,
                RunReconnectFails
  <2>3. CASE RunPanics
    BY <2>3 DEF RunPanics
  <2>4. CASE RunWorked \/ RunWaits \/ RunStops
    BY <2>4 DEF RunWorked, RunWaits, RunStops
  <2>5. CASE RunWaitCancelled
    BY <2>5 DEF RunWaitCancelled
  <2>6. CASE RunWaitFails
    BY <2>6 DEF RunWaitFails
  <2>7. CASE RunNotified
    BY <2>7 DEF RunNotified
  <2>8. CASE RunBackoffElapsed \/ RunBackoffStopped
    BY <2>8 DEF RunBackoffElapsed, RunBackoffStopped
  <2> QED
    BY <1>4, <2>1, <2>2, <2>3, <2>4, <2>5, <2>6, <2>7, <2>8 DEF RunStep, RunDisturbed
<1>5. ASSUME NEW r \in RPCs, RPCArrives(r) \/ RPCStep(r)
      PROVE  TypeOK'
  <2>1. CASE RPCArrives(r)
    BY <2>1 DEF RPCArrives
  <2>2. CASE RPCQueries(r)
    BY <2>2 DEF RPCQueries
  <2>3. CASE RPCReturns(r)
    BY <2>3 DEF RPCReturns
  <2>4. CASE RPCUnwinds(r)
    BY <2>4 DEF RPCUnwinds
  <2> QED
    BY <1>5, <2>1, <2>2, <2>3, <2>4 DEF RPCStep
<1>6. CASE UNCHANGED vars
  BY <1>6 DEF vars
<1> QED
  BY <1>1, <1>2, <1>3, <1>4, <1>5, <1>6 DEF Next

(* Every variable keeps its type; the mutex of the LISTEN connection is    *)
(* held exactly by the goroutine inside Close or Reconnect.                *)
THEOREM LifecycleType == Spec => []TypeOK
<1>1. Init => TypeOK
  BY InitType
<1>2. TypeOK /\ [Next]_vars => TypeOK'
  BY NextType
<1> QED
  BY <1>1, <1>2, PTL DEF Spec

-----------------------------------------------------------------------------
(* PollerGoneFirst is not inductive: it says nothing of how a stopper got  *)
(* as far as closing.  PollerInv follows both of them from their wait on.  *)

Waited == {"grpc", "drained", "close", "closing", "done",
           "publisher", "pool", "released"}

PollerInv ==
  /\ \A s \in Stoppers : at[s] \in Waited => run \in Gone
  /\ closed # {} => at["main"] \in {"pool", "released"} \cup Dead

(* The run goroutine does not come back, and the stoppers do not go back.  *)
LEMMA RunKeepsPollerInv ==
  ASSUME PollerInv, RunStep \/ RunDisturbed
  PROVE  PollerInv'
<1> USE DEF PollerInv, RunGoes, Gone, Dead, Waited, shared, resources, Stoppers
<1>1. CASE RunPanics
  BY <1>1 DEF RunPanics
<1>2. CASE ~RunPanics
  <2>1. run \notin Gone /\ at' = at /\ closed' = closed
    BY <1>2 DEF RunStep, RunDisturbed, RunWorked, RunWaits, RunStops,
                RunLocksToClose, RunCloses, RunNotified, RunWaitCancelled,
                RunWaitFails, RunLocksToReconnect, RunDropsConnection,
                RunReconnects, RunReconnectFails, RunBackoffElapsed,
                RunBackoffStopped
  <2> QED
    BY <2>1
<1> QED
  BY <1>1, <1>2

LEMMA StopperKeepsPollerInv ==
  ASSUME TypeOK, PollerInv, NEW s \in Stoppers, StopperStep(s)
  PROVE  PollerInv'
<1> USE DEF PollerInv, Moves, Lock, Gone, Dead, Waited, shared, resources,
            Stoppers, TypeOK
<1>1. CASE CancelOutbox(s)
  BY <1>1 DEF CancelOutbox
<1>2. CASE StopPoller(s)
  BY <1>2 DEF StopPoller
<1>3. CASE PollerStopped(s)
  BY <1>3 DEF PollerStopped
<1>4. CASE LockListener(s)
  BY <1>4 DEF LockListener
<1>5. CASE CloseListener(s)
  BY <1>5 DEF CloseListener
<1> QED
  BY <1>1, <1>2, <1>3, <1>4, <1>5 DEF StopperStep

LEMMA NextPollerInv == TypeOK /\ PollerInv /\ [Next]_vars => PollerInv'
<1> SUFFICES ASSUME TypeOK, PollerInv, [Next]_vars PROVE PollerInv'
  OBVIOUS
<1> USE DEF PollerInv, Moves, Gone, Dead, Waited, shared, resources, Stoppers,
            TypeOK
<1>1. CASE Signal
  BY <1>1 DEF Signal
<1>2. CASE MainStep
  <2>1. CASE SelectDone
    BY <2>1 DEF SelectDone
  <2>2. CASE SelectTimeout
    BY <2>2 DEF SelectTimeout
  <2>3. CASE StopperStep("main")
    BY <2>3, StopperKeepsPollerInv
  <2>4. CASE StopGRPC
    BY <2>4 DEF StopGRPC
  <2>5. CASE ClosePublisher
    BY <2>5 DEF ClosePublisher
  <2>6. CASE ClosePool
    BY <2>6 DEF ClosePool
  <2>7. CASE Exit
    BY <2>7 DEF Exit
  <2> QED
    BY <1>2, <2>1, <2>2, <2>3, <2>4, <2>5, <2>6, <2>7 DEF MainStep
<1>3. CASE GracefulStep
  <2>1. CASE StopperStep("graceful")
    BY <2>1, StopperKeepsPollerInv
  <2>2. CASE DrainGRPC
    BY <2>2 DEF DrainGRPC
  <2>3. CASE Drained
    BY <2>3 DEF Drained
  <2> QED
    BY <1>3, <2>1, <2>2, <2>3 DEF GracefulStep
<1>4. CASE RunStep \/ RunDisturbed
  BY <1>4, RunKeepsPollerInv
<1>5. ASSUME NEW r \in RPCs, RPCArrives(r) \/ RPCStep(r)
      PROVE  PollerInv'
  BY <1>5 DEF RPCArrives, RPCStep, RPCQueries, RPCReturns, RPCUnwinds
<1>6. CASE UNCHANGED vars
  BY <1>6 DEF vars
<1> QED
  BY <1>1, <1>2, <1>3, <1>4, <1>5, <1>6 DEF Next

(* Neither shutdown path closes what the poller still uses.                *)
THEOREM PollerOutlived == Spec => []PollerGoneFirst
<1>1. Init => PollerInv
  BY DEF Init, PollerInv, Waited, Stoppers
<1>2. TypeOK /\ PollerInv /\ [Next]_vars => PollerInv'
  BY NextPollerInv
<1>3. PollerInv => PollerGoneFirst
  BY DEF PollerInv, PollerGoneFirst, Waited, Gone, Dead, Alive, Stoppers
<1> QED
  BY <1>1, <1>2, <1>3, LifecycleType, PTL DEF Spec

-----------------------------------------------------------------------------
(* GracefulCutsNothing holds at the exit because nothing is in flight when *)
(* the graceful goroutine is done, and no call arrives after the drain.    *)

GracefulInv ==
  ~timedOut =>
     /\ at["main"] \in {"serving", "select", "publisher", "pool", "released"}
                         \cup Dead
     /\ \A r \in RPCs : rpc[r] \notin {"cut", "failed"}
     /\ at["graceful"] \in {"drained", "close", "closing", "done"} =>
          grpc # "serving"
     /\ at["graceful"] \in {"close", "closing", "done"} =>
          \A r \in RPCs : rpc[r] \in {"idle", "answered"}
     /\ at["main"] \in {"publisher", "pool", "released", "exited"} =>
          at["graceful"] = "done"

LEMMA StopperKeepsGracefulInv ==
  ASSUME TypeOK, GracefulInv, NEW s \in Stoppers, StopperStep(s)
  PROVE  GracefulInv'
<1> USE DEF GracefulInv, Moves, Dead, shared, resources, Stoppers, TypeOK
<1>1. CASE CancelOutbox(s)
  BY <1>1 DEF CancelOutbox
<1>2. CASE StopPoller(s)
  BY <1>2 DEF StopPoller
<1>3. CASE PollerStopped(s)
  BY <1>3 DEF PollerStopped
<1>4. CASE LockListener(s)
  BY <1>4 DEF LockListener
<1>5. CASE CloseListener(s)
  BY <1>5 DEF CloseListener
<1> QED
  BY <1>1, <1>2, <1>3, <1>4, <1>5 DEF StopperStep

LEMMA RPCKeepsGracefulInv ==
  ASSUME TypeOK, GracefulInv, NEW r \in RPCs, RPCArrives(r) \/ RPCStep(r)
  PROVE  GracefulInv'
<1> USE DEF GracefulInv, shared, TypeOK
<1>1. CASE RPCArrives(r)
  BY <1>1 DEF RPCArrives
<1>2. CASE RPCQueries(r)
  BY <1>2 DEF RPCQueries
<1>3. CASE RPCReturns(r)
  BY <1>3 DEF RPCReturns
<1>4. CASE RPCUnwinds(r)
  BY <1>4 DEF RPCUnwinds
<1> QED
  BY <1>1, <1>2, <1>3, <1>4 DEF RPCStep

LEMMA NextGracefulInv == TypeOK /\ GracefulInv /\ [Next]_vars => GracefulInv'
<1> SUFFICES ASSUME TypeOK, GracefulInv, [Next]_vars PROVE GracefulInv'
  OBVIOUS
<1> USE DEF GracefulInv, Moves, Dead, shared, resources, Stoppers, TypeOK
<1>1. CASE Signal
  BY <1>1 DEF Signal
<1>2. CASE MainStep
  <2>1. CASE SelectDone
    BY <2>1 DEF SelectDone
  <2>2. CASE SelectTimeout
    BY <2>2 DEF SelectTimeout
  <2>3. CASE StopperStep("main")
    BY <2>3, StopperKeepsGracefulInv
  <2>4. CASE StopGRPC
    BY <2>4 DEF StopGRPC
  <2>5. CASE ClosePublisher
    BY <2>5 DEF ClosePublisher
  <2>6. CASE ClosePool
    BY <2>6 DEF ClosePool
  <2>7. CASE Exit
    BY <2>7 DEF Exit
  <2> QED
    BY <1>2, <2>1, <2>2, <2>3, <2>4, <2>5, <2>6, <2>7 DEF MainStep
<1>3. CASE GracefulStep
  <2>1. CASE StopperStep("graceful")
    BY <2>1, StopperKeepsGracefulInv
  <2>2. CASE DrainGRPC
    BY <2>2 DEF DrainGRPC
  <2>3. CASE Drained
    BY <2>3 DEF Drained
  <2> QED
    BY <1>3, <2>1, <2>2, <2>3 DEF GracefulStep
<1>4. CASE RunStep \/ RunDisturbed
  <2>1. CASE RunPanics
    BY <2>1 DEF RunPanics
  <2>2. CASE ~RunPanics
    <3>1. at' = at /\ UNCHANGED resources
      BY <1>4, <2>2 DEF RunStep, RunDisturbed, RunWorked, RunWaits, RunStops,
                RunLocksToClose, RunCloses, RunNotified, RunWaitCancelled,
                RunWaitFails, RunLocksToReconnect, RunDropsConnection,
                RunReconnects, RunReconnectFails, RunBackoffElapsed,
                RunBackoffStopped
    <3> QED
      BY <3>1
  <2> QED
    BY <2>1, <2>2
<1>5. ASSUME NEW r \in RPCs, RPCArrives(r) \/ RPCStep(r)
      PROVE  GracefulInv'
  BY <1>5, RPCKeepsGracefulInv
<1>6. CASE UNCHANGED vars
  BY <1>6 DEF vars
<1> QED
  BY <1>1, <1>2, <1>3, <1>4, <1>5, <1>6 DEF Next

(* Without the timer, every client call accepted is answered.              *)
THEOREM GracefulDrains == Spec => []GracefulCutsNothing
<1>1. Init => GracefulInv
  BY DEF Init, GracefulInv, Stoppers
<1>2. TypeOK /\ GracefulInv /\ [Next]_vars => GracefulInv'
  BY NextGracefulInv
<1>3. GracefulInv => GracefulCutsNothing
  BY DEF GracefulInv, GracefulCutsNothing
<1> QED
  BY <1>1, <1>2, <1>3, LifecycleType, PTL DEF Spec

=============================================================================
